---------------------------- MODULE MCLifecycle -----------------------------
(* One worker, a ring for one line.                                         *)
EXTENDS Lifecycle

CONSTANTS w1, main, logger
MCTargets == Workers \cup {Main, Logger}
=============================================================================
