---------------------------- MODULE MCDispatcher ----------------------------
(* Two slots, three thread identities, so that the limit can be exceeded,   *)
(* lists of up to two items, and two signals, on the same thread or on two. *)
(* The workers are alike: two signals reach no worker but w1 and w2, up to  *)
(* a renaming.                                                              *)
EXTENDS Dispatcher

CONSTANTS main, logger, w1, w2, w3

MCWorkers == {w1, w2, w3}
AnyThread == {w1, w2, main, logger}
============================================================================
