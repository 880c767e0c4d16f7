---------------------------- MODULE MCTlogRotate ----------------------------
(* Two copytools share the log; every line fills the file, one archive is   *)
(* kept and two lines fall into a second.                                   *)
EXTENDS TlogRotate, TLC

CONSTANTS p1, p2

MCWrites == (p1 :> 2) @@ (p2 :> 2)
=============================================================================
