----------------------------- MODULE MCSmallPut -----------------------------
(* Files of up to four units and the five retries of the code.              *)
EXTENDS SmallPut
============================================================================
