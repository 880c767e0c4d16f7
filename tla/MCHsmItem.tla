------------------------------ MODULE MCHsmItem -----------------------------
(* One item of each kind, under every option, with max_retry of the code.   *)
EXTENDS HsmItem
============================================================================
