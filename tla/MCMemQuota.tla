----------------------------- MODULE MCMemQuota -----------------------------
(* Three workers at once, with requests of up to the whole quota of three   *)
(* units, one after the other without end.                                  *)
EXTENDS MemQuota

CONSTANTS t1, t2, t3

MCThreads == {t1, t2, t3}
MCSizes == 0 .. 3
============================================================================
