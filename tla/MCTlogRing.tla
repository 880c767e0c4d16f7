----------------------------- MODULE MCTlogRing -----------------------------
(* Two threads log lines of one or two bytes; the longest line is one of    *)
(* three and the ring has room for two of these, the least tlog_init takes, *)
(* so that it wraps and is full at different places.                        *)
EXTENDS TlogRing

MCLineSizes == {1, 2}
============================================================================
