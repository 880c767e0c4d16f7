------------------------------ MODULE MCRestore -----------------------------
(* Ranges of two units, objects of up to five (three ranges, the last full  *)
(* or not), two retries and one replacement of the object.                  *)
EXTENDS Restore
============================================================================
