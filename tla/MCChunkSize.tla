---------------------------- MODULE MCChunkSize -----------------------------
(* The constants of the code, in units of CHUNK_SIZE (16 MiB): every file   *)
(* size from the multipart threshold (256 MiB) to the 5 TiB limit.  A size  *)
(* that is not a multiple of 16 MiB needs as many parts as the next one.    *)
EXTENDS ChunkSize

MCSizes == 16 .. 327680
============================================================================
