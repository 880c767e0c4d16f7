------------------------- MODULE MCMultipartUpload --------------------------
(* Parts of two units: files of one, two and three parts, the last one full *)
(* or not, and two retries of each request.                                 *)
EXTENDS MultipartUpload

MCSizes == 1 .. 6
\* One or two unsent units of the commit's four read as a retryable status,
\* so that it can go out in three pieces; three or four do not.
MCRetryableLengths == {1, 2}
============================================================================
