----------------------------- MODULE ChunkSize ------------------------------
(***************************************************************************)
(* ct_get_chunksize (lhsmtool_s3.c): the part size of a multipart upload   *)
(* starts at CHUNK_SIZE and is doubled, up to CHUNK_SIZE_MAX, until the    *)
(* object has no more than MAX_PARTS parts.  The caller keeps the length   *)
(* of a part in an int (partContentLength) and has rejected files above    *)
(* MAX_SIZE.  Sizes are in any unit that divides CHUNK_SIZE.               *)
(***************************************************************************)
EXTENDS Integers

CONSTANTS CHUNK_SIZE, CHUNK_SIZE_MAX,
          MAX_PARTS,   \* 10000
          MAX_SIZE,    \* 5 TiB, the check of ct_archive
          INT_LIMIT,   \* the first value an int cannot hold
          Sizes        \* the sizes of the files that are uploaded

ASSUME ChunkAssumption ==
    CHUNK_SIZE \in Nat \ {0} /\ CHUNK_SIZE_MAX \in Nat /\ CHUNK_SIZE <= CHUNK_SIZE_MAX
ASSUME PartsAssumption == MAX_PARTS \in Nat \ {0} /\ INT_LIMIT \in Nat
ASSUME SizesAssumption == MAX_SIZE \in Nat /\ Sizes \subseteq 1 .. MAX_SIZE
\* The limits of the code: 2 * 5 TiB <= 10000 * 2^31, 16 MiB < 2^31, and the
\* largest part size is enough for the largest file.
ASSUME LimitsAssumption ==
    /\ 2 * MAX_SIZE <= MAX_PARTS * INT_LIMIT
    /\ CHUNK_SIZE < INT_LIMIT
    /\ MAX_SIZE <= MAX_PARTS * CHUNK_SIZE_MAX

VARIABLES s3_obj_size, chunk_size, total_seq, pc

vars == <<s3_obj_size, chunk_size, total_seq, pc>>

Parts(size, chunk) == (size + chunk - 1) \div chunk

TypeOK ==
    /\ s3_obj_size \in Sizes
    /\ chunk_size \in CHUNK_SIZE .. CHUNK_SIZE_MAX
    /\ total_seq \in Nat
    /\ pc \in {"loop", "done"}

Init ==
    /\ s3_obj_size \in Sizes
    /\ chunk_size = CHUNK_SIZE
    /\ total_seq = Parts(s3_obj_size, CHUNK_SIZE)
    /\ pc = "loop"

\* The two ifs: doubled while below the maximum, then clamped to it.
Larger(chunk) ==
    LET doubled == IF chunk < CHUNK_SIZE_MAX THEN 2 * chunk ELSE chunk
    IN  IF doubled > CHUNK_SIZE_MAX THEN CHUNK_SIZE_MAX ELSE doubled

\* Mutant: the loop goes on one round after the parts fit.
GrowOnceMore ==
    /\ pc = "loop" /\ 2 * total_seq > MAX_PARTS
    /\ chunk_size' = Larger(chunk_size)
    /\ total_seq' = Parts(s3_obj_size, chunk_size')
    /\ UNCHANGED <<s3_obj_size, pc>>

\* Mutant: the number of parts is not counted again.
GrowNoRecount ==
    /\ pc = "loop" /\ total_seq > MAX_PARTS
    /\ chunk_size' = Larger(chunk_size)
    /\ UNCHANGED <<s3_obj_size, total_seq, pc>>

Grow ==
    /\ pc = "loop" /\ total_seq > MAX_PARTS
    /\ chunk_size' = Larger(chunk_size)
    /\ total_seq' = Parts(s3_obj_size, chunk_size')
    /\ UNCHANGED <<s3_obj_size, pc>>

\* Mutant: the limit on the number of parts is off by one.
FinishLate ==
    /\ pc = "loop" /\ total_seq <= MAX_PARTS + 1
    /\ pc' = "done"
    /\ UNCHANGED <<s3_obj_size, chunk_size, total_seq>>

Finish ==
    /\ pc = "loop" /\ total_seq <= MAX_PARTS
    /\ pc' = "done"
    /\ UNCHANGED <<s3_obj_size, chunk_size, total_seq>>

Next == Grow \/ Finish \/ (pc = "done" /\ UNCHANGED vars)

Spec == Init /\ [][Next]_vars /\ WF_vars(Next)

----------------------------------------------------------------------------

\* The part size that is used fits the int it is copied to
\* (partContentLength, lhsmtool_s3.c:720), although CHUNK_SIZE_MAX does not.
PartFitsInt == chunk_size < INT_LIMIT

\* The parts cover the file, none of them is empty, and the store accepts
\* their number.
PartsCoverFile ==
    pc = "done" =>
        /\ total_seq * chunk_size >= s3_obj_size
        /\ (total_seq - 1) * chunk_size < s3_obj_size
        /\ total_seq \in 1 .. MAX_PARTS

\* The loop ends: it never sits at CHUNK_SIZE_MAX with too many parts.
ChunkSizeFound == <>(pc = "done")

============================================================================
