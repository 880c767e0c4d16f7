----------------------------- MODULE ItemProofs -----------------------------
(***************************************************************************)
(* Theorems about what one item runs through outside the loops over parts  *)
(* and ranges (those are in MultipartProofs and RestoreProofs):            *)
(*                                                                         *)
(*  - ct_get_chunksize, for every file size and every choice of the limits *)
(*    that satisfies the assumptions of ChunkSize;                         *)
(*  - ct_archive_data, for every file size and every number of retries;    *)
(*  - ct_process_item with ct_archive, ct_restore and ct_action_done, for  *)
(*    all options and every number of retries.                             *)
(*                                                                         *)
(* The three have states of their own and share no variable.               *)
(***************************************************************************)
EXTENDS ChunkSize, SmallPut, HsmItem, TLAPS

----------------------------------------------------------------------------
(* ct_get_chunksize                                                         *)
(*                                                                         *)
(* The part size is an int although CHUNK_SIZE_MAX does not fit one; what  *)
(* keeps it small is how it grew: it was last doubled because the parts    *)
(* were too many, so half of it still needs more than MAX_PARTS parts.     *)


\* A common factor may be cancelled.
LEMMA ProductBelow ==
    ASSUME NEW a \in Nat, NEW b \in Int, NEW c \in Int, a * b < a * c
    PROVE  b < c
<1>1. CASE b < c
  BY <1>1
<1>2. CASE b >= c
  <2>1. a * (b - c) >= 0
    BY <1>2, SMT
  <2>2. a * (b - c) = a * b - a * c
    BY SMT
  <2>3. QED
    BY <2>1, <2>2
<1>3. QED
  BY <1>1, <1>2

\* A factor is monotonic.
LEMMA ProductAtMost ==
    ASSUME NEW a \in Nat, NEW b \in Int, NEW c \in Int, b <= c
    PROVE  a * b <= a * c
<1>1. a * (c - b) >= 0
  BY SMT
<1>2. a * (c - b) = a * c - a * b
  BY SMT
<1>3. QED
  BY <1>1, <1>2

\* Twice a bound bounds the product with up to twice the factor.
LEMMA ProductDoubled ==
    ASSUME NEW m \in Nat, NEW c \in Nat, NEW d \in Nat, NEW s \in Nat,
           d <= 2 * c, m * c < s
    PROVE  m * d < 2 * s
<1>1. m * d <= m * (2 * c)
  BY ProductAtMost
<1>2. m * (2 * c) = 2 * (m * c)
  BY SMT
<1>3. m * c \in Nat /\ m * d \in Nat
  BY SMT
<1>4. QED
  BY <1>1, <1>2, <1>3

\* The number of parts is the quotient of size and part size, rounded up.
LEMMA PartsRoundsUp ==
    ASSUME NEW s \in Nat \ {0}, NEW c \in Nat \ {0}
    PROVE  /\ Parts(s, c) \in Nat \ {0}
           /\ Parts(s, c) * c >= s
           /\ (Parts(s, c) - 1) * c < s
<1> DEFINE n == s + c - 1
           q == n \div c
<1>1. n \in Nat /\ n >= c
  OBVIOUS
<1>2. q \in Int /\ q * c <= n /\ n < q * c + c
  BY <1>1, SMT
<1>3. q >= 1
  BY <1>1, <1>2, SMT
<1>4. (q - 1) * c = q * c - c
  BY <1>2, SMT
<1>5. Parts(s, c) = q
  BY DEF Parts
<1> HIDE DEF q
<1>6. QED
  BY <1>2, <1>3, <1>4, <1>5

\* Too many parts: even MAX_PARTS of them do not hold the file.
LEMMA TooManyParts ==
    ASSUME NEW s \in Nat \ {0}, NEW c \in Nat \ {0}, Parts(s, c) > MAX_PARTS
    PROVE  MAX_PARTS * c < s
<1>1. Parts(s, c) \in Nat \ {0} /\ (Parts(s, c) - 1) * c < s
  BY PartsRoundsUp
<1>2. MAX_PARTS \in Nat
  BY PartsAssumption
<1>3. c * MAX_PARTS <= c * (Parts(s, c) - 1)
  BY <1>1, <1>2, ProductAtMost
<1>4. QED
  BY <1>1, <1>2, <1>3, SMT

\* The part size grows, by a factor of two at most, and stays in its bounds.
LEMMA LargerBounds ==
    ASSUME NEW c \in CHUNK_SIZE .. CHUNK_SIZE_MAX
    PROVE  Larger(c) \in CHUNK_SIZE .. CHUNK_SIZE_MAX /\ Larger(c) <= 2 * c
BY ChunkAssumption DEF Larger

----------------------------------------------------------------------------

\* The inductive invariant: the count is that of the part size, the loop ends
\* with few enough parts, and a part size that was doubled is less than twice
\* what MAX_PARTS parts need.
Counted == total_seq = Parts(s3_obj_size, chunk_size)
Enough == pc = "done" => total_seq <= MAX_PARTS
Needed == chunk_size # CHUNK_SIZE => MAX_PARTS * chunk_size < 2 * s3_obj_size

IInv == TypeOK /\ Counted /\ Enough /\ Needed

\* No file that is uploaded is empty.
LEMMA SizesArePositive == Sizes \subseteq Nat \ {0}
BY SizesAssumption

\* The invariant holds before the first round.
LEMMA InitIInv == Init => IInv
<1> SUFFICES ASSUME Init PROVE IInv
  OBVIOUS
<1>1. s3_obj_size \in Nat \ {0} /\ CHUNK_SIZE \in Nat \ {0}
  BY SizesArePositive, ChunkAssumption DEF Init
<1>2. Parts(s3_obj_size, CHUNK_SIZE) \in Nat
  BY <1>1, PartsRoundsUp
<1>3. QED
  BY <1>2, ChunkAssumption DEF Init, IInv, TypeOK, Counted, Enough, Needed

\* A round of the loop preserves it: the size is doubled only when the file
\* does not fit MAX_PARTS parts of the present size.
LEMMA GrowIInv == IInv /\ Grow => IInv'
<1> SUFFICES ASSUME IInv, Grow PROVE IInv'
  OBVIOUS
<1>1. s3_obj_size \in Nat \ {0} /\ s3_obj_size' = s3_obj_size
  BY SizesArePositive DEF IInv, TypeOK, Grow
<1>2. /\ chunk_size \in CHUNK_SIZE .. CHUNK_SIZE_MAX
      /\ chunk_size' \in CHUNK_SIZE .. CHUNK_SIZE_MAX
      /\ chunk_size' <= 2 * chunk_size
  BY LargerBounds DEF IInv, TypeOK, Grow
<1>3. chunk_size \in Nat \ {0} /\ chunk_size' \in Nat \ {0} /\ MAX_PARTS \in Nat
  BY <1>2, ChunkAssumption, PartsAssumption
<1>4. total_seq' = Parts(s3_obj_size, chunk_size')
  BY DEF Grow
<1>5. TypeOK'
  BY <1>1, <1>2, <1>3, <1>4, PartsRoundsUp DEF IInv, TypeOK, Grow
<1>6. Counted'
  BY <1>1, <1>4 DEF Counted
<1>7. Enough'
  BY DEF Grow, Enough
<1>8. MAX_PARTS * chunk_size < s3_obj_size
  BY <1>1, <1>3, TooManyParts DEF IInv, Counted, Grow
<1>9. MAX_PARTS * chunk_size' < 2 * s3_obj_size
  BY <1>1, <1>2, <1>3, <1>8, ProductDoubled
<1>10. Needed'
  BY <1>1, <1>9 DEF Needed
<1>11. QED
  BY <1>5, <1>6, <1>7, <1>10 DEF IInv

\* Every step preserves it.
LEMMA NextIInv == IInv /\ [Next]_vars => IInv'
<1> SUFFICES ASSUME IInv, [Next]_vars PROVE IInv'
  OBVIOUS
<1>1. CASE Grow
  BY <1>1, GrowIInv
<1>2. CASE Finish
  BY <1>2 DEF Finish, IInv, TypeOK, Counted, Enough, Needed
<1>3. CASE UNCHANGED vars
  BY <1>3 DEF vars, IInv, TypeOK, Counted, Enough, Needed
<1>4. QED
  BY <1>1, <1>2, <1>3 DEF Next

\* The invariant holds throughout ct_get_chunksize.
LEMMA IInvHolds == Spec => []IInv
BY InitIInv, NextIInv, PTL DEF Spec

\* ct_get_chunksize keeps the part size between its bounds.
THEOREM TypeCorrect == Spec => []TypeOK
<1>1. IInv => TypeOK
  BY DEF IInv
<1>2. QED
  BY <1>1, IInvHolds, PTL

\* The part size never reaches what an int cannot hold, for every file up to
\* MAX_SIZE: ct_archive_data_big may keep it in partContentLength.
THEOREM PartSizeFitsInt == Spec => []PartFitsInt
<1>1. IInv => PartFitsInt
  <2> SUFFICES ASSUME IInv PROVE chunk_size < INT_LIMIT
    BY DEF PartFitsInt
  <2>1. CASE chunk_size = CHUNK_SIZE
    BY <2>1, LimitsAssumption
  <2>2. CASE chunk_size # CHUNK_SIZE
    <3>1. s3_obj_size \in 1 .. MAX_SIZE /\ chunk_size \in Nat
      BY SizesAssumption, ChunkAssumption DEF IInv, TypeOK
    <3>2. MAX_PARTS * chunk_size < 2 * s3_obj_size
      BY <2>2 DEF IInv, Needed
    <3>3. MAX_PARTS * chunk_size \in Nat /\ MAX_PARTS * INT_LIMIT \in Nat
      BY <3>1, PartsAssumption, SMT
    <3>4. MAX_PARTS * chunk_size < MAX_PARTS * INT_LIMIT
      BY <3>1, <3>2, <3>3, LimitsAssumption, SizesAssumption
    <3>5. QED
      BY <3>1, <3>4, ProductBelow, PartsAssumption
  <2>3. QED
    BY <2>1, <2>2
<1>2. QED
  BY <1>1, IInvHolds, PTL

\* When the loop ends, the parts cover the file, the last one is not empty,
\* and the store accepts their number.
THEOREM PartsAreRight == Spec => []PartsCoverFile
<1>1. IInv => PartsCoverFile
  <2> SUFFICES ASSUME IInv, pc = "done"
               PROVE  /\ total_seq * chunk_size >= s3_obj_size
                      /\ (total_seq - 1) * chunk_size < s3_obj_size
                      /\ total_seq \in 1 .. MAX_PARTS
    BY DEF PartsCoverFile
  <2>1. s3_obj_size \in Nat \ {0} /\ chunk_size \in Nat \ {0} /\ MAX_PARTS \in Nat
    BY SizesArePositive, ChunkAssumption, PartsAssumption DEF IInv, TypeOK
  <2>2. total_seq = Parts(s3_obj_size, chunk_size) /\ total_seq <= MAX_PARTS
    BY DEF IInv, Counted, Enough
  <2>3. QED
    BY <2>1, <2>2, PartsRoundsUp
<1>2. QED
  BY <1>1, IInvHolds, PTL

----------------------------------------------------------------------------
(* ct_archive_data                                                          *)

\* put_objectdata_callback moves the cursor and the rest together, and nothing
\* has been pulled before the buffer is filled.
PutCursor ==
    /\ size \in Nat /\ buffer_offset \in Nat /\ contentLength \in Nat
    /\ buffer_offset + contentLength <= size
    /\ ppc \in {"stripe", "progress", "alloc", "read"} => buffer_offset = 0

\* A status or a result that says success is the answer to a put that was kept;
\* both start out as success.
PutKept ==
    /\ ppc = "check" /\ status = "ok" => object # NoObject
    /\ ppc \in {"out", "done"} /\ put_rc = "ok" => object # NoObject

PutInv == PutCursor /\ PutKept /\ ObjectIsWholeFile

\* It holds when ct_archive_data is entered.
LEMMA PutInitInv == PutInit => PutInv
BY DEF PutInit, NoObject, PutInv, PutCursor, PutKept, ObjectIsWholeFile

\* A put keeps a body only when the cursor is where it started.
LEMMA PutObjectInv == PutInv /\ PutObject => PutInv'
<1> SUFFICES ASSUME PutInv, PutObject PROVE PutInv'
  OBVIOUS
<1>1. PICK n \in 0 .. contentLength :
        /\ buffer_offset' = buffer_offset + n /\ contentLength' = contentLength - n
        /\ \/ /\ n = size /\ object' = Body(buffer_offset, n)
           \/ status' \in {"retryable", "fatal"} /\ object' = object
  BY DEF PutObject, Pulled
<1>2. /\ ppc' = "check" /\ size' = size
      /\ size \in Nat /\ buffer_offset \in Nat /\ contentLength \in Nat
      /\ buffer_offset + contentLength <= size
  BY DEF PutObject, PutInv, PutCursor
<1>3. n \in Nat /\ n <= contentLength
  BY <1>1, <1>2
<1>4. PutCursor'
  BY <1>1, <1>2, <1>3 DEF PutCursor
<1>5. CASE n = size /\ object' = Body(buffer_offset, n)
  <2>1. buffer_offset = 0
    BY <1>2, <1>3, <1>5
  <2>2. object' = Body(0, size)
    BY <1>5, <2>1
  <2>3. Body(0, size) # NoObject
    BY <1>2 DEF Body, NoObject
  <2>4. QED
    BY <1>2, <1>4, <2>2, <2>3
    DEF PutInv, PutKept, ObjectIsWholeFile, Body, NoObject
<1>6. CASE status' \in {"retryable", "fatal"} /\ object' = object
  BY <1>2, <1>4, <1>6
  DEF PutInv, PutKept, ObjectIsWholeFile, Body, NoObject
<1>7. QED
  BY <1>1, <1>5, <1>6

\* Every other step leaves the object alone.
LEMMA PutNextInv == PutInv /\ [PutNext]_putVars => PutInv'
<1> SUFFICES ASSUME PutInv, [PutNext]_putVars PROVE PutInv'
  OBVIOUS
<1> USE DEF PutInv, PutCursor, PutKept, ObjectIsWholeFile, NoObject,
            Body
<1>1. CASE SaveStripe
  BY <1>1 DEF SaveStripe
<1>2. CASE Progress
  BY <1>2 DEF Progress
<1>3. CASE Alloc
  BY <1>3 DEF Alloc
<1>4. CASE Read
  BY <1>4 DEF Read
<1>5. CASE PutObject
  BY <1>5, PutObjectInv
<1>6. CASE CheckStatus
  BY <1>6 DEF CheckStatus, Retry, GiveUp, PutDone
<1>7. CASE Out
  BY <1>7 DEF Out
<1>8. CASE Done \/ UNCHANGED putVars
  BY <1>8 DEF Done, putVars
<1>9. QED
  BY <1>1, <1>2, <1>3, <1>4, <1>5, <1>6, <1>7, <1>8 DEF PutNext

\* The invariant holds throughout ct_archive_data.
LEMMA PutInvHolds == PutSpec => []PutInv
BY PutInitInv, PutNextInv, PTL DEF PutSpec

\* Whatever was pulled before an attempt failed, the store holds the whole
\* file or nothing: ct_archive_data never resets the callback's cursor.
THEOREM SmallObjectIsWhole == PutSpec => []ObjectIsWholeFile
<1>1. PutInv => ObjectIsWholeFile
  BY DEF PutInv
<1>2. QED
  BY <1>1, PutInvHolds, PTL

\* ct_archive_data returns success only for an object that is in the store.
THEOREM SmallSuccessIsStored == PutSpec => []SuccessIsStored
<1>1. PutInv => SuccessIsStored
  BY DEF PutInv, PutKept, SuccessIsStored
<1>2. QED
  BY <1>1, PutInvHolds, PTL

----------------------------------------------------------------------------
(* ct_process_item                                                          *)

\* The cases in which success may be reported.
ItemExcused ==
    \/ moved = "file" \/ o_dry_run \/ path = "outside" \/ ~ o_verbose
    \/ moved = "refused" /\ action = "archive"

\* A copytool that is not quiet has looked the path up before it copies.
ItemLooked ==
    ipc \in {"dispatch", "abegin", "archive", "acopy",
                 "mdt", "rbegin", "restore", "rcopy"}
        => path \in {"inside", "outside"} \/ ~ o_verbose

\* Only an archive opens the file for the store.
ItemKind == ipc \in {"abegin", "archive", "acopy"} => action = "archive"

\* From the end of the copy on, a result that says success is justified: every
\* early exit to there has set an error.
ItemJustified ==
    ipc \in {"close", "done_begin", "end", "finished"} /\ rc = "ok"
        => ItemExcused

\* What was reported stands: the report is the last thing an item does.
ItemLast == report = "ok" => ipc = "finished"

ItemInv ==
    ItemLooked /\ ItemKind /\ ItemJustified /\ ItemLast /\ SuccessMeansMovedMostly

\* It holds before the item is looked at.
LEMMA ItemInitInv == ItemInit => ItemInv
BY DEF ItemInit, ItemInv, ItemLooked, ItemKind, ItemJustified, ItemLast,
       SuccessMeansMovedMostly

\* The copies: data goes to the file's object when its path is known.
LEMMA ItemCopyInv ==
    ItemInv /\ (ArchiveCopy \/ RestoreCopy) => ItemInv'
BY DEF ItemInv, ItemLooked, ItemKind, ItemJustified, ItemExcused, ItemLast,
       SuccessMeansMovedMostly, ArchiveCopy, RestoreCopy,
       LacksPrefix, HasPrefix, PathOutside, Destination,
       Errors, opts

\* Every step preserves it; rc is ok at the end only by a copy or a dry run.
LEMMA ItemNextInv == ItemInv /\ [ItemNext]_itemVars => ItemInv'
<1> SUFFICES ASSUME ItemInv, [ItemNext]_itemVars PROVE ItemInv'
  OBVIOUS
<1> USE DEF ItemInv, ItemLooked, ItemKind, ItemJustified, ItemExcused, ItemLast,
            SuccessMeansMovedMostly, Errors, opts
<1>1. CASE CheckAction
  BY <1>1 DEF CheckAction
<1>2. CASE FidToPath
  BY <1>2 DEF FidToPath
<1>3. CASE Dispatch
  BY <1>3 DEF Dispatch
<1>4. CASE ArchiveBegin
  BY <1>4 DEF ArchiveBegin, BeginAction, Resend
<1>5. CASE ArchiveOpen
  BY <1>5 DEF ArchiveOpen
<1>6. CASE ArchiveCopy \/ RestoreCopy
  BY <1>6, ItemCopyInv
<1>7. CASE MdtIndex
  BY <1>7 DEF MdtIndex
<1>8. CASE RestoreBegin
  BY <1>8 DEF RestoreBegin, BeginAction, Resend
<1>9. CASE RestoreOpen
  BY <1>9 DEF RestoreOpen
<1>10. CASE Close
  BY <1>10 DEF Close
<1>11. CASE DoneBegin
  BY <1>11 DEF DoneBegin, Resend, NoMoreResend
<1>12. CASE ActionEnd
  BY <1>12 DEF ActionEnd, Reported, Resend, NoMoreResend
<1>13. CASE Finished \/ UNCHANGED itemVars
  BY <1>13 DEF Finished, itemVars
<1>14. QED
  BY <1>1, <1>2, <1>3, <1>4, <1>5, <1>6, <1>7, <1>8, <1>9, <1>10, <1>11,
     <1>12, <1>13 DEF ItemNext

\* The invariant holds while the item is processed.
LEMMA ItemInvHolds == ItemSpec => []ItemInv
BY ItemInitInv, ItemNextInv, PTL DEF ItemSpec

\* For all options and every number of retries: ct_action_done reports success
\* only when the data was moved to or from the file's own object, but for the
\* cases the property names.
THEOREM SuccessIsMoved == ItemSpec => []SuccessMeansMovedMostly
<1>1. ItemInv => SuccessMeansMovedMostly
  BY DEF ItemInv
<1>2. QED
  BY <1>1, ItemInvHolds, PTL
=============================================================================
