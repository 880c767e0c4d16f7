---------------------------- MODULE RestoreProofs ----------------------------
(***************************************************************************)
(* Theorems about the restore of an object for every size of a range,      *)
(* every length of the object, every budget of retries and any number of   *)
(* replacements of the object between two ranges.                          *)
(***************************************************************************)
EXTENDS Restore, TLAPS

\* The offsets below n are all written.
Filled(n) == \A o \in Offsets : o < n => dst[o] # Hole

\* What is written is a prefix of the destination, and all before the range
\* that is being fetched is in it: a range is repeated at its own offset.
Prefix ==
    /\ \A o \in Offsets : dst[o] # Hole => Filled(o)
    /\ startByte <= MaxLength /\ Filled(startByte)

\* A range that arrived whole is in the destination, whatever becomes of the
\* object after it.
RangeWritten ==
    pc = "check" /\ status = "ok" =>
        startByte + contentLength <= MaxLength /\ Filled(startByte + contentLength)

\* While nobody replaces the object, nothing else is written, nothing behind
\* its end, and the answer to a range says where that end is.
FromObject ==
    version = 0 =>
        /\ \A o \in Offsets : dst[o] = Hole \/ (dst[o] = 0 /\ o < objLen)
        /\ pc = "check" /\ status = "ok" =>
             startByte < objLen /\ contentLength = RangeLength
        /\ pc = "check" /\ status = "range" => startByte >= objLen
        /\ pc = "report" \/ Copied => Filled(objLen)

\* The inductive invariant.
IInv == TypeOK /\ Prefix /\ RangeWritten /\ FromObject

----------------------------------------------------------------------------

USE ChunkAssumption, BoundsAssumption

\* The length of an answer, when the range begins inside the object.
LEMMA RangeLengthBounds ==
    ASSUME TypeOK, startByte < objLen
    PROVE  /\ RangeLength \in 1 .. CHUNK_SIZE
           /\ startByte + RangeLength <= objLen
           /\ RangeLength # CHUNK_SIZE => startByte + RangeLength = objLen
BY DEF TypeOK, RangeLength

\* The invariant holds when ct_restore_data is called.
LEMMA InitIInv == Init => IInv
BY DEF Init, IInv, TypeOK, Prefix, RangeWritten, FromObject, Filled, Copied, Hole, Offsets

\* Another worker's replacement of the object preserves it.
LEMMA ReplaceIInv ==
    ASSUME IInv, Replace
    PROVE  IInv'
<1>1. TypeOK'
  BY DEF IInv, TypeOK, Replace
<1>2. Prefix' /\ RangeWritten'
  BY DEF IInv, Prefix, RangeWritten, Filled, Replace
<1>3. version' # 0
  BY DEF IInv, TypeOK, Replace
<1>4. QED
  BY <1>1, <1>2, <1>3 DEF IInv, FromObject

\* The steps before the first range, which write nothing, preserve it.
LEMMA BeforeIInv ==
    ASSUME IInv, Stat \/ Progress \/ Target
    PROVE  IInv'
<1>1. TypeOK'
  BY DEF IInv, TypeOK, Stat, Progress, Target, object
<1>2. Prefix' /\ RangeWritten'
  BY DEF IInv, Prefix, RangeWritten, Filled, Stat, Progress, Target, object
<1>3. pc' \in {"progress", "target", "get", "done"} /\ ~Copied'
  BY DEF IInv, TypeOK, Stat, Progress, Target, Copied, object
<1>4. FromObject'
  BY <1>3 DEF IInv, FromObject, Filled, Stat, Progress, Target, object
<1>5. QED
  BY <1>1, <1>2, <1>4 DEF IInv

\* n units written at startByte extend the written prefix.
LEMMA WriteExtends ==
    ASSUME IInv, NEW n \in Nat, Write(n), startByte' = startByte,
           startByte + n <= MaxLength
    PROVE  /\ dst' \in [Offsets -> -1 .. MaxVersion]
           /\ Prefix' /\ Filled(startByte + n)'
           /\ version = 0 /\ startByte + n <= objLen =>
                \A o \in Offsets : dst'[o] = Hole \/ (dst'[o] = 0 /\ o < objLen)
<1>1. \A o \in Offsets : dst'[o] = IF o \in startByte .. startByte + n - 1
                                     THEN version ELSE dst[o]
  BY DEF Write
<1>2. version # Hole /\ version \in 0 .. MaxVersion /\ startByte \in Nat
  BY DEF IInv, TypeOK, Hole
<1>3. dst' \in [Offsets -> -1 .. MaxVersion]
  BY <1>2 DEF Write, IInv, TypeOK
<1>4. Filled(startByte + n)'
  BY <1>1, <1>2 DEF Filled, IInv, Prefix, Offsets
<1>5. ASSUME NEW o \in Offsets, dst'[o] # Hole, NEW p \in Offsets, p < o
      PROVE  dst'[p] # Hole
  <2>1. CASE o \in startByte .. startByte + n - 1
    <3>1. p < startByte + n
      BY <1>2, <1>5, <2>1 DEF Offsets
    <3>2. QED
      BY <1>4, <3>1, <1>5 DEF Filled
  <2>2. CASE o \notin startByte .. startByte + n - 1
    <3>1. dst[o] # Hole
      BY <1>1, <1>5, <2>2
    <3>2. dst[p] # Hole
      BY <1>5, <3>1 DEF IInv, Prefix, Filled
    <3>3. QED
      BY <1>1, <1>2, <1>5, <3>2
  <2>3. QED
    BY <2>1, <2>2
<1>6. Filled(startByte)'
  BY <1>2, <1>4 DEF Filled, Offsets
<1>7. Prefix'
  BY <1>5, <1>6 DEF Prefix, Filled, IInv
<1>8. ASSUME version = 0, startByte + n <= objLen, NEW o \in Offsets
      PROVE  dst'[o] = Hole \/ (dst'[o] = 0 /\ o < objLen)
  BY <1>1, <1>2, <1>8 DEF IInv, FromObject, TypeOK, Offsets
<1>9. QED
  BY <1>3, <1>4, <1>7, <1>8

\* A GET of one range, answered, broken off or refused, preserves it.
LEMMA GetRangeIInv ==
    ASSUME IInv, GetRange
    PROVE  IInv'
<1>1. /\ pc' = "check" /\ ~Copied'
      /\ UNCHANGED <<startByte, retry_count, rc, matched, objLen, version>>
  BY DEF GetRange, Copied, object
<1>2. CASE startByte >= objLen /\ status' = "range" /\ UNCHANGED <<contentLength, dst>>
  <2>1. TypeOK'
    BY <1>1, <1>2 DEF IInv, TypeOK
  <2>2. QED
    BY <1>1, <1>2, <2>1 DEF IInv, Prefix, RangeWritten, FromObject, Filled
<1>3. ASSUME startByte < objLen, contentLength' = RangeLength,
             NEW n \in 0 .. RangeLength, Write(n),
             status' \in {"retryable", "fatal"}
                           \cup (IF n = RangeLength THEN {"ok"} ELSE {})
      PROVE  IInv'
  <2>1. /\ RangeLength \in 1 .. CHUNK_SIZE /\ n \in Nat
        /\ startByte + RangeLength <= objLen /\ objLen <= MaxLength
        /\ startByte + n <= objLen /\ startByte + n <= MaxLength
    BY <1>3, RangeLengthBounds DEF IInv, TypeOK
  <2>2. /\ dst' \in [Offsets -> -1 .. MaxVersion]
        /\ Prefix' /\ Filled(startByte + n)'
        /\ version = 0 =>
             \A o \in Offsets : dst'[o] = Hole \/ (dst'[o] = 0 /\ o < objLen)
    BY <1>1, <1>3, <2>1, WriteExtends
  <2>3. TypeOK'
    BY <1>1, <1>3, <2>1, <2>2 DEF IInv, TypeOK
  <2>4. status' = "ok" => n = RangeLength
    BY <1>3
  <2>5. RangeWritten'
    BY <1>1, <1>3, <2>1, <2>2, <2>4 DEF RangeWritten, Filled, IInv, TypeOK
  <2>6. RangeLength' = RangeLength /\ status' # "range"
    BY <1>1, <1>3 DEF RangeLength
  <2>7. FromObject'
    BY <1>1, <1>3, <2>2, <2>6 DEF FromObject
  <2>8. QED
    BY <2>2, <2>3, <2>5, <2>7 DEF IInv
<1>4. CASE status' \in {"retryable", "fatal"} /\ UNCHANGED <<contentLength, dst>>
  <2>1. TypeOK'
    BY <1>1, <1>4 DEF IInv, TypeOK
  <2>2. QED
    BY <1>1, <1>4, <2>1 DEF IInv, Prefix, RangeWritten, FromObject, Filled
<1>5. QED
  BY <1>2, <1>3, <1>4 DEF GetRange

\* What get_s3_object does with the status of a range preserves it.
LEMMA CheckStatusIInv ==
    ASSUME IInv, CheckStatus
    PROVE  IInv'
<1>1. /\ pc = "check" /\ pc' # "check"
      /\ UNCHANGED <<contentLength, status, matched, dst, objLen, version>>
      /\ \A n : Filled(n)' <=> Filled(n)
  BY DEF CheckStatus, RangeDone, Retry, Filled, object
<1>2. CASE status = "ok" /\ RangeDone /\ rc' = "ok" /\ UNCHANGED retry_count
  <2>1. /\ startByte + contentLength <= MaxLength
        /\ Filled(startByte + contentLength)
    BY <1>1, <1>2 DEF IInv, RangeWritten
  <2>2. CASE contentLength = CHUNK_SIZE
    <3>1. pc' = "get" /\ startByte' = startByte + contentLength
      BY <1>2, <2>2 DEF RangeDone
    <3>2. TypeOK'
      BY <1>1, <1>2, <2>1, <3>1 DEF IInv, TypeOK
    <3>3. Prefix'
      BY <1>1, <2>1, <3>1 DEF IInv, Prefix
    <3>4. RangeWritten' /\ ~Copied'
      BY <3>1 DEF RangeWritten, Copied
    <3>5. FromObject'
      BY <1>1, <3>1, <3>4 DEF IInv, FromObject
    <3>6. QED
      BY <3>2, <3>3, <3>4, <3>5 DEF IInv
  <2>3. CASE contentLength # CHUNK_SIZE
    <3>1. pc' = "report" /\ startByte' = startByte
      BY <1>2, <2>3 DEF RangeDone
    <3>2. TypeOK'
      BY <1>1, <1>2, <3>1 DEF IInv, TypeOK
    <3>3. Prefix' /\ RangeWritten'
      BY <1>1, <3>1 DEF IInv, Prefix, RangeWritten
    <3>4. version = 0 => startByte + contentLength = objLen
      BY <1>1, <1>2, <2>3, RangeLengthBounds DEF IInv, FromObject
    <3>5. FromObject'
      BY <1>1, <2>1, <3>1, <3>4 DEF IInv, FromObject
    <3>6. QED
      BY <3>2, <3>3, <3>5 DEF IInv
  <2>4. QED
    BY <2>2, <2>3
<1>3. CASE status = "range" /\ pc' = "report" /\ rc' = "ok"
           /\ UNCHANGED <<startByte, retry_count>>
  <2>1. TypeOK'
    BY <1>1, <1>3 DEF IInv, TypeOK
  <2>2. Prefix' /\ RangeWritten'
    BY <1>1, <1>3 DEF IInv, Prefix, RangeWritten
  <2>3. version = 0 => Filled(objLen)
    BY <1>1, <1>3 DEF IInv, FromObject, Prefix, Filled, TypeOK, Offsets
  <2>4. FromObject'
    BY <1>1, <1>3, <2>3 DEF IInv, FromObject
  <2>5. QED
    BY <2>1, <2>2, <2>4 DEF IInv
<1>4. CASE \/ status = "retryable" /\ Retry
           \/ /\ status = "fatal" /\ pc' = "done" /\ rc' = "err"
              /\ UNCHANGED <<startByte, retry_count>>
  <2>1. /\ pc' = "get" \/ (pc' = "done" /\ rc' = "err")
        /\ UNCHANGED startByte /\ rc' \in {"ok", "err"}
        /\ retry_count' \in 0 .. RETRYCOUNT
    BY <1>4 DEF Retry, IInv, TypeOK
  <2>2. TypeOK'
    BY <1>1, <2>1 DEF IInv, TypeOK
  <2>3. Prefix' /\ RangeWritten'
    BY <1>1, <2>1 DEF IInv, Prefix, RangeWritten
  <2>4. ~Copied' /\ pc' # "report"
    BY <2>1 DEF Copied
  <2>5. FromObject'
    BY <1>1, <2>4 DEF IInv, FromObject
  <2>6. QED
    BY <2>2, <2>3, <2>5 DEF IInv
<1>5. QED
  BY <1>2, <1>3, <1>4 DEF CheckStatus

\* The last progress report preserves it.
LEMMA ReportIInv ==
    ASSUME IInv, Report
    PROVE  IInv'
<1>1. TypeOK'
  BY DEF IInv, TypeOK, Report, object
<1>2. QED
  BY <1>1 DEF IInv, Prefix, RangeWritten, FromObject, Filled, Report, object

\* Every step preserves it, and so does a stuttering one.
LEMMA NextIInv == IInv /\ [Next]_vars => IInv'
<1>1. ASSUME IInv, UNCHANGED vars PROVE IInv'
  BY <1>1 DEF IInv, TypeOK, Prefix, RangeWritten, FromObject, Filled, Copied,
     RangeLength, vars, object
<1>2. QED
  BY <1>1, ReplaceIInv, BeforeIInv, GetRangeIInv, CheckStatusIInv, ReportIInv
     DEF Next, CopySteps, Done

\* The inductive invariant holds of every state of the restore.
LEMMA IInvHolds == Spec => []IInv
BY InitIInv, NextIInv, PTL DEF Spec

----------------------------------------------------------------------------

\* No range begins behind the longest object and the retries never become
\* negative.
THEOREM TypeCorrect == Spec => []TypeOK
<1>1. IInv => TypeOK
  BY DEF IInv
<1>2. QED
  BY <1>1, IInvHolds, PTL

\* A restore that succeeds has written exactly the object if nobody replaced
\* it meanwhile, for every length, also one that is a multiple of a range.
THEOREM ExactRestore == Spec => []RestoredExactly
<1>1. ASSUME IInv, Copied, version = 0
      PROVE  dst = [o \in Offsets |-> IF o < objLen THEN 0 ELSE Hole]
  <2>1. \A o \in Offsets : dst[o] = IF o < objLen THEN 0 ELSE Hole
    BY <1>1 DEF IInv, FromObject, Filled
  <2>2. QED
    BY <1>1, <2>1 DEF IInv, TypeOK
<1>2. IInv => RestoredExactly
  BY <1>1 DEF RestoredExactly
<1>3. QED
  BY <1>2, IInvHolds, PTL

\* A restore that succeeds leaves no hole, however often the object is
\* replaced by a shorter or a longer one between two ranges.
THEOREM HoleFree == Spec => []NoHoles
<1>1. ASSUME IInv, NEW o \in Offsets, dst[o] # Hole, NEW p \in 0 .. o
      PROVE  dst[p] # Hole
  <2>1. p \in Offsets /\ (p = o \/ p < o)
    BY DEF Offsets
  <2>2. QED
    BY <1>1, <2>1 DEF IInv, Prefix, Filled
<1>2. IInv => NoHoles
  BY <1>1 DEF NoHoles
<1>3. QED
  BY <1>2, IInvHolds, PTL
=============================================================================
