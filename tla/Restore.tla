------------------------------- MODULE Restore ------------------------------
(***************************************************************************)
(* ct_restore_data and get_s3_object (lhsmtool_s3.c) with the GET          *)
(* callbacks (s3_callback.c): the object is fetched in ranges of           *)
(* CHUNK_SIZE, each written at its offset by get_objectdata_callback; a    *)
(* range shorter than asked for, or one past the end, ends the loop.  One  *)
(* budget of retries serves all ranges.                                    *)
(*                                                                         *)
(* The object store is external: it answers a range from the object it     *)
(* holds at that moment, which another worker may replace meanwhile (the   *)
(* object's name is the file's path), and any answer may break off.        *)
(***************************************************************************)
EXTENDS Integers

CONSTANTS CHUNK_SIZE,    \* byteCount of a range, in units
          MaxLength,     \* bound: the longest object
          MaxVersion,    \* bound: how often the object is replaced
          RETRYCOUNT

ASSUME ChunkAssumption == CHUNK_SIZE \in Nat \ {0} /\ MaxLength \in Nat
ASSUME BoundsAssumption == MaxVersion \in Nat /\ RETRYCOUNT \in Nat

VARIABLES pc,
          startByte,
          contentLength,   \* data.contentLength, of the last answered range
          status,          \* data.status
          retry_count,
          rc,
          matched,         \* the path has the configured prefix
          dst,             \* the destination: offset -> version, or Hole
          objLen, version  \* external: the object in the store

object == <<objLen, version>>
vars == <<pc, startByte, contentLength, status, retry_count, rc, matched, dst, object>>

Hole == -1
Offsets == 0 .. MaxLength - 1

TypeOK ==
    /\ pc \in {"stat", "progress", "target", "get", "check", "report", "done"}
    /\ startByte \in 0 .. MaxLength + CHUNK_SIZE
    /\ contentLength \in 0 .. CHUNK_SIZE
    /\ status \in {"ok", "range", "retryable", "fatal"}
    /\ retry_count \in 0 .. RETRYCOUNT
    /\ rc \in {"ok", "err"} /\ matched \in BOOLEAN
    /\ dst \in [Offsets -> -1 .. MaxVersion]
    /\ objLen \in 0 .. MaxLength /\ version \in 0 .. MaxVersion

Init ==
    /\ pc = "stat"
    /\ startByte = 0 /\ contentLength = 0 /\ status = "ok"
    /\ retry_count = RETRYCOUNT /\ rc = "ok" /\ matched \in BOOLEAN
    /\ dst = [o \in Offsets |-> Hole]
    /\ objLen \in 0 .. MaxLength /\ version = 0

\* External: another worker archives a file to the same object name.
Replace ==
    /\ version < MaxVersion /\ pc # "done"
    /\ version' = version + 1 /\ objLen' \in 0 .. MaxLength
    /\ UNCHANGED <<pc, startByte, contentLength, status, retry_count, rc,
                   matched, dst>>

----------------------------------------------------------------------------

\* fstat and the check for a regular file.
Stat ==
    /\ pc = "stat"
    /\ \/ pc' = "progress" /\ UNCHANGED rc
       \/ pc' = "done" /\ rc' = "err"
    /\ UNCHANGED <<startByte, contentLength, status, retry_count, matched, dst, object>>

\* The first progress report: rc is set again on every path after it.
Progress ==
    /\ pc = "progress" /\ pc' = "target"
    /\ rc' \in {"ok", "err"}
    /\ UNCHANGED <<startByte, contentLength, status, retry_count, matched, dst, object>>

\* ct_target: a path without the prefix names no object.
Target ==
    /\ pc = "target"
    /\ IF matched THEN pc' = "get" /\ UNCHANGED rc
                  ELSE pc' = "done" /\ rc' = "ok"
    /\ UNCHANGED <<startByte, contentLength, status, retry_count, matched, dst, object>>

\* The length of the answer to the range that starts at startByte.
RangeLength ==
    IF objLen - startByte > CHUNK_SIZE THEN CHUNK_SIZE ELSE objLen - startByte

\* Mutant: writes go on where the last attempt stopped.
WriteAppends(n) ==
    LET done == {o \in Offsets : dst[o] # Hole}
        end == IF done = {} THEN 0 ELSE 1 + CHOOSE o \in done : \A p \in done : p <= o
    IN  dst' = [o \in Offsets |-> IF o \in end .. end + n - 1 THEN version ELSE dst[o]]

\* lseek to startByte, then n units through get_objectdata_callback.
Write(n) ==
    dst' = [o \in Offsets |->
              IF o \in startByte .. startByte + n - 1 THEN version ELSE dst[o]]

\* S3_get_object of one range: refused past the end of the object, else its
\* properties and n units of it arrive (fewer when the connection or a write
\* fails), or nothing at all.
GetRange ==
    /\ pc = "get" /\ pc' = "check"
    /\ \/ /\ startByte >= objLen
          /\ status' = "range"
          /\ UNCHANGED <<contentLength, dst>>
       \/ /\ startByte < objLen
          /\ contentLength' = RangeLength
          /\ \E n \in 0 .. RangeLength :
               /\ Write(n)
               /\ status' \in {"retryable", "fatal"}
                    \cup (IF n = RangeLength THEN {"ok"} ELSE {})
       \/ /\ status' \in {"retryable", "fatal"}
          /\ UNCHANGED <<contentLength, dst>>
    /\ UNCHANGED <<startByte, retry_count, rc, matched, object>>

\* A whole range: go on behind it; a shorter one: the object is complete.
RangeDone ==
    IF contentLength # CHUNK_SIZE
      THEN pc' = "report" /\ UNCHANGED startByte
      ELSE pc' = "get" /\ startByte' = startByte + CHUNK_SIZE

\* Mutant: a broken range counts as read.
RetrySkips ==
    /\ retry_count > 0 /\ retry_count' = retry_count - 1
    /\ pc' = "get" /\ startByte' = startByte + CHUNK_SIZE /\ UNCHANGED rc

\* Mutant: the budget is not counted down.
RetryForever ==
    /\ pc' = "get" /\ UNCHANGED <<retry_count, startByte, rc>>

\* should_retry, and the same range again.
Retry ==
    \/ /\ retry_count > 0 /\ retry_count' = retry_count - 1
       /\ pc' = "get" /\ UNCHANGED <<startByte, rc>>
    \/ /\ retry_count = 0 /\ UNCHANGED retry_count
       /\ pc' = "done" /\ rc' = "err" /\ UNCHANGED startByte

\* The rest of the loop of get_s3_object, and its result: 0 or -EIO.
CheckStatus ==
    /\ pc = "check"
    /\ \/ status = "ok" /\ RangeDone /\ rc' = "ok" /\ UNCHANGED retry_count
       \/ /\ status = "range" /\ pc' = "report" /\ rc' = "ok"
          /\ UNCHANGED <<startByte, retry_count>>
       \/ status = "retryable" /\ Retry
       \/ /\ status = "fatal" /\ pc' = "done" /\ rc' = "err"
          /\ UNCHANGED <<startByte, retry_count>>
    /\ UNCHANGED <<contentLength, status, matched, dst, object>>

\* The report after a long copy: its result becomes that of ct_restore_data.
Report ==
    /\ pc = "report" /\ pc' = "done"
    /\ rc' \in {"ok", "err"}
    /\ UNCHANGED <<startByte, contentLength, status, retry_count, matched, dst, object>>

Done == pc = "done" /\ UNCHANGED vars

CopySteps == Stat \/ Progress \/ Target \/ GetRange \/ CheckStatus \/ Report

Next == Replace \/ CopySteps \/ Done

\* Every S3 call is assumed to return, and the thread is scheduled.
Spec == Init /\ [][Next]_vars /\ WF_vars(CopySteps)

----------------------------------------------------------------------------
(* Properties                                                               *)

Copied == pc = "done" /\ rc = "ok" /\ matched

\* A restore that succeeds has written exactly the object, through whatever
\* ranges broke off and were fetched again, if nobody replaced it meanwhile.
RestoredExactly ==
    Copied /\ version = 0 =>
        dst = [o \in Offsets |-> IF o < objLen THEN 0 ELSE Hole]

\* Even when the object is replaced, with a shorter or a longer one, between
\* two ranges, a restore that succeeds leaves no hole before its last byte.
NoHoles ==
    Copied => \A o \in Offsets : dst[o] # Hole => \A p \in 0 .. o : dst[p] # Hole

\* The restore ends: the retries are counted over all ranges.
RestoreEnds == <>(pc = "done")

============================================================================
