--------------------------- MODULE MultipartProofs ---------------------------
(***************************************************************************)
(* Theorems about the multipart upload for every part size, every set of   *)
(* file sizes, every length of the commit's body and every reading of that *)
(* length as a status.                                                     *)
(*                                                                         *)
(* No sum over the parts is taken: a file of T parts is described part by  *)
(* part, by where each begins and by what the last one leaves.             *)
(***************************************************************************)
EXTENDS MultipartUpload, SequenceTheorems, TLAPS

\* The part of the file that number i stands for, and the parts of the file.
FilePart(i) == Interval(PartOffset(i), PartContentLength(size - PartOffset(i)))
FileParts == [i \in 1 .. TotalSeq(size) |-> FilePart(i)]

\* What a slot of the list of etags, or of the store, can hold.
Intervals == [from : Nat, len : Nat]

\* Where the loop is decides how much of the file is left to it.
Cursor ==
    /\ pc \in {"upload", "check"} => seq <= TotalSeq(size)
    /\ pc \in {"build", "commit"} => seq = TotalSeq(size) + 1
    /\ seq <= TotalSeq(size) => contentLength = size - PartOffset(seq)
    /\ seq = TotalSeq(size) + 1 => contentLength = 0

\* The store holds each part that is behind the loop, and its etag is the one
\* that is kept; an answer that came for the present part is as good, though
\* its call may have failed and be repeated.
Arrived ==
    /\ next_etags_pos <= seq
    /\ \A i \in 1 .. TotalSeq(size) :
         i < seq \/ (i = seq /\ next_etags_pos = seq) =>
             parts[i] = FilePart(i) /\ etags[i] = FilePart(i)

\* The object comes from a commit of all parts unless a piece of the list was
\* lost, and success from a commit that was pulled to its end: what was sent
\* and what remains are the list.
Committed ==
    /\ object = <<>> \/ object = FileParts \/ ~bodyOk
    /\ pc \notin {"commit", "done"} => sent = 0
    /\ pc = "commit" => /\ sent + remaining <= CommitLen
                        /\ bodyOk => sent + remaining = CommitLen
    /\ rc = "ok" => /\ pc = "done" /\ seq = TotalSeq(size) + 1
                    /\ bodyOk => sent = CommitLen

\* The inductive invariant.
IInv ==
    /\ TypeOK
    /\ etags \in [1 .. TotalSeq(size) -> Intervals]
    /\ parts \in [1 .. TotalSeq(size) -> Intervals]
    /\ Cursor /\ Arrived /\ Committed

----------------------------------------------------------------------------
(* The parts of a file                                                      *)

USE ChunkAssumption, SizesAssumption, RetryAssumption, CommitAssumption

\* total_seq is the size of the file by that of a part, rounded up.
LEMMA TotalSeqRoundsUp ==
    ASSUME NEW s \in Nat \ {0}
    PROVE  /\ TotalSeq(s) \in Nat \ {0}
           /\ PartOffset(TotalSeq(s)) < s
           /\ s <= PartOffset(TotalSeq(s)) + Chunk
<1> DEFINE n == s + Chunk - 1
           q == n \div Chunk
<1>1. n \in Nat /\ n >= Chunk
  OBVIOUS
<1>2. q \in Int /\ q * Chunk <= n /\ n < q * Chunk + Chunk
  BY <1>1, SMT
<1>3. q >= 1
  BY <1>1, <1>2, SMT
<1>4. (q - 1) * Chunk = q * Chunk - Chunk /\ q * Chunk \in Int
  BY <1>2, SMT
<1>5. TotalSeq(s) = q
  BY DEF TotalSeq
<1> HIDE DEF q
<1>6. QED
  BY <1>2, <1>3, <1>4, <1>5 DEF PartOffset

\* The first part begins the file and each other one a chunk after the one
\* before it.
LEMMA PartOffsetSteps ==
    /\ PartOffset(1) = 0
    /\ \A i \in Nat \ {0} : /\ PartOffset(i) \in Nat
                            /\ PartOffset(i + 1) = PartOffset(i) + Chunk
<1>1. \A i \in Nat \ {0} : (i - 1) * Chunk \in Nat /\ (i + 1 - 1) * Chunk = (i - 1) * Chunk + Chunk
  BY SMT
<1>2. QED
  BY <1>1 DEF PartOffset

\* Part offsets grow with the number of the part.
LEMMA PartOffsetGrows ==
    ASSUME NEW i \in Nat \ {0}, NEW j \in Nat \ {0}, i < j
    PROVE  PartOffset(i) + Chunk <= PartOffset(j)
<1>1. Chunk * (j - 1 - i) >= 0
  BY SMT
<1>2. Chunk * (j - 1 - i) = (j - 1) * Chunk - (i - 1) * Chunk - Chunk
  BY SMT
<1>3. (j - 1) * Chunk \in Int /\ (i - 1) * Chunk \in Int
  BY SMT
<1>4. QED
  BY <1>1, <1>2, <1>3 DEF PartOffset

\* Every part but the last has the length of a chunk, the last one takes the
\* rest of the file, and none is empty.
LEMMA FilePartLengths ==
    ASSUME size \in Nat \ {0}, NEW i \in 1 .. TotalSeq(size)
    PROVE  /\ PartOffset(i) \in Nat /\ PartOffset(i) < size
           /\ PartContentLength(size - PartOffset(i)) \in 1 .. Chunk
           /\ i < TotalSeq(size) => PartContentLength(size - PartOffset(i)) = Chunk
           /\ i = TotalSeq(size) =>
                PartContentLength(size - PartOffset(i)) = size - PartOffset(i)
<1> DEFINE T == TotalSeq(size)
<1>1. T \in Nat \ {0} /\ PartOffset(T) < size /\ size <= PartOffset(T) + Chunk
  BY TotalSeqRoundsUp
<1>2. i \in Nat \ {0} /\ PartOffset(i) \in Nat /\ PartOffset(T) \in Nat
  BY <1>1, PartOffsetSteps
<1>3. i < T => PartOffset(i) + Chunk <= PartOffset(T)
  BY <1>1, <1>2, PartOffsetGrows
<1> HIDE DEF T
<1>4. i <= T
  BY <1>1 DEF T
<1>5. QED
  BY <1>1, <1>2, <1>3, <1>4 DEF PartContentLength, T

\* The parts of the file are intervals.
LEMMA FilePartType ==
    ASSUME size \in Nat \ {0}, NEW i \in 1 .. TotalSeq(size)
    PROVE  FilePart(i) \in Intervals
BY FilePartLengths DEF FilePart, Interval, Intervals

\* The parts of the file tile it: they follow each other without a gap or an
\* overlap from its first byte to its last.
LEMMA FilePartsTile ==
    ASSUME size \in Nat \ {0}
    PROVE  Tiles(FileParts)
<1> DEFINE T == TotalSeq(size)
           L(i) == PartContentLength(size - PartOffset(i))
<1>1. T \in Nat \ {0}
  BY TotalSeqRoundsUp
<1>2. FileParts \in [1 .. T -> Intervals]
  BY FilePartType DEF FileParts
<1>3. FileParts \in Seq(Intervals)
  BY <1>1, <1>2, SeqDef
<1>4. Len(FileParts) = T
  <2>1. Len(FileParts) \in Nat /\ DOMAIN FileParts = 1 .. Len(FileParts)
    BY <1>3, LenProperties
  <2>2. DOMAIN FileParts = 1 .. T
    BY DEF FileParts
  <2>3. QED
    BY <1>1, <2>1, <2>2
<1>5. \A i \in 1 .. T : FileParts[i].from = PartOffset(i) /\ FileParts[i].len = L(i)
  BY DEF FileParts, FilePart, Interval
<1>6. FileParts # <<>> /\ 1 \in 1 .. T /\ T \in 1 .. T
  BY <1>1, <1>3, <1>4, EmptySeq
<1>7. FileParts[1].from = 0
  <2> HIDE DEF T, L
  <2>1. QED
    BY <1>5, <1>6, PartOffsetSteps
<1>8. ASSUME NEW i \in 2 .. T
      PROVE  FileParts[i].from = FileParts[i - 1].from + FileParts[i - 1].len
  <2>1. i - 1 \in 1 .. T /\ i - 1 < T /\ i \in 1 .. T /\ i - 1 \in Nat \ {0} /\ i - 1 + 1 = i
    BY <1>1
  <2>2. L(i - 1) = Chunk /\ PartOffset(i - 1) \in Nat
    BY <2>1, FilePartLengths
  <2>3. PartOffset(i) = PartOffset(i - 1) + Chunk
    BY <2>1, PartOffsetSteps
  <2> HIDE DEF L, T
  <2>4. QED
    BY <1>5, <2>1, <2>2, <2>3
<1>9. FileParts[T].from + FileParts[T].len = size
  <2>1. L(T) = size - PartOffset(T) /\ PartOffset(T) \in Nat
    BY <1>6, FilePartLengths
  <2> HIDE DEF L, T
  <2>2. QED
    BY <1>5, <1>6, <2>1
<1>10. QED
  BY <1>4, <1>6, <1>7, <1>8, <1>9 DEF Tiles

----------------------------------------------------------------------------
(* The invariant is inductive                                               *)

\* The invariant holds when ct_archive_data_big is called.
LEMMA InitIInv == Init => IInv
<1> SUFFICES ASSUME Init PROVE IInv
  OBVIOUS
<1>1. size \in Nat \ {0} /\ TotalSeq(size) \in Nat \ {0}
  BY TotalSeqRoundsUp DEF Init
<1>2. None \in Intervals
  BY DEF None, Intervals
<1>3. /\ etags \in [1 .. TotalSeq(size) -> Intervals]
      /\ parts \in [1 .. TotalSeq(size) -> Intervals]
  BY <1>2 DEF Init
<1>4. TypeOK
  <2>1. /\ seq \in 1 .. TotalSeq(size) + 1 /\ contentLength \in 0 .. size
        /\ fdpos \in Nat /\ left \in 0 .. Chunk /\ next_etags_pos \in 0 .. TotalSeq(size)
        /\ retry_count \in 0 .. RETRYCOUNT /\ remaining \in 0 .. CommitLen
        /\ sent \in 0 .. CommitLen
    BY <1>1 DEF Init
  <2>2. /\ DOMAIN etags = 1 .. TotalSeq(size) /\ DOMAIN parts = 1 .. TotalSeq(size)
    BY <1>3
  <2>3. /\ pc = "init" /\ status = "ok" /\ rc = "err" /\ size \in Sizes
        /\ upload_id \in BOOLEAN /\ bodyOk \in BOOLEAN
    BY DEF Init
  <2>4. QED
    BY <2>1, <2>2, <2>3 DEF TypeOK
<1>5. Cursor
  <2>1. seq = 1 /\ contentLength = size /\ pc = "init"
    BY DEF Init
  <2>2. PartOffset(seq) = 0
    BY <2>1, PartOffsetSteps
  <2>3. QED
    BY <1>1, <2>1, <2>2 DEF Cursor
<1>6. Arrived /\ Committed
  BY <1>1 DEF Init, Arrived, Committed
<1>7. QED
  BY <1>3, <1>4, <1>5, <1>6 DEF IInv

\* Facts that every step uses.
LEMMA IInvFacts ==
    ASSUME IInv
    PROVE  /\ size \in Nat \ {0} /\ TotalSeq(size) \in Nat \ {0}
           /\ seq \in Nat \ {0} /\ seq <= TotalSeq(size) + 1
BY TotalSeqRoundsUp DEF IInv, TypeOK

\* Opening the upload, or failing to, preserves it.
LEMMA OpenIInv ==
    ASSUME IInv, NoStripe \/ Initiate
    PROVE  IInv'
<1>1. /\ UNCHANGED <<size, status, rc, store, partVars, commitVars>>
      /\ pc = "init" /\ pc' \in {"init", "part", "done"}
  BY DEF NoStripe, Initiate
<1>2. upload_id' \in BOOLEAN
  BY DEF IInv, TypeOK, NoStripe, Initiate, KeepUploadId
<1>3. retry_count' \in 0 .. RETRYCOUNT
  <2>1. \/ retry_count' = retry_count
        \/ retry_count > 0 /\ retry_count' = retry_count - 1
    BY DEF NoStripe, Initiate, ShouldRetry, OutOfRetries
  <2>2. QED
    BY <2>1 DEF IInv, TypeOK
<1>4. TypeOK'
  BY <1>1, <1>2, <1>3 DEF IInv, TypeOK, partVars, commitVars, store
<1>5. QED
  BY <1>1, <1>4 DEF IInv, Cursor, Arrived, Committed, FilePart, FileParts,
     partVars, commitVars, store

\* The head of the part loop preserves it.
LEMMA StartPartIInv ==
    ASSUME IInv, StartPart
    PROVE  IInv'
<1>1. /\ UNCHANGED <<size, upload_id, status, rc, parts, object, remaining, bodyOk, sent,
                     seq, contentLength, fdpos, etags, next_etags_pos>>
      /\ pc = "part" /\ pc' \in {"upload", "build"}
      /\ pc' = "upload" <=> seq <= TotalSeq(size)
  BY DEF StartPart, store, commitVars
<1>2. left' \in 0 .. Chunk /\ retry_count' \in 0 .. RETRYCOUNT
  BY IInvFacts DEF IInv, TypeOK, StartPart, PartContentLength
<1>3. TypeOK'
  BY <1>1, <1>2 DEF IInv, TypeOK
<1>4. Cursor'
  BY <1>1, IInvFacts DEF IInv, Cursor
<1>5. QED
  BY <1>1, <1>3, <1>4 DEF IInv, Arrived, Committed, FilePart, FileParts

\* One upload of a part, whole or broken off, answered or not, preserves it.
LEMMA UploadPartIInv ==
    ASSUME IInv, UploadPart
    PROVE  IInv'
<1>1. /\ UNCHANGED <<size, upload_id, retry_count, rc, object, seq, contentLength,
                     remaining, bodyOk, sent>>
      /\ pc = "upload" /\ pc' = "check" /\ status' \in {"ok", "retryable", "fatal"}
  BY DEF UploadPart, PartCompleted, commitVars
<1>2. PICK n \in 0 .. left :
        /\ fdpos' = PartOffset(seq) + n /\ left' = left - n
        /\ \/ /\ n = PartContentLength(contentLength)
              /\ parts' = [parts EXCEPT ![seq] = Interval(PartOffset(seq), n)]
              /\ \/ PartAnswered(Interval(PartOffset(seq), n))
                 \/ UNCHANGED <<etags, next_etags_pos>>
           \/ UNCHANGED <<parts, etags, next_etags_pos>>
  BY DEF UploadPart
<1>3. seq \in 1 .. TotalSeq(size) /\ contentLength = size - PartOffset(seq)
  BY <1>1, IInvFacts DEF IInv, Cursor
<1>4. FilePart(seq) \in Intervals /\ PartOffset(seq) \in Nat
  BY <1>3, IInvFacts, FilePartType, FilePartLengths
<1>5. n = PartContentLength(contentLength) => Interval(PartOffset(seq), n) = FilePart(seq)
  BY <1>3 DEF FilePart
<1>6. /\ parts' = parts \/ parts' = [parts EXCEPT ![seq] = FilePart(seq)]
      /\ \/ UNCHANGED <<etags, next_etags_pos>>
         \/ /\ parts' = [parts EXCEPT ![seq] = FilePart(seq)]
            /\ etags' = [etags EXCEPT ![seq] = FilePart(seq)]
            /\ next_etags_pos' = seq
  BY <1>2, <1>5 DEF PartAnswered
<1>7. /\ etags' \in [1 .. TotalSeq(size) -> Intervals]
      /\ parts' \in [1 .. TotalSeq(size) -> Intervals]
  BY <1>3, <1>4, <1>6 DEF IInv
<1>8. TypeOK'
  <2>1. left' \in 0 .. Chunk /\ fdpos' \in Nat
    BY <1>2, <1>4 DEF IInv, TypeOK
  <2>2. next_etags_pos' \in 0 .. TotalSeq(size)
    BY <1>3, <1>6 DEF IInv, TypeOK
  <2>3. QED
    BY <1>1, <1>7, <2>1, <2>2 DEF IInv, TypeOK
<1>9. Cursor'
  BY <1>1 DEF IInv, Cursor
<1>10. Arrived'
  <2>1. next_etags_pos' <= seq
    BY <1>6, IInvFacts DEF IInv, Arrived
  <2>2. \A i : FilePart(i)' = FilePart(i)
    BY <1>1 DEF FilePart
  <2>3. ASSUME NEW i \in 1 .. TotalSeq(size), i < seq \/ (i = seq /\ next_etags_pos' = seq)
        PROVE  parts'[i] = FilePart(i) /\ etags'[i] = FilePart(i)
    <3>1. CASE i < seq
      <4>1. parts[i] = FilePart(i) /\ etags[i] = FilePart(i) /\ i # seq
        BY <1>3, <3>1 DEF IInv, Arrived
      <4>2. QED
        BY <1>6, <4>1 DEF IInv
    <3>2. CASE i = seq /\ next_etags_pos' = seq
      <4>1. CASE UNCHANGED <<etags, next_etags_pos>>
        BY <1>3, <1>6, <3>2, <4>1 DEF IInv, Arrived
      <4>2. CASE parts' = [parts EXCEPT ![seq] = FilePart(seq)]
                 /\ etags' = [etags EXCEPT ![seq] = FilePart(seq)]
        BY <1>3, <3>2, <4>2 DEF IInv
      <4>3. QED
        BY <1>6, <4>1, <4>2
    <3>3. QED
      BY <2>3, <3>1, <3>2
  <2>4. QED
    BY <1>1, <2>1, <2>2, <2>3 DEF Arrived
<1>11. Committed'
  BY <1>1 DEF IInv, Committed, FileParts, FilePart
<1>12. QED
  BY <1>1, <1>7, <1>8, <1>9, <1>10, <1>11 DEF IInv

\* The verdict on a part preserves it: only a part whose answer has set
\* next_etags_pos is left behind.
LEMMA CheckPartIInv ==
    ASSUME IInv, CheckPart
    PROVE  IInv'
<1>1. /\ UNCHANGED <<size, upload_id, rc, parts, object, fdpos, left, etags,
                     next_etags_pos, remaining, bodyOk, sent>>
      /\ pc = "check" /\ pc' \in {"upload", "part", "done"}
      /\ status' \in {"ok", "retryable", "fatal"}
      /\ retry_count' \in 0 .. RETRYCOUNT
      /\ \A i : FilePart(i)' = FilePart(i)
      /\ FileParts' = FileParts
  BY DEF CheckPart, PartStatus, ShouldRetry, OutOfRetries, IInv, TypeOK, store,
     commitVars, FilePart, FileParts
<1>2. seq \in 1 .. TotalSeq(size) /\ contentLength = size - PartOffset(seq)
  BY <1>1, IInvFacts DEF IInv, Cursor
<1>3. Committed'
  <2>1. rc # "ok"
    BY <1>1 DEF IInv, Committed
  <2>2. QED
    BY <1>1, <2>1 DEF IInv, Committed
<1>4. CASE UNCHANGED <<seq, contentLength>> /\ pc' \in {"upload", "done"}
  <2>1. TypeOK'
    BY <1>1, <1>4 DEF IInv, TypeOK
  <2>2. Cursor' /\ Arrived'
    BY <1>1, <1>2, <1>4 DEF IInv, Cursor, Arrived
  <2>3. QED
    BY <1>1, <1>3, <2>1, <2>2 DEF IInv
<1>5. CASE /\ status' = "ok" /\ status' = PartStatus /\ pc' = "part" /\ seq' = seq + 1
           /\ contentLength' = contentLength - PartContentLength(contentLength)
  <2>1. next_etags_pos = seq
    BY <1>5 DEF PartStatus
  <2>2. /\ PartOffset(seq) \in Nat /\ PartOffset(seq) < size
        /\ PartContentLength(contentLength) \in 1 .. Chunk
        /\ seq < TotalSeq(size) => PartContentLength(contentLength) = Chunk
        /\ seq = TotalSeq(size) => PartContentLength(contentLength) = contentLength
    BY <1>2, IInvFacts, FilePartLengths
  <2>3. /\ seq' <= TotalSeq(size) => contentLength' = size - PartOffset(seq')
        /\ seq' = TotalSeq(size) + 1 => contentLength' = 0
    <3>1. PartOffset(seq + 1) = PartOffset(seq) + Chunk
      BY <1>2, IInvFacts, PartOffsetSteps
    <3>2. QED
      BY <1>2, <1>5, <2>2, <3>1, IInvFacts
  <2>4. seq' \in 1 .. TotalSeq(size) + 1
    BY <1>2, <1>5, IInvFacts
  <2>5. contentLength' \in 0 .. size
    BY <1>2, <1>5, <2>2, IInvFacts DEF PartContentLength
  <2>6. TypeOK'
    BY <1>1, <1>5, <2>4, <2>5 DEF IInv, TypeOK
  <2>7. Cursor'
    BY <1>1, <1>5, <2>3 DEF Cursor
  <2>8. Arrived'
    <3>1. next_etags_pos <= seq + 1
      BY <1>2, <2>1, IInvFacts
    <3>2. \A i \in 1 .. TotalSeq(size) :
            i < seq + 1 \/ (i = seq + 1 /\ next_etags_pos = seq + 1) =>
                parts[i] = FilePart(i) /\ etags[i] = FilePart(i)
      BY <1>2, <2>1, IInvFacts DEF IInv, Arrived
    <3>3. QED
      BY <1>1, <1>5, <3>1, <3>2 DEF Arrived
  <2>9. QED
    BY <1>1, <1>3, <2>6, <2>7, <2>8 DEF IInv
<1>6. QED
  BY <1>4, <1>5 DEF CheckPart

\* Behind the part loop the etags and the store are the parts of the file.
LEMMA AllArrived ==
    ASSUME IInv, seq = TotalSeq(size) + 1
    PROVE  etags = FileParts /\ parts = FileParts
<1>1. \A i \in 1 .. TotalSeq(size) : parts[i] = FilePart(i) /\ etags[i] = FilePart(i)
  BY IInvFacts DEF IInv, Arrived
<1>2. QED
  BY <1>1 DEF IInv, FileParts

\* What was sent and what remains: nothing sent yet, and nothing remaining.
LEMMA SentAndRemaining ==
    \A s, r \in Nat :
        /\ s = 0 /\ r <= CommitLen => s + r <= CommitLen
        /\ s = 0 /\ r = CommitLen => s + r = CommitLen
        /\ s + r = CommitLen /\ r = 0 => s = CommitLen
OBVIOUS

\* Building the body of the commit preserves it.
LEMMA BuildCommitIInv ==
    ASSUME IInv, BuildCommit
    PROVE  IInv'
<1>1. /\ UNCHANGED <<size, upload_id, status, rc, store, partVars, sent>>
      /\ pc = "build" /\ pc' = "commit"
      /\ remaining' \in 0 .. CommitLen /\ retry_count' \in 0 .. RETRYCOUNT
      /\ \/ remaining' = CommitLen /\ bodyOk' = bodyOk
         \/ bodyOk' = FALSE
  BY DEF BuildCommit, AppendPieces
<1>2. bodyOk' \in BOOLEAN
  BY DEF BuildCommit, AppendPieces, IInv, TypeOK
<1>3. TypeOK'
  BY <1>1, <1>2 DEF IInv, TypeOK, partVars, store
<1>4. Committed'
  <2>1. sent = 0 /\ rc # "ok" /\ FileParts' = FileParts
    BY <1>1 DEF IInv, Committed, FileParts, FilePart
  <2>2. sent' = 0 /\ rc' # "ok" /\ (bodyOk' => bodyOk /\ remaining' = CommitLen)
    <3>1. sent' = 0 /\ rc' # "ok"
      BY <1>1, <2>1
    <3>2. bodyOk' => bodyOk /\ remaining' = CommitLen
      BY <1>1, Zenon
    <3>3. QED
      BY <3>1, <3>2
  <2>3. /\ sent' + remaining' <= CommitLen
        /\ remaining' = CommitLen => sent' + remaining' = CommitLen
    <3>1. remaining' \in Nat /\ remaining' <= CommitLen /\ sent' = 0
      BY <1>1, <2>2
    <3>2. QED
      BY <3>1, SentAndRemaining
  <2>4. object' = <<>> \/ object' = FileParts \/ ~bodyOk'
    BY <1>1, <2>2 DEF IInv, Committed, store
  <2>5. QED
    BY <1>1, <2>1, <2>2, <2>3, <2>4, Zenon DEF Committed
<1>5. QED
  BY <1>1, <1>3, <1>4 DEF IInv, Cursor, Arrived, FilePart, FileParts,
     partVars, store

\* A commit, sent whole or in part, accepted or not, preserves it.
LEMMA CommitIInv ==
    ASSUME IInv, Commit
    PROVE  IInv'
<1>1. /\ UNCHANGED <<size, upload_id, status, parts, partVars, bodyOk>>
      /\ pc = "commit" /\ FileParts' = FileParts
  BY DEF Commit, CommitCompleted, FileParts, FilePart
<1>2. PICK n \in 0 .. remaining :
        /\ remaining' = remaining - n /\ sent' = sent + n
        /\ object' = etags \/ ~bodyOk \/ UNCHANGED object
        /\ CommitEnds(remaining - n)
  BY DEF Commit, ReadBody
<1>3. seq = TotalSeq(size) + 1 /\ etags = FileParts
  BY <1>1, AllArrived DEF IInv, Cursor
<1>4. /\ remaining' \in 0 .. CommitLen /\ sent' \in 0 .. CommitLen
      /\ sent' + remaining' = sent + remaining
  BY <1>1, <1>2 DEF IInv, TypeOK, Committed
<1>5. /\ pc' \in {"commit", "done"} /\ retry_count' \in 0 .. RETRYCOUNT
      /\ rc' = "ok" => (rc = "ok" \/ remaining' = 0) /\ (rc = "ok" \/ pc' = "done")
      /\ rc' \in {"ok", "err"}
  BY <1>1, <1>2, <1>4 DEF CommitEnds, ShouldRetry, OutOfRetries, IInv, TypeOK
<1>6. TypeOK'
  BY <1>1, <1>4, <1>5 DEF IInv, TypeOK, partVars
<1>7. Committed'
  <2>1. rc # "ok"
    BY <1>1 DEF IInv, Committed
  <2>2. object' = <<>> \/ object' = FileParts \/ ~bodyOk
    BY <1>2, <1>3 DEF IInv, Committed
  <2>3. rc' = "ok" => remaining' = 0 /\ pc' = "done"
    BY <1>5, <2>1
  <2>4. sent' + remaining' <= CommitLen /\ (bodyOk => sent' + remaining' = CommitLen)
    BY <1>1, <1>4 DEF IInv, Committed
  <2>5. bodyOk /\ remaining' = 0 => sent' = CommitLen
    <3>1. sent' + remaining' = CommitLen /\ remaining' = 0 => sent' = CommitLen
      <4>1. remaining' \in Nat /\ sent' \in Nat
        BY <1>4
      <4>2. QED
        BY <4>1, SentAndRemaining
    <3>2. QED
      BY <2>4, <3>1, Zenon
  <2>6. seq' = TotalSeq(size') + 1
    BY <1>1, <1>3 DEF partVars
  <2>7. QED
    BY <1>1, <1>5, <2>2, <2>3, <2>4, <2>5, <2>6, Zenon DEF Committed, partVars
<1>8. Cursor' /\ Arrived'
  BY <1>1, <1>3, <1>5 DEF IInv, Cursor, Arrived, FilePart, partVars
<1>9. QED
  BY <1>1, <1>6, <1>7, <1>8 DEF IInv, partVars

\* Every step preserves it, and so does a stuttering one.
LEMMA NextIInv == IInv /\ [Next]_vars => IInv'
<1>1. ASSUME IInv, UNCHANGED vars PROVE IInv'
  <2>1. TypeOK'
    BY <1>1 DEF IInv, TypeOK, vars, store, partVars, commitVars
  <2>2. QED
    BY <1>1, <2>1 DEF IInv, Cursor, Arrived, Committed, FilePart, FileParts,
       vars, store, partVars, commitVars
<1>2. QED
  BY <1>1, OpenIInv, StartPartIInv, UploadPartIInv, CheckPartIInv,
     BuildCommitIInv, CommitIInv DEF Next, Done

\* The inductive invariant holds of every state of the upload.
LEMMA IInvHolds == Spec => []IInv
BY InitIInv, NextIInv, PTL DEF Spec

----------------------------------------------------------------------------

\* The part number, the rest of the file and of the commit's body, and the
\* count of retries stay within their bounds.
THEOREM TypeCorrect == Spec => []TypeOK
<1>1. IInv => TypeOK
  BY DEF IInv
<1>2. QED
  BY <1>1, IInvHolds, PTL

\* Whatever was retried, lost or answered late, an object that the upload
\* makes is the whole file, if there was memory for the list of parts.
THEOREM WholeFile == Spec => []ObjectIsWholeFile
<1>1. IInv => ObjectIsWholeFile
  BY IInvFacts, FilePartsTile DEF IInv, Committed, ObjectIsWholeFile
<1>2. QED
  BY <1>1, IInvHolds, PTL

\* When the commit is built, no etag is missing and each is that of the part
\* which the store holds.
THEOREM NoEtagMissing == Spec => []EtagsComplete
<1>1. IInv => EtagsComplete
  BY IInvFacts, FilePartsTile, AllArrived DEF IInv, Cursor, EtagsComplete
<1>2. QED
  BY <1>1, IInvHolds, PTL

\* Success follows a list of parts that was pulled to its end, by however many
\* attempts, for a file whose every part is in the store.
THEOREM SuccessFollowsCommit == Spec => []SuccessAfterCommit
<1>1. ASSUME IInv, rc = "ok"
      PROVE  Tiles(parts) /\ (bodyOk => sent = CommitLen)
  <2>1. seq = TotalSeq(size) + 1 /\ (bodyOk => sent = CommitLen)
    BY <1>1 DEF IInv, Committed
  <2>2. QED
    BY <1>1, <2>1, IInvFacts, FilePartsTile, AllArrived
<1>2. IInv => SuccessAfterCommit
  BY <1>1 DEF SuccessAfterCommit
<1>3. QED
  BY <1>2, IInvHolds, PTL
=============================================================================
