-------------------------- MODULE MultipartUpload ---------------------------
(***************************************************************************)
(* ct_archive_data_big (lhsmtool_s3.c) with its callbacks (s3_callback.c): *)
(* a large file is uploaded part by part and then committed.  A part is    *)
(* read from the file through multipart_put_objectdata_callback, its       *)
(* answer sets the part's etag and next_etags_pos, and it is retried while *)
(* next_etags_pos does not say that it arrived.  The commit sends the list *)
(* of etags from a growbuffer.                                             *)
(*                                                                         *)
(* The object store is external: it keeps a part when it has got the whole *)
(* declared body, makes the object out of the parts a complete commit      *)
(* names, and any of its answers may be lost or come late.  Bytes are      *)
(* units, and a part is the interval of the file it was read from.  The    *)
(* progress reports in between change nothing: their failure is logged.    *)
(***************************************************************************)
EXTENDS Integers, Sequences

CONSTANTS Chunk,            \* s3_chunk_size (see ChunkSize)
          Sizes,            \* the file sizes that are uploaded
          RETRYCOUNT,
          CommitLen,        \* the length of the commit's body, in units
          RetryableLengths  \* lengths that read as a retryable S3Status

ASSUME ChunkAssumption == Chunk \in Nat \ {0}
ASSUME SizesAssumption == Sizes \subseteq Nat \ {0}
ASSUME RetryAssumption == RETRYCOUNT \in Nat
ASSUME CommitAssumption ==
    CommitLen \in Nat \ {0} /\ RetryableLengths \subseteq 1 .. CommitLen

VARIABLES pc,
          size,              \* src_st->st_size
          upload_id,         \* manager.upload_id is set
          seq,               \* the part that is being uploaded
          contentLength,     \* bytes of the file in this and later parts
          fdpos,             \* the position of the file descriptor
          left,              \* put_object_data.contentLength
          status,            \* put_object_data.status
          retry_count,
          etags,             \* manager.etags, as the part they name
          next_etags_pos,
          remaining,         \* manager.remaining
          bodyOk,            \* no growbuffer_append has failed
          sent,              \* history: units of the body that were pulled
          rc,
          parts, object      \* external: what the store holds

store == <<parts, object>>
partVars == <<seq, contentLength, fdpos, left, etags, next_etags_pos>>
commitVars == <<remaining, bodyOk, sent>>
vars == <<pc, size, upload_id, status, retry_count, rc, store, partVars, commitVars>>

None == [from |-> 0, len |-> 0]
Interval(from, len) == [from |-> from, len |-> len]

\* total_seq
TotalSeq(sz) == (sz + Chunk - 1) \div Chunk

PartContentLength(rest) == IF rest > Chunk THEN Chunk ELSE rest

TypeOK ==
    /\ pc \in {"init", "part", "upload", "check", "build", "commit", "done"}
    /\ size \in Sizes /\ upload_id \in BOOLEAN
    /\ seq \in 1 .. TotalSeq(size) + 1
    /\ contentLength \in 0 .. size /\ fdpos \in Nat /\ left \in 0 .. Chunk
    /\ status \in {"ok", "retryable", "fatal"}
    /\ retry_count \in 0 .. RETRYCOUNT
    /\ next_etags_pos \in 0 .. TotalSeq(size)
    /\ DOMAIN etags = 1 .. TotalSeq(size) /\ DOMAIN parts = 1 .. TotalSeq(size)
    /\ remaining \in 0 .. CommitLen /\ bodyOk \in BOOLEAN /\ sent \in 0 .. CommitLen
    /\ rc \in {"ok", "err"}

Init ==
    /\ pc = "init"
    /\ size \in Sizes
    /\ upload_id = FALSE
    /\ seq = 1 /\ contentLength = size /\ fdpos = 0 /\ left = 0
    /\ status = "ok" /\ retry_count = RETRYCOUNT
    /\ etags = [i \in 1 .. TotalSeq(size) |-> None] /\ next_etags_pos = 0
    /\ remaining = 0 /\ bodyOk = TRUE /\ sent = 0
    /\ rc = "err"
    /\ parts = [i \in 1 .. TotalSeq(size) |-> None] /\ object = <<>>

\* should_retry; a count that is used up is not looked at again.
ShouldRetry == retry_count > 0 /\ retry_count' = retry_count - 1
OutOfRetries == retry_count = 0 /\ UNCHANGED retry_count

----------------------------------------------------------------------------

\* ct_save_stripe fails: return before anything is acquired.
NoStripe ==
    /\ pc = "init" /\ ~upload_id /\ retry_count = RETRYCOUNT
    /\ pc' = "done"
    /\ UNCHANGED <<size, upload_id, status, retry_count, rc, store, partVars,
                   commitVars>>

\* initial_multipart_response_callback keeps a non-empty upload id only.
KeepUploadId(answered) == upload_id' = (upload_id \/ answered)

\* S3_initiate_multipart; without an upload id the call counts as
\* S3StatusErrorInternalError, which is retryable.
Initiate ==
    /\ pc = "init"
    /\ \/ KeepUploadId(TRUE) /\ pc' = "part" /\ UNCHANGED retry_count
       \/ KeepUploadId(FALSE) /\ ShouldRetry /\ UNCHANGED pc
       \/ KeepUploadId(FALSE) /\ OutOfRetries /\ pc' = "done"
    /\ UNCHANGED <<size, status, rc, store, partVars, commitVars>>

\* The head of the part loop: the callback data is set for this part.
StartPart ==
    /\ pc = "part"
    /\ IF seq <= TotalSeq(size)
         THEN /\ pc' = "upload"
              /\ left' = PartContentLength(contentLength)
              /\ retry_count' = RETRYCOUNT
         ELSE pc' = "build" /\ UNCHANGED <<left, retry_count>>
    /\ UNCHANGED <<size, upload_id, status, rc, store, commitVars, seq,
                   contentLength, fdpos, etags, next_etags_pos>>

\* Mutant: part numbers start at one, offsets too.
PartOffsetNext(s) == s * Chunk

\* lseek(data.fd, (seq - 1) * s3_chunk_size, SEEK_SET)
PartOffset(s) == (s - 1) * Chunk

\* Mutant: the etag goes to the next slot when there is one.
PartAnsweredShifted(body) ==
    /\ etags' = [etags EXCEPT ![IF seq < TotalSeq(size) THEN seq + 1 ELSE seq] = body]
    /\ next_etags_pos' = seq

\* multipart_put_part_response_properies_callback
PartAnswered(body) ==
    /\ etags' = [etags EXCEPT ![seq] = body]
    /\ next_etags_pos' = seq

\* multipart_put_response_complete_callback records how the call ended.
PartCompleted(outcomes) == status' \in outcomes

\* S3_upload_part: the body is pulled from the file, n units of it (fewer
\* than wanted when the connection or a read fails); the store keeps a whole
\* part; the answer's header arrives or is lost, and the call ends.
UploadPart ==
    /\ pc = "upload" /\ pc' = "check"
    /\ \E n \in 0 .. left :
         LET body == Interval(PartOffset(seq), n)
         IN  /\ fdpos' = PartOffset(seq) + n
             /\ left' = left - n
             /\ \/ /\ n = PartContentLength(contentLength)
                   /\ parts' = [parts EXCEPT ![seq] = body]
                   /\ \/ /\ PartAnswered(body)
                         /\ PartCompleted({"ok", "retryable", "fatal"})
                      \/ /\ PartCompleted({"retryable", "fatal"})
                         /\ UNCHANGED <<etags, next_etags_pos>>
                \/ /\ PartCompleted({"retryable", "fatal"})
                   /\ UNCHANGED <<parts, etags, next_etags_pos>>
    /\ UNCHANGED <<size, upload_id, retry_count, rc, object, seq,
                   contentLength, commitVars>>

\* "mark status as S3StatusErrorRequestTimeout for retry"
PartStatus == IF next_etags_pos # seq THEN "retryable" ELSE status

\* Mutant: the retry loop does not count.
CheckPartForever ==
    /\ pc = "check"
    /\ status' = PartStatus
    /\ \/ status' = "retryable" /\ pc' = "upload"
          /\ UNCHANGED <<retry_count, seq, contentLength>>
       \/ status' = "fatal" /\ pc' = "done"
          /\ UNCHANGED <<retry_count, seq, contentLength>>
       \/ status' = "ok" /\ pc' = "part" /\ seq' = seq + 1
          /\ contentLength' = contentLength - PartContentLength(contentLength)
          /\ UNCHANGED retry_count
    /\ UNCHANGED <<size, upload_id, rc, store, fdpos, left, etags,
                   next_etags_pos, commitVars>>

\* Retry, give up, or go on to the next part.  The retry does not set
\* put_object_data.contentLength again.
CheckPart ==
    /\ pc = "check"
    /\ status' = PartStatus
    /\ \/ status' = "retryable" /\ ShouldRetry /\ pc' = "upload"
          /\ UNCHANGED <<seq, contentLength>>
       \/ status' = "retryable" /\ OutOfRetries /\ pc' = "done"
          /\ UNCHANGED <<seq, contentLength>>
       \/ status' = "fatal" /\ pc' = "done"
          /\ UNCHANGED <<retry_count, seq, contentLength>>
       \/ status' = "ok" /\ pc' = "part" /\ seq' = seq + 1
          /\ contentLength' = contentLength - PartContentLength(contentLength)
          /\ UNCHANGED retry_count
    /\ UNCHANGED <<size, upload_id, rc, store, fdpos, left, etags,
                   next_etags_pos, commitVars>>

\* growbuffer_append, for each piece of the body: a piece for which there is
\* no memory adds nothing to the length and is not whole in the body.
AppendPieces ==
    \/ remaining' = CommitLen /\ UNCHANGED bodyOk
    \/ remaining' \in 0 .. CommitLen - 1 /\ bodyOk' = FALSE

\* The commit body: nobody looks whether every piece was appended.
BuildCommit ==
    /\ pc = "build" /\ pc' = "commit"
    /\ AppendPieces
    /\ retry_count' = RETRYCOUNT
    /\ UNCHANGED <<size, upload_id, status, rc, store, partVars, sent>>

\* Mutant: a commit that was cut short counts as done.
CommitEndsAnyway(left_over) ==
    /\ pc' = "done" /\ rc' = "ok"
    /\ UNCHANGED retry_count

\* The loop's condition and the check after it both take the unsent rest of
\* the body for the status of the call.
CommitEnds(left_over) ==
    \/ left_over = 0 /\ pc' = "done" /\ rc' = "ok" /\ UNCHANGED retry_count
    \/ left_over \in RetryableLengths /\ ShouldRetry /\ UNCHANGED <<pc, rc>>
    \/ /\ left_over > 0 /\ pc' = "done" /\ UNCHANGED rc
       /\ \/ left_over \notin RetryableLengths /\ UNCHANGED retry_count
          \/ left_over \in RetryableLengths /\ OutOfRetries

\* growbuffer_read: what has been read is gone, a retry cannot send it again.
ReadBody(n) == remaining' = remaining - n /\ sent' = sent + n

\* The etags of a list that lost some of its part elements.
SomeParts ==
    LET all == {etags[i] : i \in DOMAIN etags}
        Of(kept) == LET Keep(e) == e \in kept IN SelectSeq(etags, Keep)
    IN  {Of(kept) : kept \in SUBSET all \ {{}, all}}

\* multipart_commit_response_complete_callback logs the status and drops it.
CommitCompleted == UNCHANGED status

\* S3_complete_multipart_upload: n units of the rest of the body are pulled by
\* multipart_commit_response_callback; the store makes the object of the parts
\* that a list names which came in one request, or refuses.  A list that
\* lacks whole part elements is a list of fewer parts.
Commit ==
    /\ pc = "commit"
    /\ \E n \in 0 .. remaining :
         /\ ReadBody(n)
         /\ \/ /\ n = CommitLen /\ bodyOk /\ etags = parts
               /\ object' = etags
            \/ /\ n = remaining /\ sent = 0 /\ n > 0 /\ ~bodyOk
               /\ object' \in SomeParts
            \/ UNCHANGED object
         /\ CommitEnds(remaining - n)
    /\ CommitCompleted
    /\ UNCHANGED <<size, upload_id, parts, partVars, bodyOk>>

Done == pc = "done" /\ UNCHANGED vars

Next == NoStripe \/ Initiate \/ StartPart \/ UploadPart \/ CheckPart
        \/ BuildCommit \/ Commit \/ Done

\* Every S3 call is assumed to return, and the thread is scheduled.
Spec == Init /\ [][Next]_vars /\ WF_vars(Next)

----------------------------------------------------------------------------
(* Properties                                                               *)

\* The parts s holds are the file: in order, without gap or overlap, to the end.
Tiles(s) ==
    /\ s # <<>> /\ s[1].from = 0
    /\ \A i \in 2 .. Len(s) : s[i].from = s[i - 1].from + s[i - 1].len
    /\ s[Len(s)].from + s[Len(s)].len = size

\* Whatever was retried, lost or answered late, the object is the whole file,
\* as long as there was memory for every piece of the commit's body.
ObjectIsWholeFile == object # <<>> /\ bodyOk => Tiles(object)

\* When the commit is built, every part has an etag, that of what the store
\* holds for it (a NULL etag would be formatted into the body).
EtagsComplete ==
    pc \in {"build", "commit"} => Tiles(etags) /\ etags = parts

\* Success is returned only for a file whose every part the store holds, and
\* after every unit of the list of parts was pulled, perhaps by several
\* attempts that each sent a piece of it, if there was memory for the list.
\* What the store made of it is another matter (SuccessIsStored).
SuccessAfterCommit ==
    pc = "done" /\ rc = "ok" => Tiles(parts) /\ (bodyOk => sent = CommitLen)

\* The upload ends, after at most RETRYCOUNT retries of each request.
UploadEnds == <>(pc = "done")

\* Success is returned only for an object that is in the store ("Success
\* archive file '%s' to HSM backend", ct_common.c:333).
SuccessIsStored == pc = "done" /\ rc = "ok" => object # <<>>

============================================================================
