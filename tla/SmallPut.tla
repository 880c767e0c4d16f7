------------------------------ MODULE SmallPut ------------------------------
(***************************************************************************)
(* ct_archive_data (lhsmtool_s3.c): a file below the multipart threshold   *)
(* is read into one buffer and put with S3_put_object, which pulls the     *)
(* body through put_objectdata_callback and is retried while the status is *)
(* retryable.  The request is the whole file, as the coordinator sends it. *)
(*                                                                         *)
(* The object store is external: it keeps an object only when it has got   *)
(* the whole declared body, and its answer may be lost on the way back.    *)
(* Bytes are units; a body is the interval of the buffer it was made of.   *)
(***************************************************************************)
EXTENDS Integers

CONSTANTS MaxSize,     \* bound: the largest file, in units
          RETRYCOUNT   \* retries of one S3 request

ASSUME MaxSizeAssumption == MaxSize \in Nat
ASSUME RetryAssumption == RETRYCOUNT \in Nat

VARIABLES ppc,            \* the place in ct_archive_data
          size,           \* src_st->st_size, the declared body length
          dbuf,           \* the buffer: "null", "empty", "file"
          buffer_offset,  \* data.buffer_offset
          contentLength,  \* data.contentLength
          status,         \* data.status: "ok", "retryable", "fatal"
          retry_count,
          put_rc,         \* rc: "ok" or "err"
          object          \* what the store holds under the name

putVars == <<ppc, size, dbuf, buffer_offset, contentLength, status, retry_count,
             put_rc, object>>

NoObject == [from |-> 0, len |-> -1]
Body(from, len) == [from |-> from, len |-> len]

PutTypeOK ==
    /\ ppc \in {"stripe", "progress", "alloc", "read", "put", "check", "out", "done"}
    /\ size \in 0 .. MaxSize
    /\ dbuf \in {"null", "empty", "file"}
    /\ buffer_offset \in 0 .. MaxSize /\ contentLength \in 0 .. MaxSize
    /\ status \in {"ok", "retryable", "fatal"}
    /\ retry_count \in -1 .. RETRYCOUNT
    /\ put_rc \in {"ok", "err"}
    /\ object \in [from : 0 .. MaxSize, len : -1 .. MaxSize]

PutInit ==
    /\ ppc = "stripe"
    /\ size \in 0 .. MaxSize
    /\ dbuf = "null" /\ buffer_offset = 0 /\ contentLength = 0
    /\ status = "ok" /\ retry_count = RETRYCOUNT /\ put_rc = "ok"
    /\ object = NoObject

----------------------------------------------------------------------------

\* ct_save_stripe: failing returns before anything is acquired.
SaveStripe ==
    /\ ppc = "stripe"
    /\ \/ ppc' = "progress" /\ UNCHANGED put_rc
       \/ ppc' = "done" /\ put_rc' = "err"
    /\ UNCHANGED <<size, dbuf, buffer_offset, contentLength, status,
                   retry_count, object>>

\* The first progress report; a failure is only logged, and rc is set again.
Progress ==
    /\ ppc = "progress"
    /\ ppc' = "alloc" /\ put_rc' \in {"ok", "err"}
    /\ UNCHANGED <<size, dbuf, buffer_offset, contentLength, status,
                   retry_count, object>>

\* quota_mem_alloc (see MemQuota); put_object_callback_data is zeroed.
Alloc ==
    /\ ppc = "alloc"
    /\ \/ dbuf' = "empty" /\ ppc' = "read" /\ UNCHANGED put_rc
       \/ ppc' = "out" /\ put_rc' = "err" /\ UNCHANGED dbuf
    /\ UNCHANGED <<size, buffer_offset, contentLength, status, retry_count, object>>

\* One read of the whole file; anything shorter is an error.
Read ==
    /\ ppc = "read"
    /\ \/ dbuf' = "file" /\ contentLength' = size /\ ppc' = "put" /\ UNCHANGED put_rc
       \/ ppc' = "out" /\ put_rc' = "err" /\ UNCHANGED <<dbuf, contentLength>>
    /\ UNCHANGED <<size, buffer_offset, status, retry_count, object>>

\* put_objectdata_callback, called until n units have been pulled.
Pulled(n) ==
    /\ buffer_offset' = buffer_offset + n
    /\ contentLength' = contentLength - n

\* S3_put_object with declared length size: the store pulls n units and keeps
\* the object when they are the whole body, whether or not its answer arrives.
PutObject ==
    /\ ppc = "put" /\ ppc' = "check"
    /\ \E n \in 0 .. contentLength :
         /\ Pulled(n)
         /\ \/ /\ n = size
               /\ object' = Body(buffer_offset, n)
               /\ status' \in {"ok", "retryable", "fatal"}
            \/ /\ status' \in {"retryable", "fatal"}
               /\ UNCHANGED object
    /\ UNCHANGED <<size, dbuf, retry_count, put_rc>>

\* Mutant: a retry pulls as much as the first attempt did.
RetryRefills ==
    /\ status = "retryable" /\ retry_count > 0
    /\ ppc' = "put" /\ retry_count' = retry_count - 1
    /\ contentLength' = size
    /\ UNCHANGED <<put_rc, buffer_offset>>

\* should_retry: the count is decremented even when it says no.  Neither
\* buffer_offset nor contentLength is set back for the retry.
Retry ==
    /\ status = "retryable" /\ retry_count > 0
    /\ ppc' = "put" /\ retry_count' = retry_count - 1
    /\ UNCHANGED <<put_rc, contentLength, buffer_offset>>

\* Mutant: the status of the last attempt is not looked at.
GiveUpQuietly ==
    /\ status # "ok" /\ ~(status = "retryable" /\ retry_count > 0)
    /\ ppc' = "out" /\ put_rc' = "ok"
    /\ UNCHANGED <<retry_count, contentLength, buffer_offset>>

GiveUp ==
    /\ status # "ok" /\ ~(status = "retryable" /\ retry_count > 0)
    /\ ppc' = "out" /\ put_rc' = "err"
    /\ retry_count' = IF status = "retryable" THEN retry_count - 1 ELSE retry_count
    /\ UNCHANGED <<contentLength, buffer_offset>>

PutDone ==
    /\ status = "ok"
    /\ ppc' = "out" /\ put_rc' = "ok"
    /\ UNCHANGED <<retry_count, contentLength, buffer_offset>>

CheckStatus ==
    /\ ppc = "check"
    /\ Retry \/ GiveUp \/ PutDone
    /\ UNCHANGED <<size, dbuf, status, object>>

\* Mutant: the buffer is released only after a successful put.
OutLeaks ==
    /\ ppc = "out" /\ ppc' = "done"
    /\ dbuf' = IF put_rc = "ok" THEN "null" ELSE dbuf
    /\ UNCHANGED <<size, buffer_offset, contentLength, status, retry_count,
                   put_rc, object>>

\* out: quota_mem_free when there is a buffer.
Out ==
    /\ ppc = "out" /\ ppc' = "done"
    /\ dbuf' = "null"
    /\ UNCHANGED <<size, buffer_offset, contentLength, status, retry_count,
                   put_rc, object>>

Done == ppc = "done" /\ UNCHANGED putVars

PutNext == SaveStripe \/ Progress \/ Alloc \/ Read \/ PutObject \/ CheckStatus
           \/ Out \/ Done

\* S3_put_object is assumed to return, and the thread is scheduled.
PutSpec == PutInit /\ [][PutNext]_putVars /\ WF_putVars(PutNext)

----------------------------------------------------------------------------
(* Properties                                                               *)

\* Whatever the attempts pulled before they failed, the store never holds
\* anything but the whole file from its first byte: the retries do not reset
\* the callback's cursor, and a cursor that has moved cannot make a body of
\* the declared length.
ObjectIsWholeFile == object # NoObject => object = Body(0, size)

\* ct_archive reports success to the coordinator only for an object that is
\* in the store.
SuccessIsStored == ppc = "done" /\ put_rc = "ok" => object # NoObject

\* The call ends, whatever fails and whichever of its gotos it takes, with the
\* quota charged for its buffer returned; a store that keeps failing is given
\* up after RETRYCOUNT retries.
PutEnds == <>(ppc = "done" /\ dbuf = "null")

============================================================================
