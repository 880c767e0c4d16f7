------------------------------ MODULE TlogRing ------------------------------
(***************************************************************************)
(* The asynchronous log (tlog.c) as the copytool uses it: one root log, in *)
(* block mode and without segments (tlog_init(..., 0, 0), main).  Threads  *)
(* append lines to a ring buffer under tlog.lock (_tlog_vprintf); one      *)
(* thread (_tlog_work) takes a snapshot of the ring under that lock,       *)
(* writes the bytes out WITHOUT it, and takes it again to release them.    *)
(* Writers that find too little room wait on a second condition variable,  *)
(* under a second lock (log->lock).  A section under a lock is one step.   *)
(*                                                                         *)
(* A byte is the stamp of the line it belongs to.  `pending' is the        *)
(* history of the bytes that were accepted and not yet handed to the       *)
(* output function; the ring has to hold exactly these.                    *)
(***************************************************************************)
EXTENDS Integers, Sequences

CONSTANTS Writers,      \* the threads that log
          BuffSize,     \* log->buffsize
          MaxLineSize,  \* log->max_line_size
          LineSizes,    \* the lengths of the formatted lines
          Stamps        \* lines are stamped 1 .. Stamps in turn

\* tlog_init wants room for two lines; the default is 128 lines.
ASSUME BuffAssumption == /\ MaxLineSize \in Nat \ {0}
                         /\ BuffSize \in Nat
                         /\ BuffSize >= 2 * MaxLineSize
\* _tlog_root_log_buffer keeps every line below max_line_size.
ASSUME LineAssumption == LineSizes \subseteq 1 .. MaxLineSize - 1
ASSUME StampAssumption == Stamps \in Nat \ {0}

VARIABLES start, end, ext_end,  \* the ring: the unread bytes are
                                \* start..end, or start..ext_end, 0..end
          buff,                 \* its bytes
          waiters,              \* writers that wait for room
          run, is_wait, notify_log,
          wpc,                  \* where each writer is
          rpc, snap,            \* where _tlog_work is; its locals
          stamp,                \* the stamp of the next line
          pending               \* history: accepted, not yet output

ring == <<start, end, ext_end, buff>>
history == <<stamp, pending>>
vars == <<ring, waiters, run, is_wait, notify_log, wpc, rpc, snap,
          history>>

NoSnap == [log_len |-> 0, log_extlen |-> 0, log_end |-> 0, log_extend |-> 0]
Offset == 0 .. BuffSize

TypeOK ==
    /\ start \in Offset /\ end \in Offset /\ ext_end \in Offset
    /\ buff \in [0 .. BuffSize - 1 -> 0 .. Stamps]
    /\ waiters \in Nat
    /\ run \in BOOLEAN /\ is_wait \in BOOLEAN /\ notify_log \in BOOLEAN
    /\ wpc \in [Writers -> {"idle", "try", "full", "wait", "woken"}]
    /\ rpc \in {"top", "scan", "wait", "woken", "write", "writeext",
                "release", "wakeup", "exit"}
    /\ snap \in [log_len : Offset, log_extlen : Offset, log_end : Offset,
                 log_extend : Offset]
    /\ stamp \in 1 .. Stamps
    /\ pending \in Seq(1 .. Stamps)

\* tlog_open: an empty log.
OpenLog ==
    /\ start = 0 /\ end = 0 /\ ext_end = 0
    /\ buff = [i \in 0 .. BuffSize - 1 |-> 0]
    /\ waiters = 0

\* tlog_init: the log is open and _tlog_work has started.
Init ==
    /\ OpenLog
    /\ run = TRUE /\ is_wait = FALSE /\ notify_log = FALSE
    /\ wpc = [w \in Writers |-> "idle"]
    /\ rpc = "top" /\ snap = NoSnap
    /\ stamp = 1 /\ pending = <<>>

WGoto(w, from, to) == wpc[w] = from /\ wpc' = [wpc EXCEPT ![w] = to]
RGoto(from, to) == rpc = from /\ rpc' = to

\* pthread_cond_signal(&tlog.cond): lost unless _tlog_work waits.
Wake == IF rpc = "wait" THEN "woken" ELSE rpc

\* _tlog_has_data
HasData == end # start \/ ext_end > 0

----------------------------------------------------------------------------
(* _tlog_vprintf                                                            *)

\* A thread logs a line: it is formatted into a buffer of its own.  Its length
\* matters first when it is copied.
Call(w) ==
    /\ rpc # "exit"
    /\ WGoto(w, "idle", "try")
    /\ UNCHANGED <<ring, waiters, run, is_wait, notify_log, rpc, snap,
                   history>>

\* Mutant: one byte too many once the ring has wrapped.
RoomOneMore ==
    IF end = start THEN IF ext_end = 0 THEN BuffSize - end ELSE 0
    ELSE IF end > start THEN BuffSize - end ELSE start - end + 1

\* Mutant: the unread bytes of a wrapped ring are not respected.
RoomNotReversed ==
    IF end = start /\ ext_end > 0 THEN 0 ELSE BuffSize - end

\* maxlen: the free bytes behind `end', in one piece.
Room ==
    IF end = start THEN IF ext_end = 0 THEN BuffSize - end ELSE 0
    ELSE IF end > start THEN BuffSize - end ELSE start - end

\* The line of n bytes is copied in; `end' moves to the front of the buffer
\* when what is left behind it may be too short for the next line.
CopyIn(n) ==
    /\ buff' = [i \in DOMAIN buff |->
                  IF i \in end .. end + n - 1 THEN stamp ELSE buff[i]]
    /\ IF end + n > BuffSize - MaxLineSize
       THEN ext_end' = end + n /\ end' = 0
       ELSE end' = end + n /\ UNCHANGED ext_end
    /\ pending' = pending \o [i \in 1 .. n |-> stamp]
    /\ stamp' = (stamp % Stamps) + 1
    /\ UNCHANGED start

\* Mutant: a waiting _tlog_work is not told of the line.
AppendLineSilent(w) ==
    /\ WGoto(w, "try", "idle")
    /\ Room >= MaxLineSize
    /\ \E n \in LineSizes : CopyIn(n)
    /\ UNCHANGED <<waiters, run, is_wait, snap, notify_log, rpc>>

\* There is room for any line.
AppendLine(w) ==
    /\ WGoto(w, "try", "idle")
    /\ Room >= MaxLineSize
    /\ \E n \in LineSizes : CopyIn(n)
    /\ IF is_wait THEN notify_log' = TRUE /\ rpc' = Wake
       ELSE UNCHANGED <<notify_log, rpc>>
    /\ UNCHANGED <<waiters, run, is_wait, snap>>

\* Too little room: _tlog_work is signalled and tlog.lock given up.
Full(w) ==
    /\ WGoto(w, "try", "full")
    /\ Room < MaxLineSize
    /\ IF end # start THEN notify_log' = TRUE /\ rpc' = Wake
       ELSE UNCHANGED <<notify_log, rpc>>
    /\ UNCHANGED <<ring, waiters, run, is_wait, snap, history>>

\* Mutant: the writer is not counted as it starts to wait.
WaitUncounted(w) ==
    /\ WGoto(w, "full", "wait")
    /\ UNCHANGED <<ring, waiters, run, is_wait, notify_log, rpc, snap,
                   history>>

\* Under log->lock: pthread_cond_wait(&log->client_cond).
Wait(w) ==
    /\ WGoto(w, "full", "wait")
    /\ waiters' = waiters + 1
    /\ UNCHANGED <<ring, run, is_wait, notify_log, rpc, snap, history>>

\* pthread_cond_wait may return without a signal.
SpuriousWakeup(w) ==
    /\ WGoto(w, "wait", "woken")
    /\ UNCHANGED <<ring, waiters, run, is_wait, notify_log, rpc, snap,
                   history>>

Woken(w) ==
    /\ WGoto(w, "woken", "try")
    /\ waiters' = waiters - 1
    /\ UNCHANGED <<ring, run, is_wait, notify_log, rpc, snap, history>>

----------------------------------------------------------------------------
(* _tlog_work and tlog_exit                                                 *)

\* The loop ends when the log is stopped and drained.
TopExit ==
    /\ ~ run /\ ~ HasData
    /\ RGoto("top", "exit")
    /\ UNCHANGED <<ring, waiters, run, is_wait, notify_log, wpc, snap,
                   history>>

Top ==
    /\ run \/ HasData
    /\ RGoto("top", "scan")
    /\ UNCHANGED <<ring, waiters, run, is_wait, notify_log, wpc, snap,
                   history>>

\* _tlog_wait_log_locked: nothing to write, wait for a writer.
ScanWait ==
    /\ ~ HasData /\ run
    /\ RGoto("scan", "wait")
    /\ is_wait' = TRUE
    /\ UNCHANGED <<ring, waiters, run, notify_log, wpc, snap, history>>

ScanEmpty ==
    /\ ~ HasData /\ ~ run
    /\ RGoto("scan", "top")
    /\ UNCHANGED <<ring, waiters, run, is_wait, notify_log, wpc, snap,
                   history>>

\* What _tlog_work computes under tlog.lock before it writes.
Snapshot ==
    snap' = [log_len    |-> IF end > start THEN end - start
                            ELSE IF ext_end > 0 THEN ext_end - start ELSE 0,
             log_extlen |-> IF end < start THEN end ELSE 0,
             log_end    |-> end,
             log_extend |-> ext_end]

ScanWrite ==
    /\ HasData
    /\ RGoto("scan", "write")
    /\ Snapshot
    /\ UNCHANGED <<ring, waiters, run, is_wait, notify_log, wpc, history>>

WorkSpurious ==
    /\ RGoto("wait", "woken")
    /\ UNCHANGED <<ring, waiters, run, is_wait, notify_log, wpc, snap,
                   history>>

\* The wait is over: back to the top without a notified log (tlog_exit, a
\* spurious wakeup) or without data, else to the write.
WorkWoken ==
    /\ is_wait' = FALSE
    /\ notify_log' = FALSE
    /\ IF notify_log /\ HasData
       THEN RGoto("woken", "write") /\ Snapshot
       ELSE RGoto("woken", "top") /\ UNCHANGED snap
    /\ UNCHANGED <<ring, waiters, run, wpc, history>>

\* The first n pending bytes are handed to the output function.
Output(n) ==
    /\ pending' = SubSeq(pending, n + 1, Len(pending))
    /\ UNCHANGED stamp

\* _tlog_write_buff_log, outside of the lock: from start, then from 0.
Write ==
    /\ RGoto("write", "writeext")
    /\ Output(snap.log_len)
    /\ UNCHANGED <<ring, waiters, run, is_wait, notify_log, wpc, snap>>

WriteExt ==
    /\ RGoto("writeext", "release")
    /\ Output(snap.log_extlen)
    /\ UNCHANGED <<ring, waiters, run, is_wait, notify_log, wpc, snap>>

\* Only what the snapshot had seen is released.
Release ==
    /\ RGoto("release", "wakeup")
    /\ start' = snap.log_end
    /\ ext_end' = IF snap.log_extend > 0 THEN 0 ELSE ext_end
    /\ snap' = NoSnap
    /\ UNCHANGED <<end, buff, waiters, run, is_wait, notify_log, wpc,
                   history>>

\* _tlog_wakeup_waiters, under log->lock.
WakeupWaiters ==
    /\ RGoto("wakeup", "top")
    /\ wpc' = [w \in Writers |->
                 IF waiters > 0 /\ wpc[w] = "wait" THEN "woken" ELSE wpc[w]]
    /\ UNCHANGED <<ring, waiters, run, is_wait, notify_log, snap,
                   history>>

\* tlog_exit: run is cleared, then the signal is sent under tlog.lock.  A
\* thread that does not wait by then sees run = 0 and never waits again.
Stop ==
    /\ run
    /\ run' = FALSE
    /\ UNCHANGED <<ring, waiters, is_wait, notify_log, wpc, rpc, snap,
                   history>>

StopSignal ==
    /\ ~ run
    /\ RGoto("wait", "woken")
    /\ UNCHANGED <<ring, waiters, run, is_wait, notify_log, wpc, snap,
                   history>>

WriterStep(w) == AppendLine(w) \/ Full(w) \/ Wait(w) \/ Woken(w)
WorkStep == \/ TopExit \/ Top \/ ScanWait \/ ScanEmpty \/ ScanWrite
            \/ WorkWoken \/ Write \/ WriteExt \/ Release \/ WakeupWaiters

Next == \/ \E w \in Writers : Call(w) \/ WriterStep(w) \/ SpuriousWakeup(w)
        \/ WorkStep \/ WorkSpurious \/ Stop \/ StopSignal

Spec == Init /\ [][Next]_vars

\* Every thread that can run does; nobody has to log or to stop the log.
FairSpec == /\ Spec
            /\ \A w \in Writers : WF_vars(WriterStep(w))
            /\ WF_vars(WorkStep)
            /\ WF_vars(StopSignal)

----------------------------------------------------------------------------
(* Properties                                                               *)

Bytes(from, n) == [i \in 1 .. n |-> buff[from + i - 1]]

\* The ring's unread bytes, read the way _tlog_work reads them.
Content ==
    Bytes(start, IF end > start THEN end - start
                 ELSE IF ext_end > 0 THEN ext_end - start ELSE 0)
        \o Bytes(0, IF end < start THEN end ELSE 0)

AlreadyOutput == CASE rpc = "writeext" -> snap.log_len
                   [] rpc = "release" -> snap.log_len + snap.log_extlen
                   [] OTHER -> 0

\* However appends, wraps and releases interleave, the ring holds exactly
\* the lines that were accepted and not yet written, whole and in order: no
\* wrap loses, repeats or overwrites a line (_tlog_vprintf's maxlen and
\* ext_end against _tlog_work's release).
RingHoldsPending ==
    pending = SubSeq(Content, AlreadyOutput + 1, Len(Content))

\* The bytes that _tlog_work reads without the lock are still the ones that
\* its snapshot meant: no writer overwrites them before the release.
SnapshotIntact ==
    /\ rpc = "write" => Bytes(start, snap.log_len)
                            = SubSeq(pending, 1, snap.log_len)
    /\ rpc = "writeext" => Bytes(0, snap.log_extlen)
                               = SubSeq(pending, 1, snap.log_extlen)

\* A line accepted before tlog_exit does not stay in the ring: _tlog_work
\* writes it, so the signal to the waiting thread is never lost (is_wait under
\* tlog.lock).
DataWritten == (run /\ pending # <<>>) ~> rpc = "release"

\* "block wait for free buffer" (the comment in _tlog_vprintf): a writer that
\* waits for room is woken if there is something to be written, as long as the
\* log runs.  One that gave up tlog.lock, and had not yet registered as a
\* waiter when the ring was written out, waits beside an empty ring until
\* others log.
WriterProgress ==
    \A w \in Writers :
        (wpc[w] = "wait" /\ pending # <<>> /\ run) ~> (wpc[w] # "wait" \/ ~ run)

=============================================================================
