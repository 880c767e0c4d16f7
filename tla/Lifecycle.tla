----------------------------- MODULE Lifecycle ------------------------------
(***************************************************************************)
(* The life of the process: main() sets up the log, the mount point, S3    *)
(* and the memory quota, becomes a daemon, runs ct_run and takes all of it *)
(* down again, while detached workers, the log thread and the signal       *)
(* handler, on whichever thread it interrupts, use the same things.        *)
(*                                                                         *)
(* tlog.lock is taken and given up in separate steps, so that a signal may *)
(* come in between; a context is a thread or the handler that runs on top  *)
(* of it.  The ring is the number of lines in it (see TlogRing for its     *)
(* bytes), ct_run's loop starts items and ends (see Dispatcher).           *)
(***************************************************************************)
EXTENDS Integers

CONSTANTS Workers, Main, Logger,
          MaxRequests,
          RingSize,      \* how many lines the ring holds
          Daemonize,     \* the values of o_daemonize to consider
          Verbose,       \* the values of o_verbose >= LLAPI_MSG_INFO
          Targets,       \* the threads a signal may interrupt
          MaxSignals     \* bound: the signals that are sent

ASSUME ThreadsAssumption == /\ Main \notin Workers /\ Logger \notin Workers
                            /\ Main # Logger
                            /\ Targets \subseteq Workers \cup {Main, Logger}
ASSUME SizesAssumption == /\ MaxRequests \in Nat \ {0} /\ RingSize \in Nat \ {0}
                          /\ MaxSignals \in Nat
ASSUME OptionAssumption ==
    Daemonize \subseteq BOOLEAN /\ Verbose \subseteq BOOLEAN

VARIABLES o_daemonize, o_verbose,
          mpc, wpc,      \* where main and each worker are
          root, live,    \* tlog.root # NULL; the log and its locks exist
          run, ring,     \* tlog.run, the lines in the ring
          lock,          \* the context that holds tlog.lock
          log,           \* where each context is in _tlog_vprintf
          rpc, snap,     \* where _tlog_work is; the lines it writes
          mnt, s3, quota, sem_live,   \* what else there is to be used
          hsm_req_sem, installed, stop_it,
          hpc,           \* where each thread is in the handler
          signals, exited,
          abandoned,     \* history: workers ran when ct_run's loop ended
          misused,       \* history: what was used or destroyed when it was
                         \* not there, although the process goes on
          stale          \* history: something was used that is gone

opts == <<o_daemonize, o_verbose>>
tlog == <<root, live, run, ring, lock, rpc, snap>>
things == <<mnt, s3, quota, sem_live>>
sigs == <<installed, stop_it, hpc, signals>>
vars == <<opts, mpc, wpc, tlog, log, things, hsm_req_sem, sigs, exited,
          abandoned, misused, stale>>

Threads == Workers \cup {Main, Logger}
Self(t) == <<t, "thread">>
Handler(t) == <<t, "handler">>
\* The contexts that log; the log thread does so only in the handler.
Contexts == ((Threads \ {Logger}) \X {"thread"}) \cup (Threads \X {"handler"})
NoOne == <<>>

TypeOK ==
    /\ o_daemonize \in Daemonize /\ o_verbose \in Verbose
    /\ mpc \in {"tlog_init", "parse", "setup", "s3init", "daemon", "serve",
                "sem_init", "loop", "create", "failed", "cleanup", "close",
                "tlog_exit", "signal", "join", "free", "quota_destroy",
                "return"}
    /\ wpc \in [Workers -> {"none", "start", "copy", "post"}]
    /\ root \in BOOLEAN /\ live \in BOOLEAN /\ run \in BOOLEAN
    /\ ring \in 0 .. RingSize /\ snap \in 0 .. RingSize
    /\ lock \in Contexts \cup {NoOne, Self(Logger)}
    /\ log \in [Contexts -> {"out", "want", "locked", "full", "room"}]
    /\ rpc \in {"absent", "top", "lock", "scan", "wait", "woken", "write",
                "release", "wakeup", "exit", "lost"}
    /\ mnt \in BOOLEAN /\ s3 \in BOOLEAN /\ quota \in BOOLEAN
    /\ sem_live \in BOOLEAN /\ hsm_req_sem \in 0 .. MaxRequests
    /\ installed \in BOOLEAN /\ stop_it \in BOOLEAN
    /\ hpc \in [Threads -> {"none", "log", "poll"}]
    /\ signals \in 0 .. MaxSignals
    /\ exited \in {"no", "usage", "handler", "return"}
    /\ abandoned \in BOOLEAN /\ stale \in BOOLEAN
    /\ misused \subseteq {"sem", "s3", "quota"}

Init ==
    /\ o_daemonize \in Daemonize /\ o_verbose \in Verbose
    /\ mpc = "tlog_init" /\ wpc = [w \in Workers |-> "none"]
    /\ root = FALSE /\ live = FALSE /\ run = FALSE /\ ring = 0
    /\ lock = NoOne /\ log = [c \in Contexts |-> "out"]
    /\ rpc = "absent" /\ snap = 0
    /\ mnt = FALSE /\ s3 = FALSE /\ quota = FALSE /\ sem_live = FALSE
    /\ hsm_req_sem = 0 /\ installed = FALSE /\ stop_it = FALSE
    /\ hpc = [t \in Threads |-> "none"]
    /\ signals = 0 /\ exited = "no" /\ abandoned = FALSE /\ stale = FALSE
    /\ misused = {}

Busy == {w \in Workers : wpc[w] # "none"}

\* A thread that is in the handler never comes back from it (and is not
\* interrupted again: see Dispatcher).
Runs(c) == /\ exited = "no" /\ ~ stale
           /\ c[2] = "thread" => hpc[c[1]] = "none"
Misuse(thing, there) == misused' = misused \cup (IF there THEN {} ELSE {thing})
MainAt(step) == mpc = step /\ Runs(Self(Main)) /\ log[Self(Main)] = "out"
WorkerAt(w, step) == wpc[w] = step /\ Runs(Self(w)) /\ log[Self(w)] = "out"
LoggerAt(step) == rpc = step /\ Runs(Self(Logger))

----------------------------------------------------------------------------
(* tlog_vext and _tlog_vprintf                                              *)

\* Context c logs a line: not below the level that is set, and on the screen
\* while there is no root log.
Say(c, error) ==
    log' = [log EXCEPT ![c] = IF root /\ (error \/ o_verbose) THEN "want"
                              ELSE "out"]

\* pthread_cond_signal(&tlog.cond)
Wake == IF rpc = "wait" THEN "woken" ELSE rpc

LogLock(c) ==
    /\ Runs(c) /\ log[c] = "want"
    /\ IF live THEN /\ lock = NoOne
                    /\ lock' = c /\ log' = [log EXCEPT ![c] = "locked"]
                    /\ UNCHANGED stale
       ELSE stale' = TRUE /\ UNCHANGED <<lock, log>>
    /\ UNCHANGED <<opts, mpc, wpc, root, live, run, ring, rpc, snap, things,
                   hsm_req_sem, sigs, exited, abandoned, misused>>

\* The line is copied in, or there is no room; _tlog_work is signalled and
\* the lock given up.
LogAppend(c) ==
    /\ Runs(c) /\ log[c] = "locked"
    /\ IF ring < RingSize
       THEN ring' = ring + 1 /\ log' = [log EXCEPT ![c] = "out"]
       ELSE log' = [log EXCEPT ![c] = "full"] /\ UNCHANGED ring
    /\ rpc' = Wake
    /\ lock' = NoOne
    /\ UNCHANGED <<opts, mpc, wpc, root, live, run, snap, things, hsm_req_sem,
                   sigs, exited, abandoned, misused, stale>>

\* Under log->lock: "block wait for free buffer".
LogWait(c) ==
    /\ Runs(c) /\ log[c] = "full"
    /\ IF live THEN log' = [log EXCEPT ![c] = "room"] /\ UNCHANGED stale
       ELSE stale' = TRUE /\ UNCHANGED log
    /\ UNCHANGED <<opts, mpc, wpc, tlog, things, hsm_req_sem, sigs, exited,
                   abandoned, misused>>

----------------------------------------------------------------------------
(* _tlog_work                                                               *)

\* Mutant: a stopped log thread does not look at the ring.
WorkTopEager ==
    /\ LoggerAt("top")
    /\ run \/ lock = NoOne
    /\ rpc' = IF ~ run THEN "exit" ELSE "lock"
    /\ UNCHANGED <<opts, mpc, wpc, root, live, run, ring, lock, snap, log,
                   things, hsm_req_sem, sigs, exited, abandoned, misused,
                   stale>>

\* The loop ends when the log is stopped and drained (_tlog_any_has_data
\* takes the lock).
WorkTop ==
    /\ LoggerAt("top")
    /\ run \/ lock = NoOne
    /\ rpc' = IF ~ run /\ ring = 0 THEN "exit" ELSE "lock"
    /\ UNCHANGED <<opts, mpc, wpc, root, live, run, ring, lock, snap, log,
                   things, hsm_req_sem, sigs, exited, abandoned, misused,
                   stale>>

\* The lock is taken, at first or as the wait returns.
WorkLock ==
    /\ LoggerAt("lock") \/ LoggerAt("woken")
    /\ lock = NoOne
    /\ lock' = Self(Logger) /\ rpc' = "scan"
    /\ stale' = ~ live
    /\ UNCHANGED <<opts, mpc, wpc, root, live, run, ring, snap, log, things,
                   hsm_req_sem, sigs, exited, abandoned, misused>>

\* Lines are there to be written, or _tlog_wait_log_locked waits for some.
WorkScan ==
    /\ LoggerAt("scan")
    /\ lock' = NoOne /\ snap' = ring
    /\ rpc' = IF ring > 0 THEN "write" ELSE IF run THEN "wait" ELSE "top"
    /\ UNCHANGED <<opts, mpc, wpc, root, live, run, ring, log, things,
                   hsm_req_sem, sigs, exited, abandoned, misused, stale>>

\* _tlog_work_write, without the lock.
WorkWrite ==
    /\ LoggerAt("write") /\ rpc' = "release"
    /\ UNCHANGED <<opts, mpc, wpc, root, live, run, ring, lock, snap, log,
                   things, hsm_req_sem, sigs, exited, abandoned, misused,
                   stale>>

WorkRelease ==
    /\ LoggerAt("release") /\ rpc' = "wakeup"
    /\ lock = NoOne
    /\ ring' = ring - snap /\ snap' = 0
    /\ stale' = ~ live
    /\ UNCHANGED <<opts, mpc, wpc, root, live, run, lock, log, things,
                   hsm_req_sem, sigs, exited, abandoned, misused>>

\* _tlog_wakeup_waiters
WorkWakeup ==
    /\ LoggerAt("wakeup") /\ rpc' = "top"
    /\ log' = [c \in Contexts |-> IF log[c] = "room" THEN "want" ELSE log[c]]
    /\ UNCHANGED <<opts, mpc, wpc, root, live, run, ring, lock, snap, things,
                   hsm_req_sem, sigs, exited, abandoned, misused, stale>>

----------------------------------------------------------------------------
(* main: setup                                                              *)

TlogInit ==
    /\ MainAt("tlog_init")
    /\ \/ /\ mpc' = "parse" /\ rpc' = "top"
          /\ root' = TRUE /\ live' = TRUE /\ run' = TRUE
          /\ UNCHANGED exited
       \/ exited' = "return" /\ UNCHANGED <<mpc, root, live, run, rpc>>
    /\ UNCHANGED <<opts, wpc, ring, lock, snap, log, things, hsm_req_sem, sigs,
                   abandoned, misused, stale>>

\* ct_parseopts: --help exits; an error leads past ct_s3_cleanup.
ParseOpts ==
    /\ MainAt("parse")
    /\ \/ mpc' = "setup" /\ Say(Self(Main), TRUE) /\ UNCHANGED exited
       \/ mpc' = "tlog_exit" /\ Say(Self(Main), TRUE) /\ UNCHANGED exited
       \/ exited' = "usage" /\ UNCHANGED <<mpc, log>>
    /\ UNCHANGED <<opts, wpc, tlog, things, hsm_req_sem, sigs, abandoned,
                   misused, stale>>

\* ct_setup
Setup ==
    /\ MainAt("setup")
    /\ \/ mpc' = "s3init" /\ mnt' = TRUE /\ UNCHANGED log
       \/ mpc' = "cleanup" /\ Say(Self(Main), TRUE) /\ UNCHANGED mnt
    /\ UNCHANGED <<opts, wpc, tlog, s3, quota, sem_live, hsm_req_sem, sigs,
                   exited, abandoned, misused, stale>>

\* S3_initialize, and then quota_mem_init
S3Init ==
    /\ MainAt("s3init")
    /\ \/ mpc' = "daemon" /\ s3' = TRUE /\ quota' = TRUE /\ UNCHANGED log
       \/ mpc' = "cleanup" /\ Say(Self(Main), TRUE) /\ UNCHANGED <<s3, quota>>
    /\ UNCHANGED <<opts, wpc, tlog, mnt, sem_live, hsm_req_sem, sigs, exited,
                   abandoned, misused, stale>>

\* ct_run: daemon(1, 1) forks, and only the calling thread is in the child;
\* a lock that another thread held stays locked there.
Daemon ==
    /\ MainAt("daemon")
    /\ \/ ~ o_daemonize /\ mpc' = "serve" /\ UNCHANGED <<rpc, log>>
       \/ o_daemonize /\ mpc' = "serve" /\ rpc' = "lost" /\ UNCHANGED log
       \/ /\ o_daemonize /\ mpc' = "cleanup" /\ Say(Self(Main), TRUE)
          /\ UNCHANGED rpc
    /\ UNCHANGED <<opts, wpc, root, live, run, ring, lock, snap, things,
                   hsm_req_sem, sigs, exited, abandoned, misused, stale>>

\* ct_run registers and installs the handler, each of which may fail, ...
Serve ==
    /\ MainAt("serve")
    /\ \/ mpc' = "sem_init" /\ installed' = TRUE /\ UNCHANGED log
       \/ mpc' = "cleanup" /\ Say(Self(Main), TRUE) /\ UNCHANGED installed
    /\ UNCHANGED <<opts, wpc, tlog, things, hsm_req_sem, stop_it, hpc, signals,
                   exited, abandoned, misused, stale>>

\* ... and then initialises hsm_req_sem; until then its value is 0.
SemInit ==
    /\ MainAt("sem_init")
    /\ \/ /\ mpc' = "loop" /\ sem_live' = TRUE /\ hsm_req_sem' = MaxRequests
          /\ Say(Self(Main), FALSE)
       \/ /\ mpc' = "cleanup" /\ Say(Self(Main), TRUE)
          /\ UNCHANGED <<sem_live, hsm_req_sem>>
    /\ UNCHANGED <<opts, wpc, tlog, mnt, s3, quota, sigs, exited, abandoned,
                   misused, stale>>

----------------------------------------------------------------------------
(* main: the loop, and taking everything down                               *)

\* ct_request_ctl: the item gets a slot (after the stop: see Dispatcher), ...
TakeSlot ==
    /\ MainAt("loop") /\ mpc' = "create"
    /\ ~ stop_it /\ hsm_req_sem > 0
    /\ hsm_req_sem' = hsm_req_sem - 1
    /\ UNCHANGED <<opts, wpc, tlog, log, things, sigs, exited, abandoned,
                   misused, stale>>

\* ... ct_process_item_async starts a detached thread for it, ...
StartItem(w) ==
    /\ MainAt("create") /\ mpc' = "loop"
    /\ wpc[w] = "none" /\ wpc' = [wpc EXCEPT ![w] = "start"]
    /\ Say(Self(Main), FALSE)
    /\ UNCHANGED <<opts, tlog, things, hsm_req_sem, sigs, exited, abandoned,
                   misused, stale>>

\* ... or fails, which is logged ...
StartFail ==
    /\ MainAt("create") /\ mpc' = "failed"
    /\ Say(Self(Main), TRUE)
    /\ UNCHANGED <<opts, wpc, tlog, things, hsm_req_sem, sigs, exited,
                   abandoned, misused, stale>>

\* ... before the slot is given back.
GiveBack ==
    /\ MainAt("failed") /\ mpc' = "loop"
    /\ hsm_req_sem' = hsm_req_sem + 1
    /\ UNCHANGED <<opts, wpc, tlog, log, things, sigs, exited, abandoned,
                   misused, stale>>

\* The loop ends (-ESHUTDOWN, --abort-on-error, stop_it): the semaphore is
\* destroyed and the copytool unregistered.
LeaveLoop ==
    /\ MainAt("loop") /\ mpc' = "cleanup"
    /\ sem_live' = FALSE
    /\ abandoned' = (Busy # {})
    /\ Say(Self(Main), FALSE)
    /\ UNCHANGED <<opts, wpc, tlog, mnt, s3, quota, hsm_req_sem, sigs, exited,
                   misused, stale>>

\* ct_s3_cleanup says what it does, ...
Cleanup ==
    /\ MainAt("cleanup") /\ mpc' = "close"
    /\ Say(Self(Main), FALSE)
    /\ UNCHANGED <<opts, wpc, tlog, things, hsm_req_sem, sigs, exited,
                   abandoned, misused, stale>>

\* ... closes the mount point and, unless that fails, calls S3_deinitialize,
\* whether or not S3 was ever initialised.
Close ==
    /\ MainAt("close") /\ mpc' = "tlog_exit"
    /\ mnt' = FALSE
    /\ \/ s3' = FALSE /\ Misuse("s3", s3) /\ UNCHANGED log
       \/ mnt /\ Say(Self(Main), TRUE) /\ UNCHANGED <<s3, misused>>
    /\ UNCHANGED <<opts, wpc, tlog, quota, sem_live, hsm_req_sem, sigs, exited,
                   abandoned, stale>>

\* tlog_exit: run is cleared without the lock ...
TlogStop ==
    /\ MainAt("tlog_exit") /\ mpc' = "signal"
    /\ run' = FALSE
    /\ UNCHANGED <<opts, wpc, root, live, ring, lock, rpc, snap, log, things,
                   hsm_req_sem, sigs, exited, abandoned, misused, stale>>

\* Mutant: the log thread is not signalled.
TlogSignalLost ==
    /\ MainAt("signal") /\ mpc' = "join"
    /\ lock = NoOne
    /\ UNCHANGED <<opts, wpc, root, live, run, ring, lock, rpc, snap, log,
                   things, hsm_req_sem, sigs, exited, abandoned, misused,
                   stale>>

\* ... the log thread is signalled with it ...
TlogSignal ==
    /\ MainAt("signal") /\ mpc' = "join"
    /\ lock = NoOne
    /\ rpc' = Wake
    /\ UNCHANGED <<opts, wpc, root, live, run, ring, lock, snap, log, things,
                   hsm_req_sem, sigs, exited, abandoned, misused, stale>>

\* Mutant: the log thread is not waited for.
JoinNot ==
    /\ MainAt("join") /\ mpc' = "free"
    /\ root' = FALSE
    /\ UNCHANGED <<opts, wpc, live, run, ring, lock, rpc, snap, log, things,
                   hsm_req_sem, sigs, exited, abandoned, misused, stale>>

\* ... and joined, which returns at once if the thread was lost by fork ...
Join ==
    /\ MainAt("join") /\ mpc' = "free"
    /\ rpc \in {"exit", "lost"}
    /\ root' = FALSE
    /\ UNCHANGED <<opts, wpc, live, run, ring, lock, rpc, snap, log, things,
                   hsm_req_sem, sigs, exited, abandoned, misused, stale>>

\* ... and the log is freed and its locks destroyed.
Free ==
    /\ MainAt("free") /\ mpc' = "quota_destroy"
    /\ live' = FALSE
    /\ UNCHANGED <<opts, wpc, root, run, ring, lock, rpc, snap, log, things,
                   hsm_req_sem, sigs, exited, abandoned, misused, stale>>

\* quota_mem_destroy, whether or not the quota was ever initialised.
QuotaDestroy ==
    /\ MainAt("quota_destroy") /\ mpc' = "return"
    /\ quota' = FALSE /\ Misuse("quota", quota)
    /\ UNCHANGED <<opts, wpc, tlog, log, mnt, s3, sem_live, hsm_req_sem, sigs,
                   exited, abandoned, stale>>

Return ==
    /\ MainAt("return") /\ exited' = "return"
    /\ UNCHANGED <<opts, mpc, wpc, tlog, log, things, hsm_req_sem, sigs,
                   abandoned, misused, stale>>

----------------------------------------------------------------------------
(* ct_thread                                                                *)

WorkerStart(w) ==
    /\ WorkerAt(w, "start") /\ wpc' = [wpc EXCEPT ![w] = "copy"]
    /\ Say(Self(w), FALSE)
    /\ UNCHANGED <<opts, mpc, tlog, things, hsm_req_sem, sigs, exited,
                   abandoned, misused, stale>>

\* The copy needs the mount point, S3 and the quota.
WorkerCopy(w) ==
    /\ WorkerAt(w, "copy") /\ wpc' = [wpc EXCEPT ![w] = "post"]
    /\ stale' = ~ (mnt /\ s3 /\ quota)
    /\ \E error \in BOOLEAN : Say(Self(w), error)
    /\ UNCHANGED <<opts, mpc, tlog, things, hsm_req_sem, sigs, exited,
                   abandoned, misused>>


\* A semaphore that was destroyed still counts (glibc's sem_destroy does
\* nothing).
WorkerPost(w) ==
    /\ WorkerAt(w, "post") /\ wpc' = [wpc EXCEPT ![w] = "none"]
    /\ hsm_req_sem' = hsm_req_sem + 1
    /\ Misuse("sem", sem_live)
    /\ UNCHANGED <<opts, mpc, tlog, log, things, sigs, exited, abandoned,
                   stale>>

----------------------------------------------------------------------------
(* handler                                                                  *)

Alive(t) == CASE t = Main -> TRUE
              [] t = Logger -> rpc \notin {"absent", "exit", "lost"}
              [] OTHER -> t \in Busy

\* A signal interrupts t wherever it is, and the handler logs first.
Deliver(t) ==
    /\ installed /\ Runs(Self(t)) /\ Alive(t)
    /\ signals < MaxSignals /\ signals' = signals + 1
    /\ hpc' = [hpc EXCEPT ![t] = "log"]
    /\ Say(Handler(t), FALSE)
    /\ UNCHANGED <<opts, mpc, wpc, tlog, things, hsm_req_sem, installed,
                   stop_it, exited, abandoned, misused, stale>>

HandlerAt(t, step) ==
    hpc[t] = step /\ Runs(Handler(t)) /\ log[Handler(t)] = "out"

HandlerStop(t) ==
    /\ HandlerAt(t, "log") /\ hpc' = [hpc EXCEPT ![t] = "poll"]
    /\ stop_it' = TRUE
    /\ UNCHANGED <<opts, mpc, wpc, tlog, log, things, hsm_req_sem, installed,
                   signals, exited, abandoned, misused, stale>>

\* "still have %d working threads running", once a second; the semaphore is
\* read whether or not it is there.
HandlerPoll(t) ==
    /\ HandlerAt(t, "poll") /\ hsm_req_sem < MaxRequests
    /\ Misuse("sem", sem_live)
    /\ Say(Handler(t), FALSE)
    /\ UNCHANGED <<opts, mpc, wpc, tlog, things, hsm_req_sem, sigs, exited,
                   abandoned, stale>>

HandlerExit(t) ==
    /\ HandlerAt(t, "poll") /\ hsm_req_sem >= MaxRequests
    /\ Misuse("sem", sem_live)
    /\ exited' = "handler"
    /\ UNCHANGED <<opts, mpc, wpc, tlog, log, things, hsm_req_sem, sigs,
                   abandoned, stale>>

----------------------------------------------------------------------------

LogStep(c) == LogLock(c) \/ LogAppend(c) \/ LogWait(c)
WorkStep == \/ WorkTop \/ WorkLock \/ WorkScan \/ WorkWrite \/ WorkRelease
            \/ WorkWakeup
MainStep ==
    \/ TlogInit \/ ParseOpts \/ Setup \/ S3Init \/ Daemon \/ Serve \/ SemInit
    \/ TakeSlot \/ StartFail \/ GiveBack \/ (\E w \in Workers : StartItem(w))
    \/ Cleanup \/ Close \/ TlogStop \/ TlogSignal \/ Join \/ Free
    \/ QuotaDestroy \/ Return
WorkerStep(w) == WorkerStart(w) \/ WorkerCopy(w) \/ WorkerPost(w)
HandlerStep(t) == HandlerStop(t) \/ HandlerPoll(t) \/ HandlerExit(t)

\* The process has ended, or what it does is not defined any more.
Ended == (exited # "no" \/ stale) /\ UNCHANGED vars

Next ==
    \/ MainStep \/ LeaveLoop
    \/ \E w \in Workers : WorkerStep(w)
    \/ \E c \in Contexts : LogStep(c)
    \/ WorkStep
    \/ \E t \in Targets : Deliver(t) \/ HandlerStep(t)
    \/ Ended

Spec == Init /\ [][Next]_vars

\* The handler sleeps a second between its lines: again and again the log
\* thread catches up in between, and nobody is on the way to a wait.
CaughtUp == rpc = "wait" /\ \A c \in Contexts : log[c] # "full"
PollsApart == <>[][~ HandlerPoll(Main)]_vars \/ []<>CaughtUp

\* Every thread is scheduled.  None that waits for tlog.lock is passed over for
\* ever, or let in only when the ring is full: an assumption, for which the
\* pace of the polls speaks, and more than a mutex promises.  Of the handler it
\* is needed on main only.  The coordinator need not end the loop.
FairSpec ==
    /\ Spec
    /\ WF_vars(MainStep) /\ SF_vars(TlogSignal)
    /\ \A w \in Workers : WF_vars(WorkerStep(w))
    /\ \A c \in {Self(t) : t \in Threads \ {Logger}} \cup {Handler(Main)} :
          WF_vars(LogStep(c)) /\ SF_vars(LogLock(c) /\ ring < RingSize)
    /\ SF_vars(WorkStep)
    /\ WF_vars(HandlerStep(Main))
    /\ PollsApart

----------------------------------------------------------------------------
(* Properties                                                               *)

Forked == rpc = "lost"

\* A context began to wait for room after the log thread had made it and
\* looked for waiters (see WriterProgress of TlogRing).
Missed == \E c \in Contexts : log[c] = "room" /\ ring = 0 /\ rpc # "wakeup"

\* The comment of tlog_exit (tlog.h:133), "flush pending log message, and
\* exit tlog": no line is left when main returns, unless workers that it
\* abandoned still log.
AlwaysFlushed == exited = "return" /\ ~ abandoned => ring = 0

\* The same, unless the log thread was lost by daemon().
Flushed == exited = "return" /\ ~ abandoned /\ ~ Forked => ring = 0

\* What is used outside of its life, and by whom.  The log, the mount point, S3
\* and the quota are never used when they are gone, unless main left its loop
\* while workers ran: the log thread is joined before its locks go.  The
\* semaphore is misused by abandoned workers too, and otherwise only by the
\* handler on main or on the log thread, which polls it before sem_init and
\* after sem_destroy.  S3 and the quota are taken down without having been set
\* up only if the setup failed before there was a handler.
NothingStale ==
    /\ stale => abandoned
    /\ "sem" \in misused => \/ abandoned
                            \/ hpc[Main] # "none" \/ hpc[Logger] # "none"
    /\ misused \cap {"s3", "quota"} # {} => ~ installed


\* tlog_exit ends: main gets the lock and the log thread ends, although
\* workers may still log.
TeardownEnds ==
    (mpc = "cleanup" /\ ~ Forked)
        ~> (exited # "no" \/ stale \/ Missed
                \/ \E t \in Threads : hpc[t] # "none")
=============================================================================
