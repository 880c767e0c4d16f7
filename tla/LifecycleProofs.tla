--------------------------- MODULE LifecycleProofs ---------------------------
(***************************************************************************)
(* Theorems about the life of the process for every set of workers, every  *)
(* size of the ring, and every set of threads that signals may reach.      *)
(***************************************************************************)
EXTENDS Lifecycle, TLAPS

\* The places of main before there is a handler, those of ct_run's loop, those
\* where tlog_exit has begun, and of these the ones where the log thread has
\* been joined.
Before == {"tlog_init", "parse", "setup", "s3init", "daemon", "serve"}
Looping == {"loop", "create", "failed"}
Ending == {"signal", "join", "free", "quota_destroy", "return"}
Joined == {"free", "quota_destroy", "return"}
\* The places of a log thread that is not there.
NoThread == {"absent", "exit", "lost"}

\* Where each of the threads can be.
Places ==
    /\ wpc \in [Workers -> {"none", "start", "copy", "post"}]
    /\ hpc \in [Threads -> {"none", "log", "poll"}]
    /\ log \in [Contexts -> {"out", "want", "locked", "full", "room"}]

\* What there is at each place of main.
Phases ==
    /\ live <=> mpc \notin {"tlog_init", "quota_destroy", "return"}
    /\ root <=> mpc \notin {"tlog_init"} \cup Joined
    /\ run <=> mpc \notin {"tlog_init"} \cup Ending
    /\ mpc \in {"s3init", "daemon", "serve", "sem_init"} \cup Looping => mnt
    /\ mpc \in {"daemon", "serve", "sem_init"} \cup Looping => s3 /\ quota
    /\ mpc \in Looping => sem_live
    /\ installed => mpc \notin Before
    /\ installed /\ mpc \in {"cleanup", "close"} => s3
    /\ installed /\ mpc # "return" => quota

\* The log thread is there until tlog_exit stops it, or daemon() loses it.
LogThread ==
    /\ mpc = "tlog_init" => rpc = "absent" /\ ring = 0
    /\ rpc = "exit" => mpc \in Ending
    /\ mpc \in Joined => rpc \in {"exit", "lost"}

\* Workers outlive ct_run's loop only when it abandons them, and nothing is
\* misused while things are still set up.
Workings ==
    /\ Busy # {} => mpc \in Looping \/ abandoned
    /\ abandoned => mpc \notin Before \cup {"sem_init"} \cup Looping
    /\ mpc \in Before => misused = {}

\* The handler runs on threads that are there, from the loop on.
Handlers ==
    /\ \A t \in Threads : hpc[t] # "none" => installed
    /\ \A w \in Workers : hpc[w] # "none" => w \in Busy
    /\ hpc[Logger] # "none" => rpc \notin NoThread

\* Who may be in _tlog_vprintf.
Logs ==
    /\ log[Self(Main)] # "out" => mpc \notin {"tlog_init"} \cup Ending
    /\ \A w \in Workers : log[Self(w)] # "out" => w \in Busy
    /\ \A t \in Threads : log[Handler(t)] # "out" => hpc[t] # "none"
    /\ log[Handler(Main)] # "out" => root

\* The log thread leaves an empty ring, and nobody fills it again but the
\* handler on main and abandoned workers.
Drained == ~ abandoned /\ rpc = "exit" /\ hpc[Main] = "none" => ring = 0

\* main returns at its end, or when there is no log.
Returned == exited = "return" =>
    mpc = "tlog_init" \/ (mpc = "return" /\ hpc[Main] = "none")

\* The inductive invariant.
IInv ==
    /\ Places /\ Phases /\ LogThread /\ Workings /\ Handlers /\ Logs
    /\ Drained /\ Returned /\ NothingStale

----------------------------------------------------------------------------
(* Contexts                                                                 *)

USE ThreadsAssumption, SizesAssumption

\* A context is a thread other than the log thread, or the handler on a thread.
LEMMA ContextCases ==
    /\ \A t \in Workers \cup {Main} : Self(t) \in Contexts
    /\ \A t \in Threads : Handler(t) \in Contexts
    /\ \A c \in Contexts : \/ \E t \in Workers \cup {Main} : c = Self(t)
                           \/ \E t \in Threads : c = Handler(t)
BY DEF Contexts, Self, Handler, Threads

\* Contexts of different threads, and a thread and its handler, differ.
LEMMA ContextsDiffer ==
    /\ \A t, u : Self(t) = Self(u) => t = u
    /\ \A t, u : Handler(t) = Handler(u) => t = u
    /\ \A t, u : Self(t) # Handler(u)
BY DEF Self, Handler

\* Threads are workers, main and the log thread.
LEMMA ThreadCases ==
    /\ Main \in Threads /\ Logger \in Threads /\ Workers \subseteq Threads
    /\ Main \notin Workers /\ Logger \notin Workers /\ Main # Logger
BY DEF Threads

\* A thread runs only outside of the handler.
LEMMA RunsOutside ==
    /\ \A c : Runs(c) => exited = "no" /\ ~ stale
    /\ \A t : Runs(Self(t)) => hpc[t] = "none"
BY DEF Runs, Self

\* The invariant holds when main() is called.
LEMMA InitIInv == Init => IInv
<1> SUFFICES ASSUME Init PROVE IInv
  OBVIOUS
<1>1. Places
  BY DEF Init, Places
<1>2. Phases
  BY DEF Init, Phases, Before, Looping, Ending, Joined
<1>3. LogThread /\ Workings /\ Drained /\ Returned /\ NothingStale
  BY DEF Init, LogThread, Workings, Busy, Drained, Returned, NothingStale, Joined, Looping
<1>4. Handlers /\ Logs
  BY ContextCases, ThreadCases DEF Init, Handlers, Logs
<1>5. QED
  BY <1>1, <1>2, <1>3, <1>4 DEF IInv

\* Nobody uses the log when it is gone, but abandoned workers.
LEMMA LoggersHaveLog ==
    ASSUME IInv, NEW c \in Contexts, log[c] # "out"
    PROVE  live \/ abandoned
<1>1. CASE c = Self(Main)
  BY <1>1 DEF IInv, Logs, Phases, Ending
<1>2. ASSUME NEW w \in Workers, c = Self(w) PROVE live \/ abandoned
  <2>1. Busy # {}
    BY <1>2 DEF IInv, Logs
  <2>2. QED
    BY <2>1 DEF IInv, Workings, Phases, Looping
<1>3. ASSUME NEW t \in Threads, c = Handler(t) PROVE live \/ abandoned
  <2>1. hpc[t] # "none"
    BY <1>3 DEF IInv, Logs
  <2>2. CASE t = Main
    BY <1>3, <2>2 DEF IInv, Logs, Phases, Joined
  <2>3. CASE t = Logger
    <3>1. rpc \notin NoThread
      BY <2>1, <2>3 DEF IInv, Handlers
    <3>2. QED
      BY <3>1 DEF IInv, LogThread, Phases, NoThread, Joined
  <2>4. CASE t \in Workers
    <3>1. Busy # {}
      BY <2>1, <2>4 DEF IInv, Handlers
    <3>2. QED
      BY <3>1 DEF IInv, Workings, Phases, Looping
  <2>5. QED
    BY <2>2, <2>3, <2>4 DEF Threads
<1>4. QED
  BY <1>1, <1>2, <1>3, ContextCases

\* Once the log thread has ended, only the handler on main and abandoned
\* workers log.
LEMMA EndedMeansQuiet ==
    ASSUME IInv, NEW c \in Contexts, log[c] # "out", rpc = "exit"
    PROVE  abandoned \/ hpc[Main] # "none"
<1>1. mpc \in Ending /\ mpc \notin Looping
  BY DEF IInv, LogThread, Ending, Looping
<1>2. Busy # {} => abandoned
  BY <1>1 DEF IInv, Workings
<1>3. CASE c = Self(Main)
  BY <1>1, <1>3 DEF IInv, Logs
<1>4. ASSUME NEW w \in Workers, c = Self(w) PROVE abandoned
  BY <1>2, <1>4 DEF IInv, Logs
<1>5. ASSUME NEW t \in Threads, c = Handler(t) PROVE abandoned \/ hpc[Main] # "none"
  <2>1. hpc[t] # "none"
    BY <1>5 DEF IInv, Logs
  <2>2. t # Logger
    BY <2>1 DEF IInv, Handlers, NoThread
  <2>3. t \in Workers => abandoned
    BY <1>2, <2>1 DEF IInv, Handlers
  <2>4. QED
    BY <2>1, <2>2, <2>3 DEF Threads
<1>6. QED
  BY <1>3, <1>4, <1>5, ContextCases

----------------------------------------------------------------------------
(* The steps                                                                *)

\* A step of a context in _tlog_vprintf preserves the invariant.
LEMMA LogIInv ==
    ASSUME IInv, NEW c \in Contexts, LogStep(c)
    PROVE  IInv'
<1>1. /\ log[c] # "out" /\ exited = "no" /\ ~ stale
      /\ UNCHANGED <<mpc, wpc, root, live, run, mnt, s3, quota, sem_live,
                     installed, hpc, exited, abandoned, misused>>
  BY RunsOutside DEF LogStep, LogLock, LogAppend, LogWait, tlog, things, sigs
<1>2. /\ rpc' = rpc \/ (rpc = "wait" /\ rpc' = "woken")
      /\ ring' = ring \/ log[c] = "locked"
      /\ stale' => ~ live
  BY <1>1 DEF LogStep, LogLock, LogAppend, LogWait, Wake, tlog
<1>3. \/ log' = log
      \/ \E p \in {"out", "locked", "full", "room"} : log' = [log EXCEPT ![c] = p]
  BY DEF LogStep, LogLock, LogAppend, LogWait
<1>4. Places' /\ \A d \in Contexts : log'[d] # "out" => log[d] # "out"
  BY <1>1, <1>3 DEF IInv, Places
<1>5. Phases' /\ Workings' /\ Returned'
  BY <1>1 DEF IInv, Phases, Workings, Busy, Returned
<1>6. LogThread' /\ Handlers'
  <2>1. mpc # "tlog_init"
    <3>1. mpc = "tlog_init" => ~ abandoned /\ ~ live
      BY DEF IInv, Phases, Workings, Before
    <3>2. QED
      BY <1>1, <3>1, LoggersHaveLog
  <2>2. QED
    BY <1>1, <1>2, <2>1 DEF IInv, LogThread, Handlers, Busy, NoThread, Joined
<1>7. Logs'
  BY <1>1, <1>4, ContextCases, ThreadCases DEF IInv, Logs, Busy
<1>8. Drained'
  BY <1>1, <1>2, EndedMeansQuiet DEF IInv, Drained
<1>9. NothingStale'
  BY <1>1, <1>2, LoggersHaveLog DEF IInv, NothingStale
<1>10. QED
  BY <1>4, <1>5, <1>6, <1>7, <1>8, <1>9 DEF IInv

\* A step of the log thread preserves it.
LEMMA WorkIInv ==
    ASSUME IInv, WorkStep
    PROVE  IInv'
<1>1. /\ rpc \notin NoThread /\ exited = "no" /\ ~ stale /\ hpc[Logger] = "none"
      /\ UNCHANGED <<mpc, wpc, root, live, run, mnt, s3, quota, sem_live,
                     installed, hpc, exited, abandoned, misused>>
  BY RunsOutside DEF WorkStep, WorkTop, WorkLock, WorkScan, WorkWrite, WorkRelease,
     WorkWakeup, LoggerAt, NoThread, tlog, things, sigs
<1>2. stale' => ~ live
  BY <1>1 DEF WorkStep, WorkTop, WorkLock, WorkScan, WorkWrite, WorkRelease, WorkWakeup
<1>3. rpc' \in {"scan", "wait", "top", "write", "release", "wakeup", "lock"}
       \/ (rpc' = "exit" /\ ~ run /\ ring = 0 /\ ring' = ring)
  BY DEF WorkStep, WorkTop, WorkLock, WorkScan, WorkWrite, WorkRelease, WorkWakeup
<1>4. /\ \/ log' = log
         \/ log' = [c \in Contexts |-> IF log[c] = "room" THEN "want" ELSE log[c]]
  BY DEF WorkStep, WorkTop, WorkLock, WorkScan, WorkWrite, WorkRelease, WorkWakeup
<1>5. Places' /\ \A d \in Contexts : log'[d] # "out" => log[d] # "out"
  BY <1>1, <1>4 DEF IInv, Places
<1>6. live /\ mpc # "tlog_init" /\ mpc \notin Joined
  BY <1>1 DEF IInv, LogThread, Phases, NoThread, Joined
<1>7. Phases' /\ Workings' /\ Returned'
  BY <1>1 DEF IInv, Phases, Workings, Busy, Returned
<1>8. LogThread'
  <2>1. ~ run => mpc \in Ending
    BY <1>6 DEF IInv, Phases
  <2>2. QED
    BY <1>1, <1>3, <1>6, <2>1 DEF LogThread
<1>9. Handlers'
  BY <1>1 DEF IInv, Handlers, Busy
<1>10. Logs'
  BY <1>1, <1>5, ContextCases, ThreadCases DEF IInv, Logs, Busy
<1>11. Drained'
  BY <1>3 DEF Drained
<1>12. NothingStale'
  BY <1>1, <1>2, <1>6 DEF IInv, NothingStale
<1>13. QED
  BY <1>5, <1>7, <1>8, <1>9, <1>10, <1>11, <1>12 DEF IInv

\* main() up to the loop of ct_run preserves it.
LEMMA SetupIInv ==
    ASSUME IInv, TlogInit \/ ParseOpts \/ Setup \/ S3Init \/ Daemon \/ Serve
    PROVE  IInv'
<1>1. /\ mpc \in Before /\ mpc' \notin Ending
      /\ exited = "no" /\ ~ stale /\ hpc[Main] = "none"
      /\ UNCHANGED <<wpc, ring, hpc, abandoned, misused, stale>>
  BY RunsOutside DEF TlogInit, ParseOpts, Setup, S3Init, Daemon, Serve, MainAt, Before,
     Ending, tlog, things, sigs
<1>2. \A t \in Threads : hpc[t] = "none"
  BY <1>1 DEF IInv, Phases, Handlers, Places
<1>3. /\ mpc' = "tlog_init" => rpc' = rpc /\ mpc = "tlog_init"
      /\ rpc' = "exit" => rpc = "exit"
      /\ exited' = "return" => mpc' = "tlog_init"
  BY <1>1 DEF TlogInit, ParseOpts, Setup, S3Init, Daemon, Serve, MainAt, tlog
<1>4. \/ log' = log
      \/ \E p \in {"out", "want"} :
            log' = [log EXCEPT ![Self(Main)] = p] /\ mpc' # "tlog_init"
  BY DEF TlogInit, ParseOpts, Setup, S3Init, Daemon, Serve, MainAt, Say
<1>5. Places'
  BY <1>1, <1>4 DEF IInv, Places
<1>6. Phases'
  <2>1. CASE TlogInit
    BY <2>1 DEF TlogInit, MainAt, IInv, Phases, Before, Looping, Ending, Joined, things, sigs
  <2>2. CASE ParseOpts
    BY <2>2 DEF ParseOpts, MainAt, IInv, Phases, Before, Looping, Ending, Joined, tlog, things, sigs
  <2>3. CASE Setup
    BY <2>3 DEF Setup, MainAt, IInv, Phases, Before, Looping, Ending, Joined, tlog, sigs
  <2>4. CASE S3Init
    BY <2>4 DEF S3Init, MainAt, IInv, Phases, Before, Looping, Ending, Joined, tlog, sigs
  <2>5. CASE Daemon
    BY <2>5 DEF Daemon, MainAt, IInv, Phases, Before, Looping, Ending, Joined, things, sigs
  <2>6. CASE Serve
    BY <2>6 DEF Serve, MainAt, IInv, Phases, Before, Looping, Ending, Joined, tlog, things
  <2>7. QED
    BY <2>1, <2>2, <2>3, <2>4, <2>5, <2>6
<1>7. LogThread'
  BY <1>1, <1>3 DEF IInv, LogThread, Before, Ending, Joined
<1>8. Workings'
  <2>1. Busy = {} /\ ~ abandoned /\ misused = {}
    BY <1>1 DEF IInv, Workings, Before, Looping
  <2>2. QED
    BY <1>1, <2>1 DEF Workings, Busy
<1>9. Handlers'
  BY <1>1, <1>2, ThreadCases DEF Handlers
<1>10. Logs'
  <2>1. \A d \in Contexts : d # Self(Main) => log'[d] = log[d]
    BY <1>4 DEF IInv, Places
  <2>2. \A t \in Threads : log'[Handler(t)] = "out"
    BY <1>2, <2>1, ContextCases, ContextsDiffer DEF IInv, Logs
  <2>3. \A w \in Workers : log'[Self(w)] # "out" => w \in Busy'
    BY <1>1, <2>1, ContextCases, ContextsDiffer, ThreadCases DEF IInv, Logs, Busy
  <2>4. log'[Self(Main)] # "out" => mpc' # "tlog_init"
    BY <1>3, <1>4 DEF IInv, Logs
  <2>5. QED
    BY <1>1, <2>2, <2>3, <2>4, ThreadCases DEF Logs
<1>11. NothingStale'
  BY <1>1 DEF IInv, Workings, NothingStale
<1>12. Drained' /\ Returned'
  BY <1>1, <1>3 DEF IInv, Drained, Returned
<1>13. QED
  BY <1>5, <1>6, <1>7, <1>8, <1>9, <1>10, <1>11, <1>12 DEF IInv

\* The rest of ct_run's setup, and handing items to threads, preserve it.
LEMMA LoopIInv ==
    ASSUME IInv, \/ SemInit \/ TakeSlot \/ StartFail \/ GiveBack
                 \/ \E w \in Workers : StartItem(w)
    PROVE  IInv'
<1>1. /\ mpc \in {"sem_init"} \cup Looping /\ mpc' \in {"cleanup"} \cup Looping
      /\ mpc = "sem_init" \/ mpc' \in Looping
      /\ exited = "no" /\ ~ stale
      /\ UNCHANGED <<root, live, run, ring, rpc, mnt, s3, quota, installed, hpc,
                     exited, abandoned, misused, stale>>
  BY RunsOutside DEF SemInit, TakeSlot, StartItem, StartFail, GiveBack, MainAt,
     Looping, tlog, things, sigs
<1>2. mpc' \in Looping => sem_live'
  BY DEF SemInit, TakeSlot, StartItem, StartFail, GiveBack, MainAt, Looping, things,
     IInv, Phases
<1>3. \/ wpc' = wpc
      \/ /\ mpc' \in Looping
         /\ \E w \in Workers : wpc' = [wpc EXCEPT ![w] = "start"]
  BY DEF SemInit, TakeSlot, StartItem, StartFail, GiveBack, Looping
<1>4. \/ log' = log
      \/ \E p \in {"out", "want"} : log' = [log EXCEPT ![Self(Main)] = p]
  BY DEF SemInit, TakeSlot, StartItem, StartFail, GiveBack, Say
<1>5. /\ Places' /\ Busy \subseteq Busy'
      /\ \A d \in Contexts : d # Self(Main) => log'[d] = log[d]
  BY <1>1, <1>3, <1>4 DEF IInv, Places, Busy
<1>6. Phases'
  BY <1>1, <1>2 DEF IInv, Phases, Before, Looping, Ending, Joined
<1>7. LogThread' /\ Returned' /\ NothingStale'
  BY <1>1 DEF IInv, LogThread, Returned, NothingStale, Ending, Joined, Looping
<1>8. Workings'
  <2>1. ~ abandoned /\ mpc' \notin Before
    BY <1>1 DEF IInv, Workings, Before, Looping
  <2>2. mpc' = "cleanup" => Busy' = {}
    BY <1>1, <1>3 DEF IInv, Workings, Busy, Looping
  <2>3. QED
    BY <1>1, <2>1, <2>2 DEF Workings
<1>9. Drained'
  BY <1>1 DEF IInv, Drained
<1>10. Handlers'
  BY <1>1, <1>5 DEF IInv, Handlers
<1>11. Logs'
  BY <1>1, <1>5, ContextCases, ContextsDiffer, ThreadCases
     DEF IInv, Logs, Ending, Looping
<1>12. QED
  BY <1>5, <1>6, <1>7, <1>8, <1>9, <1>10, <1>11 DEF IInv

\* Leaving the loop preserves it: from here on workers are abandoned.
LEMMA LeaveLoopIInv ==
    ASSUME IInv, LeaveLoop
    PROVE  IInv'
<1>1. /\ mpc = "loop" /\ mpc' = "cleanup" /\ exited = "no" /\ ~ stale
      /\ UNCHANGED <<wpc, root, live, run, ring, rpc, mnt, s3, quota,
                     installed, hpc, exited, misused, stale>>
  BY RunsOutside DEF LeaveLoop, MainAt, tlog, things, sigs
<1>2. Busy' = Busy /\ (abandoned' <=> Busy # {})
  BY <1>1 DEF LeaveLoop, Busy
<1>3. \E p \in {"out", "want"} : log' = [log EXCEPT ![Self(Main)] = p]
  BY DEF LeaveLoop, Say
<1>4. Places' /\ \A d \in Contexts : d # Self(Main) => log'[d] = log[d]
  BY <1>1, <1>3 DEF IInv, Places
<1>5. Phases'
  BY <1>1 DEF IInv, Phases, Before, Looping, Ending, Joined
<1>6. LogThread' /\ Returned'
  BY <1>1 DEF IInv, LogThread, Returned, Ending, Joined
<1>7. NothingStale'
  <2>1. ~ abandoned
    BY <1>1 DEF IInv, Workings, Looping
  <2>2. QED
    BY <1>1, <2>1 DEF IInv, NothingStale
<1>8. Workings'
  BY <1>1, <1>2 DEF Workings, Before, Looping
<1>9. Drained'
  BY <1>1 DEF IInv, LogThread, Drained, Ending
<1>10. Handlers'
  BY <1>1, <1>2 DEF IInv, Handlers
<1>11. Logs'
  BY <1>1, <1>2, <1>4, ContextCases, ContextsDiffer, ThreadCases DEF IInv, Logs, Ending
<1>12. QED
  BY <1>4, <1>5, <1>6, <1>7, <1>8, <1>9, <1>10, <1>11 DEF IInv

\* ct_s3_cleanup and tlog_exit preserve it.
LEMMA TeardownIInv ==
    ASSUME IInv, \/ Cleanup \/ Close \/ TlogStop \/ TlogSignal \/ Join
                 \/ Free \/ QuotaDestroy \/ Return
    PROVE  IInv'
<1>1. /\ mpc \notin Before \cup {"sem_init"} \cup Looping
      /\ mpc' \notin Before \cup {"sem_init"} \cup Looping
      /\ exited = "no" /\ ~ stale /\ hpc[Main] = "none" /\ log[Self(Main)] = "out"
      /\ UNCHANGED <<wpc, ring, hpc, installed, abandoned, stale>>
  BY RunsOutside DEF Cleanup, Close, TlogStop, TlogSignal, Join, Free, QuotaDestroy,
     Return, MainAt, Before, Looping, tlog, things, sigs
<1>2. /\ rpc' = rpc \/ (rpc = "wait" /\ rpc' = "woken")
      /\ exited' = "return" => mpc' = "return"
      /\ mpc' \in Joined => mpc \in Joined \/ rpc' \in {"exit", "lost"}
      /\ mpc \in Ending => mpc' \in Ending
  BY <1>1 DEF Cleanup, Close, TlogStop, TlogSignal, Join, Free, QuotaDestroy,
     Return, MainAt, Wake, Joined, Ending, tlog
<1>3. \/ log' = log
      \/ \E p \in {"out", "want"} :
            log' = [log EXCEPT ![Self(Main)] = p] /\ mpc' \in {"close", "tlog_exit"}
  BY DEF Cleanup, Close, TlogStop, TlogSignal, Join, Free, QuotaDestroy, Return, Say
<1>4. Places' /\ \A d \in Contexts : d # Self(Main) => log'[d] = log[d]
  BY <1>1, <1>3 DEF IInv, Places
<1>5. Phases'
  <2>1. CASE Cleanup \/ Close
    BY <1>1, <2>1 DEF Cleanup, Close, MainAt, IInv, Phases, Before, Looping, Ending, Joined, tlog,
       things, sigs
  <2>2. CASE TlogStop
    BY <1>1, <2>2 DEF TlogStop, MainAt, IInv, Phases, Before, Looping, Ending, Joined, things, sigs
  <2>3. CASE TlogSignal
    BY <1>1, <2>3 DEF TlogSignal, MainAt, IInv, Phases, Before, Looping, Ending, Joined, things, sigs
  <2>4. CASE Join
    BY <1>1, <2>4 DEF Join, MainAt, IInv, Phases, Before, Looping, Ending, Joined, things, sigs
  <2>5. CASE Free
    BY <1>1, <2>5 DEF Free, MainAt, IInv, Phases, Before, Looping, Ending, Joined, things, sigs
  <2>6. CASE QuotaDestroy
    BY <1>1, <2>6 DEF QuotaDestroy, MainAt, IInv, Phases, Before, Looping, Ending, Joined, tlog
  <2>7. CASE Return
    BY <1>1, <2>7 DEF Return, MainAt, IInv, Phases, tlog, things
  <2>8. QED
    BY <2>1, <2>2, <2>3, <2>4, <2>5, <2>6, <2>7
<1>6. LogThread'
  BY <1>1, <1>2 DEF IInv, LogThread, Before, Joined
<1>7. Workings'
  BY <1>1 DEF IInv, Workings, Busy
<1>8. NothingStale'
  <2>1. \/ misused' = misused
        \/ misused' \subseteq misused \cup {"s3", "quota"} /\ ~ installed
    BY DEF Cleanup, Close, TlogStop, TlogSignal, Join, Free, QuotaDestroy, Return,
       MainAt, Misuse, IInv, Phases
  <2>2. QED
    BY <1>1, <2>1 DEF IInv, NothingStale
<1>9. Drained' /\ Returned'
  BY <1>1, <1>2 DEF IInv, Drained, Returned
<1>10. Handlers'
  BY <1>1, <1>2, ThreadCases DEF IInv, Handlers, Busy, NoThread
<1>11. Logs'
  <2>1. log'[Self(Main)] # "out" => mpc' \notin {"tlog_init"} \cup Ending
    BY <1>1, <1>3 DEF Ending
  <2>2. log'[Handler(Main)] = "out"
    BY <1>1, <1>4, ContextCases, ContextsDiffer, ThreadCases DEF IInv, Logs
  <2>3. QED
    BY <1>1, <1>4, <2>1, <2>2, ContextCases, ContextsDiffer, ThreadCases
       DEF IInv, Logs, Busy
<1>12. QED
  BY <1>4, <1>5, <1>6, <1>7, <1>8, <1>9, <1>10, <1>11 DEF IInv

\* A step of a worker preserves it: what it uses is there, or it has been
\* abandoned.
LEMMA WorkerIInv ==
    ASSUME IInv, NEW w \in Workers, WorkerStep(w)
    PROVE  IInv'
<1>1. /\ wpc[w] # "none" /\ log[Self(w)] = "out"
      /\ exited = "no" /\ ~ stale /\ hpc[w] = "none"
      /\ UNCHANGED <<mpc, root, live, run, ring, rpc, mnt, s3, quota, sem_live,
                     installed, hpc, exited, abandoned>>
  BY RunsOutside DEF WorkerStep, WorkerStart, WorkerCopy, WorkerPost, WorkerAt, tlog,
     things, sigs
<1>2. w \in Busy
  BY <1>1 DEF Busy
<1>3. /\ stale' => ~ (mnt /\ s3 /\ quota)
      /\ misused' = misused \/ (misused' = misused \cup {"sem"} /\ ~ sem_live)
  <2>1. CASE WorkerStart(w)
    BY <1>1, <2>1 DEF WorkerStart
  <2>2. CASE WorkerCopy(w)
    BY <2>2 DEF WorkerCopy
  <2>3. CASE WorkerPost(w)
    BY <1>1, <2>3 DEF WorkerPost, Misuse
  <2>4. QED
    BY <2>1, <2>2, <2>3 DEF WorkerStep
<1>4. \/ /\ \E p \in {"copy", "post"} : wpc' = [wpc EXCEPT ![w] = p]
         /\ \E p \in {"out", "want"} : log' = [log EXCEPT ![Self(w)] = p]
      \/ wpc' = [wpc EXCEPT ![w] = "none"] /\ log' = log
  BY DEF WorkerStep, WorkerStart, WorkerCopy, WorkerPost, Say
<1>5. /\ Places'
      /\ \A d \in Contexts : d # Self(w) => log'[d] = log[d]
      /\ \A x \in Workers \ {w} : x \in Busy' <=> x \in Busy
      /\ log'[Self(w)] # "out" => w \in Busy'
  BY <1>1, <1>4 DEF IInv, Places, Busy
<1>6. Phases'
  BY <1>1 DEF IInv, Phases
<1>7. LogThread' /\ Drained' /\ Returned'
  BY <1>1 DEF IInv, LogThread, Drained, Returned
<1>8. Workings'
  <2>1. mpc \notin Before
    BY <1>2 DEF IInv, Workings, Before, Looping
  <2>2. QED
    BY <1>1, <1>2, <2>1 DEF IInv, Workings
<1>9. Handlers'
  BY <1>1, <1>5 DEF IInv, Handlers
<1>10. Logs'
  BY <1>1, <1>5, ContextCases, ContextsDiffer, ThreadCases DEF IInv, Logs
<1>11. NothingStale'
  <2>1. (mnt /\ s3 /\ quota /\ sem_live) \/ abandoned
    BY <1>2 DEF IInv, Workings, Phases
  <2>2. QED
    BY <1>1, <1>3, <2>1 DEF IInv, NothingStale
<1>12. QED
  BY <1>5, <1>6, <1>7, <1>8, <1>9, <1>10, <1>11 DEF IInv

\* A signal, and a step of the handler, preserve it.
LEMMA HandlerIInv ==
    ASSUME IInv, NEW t \in Targets, Deliver(t) \/ HandlerStep(t)
    PROVE  IInv'
<1>1. /\ t \in Threads /\ exited = "no" /\ ~ stale
      /\ UNCHANGED <<mpc, wpc, root, live, run, ring, rpc, mnt, s3, quota, sem_live,
                     installed, abandoned, stale>>
      /\ exited' # "return"
  BY RunsOutside DEF Deliver, HandlerStep, HandlerStop, HandlerPoll, HandlerExit,
     HandlerAt, Threads, tlog, things, sigs
<1>2. \/ hpc' = hpc /\ hpc[t] # "none"
      \/ \E p \in {"log", "poll"} : hpc' = [hpc EXCEPT ![t] = p]
  BY DEF Deliver, HandlerStep, HandlerStop, HandlerPoll, HandlerExit, HandlerAt, sigs
<1>3. \/ log' = log
      \/ \E p \in {"out", "want"} : log' = [log EXCEPT ![Handler(t)] = p]
                                   /\ (p = "want" => root)
  BY DEF Deliver, HandlerStep, HandlerStop, HandlerPoll, HandlerExit, Say
<1>4. hpc[t] = "none" => installed /\ Alive(t)
  BY DEF Deliver, HandlerStep, HandlerStop, HandlerPoll, HandlerExit, HandlerAt
<1>5. /\ Places'
      /\ \A d \in Contexts : d # Handler(t) => log'[d] = log[d]
      /\ \A u \in Threads : u # t => hpc'[u] = hpc[u]
      /\ hpc'[t] # "none"
      /\ Busy' = Busy
  BY <1>1, <1>2, <1>3 DEF IInv, Places, Busy
<1>6. Phases'
  BY <1>1 DEF IInv, Phases
<1>7. LogThread' /\ Returned'
  BY <1>1 DEF IInv, LogThread, Returned
<1>8. Workings'
  <2>1. installed
    BY <1>1, <1>4 DEF IInv, Handlers
  <2>2. mpc \notin Before
    BY <2>1 DEF IInv, Phases
  <2>3. QED
    BY <1>1, <1>5, <2>2 DEF IInv, Workings
<1>9. Drained'
  BY <1>1, <1>5, ThreadCases DEF IInv, Drained
<1>10. Handlers'
  <2>1. hpc[t] # "none" \/ (installed /\ Alive(t))
    BY <1>4
  <2>2. t \in Workers => t \in Busy
    BY <2>1, ThreadCases DEF IInv, Handlers, Alive
  <2>3. t = Logger => rpc \notin NoThread
    BY <2>1, ThreadCases DEF IInv, Handlers, Alive, NoThread
  <2>4. installed
    BY <1>1, <2>1 DEF IInv, Handlers
  <2>5. QED
    BY <1>1, <1>5, <2>2, <2>3, <2>4, ThreadCases DEF IInv, Handlers
<1>11. Logs'
  <2>1. log'[Handler(Main)] # "out" => root
    BY <1>3, ContextCases, ContextsDiffer, ThreadCases DEF IInv, Logs, Places
  <2>2. QED
    BY <1>1, <1>5, <2>1, ContextCases, ContextsDiffer, ThreadCases DEF IInv, Logs
<1>12. NothingStale'
  <2>1. \/ misused' = misused
        \/ misused' = misused \cup {"sem"} /\ ~ sem_live /\ hpc[t] # "none"
    BY DEF Deliver, HandlerStep, HandlerStop, HandlerPoll, HandlerExit, HandlerAt, Misuse
  <2>2. ~ sem_live /\ hpc[t] # "none" => t \in {Main, Logger} \/ abandoned
    BY <1>1 DEF IInv, Handlers, Workings, Phases, Threads
  <2>3. QED
    BY <1>1, <1>5, <2>1, <2>2, ThreadCases DEF IInv, NothingStale
<1>13. QED
  BY <1>5, <1>6, <1>7, <1>8, <1>9, <1>10, <1>11, <1>12 DEF IInv

\* A stuttering step preserves it.
LEMMA StutterIInv ==
    ASSUME IInv, UNCHANGED vars
    PROVE  IInv'
<1>1. /\ UNCHANGED <<mpc, wpc, root, live, run, ring, rpc, log, mnt, s3, quota,
                     sem_live, installed, hpc, exited, abandoned, misused,
                     stale>>
  BY DEF vars, tlog, things, sigs
<1>2. Phases' /\ NothingStale'
  BY <1>1 DEF IInv, Phases, NothingStale
<1>3. QED
  BY <1>1, <1>2 DEF IInv, Places, LogThread, Workings, Busy, Handlers, Logs,
     Drained, Returned

\* Every step preserves it.
LEMMA NextIInv == IInv /\ [Next]_vars => IInv'
<1> SUFFICES ASSUME IInv, [Next]_vars PROVE IInv'
  OBVIOUS
<1>1. CASE MainStep \/ LeaveLoop
  BY <1>1, SetupIInv, LoopIInv, TeardownIInv, LeaveLoopIInv DEF MainStep
<1>2. ASSUME NEW w \in Workers, WorkerStep(w) PROVE IInv'
  BY <1>2, WorkerIInv
<1>3. ASSUME NEW c \in Contexts, LogStep(c) PROVE IInv'
  BY <1>3, LogIInv
<1>4. CASE WorkStep
  BY <1>4, WorkIInv
<1>5. ASSUME NEW t \in Targets, Deliver(t) \/ HandlerStep(t) PROVE IInv'
  BY <1>5, HandlerIInv
<1>6. CASE UNCHANGED vars
  BY <1>6, StutterIInv
<1>7. QED
  BY <1>1, <1>2, <1>3, <1>4, <1>5, <1>6 DEF Next, Ended

\* The inductive invariant holds of every state of the process.
LEMMA IInvHolds == Spec => []IInv
BY InitIInv, NextIInv, PTL DEF Spec

----------------------------------------------------------------------------

\* However signals, workers and the log thread interleave, only workers that
\* main abandoned use the log, the mount point, S3 or the quota after it has
\* taken them down; beside them only the handler on main or the log thread
\* reads a semaphore that is not there; and only a failed setup takes down what
\* it has not set up.
THEOREM NoStaleUse == Spec => []NothingStale
<1>1. IInv => NothingStale
  BY DEF IInv
<1>2. QED
  BY <1>1, IInvHolds, PTL

\* When main returns, every line has left the ring, unless the log thread was
\* lost by daemon() or abandoned workers still log.
THEOREM LogIsFlushed == Spec => []Flushed
<1>1. ASSUME IInv, exited = "return", ~ abandoned, rpc # "lost"
      PROVE  ring = 0
  <2>1. CASE mpc = "tlog_init"
    BY <1>1, <2>1 DEF IInv, LogThread
  <2>2. CASE mpc = "return" /\ hpc[Main] = "none"
    <3>1. rpc = "exit"
      BY <1>1, <2>2 DEF IInv, LogThread, Joined
    <3>2. QED
      BY <1>1, <2>2, <3>1 DEF IInv, Drained
  <2>3. QED
    BY <1>1, <2>1, <2>2 DEF IInv, Returned
<1>2. IInv => Flushed
  BY <1>1 DEF Flushed, Forked
<1>3. QED
  BY <1>2, IInvHolds, PTL
=============================================================================
