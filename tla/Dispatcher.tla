----------------------------- MODULE Dispatcher -----------------------------
(***************************************************************************)
(* The request dispatcher of the copytool (ct_common.c): ct_run receives   *)
(* action lists from the coordinator and hands every item to a detached    *)
(* thread, ct_request_ctl limits the threads with a semaphore, and the     *)
(* signal handler waits, on whichever thread it interrupts, until the      *)
(* semaphore says that nobody works, and exits the process.                *)
(*                                                                         *)
(* A thread in the handler never returns to what it was doing: handler()   *)
(* loops until exit(0).  It logs before it looks, each time around, so it  *)
(* may wait for ever behind the lock of tlog when the signal found its     *)
(* thread, or another one, with that lock in its hands.                    *)
(***************************************************************************)
EXTENDS Integers, FiniteSets

CONSTANTS Workers,        \* identities of worker threads, reused
          Main,           \* the thread that runs ct_run
          MaxRequests,    \* max_requests of the configuration file
          Logger,         \* the log thread of tlog
          MaxList,        \* bound: the longest action list (hal_count)
          MaxSignals,     \* bound: how many signals come
          SignalTargets   \* the threads the kernel may deliver a signal to

\* ct_parse_config rejects max_requests <= 0 (lhsmtool_s3.c:364-373).
ASSUME MaxRequestsAssumption == MaxRequests \in Nat \ {0}
ASSUME WorkersAssumption == IsFiniteSet(Workers) /\ {Main, Logger} \cap Workers = {}
ASSUME BoundsAssumption == MaxList \in Nat /\ MaxSignals \in Nat
\* No thread masks the signals.
ASSUME TargetsAssumption == Main # Logger /\ SignalTargets \subseteq Workers \cup {Main, Logger}

VARIABLES
    mpc,             \* where the main thread is in ct_run
    items,           \* items of the current list not handed out yet
    wpc,             \* where each worker is in ct_thread
    hsm_req_sem,     \* the value of the semaphore
    sem_state,       \* "none" (zeroed static), "live" or "destroyed"
    stop_it,         \* set by the handler
    err_major,       \* err_major # 0
    hpc,             \* where each thread is in handler(), if it is there
    logHeld,         \* tlog.lock is held by a thread that a signal caught
    nsignals,        \* signals so far
    installed,       \* handler() is installed for the signals
    registered,      \* registered with the coordinator
    exited,          \* "no", "handler" (exit(0)) or "return" (from main)
    o_abort_on_error,\* the option
    unslotted        \* history: items let through without a slot

slots == <<hsm_req_sem, sem_state>>
signals == <<stop_it, hpc, logHeld, nsignals, installed>>
life == <<registered, exited>>
vars == <<mpc, items, wpc, slots, err_major, signals, life,
          o_abort_on_error, unslotted>>

MainSteps == {"register", "sigaction", "sem_init", "recv", "item", "ctl",
              "timedwait", "got", "drain", "create", "created", "endlist",
              "destroy", "unregister", "return"}

Busy == {w \in Workers : wpc[w] \in {"work", "post"}}
inHandler == {t \in SignalTargets : hpc[t] # "none"}

TypeOK ==
    /\ mpc \in MainSteps
    /\ items \in 0 .. MaxList
    /\ wpc \in [Workers -> {"none", "work", "post", "exit"}]
    /\ hsm_req_sem \in Nat
    /\ sem_state \in {"none", "live", "destroyed"}
    /\ stop_it \in BOOLEAN /\ err_major \in BOOLEAN
    /\ hpc \in [SignalTargets -> {"none", "log", "poll"}]
    /\ logHeld \in BOOLEAN /\ nsignals \in 0 .. MaxSignals
    /\ installed \in BOOLEAN /\ registered \in BOOLEAN /\ o_abort_on_error \in BOOLEAN
    /\ exited \in {"no", "handler", "return"}
    /\ unslotted \in 0 .. MaxList

Init ==
    /\ mpc = "register" /\ items = 0
    /\ wpc = [w \in Workers |-> "none"]
    /\ hsm_req_sem = 0 /\ sem_state = "none"
    /\ stop_it = FALSE /\ err_major = FALSE
    /\ hpc = [t \in SignalTargets |-> "none"] /\ logHeld = FALSE /\ nsignals = 0
    /\ installed = FALSE /\ registered = FALSE /\ exited = "no"
    /\ o_abort_on_error \in BOOLEAN
    /\ unslotted = 0

\* The main thread runs: the process lives and main is not in the handler.
MainAt(step) == mpc = step /\ Main \notin inHandler /\ exited = "no"
WorkerAt(w, step) == wpc[w] = step /\ w \notin inHandler /\ exited = "no"

AbortNow == o_abort_on_error /\ err_major

----------------------------------------------------------------------------
(* ct_run: setup                                                            *)

\* Nothing is cleaned up when the registration fails.
Register ==
    /\ MainAt("register")
    /\ \/ registered' = TRUE /\ mpc' = "sigaction"
       \/ mpc' = "return" /\ UNCHANGED registered
    /\ UNCHANGED <<items, wpc, slots, err_major, signals, exited, o_abort_on_error,
                   unslotted>>

\* Both sigaction calls: from here a signal runs the handler.  When one of
\* them fails, the other may or may not have been made.
InstallHandler ==
    /\ MainAt("sigaction")
    /\ \/ mpc' = "sem_init" /\ installed' = TRUE
       \/ mpc' = "unregister" /\ installed' \in BOOLEAN
    /\ UNCHANGED <<items, wpc, slots, err_major, stop_it, hpc, logHeld, nsignals, life,
                   o_abort_on_error, unslotted>>

SemInit ==
    /\ MainAt("sem_init")
    /\ \/ mpc' = "recv" /\ hsm_req_sem' = MaxRequests /\ sem_state' = "live"
       \/ mpc' = "unregister" /\ UNCHANGED slots
    /\ UNCHANGED <<items, wpc, err_major, signals, life, o_abort_on_error, unslotted>>

----------------------------------------------------------------------------
(* ct_run: the loop                                                         *)

\* llapi_hsm_copytool_recv: -ESHUTDOWN, or an error or a foreign file system
\* name, or an action list.
RecvShutdown ==
    /\ MainAt("recv")
    /\ mpc' = "destroy"
    /\ UNCHANGED <<items, wpc, slots, err_major, signals, life, o_abort_on_error,
                   unslotted>>

RecvError ==
    /\ MainAt("recv")
    /\ err_major' = TRUE
    /\ mpc' = IF o_abort_on_error THEN "destroy" ELSE "recv"
    /\ UNCHANGED <<items, wpc, slots, signals, life, o_abort_on_error,
                   unslotted>>

RecvList ==
    /\ MainAt("recv")
    /\ items' \in 0 .. MaxList
    /\ mpc' = "item"
    /\ UNCHANGED <<wpc, slots, err_major, signals, life, o_abort_on_error,
                   unslotted>>

\* The head of the item loop: done, past the end of the message, or an item.
NextItem ==
    /\ MainAt("item")
    /\ \/ items = 0 /\ mpc' = "endlist" /\ UNCHANGED err_major
       \/ items > 0 /\ mpc' = "endlist" /\ err_major' = TRUE
       \/ items > 0 /\ mpc' = "ctl" /\ UNCHANGED err_major
    /\ UNCHANGED <<items, wpc, slots, signals, life, o_abort_on_error,
                   unslotted>>

\* ct_request_ctl: returns at once when stop_it, else takes a slot.
CtlEnter ==
    /\ MainAt("ctl")
    /\ mpc' = IF stop_it THEN "create" ELSE "timedwait"
    /\ unslotted' = IF stop_it THEN unslotted + 1 ELSE unslotted
    /\ UNCHANGED <<items, wpc, slots, err_major, signals, life, o_abort_on_error>>

\* Mutant: the wait succeeds on an empty semaphore.
TimedWaitNoSlot ==
    /\ MainAt("timedwait")
    /\ mpc' = "got" /\ hsm_req_sem' = hsm_req_sem - 1
    /\ UNCHANGED <<items, wpc, sem_state, err_major, signals, life,
                   o_abort_on_error, unslotted>>

\* sem_timedwait takes a slot ...
TimedWait ==
    /\ MainAt("timedwait")
    /\ hsm_req_sem > 0
    /\ mpc' = "got" /\ hsm_req_sem' = hsm_req_sem - 1
    /\ UNCHANGED <<items, wpc, sem_state, err_major, signals, life,
                   o_abort_on_error, unslotted>>

\* ... or its second is over.
TimedOut ==
    /\ MainAt("timedwait")
    /\ mpc' = IF stop_it THEN "drain" ELSE "timedwait"
    /\ UNCHANGED <<items, wpc, slots, err_major, signals, life, o_abort_on_error,
                   unslotted>>

\* stop_it is looked at after the wait: the slot is given back for the count.
GotSlot ==
    /\ MainAt("got")
    /\ IF stop_it
         THEN mpc' = "drain" /\ hsm_req_sem' = hsm_req_sem + 1
         ELSE mpc' = "create" /\ UNCHANGED hsm_req_sem
    /\ UNCHANGED <<items, wpc, sem_state, err_major, signals, life,
                   o_abort_on_error, unslotted>>

\* Mutant: the last worker is not waited for.
DrainShort ==
    /\ MainAt("drain")
    /\ \/ hsm_req_sem < MaxRequests - 1 /\ mpc' = "timedwait" /\ UNCHANGED unslotted
       \/ hsm_req_sem >= MaxRequests - 1 /\ mpc' = "create" /\ unslotted' = unslotted + 1
    /\ UNCHANGED <<items, wpc, slots, err_major, signals, life, o_abort_on_error>>

\* "there still have working threads, must wait"; then the item goes on,
\* without a slot.
Drain ==
    /\ MainAt("drain")
    /\ \/ hsm_req_sem < MaxRequests /\ mpc' = "timedwait" /\ UNCHANGED unslotted
       \/ hsm_req_sem >= MaxRequests /\ mpc' = "create" /\ unslotted' = unslotted + 1
    /\ UNCHANGED <<items, wpc, slots, err_major, signals, life, o_abort_on_error>>

\* ct_process_item_async starts a detached thread ...
Create(w) ==
    /\ MainAt("create") /\ wpc[w] = "none"
    /\ wpc' = [wpc EXCEPT ![w] = "work"]
    /\ mpc' = "created"
    /\ UNCHANGED <<items, slots, err_major, signals, life, o_abort_on_error,
                   unslotted>>

\* Mutant: the slot of the item that was not started is lost.
CreateFailKeepsSlot ==
    /\ MainAt("create")
    /\ mpc' = "created"
    /\ UNCHANGED <<items, wpc, slots, err_major, signals, life,
                   o_abort_on_error, unslotted>>

\* ... or fails (no memory, no thread), and ct_run gives the slot back.
CreateFail ==
    /\ MainAt("create")
    /\ mpc' = "created" /\ hsm_req_sem' = hsm_req_sem + 1
    /\ UNCHANGED <<items, wpc, sem_state, err_major, signals, life,
                   o_abort_on_error, unslotted>>

ItemDone ==
    /\ MainAt("created")
    /\ IF AbortNow THEN mpc' = "endlist" /\ UNCHANGED items
                   ELSE mpc' = "item" /\ items' = items - 1
    /\ UNCHANGED <<wpc, slots, err_major, signals, life, o_abort_on_error,
                   unslotted>>

EndList ==
    /\ MainAt("endlist")
    /\ mpc' = IF stop_it \/ AbortNow THEN "destroy" ELSE "recv"
    /\ items' = 0
    /\ UNCHANGED <<wpc, slots, err_major, signals, life, o_abort_on_error,
                   unslotted>>

\* sem_destroy, which does not look for waiters or posters.
SemDestroy ==
    /\ MainAt("destroy")
    /\ mpc' = "unregister" /\ sem_state' = "destroyed"
    /\ UNCHANGED <<items, wpc, hsm_req_sem, err_major, signals, life,
                   o_abort_on_error, unslotted>>

Unregister ==
    /\ MainAt("unregister")
    /\ mpc' = "return" /\ registered' = FALSE
    /\ UNCHANGED <<items, wpc, slots, err_major, signals, exited, o_abort_on_error,
                   unslotted>>

\* main() cleans up and returns, which ends the process and its workers.
Return ==
    /\ MainAt("return")
    /\ exited' = "return"
    /\ UNCHANGED <<mpc, items, wpc, slots, err_major, signals, registered,
                   o_abort_on_error, unslotted>>

----------------------------------------------------------------------------
(* ct_thread                                                                *)

\* ct_archive counts a major error whatever happened; ct_restore only when
\* the data could not be copied.
WorkArchive(w) ==
    /\ WorkerAt(w, "work")
    /\ wpc' = [wpc EXCEPT ![w] = "post"]
    /\ err_major' = TRUE
    /\ UNCHANGED <<mpc, items, slots, signals, life, o_abort_on_error,
                   unslotted>>

WorkRestore(w) ==
    /\ WorkerAt(w, "work")
    /\ wpc' = [wpc EXCEPT ![w] = "post"]
    /\ err_major' \in {err_major, TRUE}
    /\ UNCHANGED <<mpc, items, slots, signals, life, o_abort_on_error,
                   unslotted>>

\* Mutant: the thread ends without giving its slot back.
SemPostMissing(w) ==
    /\ WorkerAt(w, "post")
    /\ wpc' = [wpc EXCEPT ![w] = "exit"]
    /\ UNCHANGED <<mpc, items, slots, err_major, signals, life, o_abort_on_error,
                   unslotted>>

SemPost(w) ==
    /\ WorkerAt(w, "post")
    /\ wpc' = [wpc EXCEPT ![w] = "exit"]
    /\ hsm_req_sem' = hsm_req_sem + 1
    /\ UNCHANGED <<mpc, items, sem_state, err_major, signals, life,
                   o_abort_on_error, unslotted>>

\* pthread_exit: from sem_post to here the thread has no slot and still runs.
ThreadExit(w) ==
    /\ WorkerAt(w, "exit")
    /\ wpc' = [wpc EXCEPT ![w] = "none"]
    /\ UNCHANGED <<mpc, items, slots, err_major, signals, life, o_abort_on_error,
                   unslotted>>

----------------------------------------------------------------------------
(* handler                                                                  *)

\* Where a thread may be inside tlog, with its lock: main between the places
\* that only use the semaphore, a worker with its item, the log thread
\* always, and any thread at the log calls of the handler itself.
MainLogs == {"recv", "item", "drain", "create", "unregister", "return"}
InTlog(t) ==
    \/ t = Main /\ mpc \in MainLogs
    \/ t \in Workers /\ wpc[t] = "work"
    \/ t = Logger
    \/ hpc[t] = "log"

\* SIGINT or SIGTERM reaches a thread; each of them may also interrupt the
\* handler of the other.
Deliver(t) ==
    /\ exited = "no" /\ installed /\ nsignals < MaxSignals
    /\ t \in Workers => wpc[t] # "none"
    /\ hpc' = [hpc EXCEPT ![t] = "log"]
    /\ logHeld' \in {logHeld, InTlog(t) \/ logHeld}
    /\ nsignals' = nsignals + 1
    /\ UNCHANGED <<mpc, items, wpc, slots, err_major, stop_it, installed, life,
                   o_abort_on_error, unslotted>>

HandlerAt(t, step) == hpc[t] = step /\ exited = "no"

\* tlog_info has returned; stop_it is set (again, after a round).
HandlerStop(t) ==
    /\ HandlerAt(t, "log")
    /\ hpc' = [hpc EXCEPT ![t] = "poll"]
    /\ stop_it' = TRUE
    /\ UNCHANGED <<mpc, items, wpc, slots, err_major, logHeld, nsignals, installed, life,
                   o_abort_on_error, unslotted>>

\* "still have working threads": logs, sleeps and looks again.
HandlerPoll(t) ==
    /\ HandlerAt(t, "poll")
    /\ hsm_req_sem < MaxRequests
    /\ hpc' = [hpc EXCEPT ![t] = "log"]
    /\ UNCHANGED <<mpc, items, wpc, slots, err_major, stop_it, logHeld, nsignals, installed,
                   life, o_abort_on_error, unslotted>>

\* Mutant: the handler stops waiting one thread too early.
HandlerExitEarly(t) ==
    /\ HandlerAt(t, "poll")
    /\ hsm_req_sem >= MaxRequests - 1
    /\ exited' = "handler"
    /\ UNCHANGED <<mpc, items, wpc, slots, err_major, signals, registered,
                   o_abort_on_error, unslotted>>

HandlerExit(t) ==
    /\ HandlerAt(t, "poll")
    /\ hsm_req_sem >= MaxRequests
    /\ exited' = "handler"
    /\ UNCHANGED <<mpc, items, wpc, slots, err_major, signals, registered,
                   o_abort_on_error, unslotted>>

----------------------------------------------------------------------------

Recv == RecvShutdown \/ RecvError \/ RecvList

\* What main does by itself; only recv waits for the coordinator.
MainRuns ==
    \/ Register \/ InstallHandler \/ SemInit \/ NextItem \/ CtlEnter
    \/ TimedWait \/ TimedOut \/ GotSlot \/ Drain
    \/ (\E w \in Workers : Create(w)) \/ CreateFail \/ ItemDone \/ EndList
    \/ SemDestroy \/ Unregister \/ Return

WorkerRuns(w) == WorkArchive(w) \/ WorkRestore(w) \/ SemPost(w) \/ ThreadExit(w)

HandlerRuns(t) == HandlerStop(t) \/ HandlerPoll(t) \/ HandlerExit(t)

Exited == exited # "no" /\ UNCHANGED vars

Next ==
    \/ MainRuns \/ Recv
    \/ \E w \in Workers : WorkerRuns(w)
    \/ \E t \in SignalTargets : Deliver(t) \/ HandlerRuns(t)
    \/ Exited

\* A call of tlog returns: no caught thread has the lock, and the log thread
\* is there to make room.
LogWorks == ~logHeld /\ Logger \notin inHandler

\* Every thread is scheduled as long as the calls of tlog return, and the
\* copy a worker makes is assumed to end; the coordinator need not send
\* anything and nobody need send a signal.
Fairness ==
    /\ WF_vars(LogWorks /\ MainRuns)
    /\ \A w \in Workers : WF_vars(LogWorks /\ WorkerRuns(w))
    /\ \A t \in SignalTargets : WF_vars(LogWorks /\ HandlerRuns(t))

Spec == Init /\ [][Next]_vars /\ Fairness

----------------------------------------------------------------------------
(* Properties                                                               *)

\* main is between taking (or skipping) a slot and handing the item over.
Held == IF mpc \in {"got", "create"} THEN 1 ELSE 0

\* Slots are conserved through failed thread creations, the give-back of
\* ct_request_ctl and every interleaving with the workers' sem_post: the free
\* ones, those of busy workers and main's own add up to max_requests plus the
\* items that ct_request_ctl let through without one, and there are such
\* items only after a signal.
SlotAccounting ==
    /\ sem_state # "none" =>
         hsm_req_sem + Cardinality(Busy) + Held = MaxRequests + unslotted
    /\ unslotted > 0 => stop_it

\* No other thread has been interrupted: signals, if any, went to main.
OnlyMainStopped == inHandler \subseteq {Main}

\* No more than max_requests items are processed at once ("max concurrent
\* requests can handle", ct_common.c:77), unless a signal has hit another
\* thread than main: then main goes on and ct_request_ctl lets items through.
ConcurrencyLimit == OnlyMainStopped => Cardinality(Busy) <= MaxRequests

\* handler() on main exits only when nobody works: the value it polls says so
\* through failed creations and workers that finish meanwhile, as long as no
\* other thread was interrupted.  After that, main lets items through without a
\* slot, their sem_post raises the value, and the handler may exit although
\* "there still have working threads, must wait" (ct_common.c:217-218).
GracefulExit == exited = "handler" /\ OnlyMainStopped => Busy = {}

\* When main itself waits for the workers in ct_request_ctl, because the
\* signal went to another thread, it stops waiting only when every worker has
\* finished: a worker caught with its slot keeps it there for ever, one that
\* is caught after its sem_post, or the log thread, does not.
DrainComplete == [][mpc = "drain" /\ mpc' = "create" => Busy = {}]_vars

\* While slots are taken, main waits for one, and gets one unless a signal
\* comes: provided that every copy ends, a worker's slot always comes back.
DispatchProgress == mpc = "timedwait" ~> (mpc = "create" \/ inHandler # {})

\* A signal that finds main with the semaphore set up and no slot in its
\* hands ends the process, provided that the copies of the workers end,
\* unless it (or a second one) finds its thread inside tlog with the lock, or
\* a second one interrupts another thread.
StopExits ==
    (inHandler = {Main} /\ sem_state = "live" /\ Held = 0)
        ~> (exited = "handler" \/ logHeld \/ ~OnlyMainStopped)

\* The worker threads as a pool: the busy ones and how the pool ended.  The
\* pool is abandoned when main returns or a signal interrupts another thread.
Abandoned == exited = "return" \/ ~OnlyMainStopped
Pool == INSTANCE WorkPool WITH
    busy <- IF Abandoned THEN {} ELSE Busy,
    status <- IF Abandoned THEN "left"
              ELSE IF exited = "handler" THEN "stopped" ELSE "open"

\* Until it is abandoned, the dispatcher implements the pool.
PoolSpec == Pool!Spec

============================================================================
