-------------------------- MODULE DispatcherProofs --------------------------
(***************************************************************************)
(* Theorems about the dispatcher for every number of workers and slots,    *)
(* every list length and every set of threads that signals may reach, and  *)
(* the proof that it implements WorkPool.                                  *)
(***************************************************************************)
EXTENDS Dispatcher, FiniteSetTheorems, TLAPS

\* The places of main before the semaphore is set up, and those of the loop.
Early == {"register", "sigaction", "sem_init"}
Loop == {"recv", "item", "ctl", "timedwait", "got", "drain", "create",
         "created", "endlist", "destroy"}
\* The places of main while it has an item of a list in its hands.
WithItem == {"ctl", "timedwait", "got", "drain", "create", "created"}
\* The places main can be at after it let an item through without a slot.
AfterStop == {"item", "ctl", "create", "created", "endlist", "destroy",
              "unregister", "return"}

\* The semaphore is set up once, before the loop, and nobody works before.
Phase ==
    /\ mpc \in Early => sem_state = "none"
    /\ mpc \in Loop => sem_state # "none"
    /\ sem_state = "none" => hsm_req_sem = 0 /\ Busy = {}

\* Items go without a slot only after a signal, on a path that does not lead
\* back to the wait for a slot, and only while main itself is not caught.
Passed ==
    /\ unslotted > 0 => mpc \in AfterStop
    /\ OnlyMainStopped => unslotted = 0

\* At most the items of one list go without a slot.
Budget ==
    /\ mpc \in WithItem => items > 0
    /\ mpc \in {"item", "ctl"} => unslotted + items <= MaxList
    /\ mpc \in {"create", "created"} => unslotted + items <= MaxList + 1

\* stop_it is set by a thread in the handler, main drains only then, and exit(0) was reached
\* with a full semaphore.
Stopped ==
    /\ stop_it => inHandler # {}
    /\ mpc = "drain" => stop_it
    /\ exited = "handler" => hsm_req_sem >= MaxRequests

\* The inductive invariant: none of SlotAccounting, ConcurrencyLimit and
\* GracefulExit is preserved without the others.
IInv == TypeOK /\ SlotAccounting /\ Phase /\ Passed /\ Budget /\ Stopped

----------------------------------------------------------------------------

USE MaxRequestsAssumption, BoundsAssumption

\* There are finitely many busy workers.
LEMMA BusyFinite == IsFiniteSet(Busy) /\ Cardinality(Busy) \in Nat
BY WorkersAssumption, FS_Subset, FS_CardinalityType DEF Busy

\* Workers that stay where they are stay busy or idle.
LEMMA BusyUnchanged == UNCHANGED wpc => Busy' = Busy
BY DEF Busy

\* Handlers that stay where they are keep their threads.
LEMMA HandlersUnchanged == UNCHANGED hpc => inHandler' = inHandler
BY DEF inHandler

\* pthread_create makes an idle worker busy.
LEMMA BusyStarts ==
    ASSUME NEW w \in Workers, TypeOK, Create(w)
    PROVE  w \notin Busy /\ Busy' = Busy \cup {w}
BY DEF Create, Busy, TypeOK

\* A worker that is done with its item still has its slot.
LEMMA BusyWorks ==
    ASSUME NEW w \in Workers, TypeOK, WorkArchive(w) \/ WorkRestore(w)
    PROVE  Busy' = Busy
BY DEF WorkArchive, WorkRestore, WorkerAt, Busy, TypeOK

\* pthread_exit of a worker that has posted makes nobody idle.
LEMMA BusyExits ==
    ASSUME NEW w \in Workers, TypeOK, ThreadExit(w)
    PROVE  Busy' = Busy
BY DEF ThreadExit, WorkerAt, Busy, TypeOK

\* sem_post makes a busy worker idle.
LEMMA BusyPosts ==
    ASSUME NEW w \in Workers, TypeOK, SemPost(w)
    PROVE  w \in Busy /\ Busy' = Busy \ {w}
BY DEF SemPost, WorkerAt, Busy, TypeOK

\* A started worker is one more busy one.
LEMMA BusyStartsCount ==
    ASSUME NEW w \in Workers, TypeOK, Create(w)
    PROVE  Cardinality(Busy') = Cardinality(Busy) + 1
BY BusyStarts, BusyFinite, FS_AddElement

\* A worker that posts is one busy one less.
LEMMA BusyPostsCount ==
    ASSUME NEW w \in Workers, TypeOK, SemPost(w)
    PROVE  Cardinality(Busy') = Cardinality(Busy) - 1
BY BusyPosts, BusyFinite, FS_RemoveElement

----------------------------------------------------------------------------

\* The invariant holds when ct_run starts.
LEMMA InitIInv == Init => IInv
<1> SUFFICES ASSUME Init PROVE IInv
  OBVIOUS
<1>1. Busy = {}
  BY DEF Init, Busy
<1>2. /\ mpc \in MainSteps /\ items \in 0 .. MaxList /\ hsm_req_sem \in Nat
      /\ unslotted \in 0 .. MaxList
  BY DEF Init, MainSteps
<1>3. /\ wpc \in [Workers -> {"none", "work", "post", "exit"}]
      /\ sem_state \in {"none", "live", "destroyed"}
      /\ exited \in {"no", "handler", "return"}
  BY DEF Init
<1>4. stop_it \in BOOLEAN /\ err_major \in BOOLEAN /\ logHeld \in BOOLEAN
  BY DEF Init
<1>5. hpc \in [SignalTargets -> {"none", "log", "poll"}]
  BY DEF Init
<1>6. nsignals \in 0 .. MaxSignals
  BY DEF Init
<1>7. installed \in BOOLEAN /\ registered \in BOOLEAN /\ o_abort_on_error \in BOOLEAN
  BY DEF Init
<1>8. TypeOK
  BY <1>2, <1>3, <1>4, <1>7, <1>5, <1>6 DEF TypeOK
<1>9. QED
  BY <1>1, <1>8 DEF Init, IInv, SlotAccounting, Phase, Passed, Budget, Stopped, inHandler,
     Early, Loop, WithItem, AfterStop

\* The steps before the loop preserve it.
LEMMA SetupIInv ==
    ASSUME IInv, Register \/ InstallHandler \/ SemInit
    PROVE  IInv'
<1>1. Busy' = Busy
  BY BusyUnchanged DEF Register, InstallHandler, SemInit
<1>2. Cardinality(Busy) \in Nat /\ (Busy = {} => Cardinality(Busy) = 0)
  BY BusyFinite, FS_EmptySet
<1>3. TypeOK'
  <2>1. CASE Register
    BY <2>1 DEF IInv, TypeOK, Register, MainSteps, slots, signals, life
  <2>2. CASE InstallHandler
    BY <2>2 DEF IInv, TypeOK, InstallHandler, MainSteps, slots, life
  <2>3. CASE SemInit
    BY <2>3 DEF IInv, TypeOK, SemInit, MainSteps, slots, signals, life
  <2>4. QED
    BY <2>1, <2>2, <2>3
<1>4. SlotAccounting' /\ Phase'
  BY <1>1, <1>2 DEF IInv, TypeOK, SlotAccounting, Phase, Passed, Held, Early, Loop, AfterStop,
     Register, InstallHandler, SemInit, MainAt, slots, signals, life
<1>5. Passed' /\ Budget' /\ Stopped'
  BY DEF IInv, TypeOK, Phase, Passed, Budget, Stopped, OnlyMainStopped, inHandler, Early, Loop, AfterStop,
     WithItem, Register, InstallHandler, SemInit, MainAt, slots, signals, life
<1>6. QED
  BY <1>3, <1>4, <1>5 DEF IInv

\* So does llapi_hsm_copytool_recv, whatever it returns: no item has gone
\* without a slot there.
LEMMA RecvIInv ==
    ASSUME IInv, RecvShutdown \/ RecvError \/ RecvList
    PROVE  IInv'
<1>1. Busy' = Busy
  BY BusyUnchanged DEF RecvShutdown, RecvError, RecvList
<1>2. TypeOK'
  <2>1. CASE RecvShutdown
    BY <2>1 DEF IInv, TypeOK, RecvShutdown, MainSteps, slots, signals, life
  <2>2. CASE RecvError
    BY <2>2 DEF IInv, TypeOK, RecvError, MainSteps, slots, signals, life
  <2>3. CASE RecvList
    BY <2>3 DEF IInv, TypeOK, RecvList, MainSteps, slots, signals, life
  <2>4. QED
    BY <2>1, <2>2, <2>3
<1>3. SlotAccounting' /\ Phase'
  BY <1>1 DEF IInv, TypeOK, SlotAccounting, Phase, Held, Early, Loop,
     RecvShutdown, RecvError, RecvList, MainAt, slots, signals, life
<1>4. Passed' /\ Budget' /\ Stopped'
  BY DEF IInv, TypeOK, Passed, Budget, Stopped, OnlyMainStopped, inHandler, AfterStop, WithItem,
     RecvShutdown, RecvError, RecvList, MainAt, slots, signals, life
<1>5. QED
  BY <1>2, <1>3, <1>4 DEF IInv

\* So do the steps of the loop over a list.
LEMMA ListIInv ==
    ASSUME IInv, NextItem \/ ItemDone \/ EndList
    PROVE  IInv'
<1>1. Busy' = Busy
  BY BusyUnchanged DEF NextItem, ItemDone, EndList
<1>2. TypeOK'
  <2>1. CASE NextItem
    BY <2>1 DEF IInv, TypeOK, NextItem, MainAt, MainSteps, slots, signals, life
  <2>2. CASE ItemDone
    BY <2>2 DEF IInv, TypeOK, Budget, WithItem, ItemDone, MainAt, MainSteps, slots, signals, life
  <2>3. CASE EndList
    BY <2>3 DEF IInv, TypeOK, EndList, MainSteps, slots, signals, life
  <2>4. QED
    BY <2>1, <2>2, <2>3
<1>3. SlotAccounting' /\ Phase'
  BY <1>1 DEF IInv, TypeOK, SlotAccounting, Phase, Held, Early, Loop,
     NextItem, ItemDone, EndList, MainAt, slots, signals, life
<1>4. Passed' /\ Budget' /\ Stopped'
  BY DEF IInv, TypeOK, SlotAccounting, Passed, Budget, Stopped, OnlyMainStopped, inHandler, AfterStop,
     WithItem, NextItem, ItemDone, EndList, MainAt, slots, signals, life
<1>5. QED
  BY <1>2, <1>3, <1>4 DEF IInv

\* So does ct_request_ctl: it drains and lets an item through only after a
\* signal that did not catch main.
LEMMA CtlIInv ==
    ASSUME IInv, CtlEnter \/ TimedWait \/ TimedOut \/ GotSlot \/ Drain
    PROVE  IInv'
<1>1. Busy' = Busy
  BY BusyUnchanged DEF CtlEnter, TimedWait, TimedOut, GotSlot, Drain
<1>2. Cardinality(Busy) \in Nat
  BY BusyFinite
<1>3. TypeOK'
  BY DEF IInv, TypeOK, Passed, AfterStop, Budget, WithItem, CtlEnter, TimedWait, TimedOut,
     GotSlot, Drain, MainAt, MainSteps, slots, signals, life
<1>4. SlotAccounting'
  BY <1>1, <1>2 DEF IInv, TypeOK, SlotAccounting, Stopped, Phase, Held, Loop,
     CtlEnter, TimedWait, TimedOut, GotSlot, Drain, MainAt, slots, signals, life
<1>5. Phase'
  BY <1>1 DEF IInv, TypeOK, Phase, Early, Loop,
     CtlEnter, TimedWait, TimedOut, GotSlot, Drain, MainAt, slots, signals, life
<1>6. inHandler' = inHandler
  BY HandlersUnchanged DEF CtlEnter, TimedWait, TimedOut, GotSlot, Drain, signals
<1>7. Passed'
  BY <1>6 DEF IInv, TypeOK, SlotAccounting, Passed, Stopped, OnlyMainStopped, AfterStop,
     CtlEnter, TimedWait, TimedOut, GotSlot, Drain, MainAt, slots, signals, life
<1>8. Budget' /\ Stopped'
  BY <1>6 DEF IInv, TypeOK, Passed, AfterStop, Budget, Stopped, WithItem,
     CtlEnter, TimedWait, TimedOut, GotSlot, Drain, MainAt, slots, signals, life
<1>9. QED
  BY <1>3, <1>4, <1>5, <1>7, <1>8 DEF IInv

\* So does a thread that is started: main's slot becomes the worker's.
LEMMA CreateIInv ==
    ASSUME IInv, NEW w \in Workers, Create(w)
    PROVE  IInv'
<1>1. Cardinality(Busy') = Cardinality(Busy) + 1 /\ Cardinality(Busy) \in Nat
  BY BusyStartsCount, BusyFinite DEF IInv
<1>2. TypeOK'
  BY DEF IInv, TypeOK, Create, MainSteps, slots, signals, life
<1>3. SlotAccounting'
  BY <1>1 DEF IInv, TypeOK, SlotAccounting, Held, Create, MainAt, slots, signals, life
<1>4. Phase'
  BY DEF IInv, Phase, Early, Loop, Create, MainAt, slots
<1>5. Passed' /\ Budget' /\ Stopped'
  BY DEF IInv, TypeOK, Passed, Budget, Stopped, OnlyMainStopped, inHandler, AfterStop, WithItem,
     Create, MainAt, slots, signals, life
<1>6. QED
  BY <1>2, <1>3, <1>4, <1>5 DEF IInv

\* So does one that is not: main gives the slot back.
LEMMA CreateFailIInv ==
    ASSUME IInv, CreateFail
    PROVE  IInv'
<1>1. Busy' = Busy /\ Cardinality(Busy) \in Nat
  BY BusyUnchanged, BusyFinite DEF CreateFail
<1>2. TypeOK'
  BY DEF IInv, TypeOK, CreateFail, MainSteps, slots, signals, life
<1>3. SlotAccounting' /\ Phase'
  BY <1>1 DEF IInv, TypeOK, SlotAccounting, Phase, Held, Early, Loop, CreateFail, MainAt,
     slots, signals, life
<1>4. Passed' /\ Budget' /\ Stopped'
  BY DEF IInv, TypeOK, Passed, Budget, Stopped, OnlyMainStopped, inHandler, AfterStop, WithItem,
     CreateFail, MainAt, slots, signals, life
<1>5. QED
  BY <1>2, <1>3, <1>4 DEF IInv

\* So do the steps after the loop.
LEMMA LeaveIInv ==
    ASSUME IInv, SemDestroy \/ Unregister \/ Return
    PROVE  IInv'
<1>1. Busy' = Busy
  BY BusyUnchanged DEF SemDestroy, Unregister, Return
<1>2. TypeOK'
  <2>1. CASE SemDestroy
    BY <2>1 DEF IInv, TypeOK, SemDestroy, MainSteps, slots, signals, life
  <2>2. CASE Unregister
    BY <2>2 DEF IInv, TypeOK, Unregister, MainSteps, slots, signals, life
  <2>3. CASE Return
    BY <2>3 DEF IInv, TypeOK, Return, slots, signals, life
  <2>4. QED
    BY <2>1, <2>2, <2>3
<1>3. SlotAccounting' /\ Phase'
  BY <1>1 DEF IInv, TypeOK, SlotAccounting, Phase, Held, Early, Loop,
     SemDestroy, Unregister, Return, MainAt, slots, signals, life
<1>4. Passed' /\ Budget' /\ Stopped'
  BY DEF IInv, TypeOK, Passed, Budget, Stopped, OnlyMainStopped, inHandler, AfterStop, WithItem,
     SemDestroy, Unregister, Return, MainAt, slots, signals, life
<1>5. QED
  BY <1>2, <1>3, <1>4 DEF IInv

\* So does the processing of an item.
LEMMA WorkIInv ==
    ASSUME IInv, NEW w \in Workers, WorkArchive(w) \/ WorkRestore(w)
    PROVE  IInv'
<1>1. Busy' = Busy
  BY BusyWorks DEF IInv
<1>2. TypeOK'
  <2>1. CASE WorkArchive(w)
    BY <2>1 DEF IInv, TypeOK, WorkArchive, slots, signals, life
  <2>2. CASE WorkRestore(w)
    BY <2>2 DEF IInv, TypeOK, WorkRestore, slots, signals, life
  <2>3. QED
    BY <2>1, <2>2
<1>3. SlotAccounting' /\ Phase'
  BY <1>1 DEF IInv, TypeOK, SlotAccounting, Phase, Held, Early, Loop,
     WorkArchive, WorkRestore, slots, signals, life
<1>4. Passed' /\ Budget' /\ Stopped'
  <2>1. UNCHANGED <<mpc, items, slots, signals, life, unslotted>>
    BY DEF WorkArchive, WorkRestore
  <2>2. QED
    BY <2>1 DEF IInv, Passed, Budget, Stopped, OnlyMainStopped, inHandler, slots, signals, life
<1>5. QED
  BY <1>2, <1>3, <1>4 DEF IInv

\* So does the worker's sem_post.
LEMMA PostIInv ==
    ASSUME IInv, NEW w \in Workers, SemPost(w)
    PROVE  IInv'
<1>1. Cardinality(Busy') = Cardinality(Busy) - 1 /\ Cardinality(Busy) \in Nat
  BY BusyPostsCount, BusyFinite DEF IInv
<1>2. w \in Busy
  BY BusyPosts DEF IInv
<1>3. TypeOK'
  BY DEF IInv, TypeOK, SemPost, slots, signals, life
<1>4. SlotAccounting'
  BY <1>1 DEF IInv, TypeOK, SlotAccounting, Held, SemPost, slots, signals, life
<1>5. Phase'
  BY <1>2 DEF IInv, Phase, SemPost
<1>6. Passed' /\ Budget' /\ Stopped'
  BY DEF IInv, TypeOK, Passed, Budget, Stopped, OnlyMainStopped, inHandler, SemPost, signals, life
<1>7. QED
  BY <1>3, <1>4, <1>5, <1>6 DEF IInv

\* So does the end of the thread.
LEMMA ThreadExitIInv ==
    ASSUME IInv, NEW w \in Workers, ThreadExit(w)
    PROVE  IInv'
<1>1. Busy' = Busy
  BY BusyExits DEF IInv
<1>2. UNCHANGED <<mpc, items, slots, signals, life, unslotted>>
  BY DEF ThreadExit
<1>3. TypeOK'
  BY DEF IInv, TypeOK, ThreadExit, slots, signals, life
<1>4. SlotAccounting' /\ Phase'
  BY <1>1, <1>2 DEF IInv, SlotAccounting, Phase, Held, slots, signals
<1>5. Passed' /\ Budget' /\ Stopped'
  BY <1>2, HandlersUnchanged
     DEF IInv, Passed, Budget, Stopped, OnlyMainStopped, slots, signals, life
<1>6. QED
  BY <1>3, <1>4, <1>5 DEF IInv

\* So does a signal, on whichever thread: the threads in the handler are one
\* more, or as many when it interrupts the handler of the other signal.
LEMMA DeliverIInv ==
    ASSUME IInv, NEW t \in SignalTargets, Deliver(t)
    PROVE  IInv'
<1>1. Busy' = Busy
  BY BusyUnchanged DEF Deliver
<1>2. inHandler' = inHandler \cup {t}
  BY DEF IInv, TypeOK, Deliver, inHandler
<1>3. UNCHANGED <<mpc, items, slots, stop_it, life, unslotted>>
  BY DEF Deliver
<1>4. TypeOK'
  <2>1. logHeld' \in BOOLEAN
    BY DEF IInv, TypeOK, Deliver, InTlog
  <2>2. QED
    BY <2>1 DEF IInv, TypeOK, Deliver, slots, life
<1>5. SlotAccounting' /\ Phase'
  BY <1>1, <1>3 DEF IInv, SlotAccounting, Phase, Held, slots
<1>6. Passed' /\ Budget' /\ Stopped'
  BY <1>2, <1>3 DEF IInv, Passed, Budget, Stopped, OnlyMainStopped, slots, life
<1>7. QED
  BY <1>4, <1>5, <1>6 DEF IInv

\* A round of the handler keeps its thread there.
LEMMA HandlerRound ==
    ASSUME TypeOK, NEW t \in SignalTargets, HandlerStop(t) \/ HandlerPoll(t)
    PROVE  t \in inHandler /\ inHandler' = inHandler
BY DEF TypeOK, HandlerStop, HandlerPoll, HandlerAt, inHandler

\* So does a round of the handler.
LEMMA HandlerRoundIInv ==
    ASSUME IInv, NEW t \in SignalTargets, HandlerStop(t) \/ HandlerPoll(t)
    PROVE  IInv'
<1>1. Busy' = Busy
  BY BusyUnchanged DEF HandlerStop, HandlerPoll
<1>2. t \in inHandler /\ inHandler' = inHandler
  BY HandlerRound DEF IInv
<1>3. UNCHANGED <<mpc, items, slots, life, unslotted>> /\ (stop_it => stop_it')
  BY DEF HandlerStop, HandlerPoll
<1>4. TypeOK'
  BY DEF IInv, TypeOK, HandlerStop, HandlerPoll, slots, life
<1>5. SlotAccounting' /\ Phase'
  BY <1>1, <1>3 DEF IInv, SlotAccounting, Phase, Held, slots
<1>6. Passed' /\ Budget' /\ Stopped'
  BY <1>2, <1>3 DEF IInv, Passed, Budget, Stopped, OnlyMainStopped, slots, life
<1>7. QED
  BY <1>4, <1>5, <1>6 DEF IInv

\* So does the handler's exit.
LEMMA HandlerExitIInv ==
    ASSUME IInv, NEW t \in SignalTargets, HandlerExit(t)
    PROVE  IInv'
<1>1. Busy' = Busy /\ inHandler' = inHandler
  BY BusyUnchanged, HandlersUnchanged DEF HandlerExit, signals
<1>2. TypeOK'
  BY DEF IInv, TypeOK, HandlerExit, slots, signals
<1>3. SlotAccounting' /\ Phase'
  BY <1>1 DEF IInv, TypeOK, SlotAccounting, Phase, Held, HandlerExit, slots, signals
<1>4. Passed' /\ Budget' /\ Stopped'
  BY <1>1 DEF IInv, TypeOK, Passed, Budget, Stopped, OnlyMainStopped, HandlerExit, slots, signals
<1>5. QED
  BY <1>2, <1>3, <1>4 DEF IInv

\* So does a step that changes nothing.
LEMMA StutterIInv ==
    ASSUME IInv, UNCHANGED vars
    PROVE  IInv'
BY BusyUnchanged, HandlersUnchanged DEF vars, slots, signals, life, IInv, TypeOK, SlotAccounting,
   Phase, Passed, Budget, Stopped, OnlyMainStopped, Held

\* Every step preserves the invariant.
LEMMA NextIInv == IInv /\ [Next]_vars => IInv'
<1> SUFFICES ASSUME IInv, [Next]_vars PROVE IInv'
  OBVIOUS
<1>1. CASE Register \/ InstallHandler \/ SemInit
  BY <1>1, SetupIInv
<1>2. CASE RecvShutdown \/ RecvError \/ RecvList
  BY <1>2, RecvIInv
<1>3. CASE NextItem \/ ItemDone \/ EndList
  BY <1>3, ListIInv
<1>4. CASE CtlEnter \/ TimedWait \/ TimedOut \/ GotSlot \/ Drain
  BY <1>4, CtlIInv
<1>5. CASE (\E w \in Workers : Create(w)) \/ CreateFail
  BY <1>5, CreateIInv, CreateFailIInv
<1>6. CASE SemDestroy \/ Unregister \/ Return
  BY <1>6, LeaveIInv
<1>7. CASE \E w \in Workers : WorkerRuns(w)
  BY <1>7, WorkIInv, PostIInv, ThreadExitIInv DEF WorkerRuns
<1>8. CASE \E t \in SignalTargets : Deliver(t) \/ HandlerRuns(t)
  BY <1>8, DeliverIInv, HandlerRoundIInv, HandlerExitIInv DEF HandlerRuns
<1>9. CASE UNCHANGED vars
  BY <1>9, StutterIInv
<1>10. QED
  BY <1>1, <1>2, <1>3, <1>4, <1>5, <1>6, <1>7, <1>8, <1>9
     DEF Next, MainRuns, Recv, Exited

\* The invariant holds throughout a run of the copytool.
LEMMA IInvHolds == Spec => []IInv
BY InitIInv, NextIInv, PTL DEF Spec

----------------------------------------------------------------------------
(* The theorems                                                             *)

\* Nobody works when the semaphore is full, nothing went without a slot and
\* the semaphore is set up.
LEMMA FullMeansIdle ==
    ASSUME IInv, hsm_req_sem >= MaxRequests, unslotted = 0
    PROVE  Busy = {}
<1>1. sem_state # "none"
  BY DEF IInv, Phase
<1>2. Cardinality(Busy) = 0
  BY <1>1, BusyFinite DEF IInv, TypeOK, SlotAccounting, Held
<1>3. QED
  BY <1>2, BusyFinite, FS_EmptySet

\* The dispatcher's variables keep their types; in particular no more items
\* go without a slot than one action list has.
THEOREM TypeCorrect == Spec => []TypeOK
<1>1. IInv => TypeOK
  BY DEF IInv
<1>2. QED
  BY <1>1, IInvHolds, PTL

\* ct_run, ct_request_ctl and ct_thread neither lose nor invent a slot.
THEOREM SlotsAreAccounted == Spec => []SlotAccounting
<1>1. IInv => SlotAccounting
  BY DEF IInv
<1>2. QED
  BY <1>1, IInvHolds, PTL

\* At most max_requests items are processed at once until another thread than
\* main is interrupted.
THEOREM LimitIsKept == Spec => []ConcurrencyLimit
<1>1. IInv => ConcurrencyLimit
  <2> SUFFICES ASSUME IInv, OnlyMainStopped
               PROVE  Cardinality(Busy) <= MaxRequests
    BY DEF ConcurrencyLimit
  <2>1. CASE sem_state = "none"
    BY <2>1, FS_EmptySet DEF IInv, Phase
  <2>2. CASE sem_state # "none"
    BY <2>2, BusyFinite DEF IInv, TypeOK, SlotAccounting, Passed, Held
  <2>3. QED
    BY <2>1, <2>2
<1>2. QED
  BY <1>1, IInvHolds, PTL

\* handler() exits under nobody's feet until another thread is interrupted.
THEOREM ExitIsGraceful == Spec => []GracefulExit
<1>1. IInv => GracefulExit
  BY FullMeansIdle DEF GracefulExit, IInv, Passed, Stopped
<1>2. QED
  BY <1>1, IInvHolds, PTL

\* When ct_request_ctl stops waiting for the workers, all have finished.
THEOREM DrainIsComplete == Spec => DrainComplete
<1>1. IInv /\ [Next]_vars => [mpc = "drain" /\ mpc' = "create" => Busy = {}]_vars
  <2> SUFFICES ASSUME IInv, [Next]_vars, mpc = "drain", mpc' = "create"
               PROVE  Busy = {}
    OBVIOUS
  <2>1. Drain
    BY DEF Next, MainRuns, Recv, WorkerRuns, Exited, vars, Register, InstallHandler, SemInit,
       NextItem, CtlEnter, TimedWait, TimedOut, GotSlot, Create, CreateFail, ItemDone, EndList,
       SemDestroy, Unregister, Return, RecvShutdown, RecvError, RecvList, MainAt,
       WorkArchive, WorkRestore, SemPost, ThreadExit, Deliver, HandlerRuns, HandlerStop,
       HandlerPoll, HandlerExit
  <2>2. hsm_req_sem >= MaxRequests
    BY <2>1 DEF Drain
  <2>3. unslotted = 0
    BY DEF IInv, TypeOK, Passed, AfterStop
  <2>4. QED
    BY <2>2, <2>3, FullMeansIdle
<1>2. QED
  BY <1>1, IInvHolds, PTL DEF Spec, DrainComplete

----------------------------------------------------------------------------
(* The dispatcher implements the pool                                       *)

\* The refinement mapping of Pool.
poolBusy == IF Abandoned THEN {} ELSE Busy
poolStatus == IF Abandoned THEN "left"
              ELSE IF exited = "handler" THEN "stopped" ELSE "open"

\* A step that changes neither the busy workers nor how the process ends is a
\* stuttering step of the pool.
LEMMA PoolStutters ==
    ASSUME Busy' = Busy, UNCHANGED <<exited, inHandler>>
    PROVE  UNCHANGED <<poolBusy, poolStatus>>
BY DEF poolBusy, poolStatus, Abandoned, OnlyMainStopped

\* Starting a worker is a step of the pool: there is a slot for it.
LEMMA PoolStarts ==
    ASSUME IInv, NEW w \in Workers, Create(w)
    PROVE  Pool!Start(w) \/ UNCHANGED <<poolBusy, poolStatus>>
<1>1. w \notin Busy /\ Busy' = Busy \cup {w}
  BY BusyStarts DEF IInv
<1>2. UNCHANGED <<exited, inHandler>> /\ exited = "no"
  BY HandlersUnchanged DEF Create, MainAt, signals, life
<1>3. CASE OnlyMainStopped
  <2>1. Cardinality(Busy) < MaxRequests
    BY <1>3, BusyFinite DEF IInv, TypeOK, SlotAccounting, Passed, Phase, Loop, Held, Create, MainAt
  <2>2. ~Abandoned /\ ~Abandoned'
    BY <1>2, <1>3 DEF Abandoned, OnlyMainStopped
  <2>3. Pool!Cardinality(Busy) = Cardinality(Busy)
    BY DEF Pool!Cardinality, Cardinality
  <2>4. QED
    BY <1>1, <1>2, <2>1, <2>2, <2>3 DEF Pool!Start
<1>4. CASE ~OnlyMainStopped
  BY <1>2, <1>4 DEF poolBusy, poolStatus, Abandoned, OnlyMainStopped
<1>5. QED
  BY <1>3, <1>4

\* sem_post at the end of ct_thread frees the worker.
LEMMA PoolFinishes ==
    ASSUME IInv, NEW w \in Workers, SemPost(w)
    PROVE  Pool!Finish(w) \/ UNCHANGED <<poolBusy, poolStatus>>
<1>1. w \in Busy /\ Busy' = Busy \ {w}
  BY BusyPosts DEF IInv
<1>2. UNCHANGED <<exited, inHandler>> /\ exited = "no"
  BY HandlersUnchanged DEF SemPost, WorkerAt, signals, life
<1>3. CASE ~Abandoned
  <2>1. ~Abandoned'
    BY <1>2, <1>3 DEF Abandoned, OnlyMainStopped
  <2>2. QED
    BY <1>1, <1>2, <1>3, <2>1 DEF Pool!Finish
<1>4. CASE Abandoned
  BY <1>2, <1>4 DEF poolBusy, poolStatus, Abandoned, OnlyMainStopped
<1>5. QED
  BY <1>3, <1>4

\* A signal on main leaves the pool alone, one on another thread abandons it.
LEMMA PoolInterrupted ==
    ASSUME IInv, NEW t \in SignalTargets, Deliver(t)
    PROVE  Pool!Leave \/ UNCHANGED <<poolBusy, poolStatus>>
<1>1. Busy' = Busy /\ exited = "no" /\ exited' = "no" /\ inHandler' = inHandler \cup {t}
  BY BusyUnchanged DEF IInv, TypeOK, Deliver, inHandler, life
<1>2. CASE ~OnlyMainStopped
  BY <1>1, <1>2 DEF poolBusy, poolStatus, Abandoned, OnlyMainStopped
<1>3. CASE OnlyMainStopped /\ t = Main
  BY <1>1, <1>3 DEF poolBusy, poolStatus, Abandoned, OnlyMainStopped
<1>4. CASE OnlyMainStopped /\ t # Main
  <2>1. ~Abandoned /\ Abandoned'
    BY <1>1, <1>4 DEF Abandoned, OnlyMainStopped
  <2>2. QED
    BY <1>1, <2>1 DEF Pool!Leave
<1>5. QED
  BY <1>2, <1>3, <1>4

\* exit(0) in the handler stops an idle pool, or one that was abandoned.
LEMMA PoolStops ==
    ASSUME IInv, NEW t \in SignalTargets, HandlerExit(t)
    PROVE  Pool!Stop \/ UNCHANGED <<poolBusy, poolStatus>>
<1>1. /\ Busy' = Busy /\ exited = "no" /\ exited' = "handler"
      /\ inHandler' = inHandler /\ hsm_req_sem >= MaxRequests
  BY BusyUnchanged, HandlersUnchanged DEF HandlerExit, HandlerAt, signals
<1>2. CASE OnlyMainStopped
  <2>1. Busy = {}
    BY <1>1, <1>2, FullMeansIdle DEF IInv, Passed
  <2>2. ~Abandoned /\ ~Abandoned'
    BY <1>1, <1>2 DEF Abandoned, OnlyMainStopped
  <2>3. QED
    BY <1>1, <2>1, <2>2 DEF Pool!Stop
<1>3. CASE ~OnlyMainStopped
  BY <1>1, <1>3 DEF poolBusy, poolStatus, Abandoned, OnlyMainStopped
<1>4. QED
  BY <1>2, <1>3

\* main's return leaves the pool as it is.
LEMMA PoolLeft ==
    ASSUME Return
    PROVE  Pool!Leave \/ UNCHANGED <<poolBusy, poolStatus>>
<1>1. Busy' = Busy /\ exited = "no" /\ exited' = "return" /\ inHandler' = inHandler
  BY BusyUnchanged, HandlersUnchanged DEF Return, MainAt, signals
<1>2. CASE Abandoned
  BY <1>1, <1>2 DEF poolBusy, poolStatus, Abandoned, OnlyMainStopped
<1>3. CASE ~Abandoned
  <2>1. Abandoned'
    BY <1>1 DEF Abandoned
  <2>2. QED
    BY <1>1, <1>3, <2>1 DEF Pool!Leave
<1>4. QED
  BY <1>2, <1>3

\* Every step of the dispatcher is one of the pool or leaves it unchanged.
LEMMA PoolSteps ==
    ASSUME IInv, [Next]_vars
    PROVE  Pool!Next \/ UNCHANGED <<poolBusy, poolStatus>>
<1>1. CASE Register \/ InstallHandler \/ SemInit
  BY <1>1, BusyUnchanged, HandlersUnchanged, PoolStutters DEF Register, InstallHandler, SemInit, signals, life
<1>2. CASE RecvShutdown \/ RecvError \/ RecvList
  BY <1>2, BusyUnchanged, HandlersUnchanged, PoolStutters DEF RecvShutdown, RecvError, RecvList, signals, life
<1>3. CASE NextItem \/ ItemDone \/ EndList
  BY <1>3, BusyUnchanged, HandlersUnchanged, PoolStutters DEF NextItem, ItemDone, EndList, signals, life
<1>4. CASE CtlEnter \/ TimedWait \/ TimedOut \/ GotSlot \/ Drain
  BY <1>4, BusyUnchanged, HandlersUnchanged, PoolStutters
     DEF CtlEnter, TimedWait, TimedOut, GotSlot, Drain, signals, life
<1>5. CASE CreateFail \/ SemDestroy \/ Unregister
  BY <1>5, BusyUnchanged, HandlersUnchanged, PoolStutters DEF CreateFail, SemDestroy, Unregister, signals, life
<1>6. CASE \E w \in Workers : Create(w)
  BY <1>6, PoolStarts DEF Pool!Next
<1>7. CASE \E w \in Workers : WorkArchive(w) \/ WorkRestore(w)
  BY <1>7, BusyWorks, HandlersUnchanged, PoolStutters DEF IInv, WorkArchive, WorkRestore, signals, life
<1>8. CASE \E w \in Workers : SemPost(w)
  BY <1>8, PoolFinishes DEF Pool!Next
<1>9. CASE \E t \in SignalTargets : Deliver(t)
  BY <1>9, PoolInterrupted DEF Pool!Next
<1>10. CASE \E t \in SignalTargets : HandlerExit(t)
  BY <1>10, PoolStops DEF Pool!Next
<1>11. CASE \E t \in SignalTargets : HandlerStop(t) \/ HandlerPoll(t)
  BY <1>11, BusyUnchanged, HandlerRound, PoolStutters DEF IInv, HandlerStop, HandlerPoll, life
<1>12. CASE \E w \in Workers : ThreadExit(w)
  BY <1>12, BusyExits, HandlersUnchanged, PoolStutters DEF IInv, ThreadExit, signals, life
<1>13. CASE Return
  BY <1>13, PoolLeft DEF Pool!Next
<1>14. CASE UNCHANGED vars
  BY <1>14, BusyUnchanged, HandlersUnchanged, PoolStutters DEF vars, signals, life
<1>15. QED
  BY <1>1, <1>2, <1>3, <1>4, <1>5, <1>6, <1>7, <1>8, <1>9, <1>10, <1>11, <1>12, <1>13, <1>14
     DEF Next, MainRuns, Recv, WorkerRuns, HandlerRuns, Exited

\* Until main returns or a signal interrupts another thread, the dispatcher is a
\* pool of at most max_requests workers that is stopped only when idle.
THEOREM ImplementsPool == Spec => PoolSpec
<1>1. Init => Pool!Init
  BY DEF Init, Pool!Init, Busy, Abandoned, OnlyMainStopped, inHandler
<1>2. IInv /\ [Next]_vars => [Pool!Next]_<<poolBusy, poolStatus>>
  BY PoolSteps
<1>3. QED
  BY <1>1, <1>2, IInvHolds, PTL DEF Spec, PoolSpec, Pool!Spec, poolBusy, poolStatus
============================================================================
