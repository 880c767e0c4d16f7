------------------------------ MODULE MemQuota ------------------------------
(***************************************************************************)
(* The memory quota of the copytool (mem_quota.c).  A worker thread that   *)
(* archives a small file calls quota_mem_alloc once for a buffer of the    *)
(* file's size (ct_archive_data, lhsmtool_s3.c:515) and quota_mem_free     *)
(* once when it is done with it (lhsmtool_s3.c:595).  A thread stands for  *)
(* one worker after the other: there is no end of requests.  A section     *)
(* between pthread_mutex_lock and pthread_mutex_unlock is one step;        *)
(* malloc, the refund after a failed malloc and the signal, which run      *)
(* outside the first section, are steps of their own.                      *)
(***************************************************************************)
EXTENDS Integers, FiniteSets

CONSTANTS Threads,      \* the worker threads, as many as work at once
          QuotaTotal,   \* quota_total, in units of the model
          Sizes         \* the file sizes that are requested

ASSUME ThreadsAssumption == IsFiniteSet(Threads)
ASSUME QuotaAssumption == QuotaTotal \in Nat
\* ct_archive_data_big takes the files above the small-object threshold, so
\* no request is larger than the whole quota (8 GiB).
ASSUME SizesAssumption == Sizes \subseteq 0 .. QuotaTotal

VARIABLES quota_left,     \* bytes not handed out
          quota_waiters,  \* threads inside pthread_cond_wait
          pc,             \* where each thread is
          size,           \* alloc_size / mem_size of each thread
          notify_waiter,  \* the local of quota_mem_free
          refunded        \* history: some malloc has failed

vars == <<quota_left, quota_waiters, pc, size, notify_waiter, refunded>>

Steps == {"start", "alloc", "malloc", "refund", "wait", "woken", "hold",
          "freed"}

TypeOK ==
    /\ quota_left \in 0 .. QuotaTotal
    /\ quota_waiters \in 0 .. Cardinality(Threads)
    /\ pc \in [Threads -> Steps]
    /\ size \in [Threads -> 0 .. QuotaTotal]
    /\ notify_waiter \in [Threads -> BOOLEAN]
    /\ refunded \in BOOLEAN

\* quota_mem_init(QuotaTotal)
Init ==
    /\ quota_left = QuotaTotal
    /\ quota_waiters = 0
    /\ pc = [t \in Threads |-> "start"]
    /\ size = [t \in Threads |-> 0]
    /\ notify_waiter = [t \in Threads |-> FALSE]
    /\ refunded = FALSE

Goto(t, from, to) == pc[t] = from /\ pc' = [pc EXCEPT ![t] = to]

----------------------------------------------------------------------------
(* quota_mem_alloc                                                          *)

\* The worker calls quota_mem_alloc with the size of its file.
Call(t) ==
    /\ Goto(t, "start", "alloc")
    /\ \E s \in Sizes : size' = [size EXCEPT ![t] = s]
    /\ UNCHANGED <<quota_left, quota_waiters, notify_waiter, refunded>>

\* Mutant: the request may overdraw the quota by one unit.
AllocTakeOverdraw(t) ==
    /\ Goto(t, "alloc", "malloc")
    /\ size[t] <= quota_left + 1
    /\ quota_left' = quota_left - size[t]
    /\ UNCHANGED <<quota_waiters, size, notify_waiter, refunded>>

\* The first section, when the request fits what is left.
AllocTake(t) ==
    /\ Goto(t, "alloc", "malloc")
    /\ size[t] <= quota_left
    /\ quota_left' = quota_left - size[t]
    /\ UNCHANGED <<quota_waiters, size, notify_waiter, refunded>>

\* The first section, when it does not: count the waiter and wait, which
\* releases the mutex in the same step.
AllocWait(t) ==
    /\ Goto(t, "alloc", "wait")
    /\ size[t] > quota_left
    /\ quota_waiters' = quota_waiters + 1
    /\ UNCHANGED <<quota_left, size, notify_waiter, refunded>>

\* pthread_cond_wait may also return without a signal.
SpuriousWakeup(t) ==
    /\ Goto(t, "wait", "woken")
    /\ UNCHANGED <<quota_left, quota_waiters, size, notify_waiter, refunded>>

\* Mutant: the woken thread forgets to leave the count.
RetryStillCounted(t) ==
    /\ Goto(t, "woken", "alloc")
    /\ UNCHANGED <<quota_left, quota_waiters, size, notify_waiter, refunded>>

\* pthread_cond_wait has the mutex again: leave the count, unlock, goto retry.
Retry(t) ==
    /\ Goto(t, "woken", "alloc")
    /\ quota_waiters' = quota_waiters - 1
    /\ UNCHANGED <<quota_left, size, notify_waiter, refunded>>

MallocOk(t) ==
    /\ Goto(t, "malloc", "hold")
    /\ UNCHANGED <<quota_left, quota_waiters, size, notify_waiter, refunded>>

MallocFail(t) ==
    /\ Goto(t, "malloc", "refund")
    /\ refunded' = TRUE
    /\ UNCHANGED <<quota_left, quota_waiters, size, notify_waiter>>

\* Mutant: the failed request keeps its quota.
RefundLost(t) ==
    /\ Goto(t, "refund", "start")
    /\ UNCHANGED <<quota_left, quota_waiters, size, notify_waiter, refunded>>

\* "return quota": given back without a signal; the caller gets NULL.
Refund(t) ==
    /\ Goto(t, "refund", "start")
    /\ quota_left' = quota_left + size[t]
    /\ UNCHANGED <<quota_waiters, size, notify_waiter, refunded>>

----------------------------------------------------------------------------
(* quota_mem_free                                                           *)

\* Mutant: the waiters are looked at only when the whole quota is free.
FreeNotifyLate(t) ==
    /\ Goto(t, "hold", "freed")
    /\ quota_left' = quota_left + size[t]
    /\ notify_waiter' =
         [notify_waiter EXCEPT ![t] = quota_waiters > 0 /\ quota_left = QuotaTotal]
    /\ UNCHANGED <<quota_waiters, size, refunded>>

\* The section of quota_mem_free.
Free(t) ==
    /\ Goto(t, "hold", "freed")
    /\ quota_left' = quota_left + size[t]
    /\ notify_waiter' = [notify_waiter EXCEPT ![t] = quota_waiters > 0]
    /\ UNCHANGED <<quota_waiters, size, refunded>>

Waiting == {u \in Threads : pc[u] = "wait"}

\* Mutant: the signal is sent only when nobody was waiting.
SignalInverted(t) ==
    /\ pc[t] = "freed"
    /\ IF notify_waiter[t] \/ Waiting = {}
         THEN pc' = [pc EXCEPT ![t] = "start"]
         ELSE \E u \in Waiting : pc' = [pc EXCEPT ![t] = "start", ![u] = "woken"]
    /\ UNCHANGED <<quota_left, quota_waiters, size, notify_waiter, refunded>>

\* free(mem_ptr), then pthread_cond_signal outside the mutex: it wakes one of
\* the threads that wait at that moment, if there is one.
Signal(t) ==
    /\ pc[t] = "freed"
    /\ IF notify_waiter[t] /\ Waiting # {}
         THEN \E u \in Waiting : pc' = [pc EXCEPT ![t] = "start", ![u] = "woken"]
         ELSE pc' = [pc EXCEPT ![t] = "start"]
    /\ UNCHANGED <<quota_left, quota_waiters, size, notify_waiter, refunded>>

----------------------------------------------------------------------------

\* The steps a running thread takes by itself once it is scheduled.
ThreadStep(t) ==
    \/ AllocTake(t) \/ AllocWait(t) \/ Retry(t)
    \/ MallocOk(t) \/ MallocFail(t) \/ Refund(t)
    \/ Free(t) \/ Signal(t)

Next == \E t \in Threads : Call(t) \/ SpuriousWakeup(t) \/ ThreadStep(t)

\* Every thread that is not blocked is scheduled eventually; spurious wakeups
\* and new requests need not happen.
Spec == Init /\ [][Next]_vars /\ \A t \in Threads : WF_vars(ThreadStep(t))

----------------------------------------------------------------------------
(* Properties                                                               *)

Holds(t) == pc[t] \in {"malloc", "refund", "hold"}

\* The units that are handed out, one pair per unit.
Charged ==
    {p \in Threads \X (1 .. QuotaTotal) : Holds(p[1]) /\ p[2] <= size[p[1]]}

\* What is left plus what the threads between quota_mem_alloc and
\* quota_mem_free hold is always the whole quota, whatever fails in between:
\* no unit is lost by a failed malloc or returned twice, and the buffers in
\* use never exceed quota_total ("limit copytool memory usage",
\* mem_quota.c:5).
QuotaConserved == quota_left + Cardinality(Charged) = QuotaTotal

InCondWait == {t \in Threads : pc[t] \in {"wait", "woken"}}

\* quota_waiters counts exactly the threads inside pthread_cond_wait,
\* the woken ones that have not got the mutex back included, so that
\* quota_mem_free never skips the signal while somebody waits.
WaitersCounted == quota_waiters = Cardinality(InCondWait)

\* A thread that will look at the quota again or signal a waiter by itself.
Active(t) ==
    \/ pc[t] \in {"alloc", "malloc", "hold", "woken"}
    \/ pc[t] = "freed" /\ notify_waiter[t]

\* No lost wakeup: although quota_mem_free signals after it unlocks, and wakes
\* one waiter whatever that waiter needs, a thread never waits with nobody
\* left who will signal it, as long as no malloc has failed.
NoLostWakeup ==
    Waiting # {} /\ ~refunded => \E t \in Threads : Active(t)

\* From some time on no new request is made.
DriesUp == <>[][\A t \in Threads : ~Call(t)]_vars

\* Every request returns once the others dry up, unless a malloc fails (the
\* refund does not signal, so the waiters it could have served may sleep on).
\* While requests keep coming this is false: they are served ahead of a woken
\* thread, which finds too little again, for ever if it wants much.
RequestReturns ==
    DriesUp => \A t \in Threads : pc[t] = "alloc" ~> (pc[t] \in {"hold", "start"} \/ refunded)

============================================================================
