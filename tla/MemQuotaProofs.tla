--------------------------- MODULE MemQuotaProofs ---------------------------
(***************************************************************************)
(* The memory quota for any number of threads, any quota and any request   *)
(* sizes: types, conservation of the quota, the count of waiters and the   *)
(* absence of lost wakeups.                                                *)
(***************************************************************************)
EXTENDS MemQuota, FiniteSetTheorems, TLAPS

\* TypeOK without the upper bounds, which follow from the other conjuncts.
WeakType ==
    /\ quota_left \in Nat
    /\ quota_waiters \in Nat
    /\ pc \in [Threads -> Steps]
    /\ size \in [Threads -> 0 .. QuotaTotal]
    /\ notify_waiter \in [Threads -> BOOLEAN]
    /\ refunded \in BOOLEAN

\* A thread that refunds was made to by a failed malloc.
RefundMarked == \A t \in Threads : pc[t] = "refund" => refunded

IndInv ==
    /\ WeakType
    /\ QuotaConserved
    /\ WaitersCounted
    /\ RefundMarked
    /\ NoLostWakeup

\* The units of a request of n by t (the pairs of Charged that belong to it).
Units(t, n) == {t} \X (1 .. n)

(* A request of n has n units.                                              *)
LEMMA UnitsCount ==
    ASSUME NEW t, NEW n \in Nat
    PROVE  IsFiniteSet(Units(t, n)) /\ Cardinality(Units(t, n)) = n
<1>1. IsFiniteSet(1 .. n) /\ Cardinality(1 .. n) = n
  BY FS_Interval
<1>2. IsFiniteSet({t}) /\ Cardinality({t}) = 1
  BY FS_Singleton
<1>3. /\ IsFiniteSet({t} \X (1 .. n))
      /\ Cardinality({t} \X (1 .. n)) = Cardinality({t}) * Cardinality(1 .. n)
  BY <1>1, <1>2, FS_Product
<1> QED BY <1>1, <1>2, <1>3 DEF Units

(* The units handed out are a finite set in every state.                    *)
LEMMA ChargedFinite ==
    IsFiniteSet(Charged) /\ Cardinality(Charged) \in Nat
<1>0. IsFiniteSet(1 .. QuotaTotal)
  BY QuotaAssumption, FS_Interval
<1>1. IsFiniteSet(Threads \X (1 .. QuotaTotal))
  BY <1>0, ThreadsAssumption, FS_Product
<1>2. Charged \subseteq Threads \X (1 .. QuotaTotal)
  BY DEF Charged
<1> QED BY <1>1, <1>2, FS_Subset, FS_CardinalityType

(* The threads inside pthread_cond_wait are a finite set.                   *)
LEMMA InCondWaitFinite ==
    /\ IsFiniteSet(InCondWait)
    /\ Cardinality(InCondWait) \in 0 .. Cardinality(Threads)
<1>1. InCondWait \subseteq Threads
  BY DEF InCondWait
<1>2. /\ IsFiniteSet(InCondWait)
      /\ Cardinality(InCondWait) <= Cardinality(Threads)
  BY <1>1, ThreadsAssumption, FS_Subset
<1> QED BY <1>2, ThreadsAssumption, FS_CardinalityType

(* Taking s units of the quota for t moves exactly s units to Charged.      *)
LEMMA ChargeAdds ==
    ASSUME WeakType, NEW t \in Threads, ~Holds(t),
           pc' \in [Threads -> Steps], size' = size, Holds(t)',
           \A u \in Threads \ {t} : pc'[u] = pc[u]
    PROVE  Cardinality(Charged') = Cardinality(Charged) + size[t]
<1>1. size[t] \in Nat /\ size[t] <= QuotaTotal
  BY QuotaAssumption DEF WeakType
<1>2. Charged' = Charged \cup Units(t, size[t])
  BY <1>1, QuotaAssumption DEF Charged, Units, Holds
<1>3. Charged \cap Units(t, size[t]) = {}
  BY DEF Charged, Units
<1>4. /\ IsFiniteSet(Units(t, size[t]))
      /\ Cardinality(Units(t, size[t])) = size[t]
  BY <1>1, UnitsCount
<1>5. Cardinality(Charged \cup Units(t, size[t]))
        = Cardinality(Charged) + Cardinality(Units(t, size[t])) - Cardinality({})
  BY <1>3, <1>4, ChargedFinite, FS_Union
<1> QED BY <1>1, <1>2, <1>4, <1>5, ChargedFinite, FS_EmptySet

(* Giving them back removes exactly those.                                  *)
LEMMA DischargeRemoves ==
    ASSUME WeakType, NEW t \in Threads, Holds(t),
           pc' \in [Threads -> Steps], size' = size, ~Holds(t)',
           \A u \in Threads \ {t} : pc'[u] = pc[u]
    PROVE  Cardinality(Charged') = Cardinality(Charged) - size[t]
<1>1. size[t] \in Nat /\ size[t] <= QuotaTotal
  BY QuotaAssumption DEF WeakType
<1>2. Charged' = Charged \ Units(t, size[t])
  BY <1>1, QuotaAssumption DEF Charged, Units, Holds
<1>3. Charged \cap Units(t, size[t]) = Units(t, size[t])
  BY <1>1, QuotaAssumption DEF Charged, Units
<1>4. Cardinality(Units(t, size[t])) = size[t]
  BY <1>1, UnitsCount
<1>5. Cardinality(Charged \ Units(t, size[t]))
        = Cardinality(Charged) - Cardinality(Units(t, size[t]))
  BY <1>3, ChargedFinite, FS_Difference
<1> QED BY <1>2, <1>4, <1>5

(* A step that changes neither who holds a buffer nor a charged size keeps  *)
(* the units handed out.                                                    *)
LEMMA ChargeKept ==
    ASSUME \A u \in Threads : Holds(u)' <=> Holds(u),
           \A u \in Threads : Holds(u) => size'[u] = size[u]
    PROVE  Charged' = Charged
BY DEF Charged

(* A step that moves nobody into or out of pthread_cond_wait keeps the set. *)
LEMMA CondWaitKept ==
    ASSUME \A u \in Threads : (pc'[u] \in {"wait", "woken"})
                                 <=> (pc[u] \in {"wait", "woken"})
    PROVE  InCondWait' = InCondWait
BY DEF InCondWait

(* quota_mem_init establishes the invariant.                                *)
LEMMA InitInv == Init => IndInv
<1> SUFFICES ASSUME Init PROVE IndInv
  OBVIOUS
<1>1. WeakType
  <2>1. quota_left \in Nat /\ quota_waiters \in Nat /\ pc \in [Threads -> Steps]
    BY QuotaAssumption DEF Init, Steps
  <2>2. size \in [Threads -> 0 .. QuotaTotal]
    BY QuotaAssumption DEF Init
  <2>3. notify_waiter \in [Threads -> BOOLEAN] /\ refunded \in BOOLEAN
    BY Zenon DEF Init
  <2> QED BY <2>1, <2>2, <2>3 DEF WeakType
<1>2. Charged = {}
  BY DEF Init, Charged, Holds
<1>3. QuotaConserved
  BY <1>2, QuotaAssumption, FS_EmptySet DEF QuotaConserved, Init
<1>4. InCondWait = {}
  BY DEF Init, InCondWait
<1>5. WaitersCounted
  BY <1>4, FS_EmptySet DEF WaitersCounted, Init
<1>6. RefundMarked /\ NoLostWakeup
  BY DEF Init, RefundMarked, NoLostWakeup, Waiting
<1> QED BY <1>1, <1>3, <1>5, <1>6 DEF IndInv

(* Somebody waits only behind a thread that holds quota.                    *)
LEMMA ShortageHasHolder ==
    ASSUME WeakType, QuotaConserved, quota_left < QuotaTotal
    PROVE  \E u \in Threads : Holds(u)
<1>1. Cardinality(Charged) # 0
  BY QuotaAssumption, ChargedFinite DEF QuotaConserved, WeakType
<1>2. Charged # {}
  BY <1>1, FS_EmptySet
<1> QED BY <1>2 DEF Charged

(* Every step of every thread preserves the invariant.                      *)
LEMMA StepInv == IndInv /\ [Next]_vars => IndInv'
<1> SUFFICES ASSUME IndInv, [Next]_vars PROVE IndInv'
  OBVIOUS
<1> USE DEF IndInv
<1>0. /\ WeakType /\ QuotaConserved /\ WaitersCounted /\ RefundMarked
      /\ NoLostWakeup
  OBVIOUS
<1>S. SUFFICES ASSUME NEW t \in Threads,
                      Call(t) \/ SpuriousWakeup(t) \/ ThreadStep(t)
               PROVE  IndInv'
  <2>1. CASE UNCHANGED vars
    BY <2>1 DEF vars, WeakType, QuotaConserved, WaitersCounted, RefundMarked,
       NoLostWakeup, Charged, Holds, InCondWait, Waiting, Active
  <2> QED BY <1>S, <2>1 DEF Next
<1>1. CASE Call(t)
  <2>1. PICK s \in Sizes : size' = [size EXCEPT ![t] = s]
    BY <1>1 DEF Call
  <2>2. WeakType'
    BY <1>1, <2>1, SizesAssumption DEF Call, Goto, WeakType, Steps
  <2>3. Charged' = Charged
    BY <1>0, <1>1, <2>1, ChargeKept DEF Call, Goto, Holds, WeakType
  <2>4. InCondWait' = InCondWait
    BY <1>0, <1>1, CondWaitKept DEF Call, Goto, WeakType
  <2>5. RefundMarked' /\ NoLostWakeup'
    BY <1>0, <1>1 DEF Call, Goto, WeakType, RefundMarked, NoLostWakeup,
       Waiting, Active
  <2> QED
    BY <1>0, <1>1, <2>2, <2>3, <2>4, <2>5
    DEF Call, QuotaConserved, WaitersCounted
<1>2. CASE SpuriousWakeup(t)
  <2>1. WeakType'
    BY <1>0, <1>2 DEF SpuriousWakeup, Goto, WeakType, Steps
  <2>2. Charged' = Charged
    BY <1>0, <1>2, ChargeKept DEF SpuriousWakeup, Goto, Holds, WeakType
  <2>3. InCondWait' = InCondWait
    BY <1>0, <1>2, CondWaitKept DEF SpuriousWakeup, Goto, WeakType
  <2>4. RefundMarked' /\ NoLostWakeup'
    BY <1>0, <1>2 DEF SpuriousWakeup, Goto, WeakType, RefundMarked,
       NoLostWakeup, Waiting, Active
  <2> QED
    BY <1>0, <1>2, <2>1, <2>2, <2>3, <2>4
    DEF SpuriousWakeup, QuotaConserved, WaitersCounted
<1>3. CASE AllocTake(t)
  <2>1. WeakType'
    BY <1>0, <1>3, QuotaAssumption DEF AllocTake, Goto, WeakType, Steps
  <2>2. Cardinality(Charged') = Cardinality(Charged) + size[t]
    BY <1>0, <1>3, <2>1, ChargeAdds DEF AllocTake, Goto, Holds, WeakType
  <2>3. QuotaConserved'
    BY <1>0, <1>3, <2>2, QuotaAssumption, ChargedFinite
    DEF AllocTake, QuotaConserved, WeakType
  <2>4. InCondWait' = InCondWait
    BY <1>0, <1>3, CondWaitKept DEF AllocTake, Goto, WeakType
  <2>5. RefundMarked' /\ NoLostWakeup'
    BY <1>0, <1>3 DEF AllocTake, Goto, WeakType, RefundMarked, NoLostWakeup,
       Waiting, Active
  <2> QED
    BY <1>0, <1>3, <2>1, <2>3, <2>4, <2>5 DEF AllocTake, WaitersCounted
<1>4. CASE AllocWait(t)
  <2>1. WeakType'
    BY <1>0, <1>4 DEF AllocWait, Goto, WeakType, Steps
  <2>2. Charged' = Charged
    BY <1>0, <1>4, ChargeKept DEF AllocWait, Goto, Holds, WeakType
  <2>3. InCondWait' = InCondWait \cup {t} /\ t \notin InCondWait
    BY <1>0, <1>4 DEF AllocWait, Goto, WeakType, InCondWait
  <2>4. WaitersCounted'
    BY <1>0, <1>4, <2>3, InCondWaitFinite, FS_AddElement
    DEF AllocWait, WaitersCounted
  <2>5. PICK u \in Threads : Holds(u)
    <3>1. quota_left < QuotaTotal
      BY <1>0, <1>4, QuotaAssumption DEF AllocWait, WeakType
    <3> QED BY <1>0, <3>1, ShortageHasHolder
  <2>6. u # t /\ pc'[u] = pc[u]
    BY <1>0, <1>4, <2>5 DEF AllocWait, Goto, Holds, WeakType
  <2>7. RefundMarked' /\ NoLostWakeup'
    BY <1>0, <1>4, <2>5, <2>6 DEF AllocWait, Goto, WeakType, RefundMarked,
       NoLostWakeup, Waiting, Active, Holds
  <2> QED
    BY <1>0, <1>4, <2>1, <2>2, <2>4, <2>7 DEF AllocWait, QuotaConserved
<1>5. CASE Retry(t)
  <2>1. InCondWait' = InCondWait \ {t} /\ t \in InCondWait
    BY <1>0, <1>5 DEF Retry, Goto, WeakType, InCondWait
  <2>2. WaitersCounted'
    BY <1>0, <1>5, <2>1, InCondWaitFinite, FS_RemoveElement
    DEF Retry, WaitersCounted
  <2>3. quota_waiters' \in Nat
    <3>1. IsFiniteSet(InCondWait')
      BY <2>1, InCondWaitFinite, FS_RemoveElement
    <3> QED BY <2>2, <3>1, FS_CardinalityType DEF WaitersCounted
  <2>4. WeakType'
    BY <1>0, <1>5, <2>3 DEF Retry, Goto, WeakType, Steps
  <2>5. Charged' = Charged
    BY <1>0, <1>5, ChargeKept DEF Retry, Goto, Holds, WeakType
  <2>6. RefundMarked' /\ NoLostWakeup'
    BY <1>0, <1>5 DEF Retry, Goto, WeakType, RefundMarked, NoLostWakeup,
       Waiting, Active
  <2> QED
    BY <1>0, <1>5, <2>2, <2>4, <2>5, <2>6 DEF Retry, QuotaConserved
<1>6. CASE MallocOk(t) \/ MallocFail(t)
  <2>1. WeakType'
    BY <1>0, <1>6 DEF MallocOk, MallocFail, Goto, WeakType, Steps
  <2>2. Charged' = Charged
    BY <1>0, <1>6, ChargeKept DEF MallocOk, MallocFail, Goto, Holds, WeakType
  <2>3. InCondWait' = InCondWait
    BY <1>0, <1>6, CondWaitKept DEF MallocOk, MallocFail, Goto, WeakType
  <2>4. RefundMarked' /\ NoLostWakeup'
    BY <1>0, <1>6 DEF MallocOk, MallocFail, Goto, WeakType, RefundMarked,
       NoLostWakeup, Waiting, Active
  <2> QED
    BY <1>0, <1>6, <2>1, <2>2, <2>3, <2>4
    DEF MallocOk, MallocFail, QuotaConserved, WaitersCounted
<1>7. CASE Refund(t)
  <2>1. WeakType'
    BY <1>0, <1>7, QuotaAssumption DEF Refund, Goto, WeakType, Steps
  <2>2. Cardinality(Charged') = Cardinality(Charged) - size[t]
    BY <1>0, <1>7, <2>1, DischargeRemoves DEF Refund, Goto, Holds, WeakType
  <2>3. QuotaConserved'
    BY <1>0, <1>7, <2>2, QuotaAssumption, ChargedFinite
    DEF Refund, QuotaConserved, WeakType
  <2>4. InCondWait' = InCondWait
    BY <1>0, <1>7, CondWaitKept DEF Refund, Goto, WeakType
  <2>5. RefundMarked' /\ NoLostWakeup'
    BY <1>0, <1>7 DEF Refund, Goto, WeakType, RefundMarked, NoLostWakeup
  <2> QED
    BY <1>0, <1>7, <2>1, <2>3, <2>4, <2>5 DEF Refund, WaitersCounted
<1>8. CASE Free(t)
  <2>1. WeakType'
    BY <1>0, <1>8, QuotaAssumption DEF Free, Goto, WeakType, Steps
  <2>2. Cardinality(Charged') = Cardinality(Charged) - size[t]
    BY <1>0, <1>8, <2>1, DischargeRemoves DEF Free, Goto, Holds, WeakType
  <2>3. QuotaConserved'
    BY <1>0, <1>8, <2>2, QuotaAssumption, ChargedFinite
    DEF Free, QuotaConserved, WeakType
  <2>4. InCondWait' = InCondWait
    BY <1>0, <1>8, CondWaitKept DEF Free, Goto, WeakType
  <2>5. Waiting # {} => quota_waiters > 0
    <3>1. Waiting # {} => InCondWait # {}
      BY DEF Waiting, InCondWait
    <3> QED
      BY <1>0, <3>1, InCondWaitFinite, FS_EmptySet DEF WaitersCounted, WeakType
  <2>6. RefundMarked' /\ NoLostWakeup'
    BY <1>0, <1>8, <2>5 DEF Free, Goto, WeakType, RefundMarked, NoLostWakeup,
       Waiting, Active
  <2> QED
    BY <1>0, <1>8, <2>1, <2>3, <2>4, <2>6 DEF Free, WaitersCounted
<1>9. CASE Signal(t)
  <2>1. \/ /\ ~(notify_waiter[t] /\ Waiting # {})
           /\ pc' = [pc EXCEPT ![t] = "start"]
        \/ \E u \in Waiting : pc' = [pc EXCEPT ![t] = "start", ![u] = "woken"]
    BY <1>9 DEF Signal
  <2>2. WeakType'
    BY <1>0, <1>9, <2>1 DEF Signal, WeakType, Steps, Waiting
  <2>3. Charged' = Charged
    BY <1>0, <1>9, <2>1, ChargeKept DEF Signal, Holds, WeakType, Waiting
  <2>4. InCondWait' = InCondWait
    BY <1>0, <1>9, <2>1, CondWaitKept DEF Signal, WeakType, Waiting
  <2>5. RefundMarked' /\ NoLostWakeup'
    BY <1>0, <1>9, <2>1 DEF Signal, WeakType, RefundMarked, NoLostWakeup,
       Waiting, Active
  <2> QED
    BY <1>0, <1>9, <2>2, <2>3, <2>4, <2>5
    DEF Signal, QuotaConserved, WaitersCounted
<1> QED
  BY <1>S, <1>1, <1>2, <1>3, <1>4, <1>5, <1>6, <1>7, <1>8, <1>9 DEF ThreadStep

(* The inductive invariant of mem_quota.c.                                  *)
THEOREM InvariantHolds == Spec => []IndInv
BY InitInv, StepInv, PTL DEF Spec

(* Every variable keeps its type; quota_left never leaves 0 .. quota_total, *)
(* so the unsigned subtraction of quota_mem_alloc and the decrement of      *)
(* quota_waiters never wrap around.                                         *)
THEOREM TypeCorrect == Spec => []TypeOK
<1>1. IndInv => TypeOK
  <2> SUFFICES ASSUME IndInv PROVE TypeOK
    OBVIOUS
  <2>1. quota_left <= QuotaTotal
    BY ChargedFinite, QuotaAssumption DEF IndInv, QuotaConserved, WeakType
  <2>2. quota_waiters \in 0 .. Cardinality(Threads)
    BY InCondWaitFinite DEF IndInv, WaitersCounted
  <2> QED BY <2>1, <2>2, QuotaAssumption DEF IndInv, WeakType, TypeOK
<1> QED BY <1>1, InvariantHolds, PTL

(* No unit of the quota is ever lost, returned twice or handed out twice.   *)
THEOREM QuotaIsConserved == Spec => []QuotaConserved
<1>1. IndInv => QuotaConserved
  BY DEF IndInv
<1> QED BY <1>1, InvariantHolds, PTL

(* quota_waiters is the number of threads in pthread_cond_wait.             *)
THEOREM WaitersAreCounted == Spec => []WaitersCounted
<1>1. IndInv => WaitersCounted
  BY DEF IndInv
<1> QED BY <1>1, InvariantHolds, PTL

(* The signal sent after the unlock is never lost while no malloc fails.    *)
THEOREM WakeupsAreNotLost == Spec => []NoLostWakeup
<1>1. IndInv => NoLostWakeup
  BY DEF IndInv
<1> QED BY <1>1, InvariantHolds, PTL

============================================================================
