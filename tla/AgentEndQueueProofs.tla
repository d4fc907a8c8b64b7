------------------------ MODULE AgentEndQueueProofs ------------------------
(***************************************************************************)
(* AgentEndQueue's safety for every set of keys, every cap and every bound.*)
(***************************************************************************)
EXTENDS AgentEndQueue, FiniteSetTheorems, TLAPS

(* A key is queued at most once (wakeSet agrees with wakeOrder).            *)
WakeDistinct ==
    \A i, j \in DOMAIN wakeOrder : wakeOrder[i] = wakeOrder[j] => i = j

(* What a worker claimed is its slot's, or older; a slot holds the last job.*)
ClaimsKnown ==
    /\ \A w \in workers : w.key \in DOMAIN slots /\ w.version <= slots[w.key].version
    /\ \A k \in DOMAIN slots : slots[k].latest = submitted[k]
    /\ WakeSet \subseteq DOMAIN slots
    /\ IsFiniteSet(workers)

IInv ==
    /\ TypeOK
    /\ SerialPerKeyUnderCap
    /\ NoLostWakeup
    /\ EverySlotOwed
    /\ LatestNeverDropped
    /\ WaiterMeansBusy
    /\ WakeDistinct
    /\ ClaimsKnown

-----------------------------------------------------------------------------
(* Waking a key keeps a queue of distinct keys and adds that key.           *)
LEMMA WakeAdds ==
    ASSUME TypeOK, WakeDistinct, NEW k \in Keys, wakeOrder' = EnqueueWake(k)
    PROVE  /\ wakeOrder' \in Seq(Keys) /\ wakeOrder' # <<>>
           /\ WakeSet' = WakeSet \cup {k}
           /\ WakeDistinct'
<1>1. wakeOrder \in Seq(Keys)
  BY DEF TypeOK
<1>2. CASE k \in WakeSet
  <2>1. wakeOrder' = wakeOrder
    BY <1>2 DEF EnqueueWake
  <2>2. PICK i \in DOMAIN wakeOrder : wakeOrder[i] = k
    BY <1>2 DEF WakeSet
  <2>3. wakeOrder # <<>>
    BY <2>2, <1>1
  <2> QED
    BY <1>1, <1>2, <2>1, <2>3 DEF WakeSet, WakeDistinct
<1>3. CASE k \notin WakeSet
  <2>1. wakeOrder' = Append(wakeOrder, k)
    BY <1>3 DEF EnqueueWake
  <2>2. /\ wakeOrder' \in Seq(Keys)
        /\ DOMAIN wakeOrder' = 1 .. Len(wakeOrder) + 1
        /\ \A i \in 1 .. Len(wakeOrder) : wakeOrder'[i] = wakeOrder[i]
        /\ wakeOrder'[Len(wakeOrder) + 1] = k
        /\ Len(wakeOrder) \in Nat
        /\ DOMAIN wakeOrder = 1 .. Len(wakeOrder)
    BY <1>1, <2>1
  <2>3. \A i \in DOMAIN wakeOrder : wakeOrder[i] # k
    BY <1>3 DEF WakeSet
  <2>4. wakeOrder' # <<>>
    BY <2>2
  <2>5. WakeSet' = WakeSet \cup {k}
    BY <2>2 DEF WakeSet
  <2>6. WakeDistinct'
    BY <2>2, <2>3 DEF WakeDistinct
  <2> QED
    BY <2>2, <2>4, <2>5, <2>6
<1> QED
  BY <1>2, <1>3

(* Dequeuing the head of a queue of distinct keys removes just that key.    *)
LEMMA WakeRemoves ==
    ASSUME TypeOK, WakeDistinct, wakeOrder # <<>>, wakeOrder' = Tail(wakeOrder)
    PROVE  /\ Head(wakeOrder) \in Keys /\ Head(wakeOrder) \in WakeSet
           /\ wakeOrder' \in Seq(Keys)
           /\ WakeSet' = WakeSet \ {Head(wakeOrder)}
           /\ WakeDistinct'
<1>1. /\ wakeOrder \in Seq(Keys)
      /\ Len(wakeOrder) \in Nat
      /\ Len(wakeOrder) > 0
      /\ DOMAIN wakeOrder = 1 .. Len(wakeOrder)
  BY DEF TypeOK
<1>2. /\ wakeOrder' \in Seq(Keys)
      /\ DOMAIN wakeOrder' = 1 .. Len(wakeOrder) - 1
      /\ \A i \in DOMAIN wakeOrder' : wakeOrder'[i] = wakeOrder[i + 1]
      /\ Head(wakeOrder) = wakeOrder[1]
  BY <1>1
<1>3. WakeSet' \subseteq WakeSet \ {Head(wakeOrder)}
  BY <1>1, <1>2 DEF WakeSet, WakeDistinct
<1>4. ASSUME NEW k \in WakeSet \ {Head(wakeOrder)}
      PROVE  k \in WakeSet'
  <2>1. PICK i \in DOMAIN wakeOrder : wakeOrder[i] = k
    BY DEF WakeSet
  <2>2. i - 1 \in DOMAIN wakeOrder' /\ wakeOrder'[i - 1] = k
    BY <1>1, <1>2, <2>1
  <2> QED
    BY <2>2 DEF WakeSet
<1>5. WakeDistinct'
  BY <1>1, <1>2 DEF WakeDistinct
<1>6. Head(wakeOrder) \in Keys /\ Head(wakeOrder) \in WakeSet
  BY <1>1, <1>2 DEF WakeSet
<1> QED
  BY <1>2, <1>3, <1>4, <1>5, <1>6

(* A worker in progress is counted; retiring it leaves one worker less.     *)
LEMMA WorkerCounted ==
    ASSUME IInv, NEW w \in workers
    PROVE  /\ activeWorkers > 0
           /\ OneWorkerLess = activeWorkers - 1
           /\ IsFiniteSet(workers \ {w})
           /\ Cardinality(workers \ {w}) = OneWorkerLess
<1>1. IsFiniteSet(workers) /\ activeWorkers = Cardinality(workers) /\ activeWorkers \in Nat
  BY DEF IInv, ClaimsKnown, SerialPerKeyUnderCap, TypeOK
<1>2. /\ IsFiniteSet(workers \ {w})
      /\ Cardinality(workers \ {w}) = Cardinality(workers) - 1
  BY <1>1, FS_RemoveElement
<1>3. Cardinality(workers \ {w}) \in Nat
  BY <1>2, FS_CardinalityType
<1> QED
  BY <1>1, <1>2, <1>3 DEF OneWorkerLess

-----------------------------------------------------------------------------
LEMMA InitEstablishes == Init => IInv
<1> SUFFICES ASSUME Init PROVE IInv
  OBVIOUS
<1>1. /\ workers = {} /\ wakeOrder = <<>> /\ activeWorkers = 0 /\ slots = <<>>
      /\ WakeSet = {} /\ DOMAIN slots = {} /\ DOMAIN wakeOrder = {}
  BY DEF Init, WakeSet
<1>2. IsFiniteSet({}) /\ Cardinality({}) = 0
  BY FS_EmptySet
<1>3. TypeOK
  <2>1. slots \in [DOMAIN slots -> Slot]
    BY <1>1
  <2>2. wakeOrder \in Seq(Keys)
    BY <1>1
  <2>3. submitted \in [Keys -> Nat] /\ served \in [Keys -> Nat]
    BY DEF Init
  <2>4. workers \subseteq Worker /\ DOMAIN slots \subseteq Keys /\ activeWorkers \in Nat
    BY <1>1
  <2>5. immediates \in Nat /\ pumping \in BOOLEAN /\ idleWaiters \subseteq Waiters
    BY DEF Init
  <2> QED
    BY <2>1, <2>2, <2>3, <2>4, <2>5 DEF TypeOK
<1>4. SerialPerKeyUnderCap
  BY <1>1, <1>2, QueueAssumption DEF SerialPerKeyUnderCap
<1>5. NoLostWakeup /\ EverySlotOwed /\ WaiterMeansBusy /\ WakeDistinct
  BY <1>1 DEF Init, NoLostWakeup, EverySlotOwed, WaiterMeansBusy, WakeDistinct
<1>6. LatestNeverDropped
  BY <1>1 DEF Init, LatestNeverDropped
<1>7. ClaimsKnown
  BY <1>1, <1>2 DEF ClaimsKnown
<1> QED
  BY <1>3, <1>4, <1>5, <1>6, <1>7 DEF IInv

LEMMA EnqueueKeeps ==
    ASSUME IInv, NEW k \in Keys, EnqueueDetachedAgentEnd(k)
    PROVE  IInv'
<1> USE DEF IInv
<1>1. /\ UNCHANGED <<workers, activeWorkers, pumping, idleWaiters, served>>
      /\ immediates' = immediates + 1
      /\ submitted' = [submitted EXCEPT ![k] = @ + 1]
      /\ ~pumping
  BY DEF EnqueueDetachedAgentEnd
<1>2. /\ submitted' \in [Keys -> Nat]
      /\ submitted'[k] = submitted[k] + 1
      /\ \A x \in Keys : x # k => submitted'[x] = submitted[x]
  BY <1>1 DEF TypeOK
<1>3. PICK s \in Slot : /\ slots' = WithSlot(k, s)
                        /\ s.latest = submitted[k] + 1
                        /\ k \in DOMAIN slots => /\ s.active = slots[k].active
                                                 /\ s.version = slots[k].version + 1
                        /\ k \notin DOMAIN slots => ~s.active
  <2>1. CASE k \in DOMAIN slots
    <3>1. slots' = WithSlot(k, Coalesced(k)) /\ slots[k] \in Slot /\ submitted[k] \in Nat
      BY <2>1 DEF EnqueueDetachedAgentEnd, TypeOK
    <3>2. /\ Coalesced(k) \in Slot
          /\ Coalesced(k).latest = submitted[k] + 1
          /\ Coalesced(k).active = slots[k].active
          /\ Coalesced(k).version = slots[k].version + 1
      BY <3>1 DEF Coalesced, Slot
    <3> QED
      BY <2>1, <3>1, <3>2
  <2>2. CASE k \notin DOMAIN slots
    <3>1. slots' = WithSlot(k, FreshSlot(k)) /\ submitted[k] \in Nat
      BY <2>2 DEF EnqueueDetachedAgentEnd, TypeOK
    <3>2. /\ FreshSlot(k) \in Slot
          /\ FreshSlot(k).latest = submitted[k] + 1
          /\ ~FreshSlot(k).active
      BY <3>1 DEF FreshSlot, Slot
    <3> QED
      BY <2>2, <3>1, <3>2
  <2> QED
    BY <2>1, <2>2
<1>4. /\ DOMAIN slots' = DOMAIN slots \cup {k}
      /\ slots'[k] = s
      /\ \A x \in DOMAIN slots : x # k => slots'[x] = slots[x]
  BY <1>3 DEF WithSlot
<1>5. /\ wakeOrder' \in Seq(Keys)
      /\ WakeDistinct'
      /\ WakeSet' = IF k \in DOMAIN slots /\ slots[k].active
                    THEN WakeSet ELSE WakeSet \cup {k}
      /\ wakeOrder # <<>> => wakeOrder' # <<>>
  <2>1. CASE k \in DOMAIN slots /\ slots[k].active
    <3>1. wakeOrder' = wakeOrder
      BY <2>1 DEF EnqueueDetachedAgentEnd
    <3> QED
      BY <2>1, <3>1 DEF TypeOK, WakeDistinct, WakeSet
  <2>2. CASE ~(k \in DOMAIN slots /\ slots[k].active)
    <3>1. wakeOrder' = EnqueueWake(k)
      BY <2>2 DEF EnqueueDetachedAgentEnd
    <3>2. TypeOK /\ WakeDistinct
      BY DEF IInv
    <3> QED
      BY <2>2, <3>1, <3>2, WakeAdds
  <2> QED
    BY <2>1, <2>2
<1>6. TypeOK'
  <2>1. DOMAIN slots' \subseteq Keys
    BY <1>4 DEF TypeOK
  <2>2. slots' \in [DOMAIN slots' -> Slot]
    <3>1. \A x \in DOMAIN slots' : slots'[x] \in Slot
      BY <1>3, <1>4 DEF TypeOK
    <3>2. slots' = [x \in DOMAIN slots' |-> slots'[x]]
      BY <1>3, <1>4 DEF WithSlot
    <3> QED
      BY <3>1, <3>2
  <2>3. /\ workers' \subseteq Worker /\ activeWorkers' \in Nat /\ immediates' \in Nat
        /\ pumping' \in BOOLEAN /\ idleWaiters' \subseteq Waiters
        /\ served' \in [Keys -> Nat]
    BY <1>1 DEF TypeOK
  <2> QED
    BY <1>2, <1>5, <2>1, <2>2, <2>3 DEF TypeOK
<1>7. SerialPerKeyUnderCap'
  BY <1>1 DEF SerialPerKeyUnderCap
<1>8. NoLostWakeup'
  BY <1>1 DEF NoLostWakeup, TypeOK
<1>9. EverySlotOwed'
  BY <1>1, <1>3, <1>4, <1>5 DEF EverySlotOwed, ClaimsKnown
<1>10. LatestNeverDropped'
  BY <1>1, <1>2, <1>3, <1>4 DEF LatestNeverDropped, ClaimsKnown, TypeOK, Worker, Slot
<1>11. WaiterMeansBusy'
  BY <1>1, <1>5 DEF WaiterMeansBusy, Idle
<1>12. ClaimsKnown'
  <2>1. ASSUME NEW v \in workers
        PROVE  v.key \in DOMAIN slots' /\ v.version <= slots'[v.key].version
    <3>1. v.key \in DOMAIN slots /\ v.version <= slots[v.key].version
      BY DEF ClaimsKnown
    <3>2. v.version \in Nat /\ slots[v.key].version \in Nat
      BY <3>1 DEF TypeOK, Worker, Slot
    <3> QED
      BY <1>3, <1>4, <3>1, <3>2
  <2>2. \A x \in DOMAIN slots' : slots'[x].latest = submitted'[x]
    BY <1>2, <1>3, <1>4 DEF ClaimsKnown, TypeOK
  <2>3. WakeSet' \subseteq DOMAIN slots'
    BY <1>4, <1>5 DEF ClaimsKnown
  <2> QED
    BY <1>1, <2>1, <2>2, <2>3 DEF ClaimsKnown
<1> QED
  BY <1>5, <1>6, <1>7, <1>8, <1>9, <1>10, <1>11, <1>12

LEMMA PumpTakeKeeps ==
    ASSUME IInv, PumpTake
    PROVE  IInv'
<1> DEFINE k == Head(wakeOrder)
           w == [key |-> k, job |-> slots[k].latest,
                 version |-> slots[k].version, phase |-> "running"]
<1> USE DEF IInv
<1>1. /\ pumping /\ pumping' /\ wakeOrder # <<>> /\ activeWorkers < MaxGlobalConcurrent
      /\ wakeOrder' = Tail(wakeOrder)
      /\ UNCHANGED <<immediates, pumping, idleWaiters, submitted>>
  BY DEF PumpTake, PumpHasRoom
<1>2. /\ k \in Keys /\ k \in WakeSet /\ wakeOrder' \in Seq(Keys)
      /\ WakeSet' = WakeSet \ {k} /\ WakeDistinct'
  BY <1>1, WakeRemoves
<1>3. k \in DOMAIN slots /\ ~slots[k].active /\ \A v \in workers : v.key # k
  BY <1>2 DEF ClaimsKnown, EverySlotOwed
<1>4. /\ slots' = [slots EXCEPT ![k].active = TRUE]
      /\ activeWorkers' = activeWorkers + 1
      /\ workers' = workers \cup {w}
      /\ served' = [served EXCEPT ![k] = slots[k].latest]
  BY <1>3 DEF PumpTake, Runnable, RunKey
<1>5. /\ slots[k] \in Slot /\ w \in Worker /\ w \notin workers
      /\ w.key = k /\ w.version = slots[k].version
  BY <1>2, <1>3 DEF TypeOK, Slot, Worker
<1>6. /\ DOMAIN slots' = DOMAIN slots
      /\ slots'[k] = [slots[k] EXCEPT !.active = TRUE]
      /\ slots'[k].active /\ slots'[k].latest = slots[k].latest
      /\ slots'[k].version = slots[k].version /\ slots'[k] \in Slot
      /\ \A x \in DOMAIN slots : x # k => slots'[x] = slots[x]
  BY <1>3, <1>4, <1>5 DEF TypeOK, Slot
<1>7. /\ served' \in [Keys -> Nat] /\ served'[k] = submitted[k]
      /\ \A x \in Keys : x # k => served'[x] = served[x]
  BY <1>2, <1>3, <1>4, <1>5 DEF TypeOK, Slot, ClaimsKnown
<1>8. IsFiniteSet(workers') /\ Cardinality(workers') = activeWorkers'
  BY <1>4, <1>5, FS_AddElement DEF ClaimsKnown, SerialPerKeyUnderCap
<1>9. TypeOK'
  <2>1. slots' \in [DOMAIN slots' -> Slot]
    BY <1>4, <1>6 DEF TypeOK
  <2> QED
    BY <1>1, <1>2, <1>4, <1>5, <1>6, <1>7, <2>1 DEF TypeOK
<1>10. SerialPerKeyUnderCap'
  <2>1. \A u, v \in workers' : u.key = v.key => u = v
    <3> HIDE DEF k, w
    <3> QED
      BY <1>3, <1>4, <1>5 DEF SerialPerKeyUnderCap
  <2>2. activeWorkers' <= MaxGlobalConcurrent
    BY <1>1, <1>4, QueueAssumption DEF TypeOK
  <2> QED
    BY <1>8, <2>1, <2>2 DEF SerialPerKeyUnderCap
<1>11. NoLostWakeup' /\ WaiterMeansBusy'
  BY <1>1 DEF NoLostWakeup, WaiterMeansBusy
<1>12. EverySlotOwed'
  BY <1>2, <1>3, <1>4, <1>5, <1>6 DEF EverySlotOwed
<1>13. LatestNeverDropped'
  BY <1>1, <1>3, <1>4, <1>5, <1>6, <1>7 DEF LatestNeverDropped, TypeOK, Worker
<1>14. ClaimsKnown'
  <2>1. \A v \in workers' : v.key \in DOMAIN slots' /\ v.version <= slots'[v.key].version
    BY <1>3, <1>4, <1>5, <1>6 DEF ClaimsKnown, TypeOK, Slot
  <2>2. \A x \in DOMAIN slots' : slots'[x].latest = submitted'[x]
    BY <1>1, <1>3, <1>6 DEF ClaimsKnown
  <2>3. WakeSet' \subseteq DOMAIN slots'
    BY <1>2, <1>6 DEF ClaimsKnown
  <2> QED
    BY <1>8, <2>1, <2>2, <2>3 DEF ClaimsKnown
<1> QED
  BY <1>2, <1>9, <1>10, <1>11, <1>12, <1>13, <1>14

(* What the three ends of a run share: the worker is gone, its slot is      *)
(* released or dropped, and the key is queued exactly if a slot remains.    *)
LEMMA RetireKeeps ==
    ASSUME IInv, NEW w \in workers, NEW more \in BOOLEAN, ~pumping, Retire(w, more)
    PROVE  IInv'
<1> DEFINE k == w.key
<1> USE DEF IInv
<1>1. /\ workers' = workers \ {w} /\ activeWorkers' = activeWorkers - 1
      /\ activeWorkers > 0 /\ IsFiniteSet(workers')
      /\ Cardinality(workers') = activeWorkers'
      /\ UNCHANGED <<submitted, served>>
  BY WorkerCounted DEF Retire
<1>2. /\ w \in Worker /\ k \in Keys /\ k \in DOMAIN slots
      /\ w.version <= slots[k].version /\ w.version \in Nat /\ slots[k].version \in Nat
      /\ slots[k].active /\ k \notin WakeSet
      /\ \A v \in workers' : v.key # k
  <3>1. w \in Worker /\ k \in DOMAIN slots /\ w.version <= slots[k].version
    BY DEF TypeOK, ClaimsKnown
  <3>2. k \in Keys /\ w.version \in Nat /\ slots[k].version \in Nat
    BY <3>1 DEF TypeOK, Worker, Slot
  <3>3. slots[k].active /\ k \notin WakeSet
    BY <3>1 DEF EverySlotOwed
  <3>4. \A v \in workers' : v.key # k
    BY <1>1 DEF SerialPerKeyUnderCap
  <3> QED
    BY <3>1, <3>2, <3>3, <3>4
<1>3. /\ activeWorkers' \in Nat /\ workers' \subseteq Worker
      /\ submitted' \in [Keys -> Nat] /\ served' \in [Keys -> Nat]
      /\ SerialPerKeyUnderCap'
  BY <1>1, QueueAssumption DEF TypeOK, SerialPerKeyUnderCap
<1>4. /\ immediates' \in Nat /\ pumping' \in BOOLEAN /\ idleWaiters' \subseteq idleWaiters
  <2>1. immediates' \in Nat
    BY DEF Retire, TypeOK, ImmediateAdded
  <2>2. pumping' \in BOOLEAN
    <3>1. pumping' = TRUE \/ pumping' = pumping
      BY DEF Retire
    <3>2. pumping \in BOOLEAN
      BY DEF TypeOK
    <3> QED
      BY <3>1, <3>2
  <2>3. idleWaiters' \subseteq idleWaiters
    BY DEF Retire, Settled
  <2> QED
    BY <2>1, <2>2, <2>3
<1>5. \A v \in workers' : /\ v \in workers /\ v.key \in DOMAIN slots /\ v.key # k
                          /\ v.version <= slots[v.key].version
  BY <1>1, <1>2 DEF ClaimsKnown
<1>6. CASE NewerJob(w) \/ more
  <2>1. /\ slots' = Released(k)
        /\ wakeOrder' = EnqueueWake(k)
        /\ pumping' \/ immediates' = immediates + 1
    BY <1>6 DEF Retire, ImmediateAdded
  <2>2. /\ wakeOrder' \in Seq(Keys) /\ wakeOrder' # <<>>
        /\ WakeSet' = WakeSet \cup {k} /\ WakeDistinct'
    BY <1>2, <2>1, WakeAdds
  <2>3. /\ DOMAIN slots' = DOMAIN slots
        /\ slots'[k] = [slots[k] EXCEPT !.active = FALSE]
        /\ \A x \in DOMAIN slots : x # k => slots'[x] = slots[x]
    BY <1>2, <2>1 DEF Released, TypeOK
  <2>4. /\ slots'[k] \in Slot /\ ~slots'[k].active
        /\ slots'[k].latest = slots[k].latest /\ slots'[k].version = slots[k].version
    BY <1>2, <2>3 DEF TypeOK, Slot
  <2>5. slots' \in [DOMAIN slots' -> Slot] /\ DOMAIN slots' \subseteq Keys
    <3>1. slots' = [x \in DOMAIN slots' |-> slots'[x]]
      BY <2>1, <2>3 DEF Released
    <3>2. \A x \in DOMAIN slots' : slots'[x] \in Slot
      BY <2>3, <2>4 DEF TypeOK
    <3> QED
      BY <3>1, <3>2, <2>3 DEF TypeOK
  <2>6. TypeOK'
    BY <1>3, <1>4, <2>2, <2>5 DEF TypeOK
  <2>7. NoLostWakeup' /\ WaiterMeansBusy'
    BY <2>1, <2>2 DEF NoLostWakeup, WaiterMeansBusy, Idle, TypeOK
  <2>8. EverySlotOwed'
    BY <1>1, <1>2, <2>2, <2>3, <2>4 DEF EverySlotOwed
  <2>9. LatestNeverDropped'
    BY <1>1, <1>5, <2>3 DEF LatestNeverDropped
  <2>10. ClaimsKnown'
    BY <1>1, <1>2, <1>5, <2>2, <2>3, <2>4 DEF ClaimsKnown
  <2> QED
    BY <1>3, <2>2, <2>6, <2>7, <2>8, <2>9, <2>10
<1>7. CASE ~NewerJob(w) /\ ~more
  <2>1. slots' = WithoutSlot(k) /\ wakeOrder' = wakeOrder /\ pumping' /\ immediates' = immediates
    BY <1>7 DEF Retire
  <2>2. /\ DOMAIN slots' = DOMAIN slots \ {k}
        /\ \A x \in DOMAIN slots' : slots'[x] = slots[x]
    BY <2>1 DEF WithoutSlot
  <2>3. WakeSet' = WakeSet /\ WakeDistinct'
    BY <2>1 DEF WakeSet, WakeDistinct
  <2>4. slots' \in [DOMAIN slots' -> Slot] /\ DOMAIN slots' \subseteq Keys
    BY <2>1, <2>2 DEF TypeOK, WithoutSlot
  <2>5. TypeOK'
    BY <1>3, <1>4, <2>1, <2>4 DEF TypeOK
  <2>6. NoLostWakeup' /\ WaiterMeansBusy'
    BY <2>1 DEF NoLostWakeup, WaiterMeansBusy
  <2>7. EverySlotOwed'
    BY <1>1, <2>2, <2>3 DEF EverySlotOwed
  <2>8. served[k] = submitted[k]
    BY <1>2, <1>7 DEF LatestNeverDropped, NewerJob
  <2>9. LatestNeverDropped'
    BY <1>1, <1>5, <2>2, <2>8 DEF LatestNeverDropped
  <2>10. ClaimsKnown'
    BY <1>1, <1>2, <1>5, <2>2, <2>3 DEF ClaimsKnown
  <2> QED
    BY <1>3, <2>3, <2>5, <2>6, <2>7, <2>9, <2>10
<1> QED
  BY <1>6, <1>7

LEMMA JobFailsKeeps ==
    ASSUME IInv, NEW w \in workers, JobFails(w)
    PROVE  IInv'
<1> DEFINE v == [w EXCEPT !.phase = "reporting"]
<1> USE DEF IInv
<1>1. /\ w \in Worker /\ v \in Worker /\ v.key = w.key /\ v.version = w.version
      /\ workers' = (workers \ {w}) \cup {v}
      /\ UNCHANGED <<slots, wakeOrder, activeWorkers, immediates, pumping,
                     idleWaiters, submitted, served>>
  BY DEF JobFails, TypeOK, Worker
<1>2. v \notin workers \ {w}
  BY <1>1 DEF SerialPerKeyUnderCap
<1>3. /\ IsFiniteSet(workers \ {w})
      /\ Cardinality(workers \ {w}) = activeWorkers - 1
      /\ activeWorkers \in Nat
  BY WorkerCounted DEF TypeOK
<1>4. IsFiniteSet(workers') /\ Cardinality(workers') = activeWorkers
  <2> DEFINE others == workers \ {w}
  <2>1. IsFiniteSet(others) /\ v \notin others
    BY <1>2, <1>3
  <2> HIDE DEF others, v
  <2>2. IsFiniteSet(others \cup {v}) /\ Cardinality(others \cup {v}) = Cardinality(others) + 1
    BY <2>1, FS_AddElement
  <2> QED
    BY <1>1, <1>3, <2>2 DEF others
<1>5. TypeOK'
  BY <1>1 DEF TypeOK
<1>6. SerialPerKeyUnderCap'
  BY <1>1, <1>4 DEF SerialPerKeyUnderCap
<1>7. NoLostWakeup' /\ WaiterMeansBusy' /\ WakeDistinct' /\ WakeSet' = WakeSet
  BY <1>1 DEF NoLostWakeup, WaiterMeansBusy, WakeDistinct, WakeSet
<1>8. EverySlotOwed'
  <2>1. \A k \in Keys : (\E u \in workers' : u.key = k) <=> (\E u \in workers : u.key = k)
    BY <1>1
  <2> QED
    BY <1>1, <1>7, <2>1 DEF EverySlotOwed, TypeOK
<1>9. LatestNeverDropped'
  BY <1>1 DEF LatestNeverDropped
<1>10. ClaimsKnown'
  BY <1>1, <1>4, <1>7 DEF ClaimsKnown
<1> QED
  BY <1>5, <1>6, <1>7, <1>8, <1>9, <1>10

(* RunImmediate, PumpEnd, WaitForIdle and stuttering leave slots and        *)
(* workers alone.                                                           *)
LEMMA BookkeepingKeeps ==
    ASSUME IInv,
           \/ RunImmediate
           \/ PumpEnd
           \/ \E x \in Waiters : WaitForIdle(x)
           \/ UNCHANGED vars
    PROVE  IInv'
<1> USE DEF IInv
<1>1. UNCHANGED <<slots, wakeOrder, workers, activeWorkers, submitted, served>>
  BY DEF RunImmediate, PumpEnd, WaitForIdle, vars
<1>2. /\ SerialPerKeyUnderCap' /\ WakeDistinct' /\ WakeSet' = WakeSet
  BY <1>1 DEF SerialPerKeyUnderCap, WakeDistinct, WakeSet
<1>3. EverySlotOwed' /\ LatestNeverDropped' /\ ClaimsKnown'
  BY <1>1, <1>2 DEF EverySlotOwed, LatestNeverDropped, ClaimsKnown
<1>4. CASE RunImmediate
  BY <1>1, <1>2, <1>3, <1>4 DEF RunImmediate, TypeOK, NoLostWakeup, WaiterMeansBusy
<1>5. CASE PumpEnd
  <2>1. wakeOrder = <<>> \/ activeWorkers = MaxGlobalConcurrent
    BY <1>5, QueueAssumption DEF PumpEnd, PumpHasRoom, SerialPerKeyUnderCap, TypeOK
  <2>2. NoLostWakeup' /\ WaiterMeansBusy'
    BY <1>1, <1>5, <2>1 DEF PumpEnd, NoLostWakeup, WaiterMeansBusy, Settled, Idle
  <2>3. TypeOK'
    BY <1>1, <1>5 DEF PumpEnd, TypeOK, Settled
  <2> QED
    BY <1>2, <1>3, <2>2, <2>3
<1>6. CASE \E x \in Waiters : WaitForIdle(x)
  BY <1>1, <1>2, <1>3, <1>6 DEF WaitForIdle, TypeOK, NoLostWakeup, WaiterMeansBusy, Idle
<1>7. CASE UNCHANGED vars
  BY <1>1, <1>2, <1>3, <1>7 DEF vars, TypeOK, NoLostWakeup, WaiterMeansBusy, Idle
<1> QED
  BY <1>4, <1>5, <1>6, <1>7

(* The inductive invariant: every reachable state of the queue satisfies    *)
(* it, whatever the keys, the cap and the bounds.                           *)
THEOREM InductiveInvariant == Spec => []IInv
<1>1. Init => IInv
  BY InitEstablishes
<1>2. IInv /\ [Next]_vars => IInv'
  <2> SUFFICES ASSUME IInv, [Next]_vars PROVE IInv'
    OBVIOUS
  <2>1. ASSUME NEW k \in Keys, EnqueueDetachedAgentEnd(k) PROVE IInv'
    BY <2>1, EnqueueKeeps
  <2>2. CASE PumpTake
    BY <2>2, PumpTakeKeeps
  <2>3. ASSUME NEW w \in workers, JobCompletes(w) \/ JobContinues(w) \/ ErrorReported(w)
        PROVE  IInv'
    BY <2>3, RetireKeeps DEF JobCompletes, JobContinues, ErrorReported
  <2>4. ASSUME NEW w \in workers, JobFails(w) PROVE IInv'
    BY <2>4, JobFailsKeeps
  <2>5. CASE RunImmediate \/ PumpEnd \/ (\E x \in Waiters : WaitForIdle(x)) \/ UNCHANGED vars
    BY <2>5, BookkeepingKeeps
  <2> QED
    BY <2>1, <2>2, <2>3, <2>4, <2>5 DEF Next
<1> QED
  BY <1>1, <1>2, PTL DEF Spec

(* Type correctness of the scheduler's state.                               *)
THEOREM TypeCorrect == Spec => []TypeOK
<1>1. IInv => TypeOK
  BY DEF IInv
<1> QED
  BY <1>1, InductiveInvariant, PTL

(* agent-end-queue.ts: one key never overlaps itself and the runs in        *)
(* progress never exceed the process cap.                                   *)
THEOREM RunsSerialUnderCap == Spec => []SerialPerKeyUnderCap
<1>1. IInv => SerialPerKeyUnderCap
  BY DEF IInv
<1> QED
  BY <1>1, InductiveInvariant, PTL

(* agent-end-queue.ts: no queued key is forgotten by pump(), no slot is     *)
(* held without work, and no latest job is dropped by coalescing.           *)
THEOREM NothingForgotten == Spec => [](NoLostWakeup /\ EverySlotOwed /\ LatestNeverDropped)
<1>1. IInv => NoLostWakeup /\ EverySlotOwed /\ LatestNeverDropped
  BY DEF IInv
<1> QED
  BY <1>1, InductiveInvariant, PTL

(* agent-end-queue.ts: a waiter is released only when nothing runs, nothing *)
(* is queued and no slot is held.                                           *)
THEOREM WaitersReleasedOnlyIdle == Spec => WaiterReleasedOnlyIdle
<1>1. ASSUME IInv, IInv', [Next]_vars
      PROVE  [~(idleWaiters \subseteq idleWaiters') =>
                workers' = {} /\ wakeOrder' = <<>> /\ DOMAIN slots' = {}]_vars
  <2> SUFFICES ASSUME ~(idleWaiters \subseteq idleWaiters')
               PROVE  workers' = {} /\ wakeOrder' = <<>> /\ DOMAIN slots' = {}
    OBVIOUS
  <2>1. activeWorkers' = 0 /\ wakeOrder' = <<>>
    BY <1>1 DEF Next, vars, EnqueueDetachedAgentEnd, RunImmediate, PumpTake, PumpEnd,
       JobCompletes, JobContinues, JobFails, ErrorReported, Retire, WaitForIdle,
       Settled, Idle
  <2>2. workers' = {}
    BY <1>1, <2>1, FS_EmptySet DEF IInv, SerialPerKeyUnderCap, ClaimsKnown
  <2>3. WakeSet' = {}
    BY <2>1 DEF WakeSet
  <2>4. DOMAIN slots' = {}
    BY <1>1, <2>2, <2>3 DEF IInv, EverySlotOwed
  <2> QED
    BY <2>1, <2>2, <2>4
<1> QED
  BY <1>1, InductiveInvariant, PTL DEF Spec, WaiterReleasedOnlyIdle

(* agent-end-queue.ts: coalescing drops only superseded jobs.               *)
THEOREM LatestJobKept == Spec => []LatestNeverDropped
<1>1. IInv => LatestNeverDropped
  BY DEF IInv
<1> QED
  BY <1>1, InductiveInvariant, PTL

-----------------------------------------------------------------------------
(* The refinement of CoalescingQueue.  What a worker claimed is what was    *)
(* served last, and numbers of jobs are in their range.                     *)
JobsKnown ==
    /\ \A k \in Keys : served[k] <= submitted[k]
    /\ \A k \in DOMAIN slots : submitted[k] \in 1 .. MaxEnqueues[k]
    /\ \A w \in workers : w.job = served[w.key] /\ w.job > 0

LEMMA JobsKnownInit == Init => JobsKnown
BY DEF Init, JobsKnown

(* Dequeuing a key starts it: the queue holds only keys that can run.       *)
LEMMA HeadRuns ==
    ASSUME IInv, PumpTake, NEW k, k = Head(wakeOrder)
    PROVE  /\ k \in Keys /\ k \in DOMAIN slots /\ ~slots[k].active
           /\ \A v \in workers : v.key # k
           /\ RunKey(k)
<1>1. wakeOrder # <<>> /\ wakeOrder' = Tail(wakeOrder)
  BY DEF PumpTake, PumpHasRoom
<1>2. k \in Keys /\ k \in WakeSet
  BY <1>1, WakeRemoves DEF IInv
<1>3. k \in DOMAIN slots /\ ~slots[k].active /\ \A v \in workers : v.key # k
  BY <1>2 DEF IInv, ClaimsKnown, EverySlotOwed
<1> QED
  BY <1>2, <1>3 DEF PumpTake, Runnable

LEMMA JobsKnownStep ==
    ASSUME IInv, JobsKnown, [Next]_vars
    PROVE  JobsKnown'
<1> USE DEF JobsKnown
<1>1. ASSUME NEW k \in Keys, EnqueueDetachedAgentEnd(k)
      PROVE  JobsKnown'
  <2>1. /\ submitted[k] < MaxEnqueues[k] /\ UNCHANGED <<workers, served>>
        /\ submitted' = [submitted EXCEPT ![k] = @ + 1]
        /\ DOMAIN slots' = DOMAIN slots \cup {k}
    BY <1>1 DEF EnqueueDetachedAgentEnd, WithSlot
  <2>2. /\ submitted'[k] = submitted[k] + 1 /\ submitted[k] \in Nat /\ MaxEnqueues[k] \in Nat
        /\ \A x \in Keys : x # k => submitted'[x] = submitted[x]
        /\ \A x \in Keys : served[x] \in Nat
    BY <2>1, QueueAssumption DEF IInv, TypeOK
  <2>3. DOMAIN slots' \subseteq Keys
    BY <2>1 DEF IInv, TypeOK
  <2> QED
    BY <2>1, <2>2, <2>3
<1>2. CASE PumpTake
  <2> DEFINE k == Head(wakeOrder)
             w == [key |-> k, job |-> slots[k].latest,
                   version |-> slots[k].version, phase |-> "running"]
  <2>1. /\ k \in Keys /\ k \in DOMAIN slots /\ \A v \in workers : v.key # k
        /\ RunKey(k) /\ submitted' = submitted
    BY <1>2, HeadRuns DEF PumpTake
  <2>2. slots[k].latest = submitted[k]
    BY <2>1 DEF IInv, ClaimsKnown
  <2>3. /\ DOMAIN slots' = DOMAIN slots
        /\ served'[k] = submitted[k] /\ \A x \in Keys : x # k => served'[x] = served[x]
        /\ workers' = workers \cup {w} /\ w.key = k /\ w.job = submitted[k]
    BY <2>1, <2>2 DEF RunKey, IInv, TypeOK
  <2>4. submitted[k] \in 1 .. MaxEnqueues[k] /\ submitted[k] \in Nat /\ MaxEnqueues[k] \in Nat
    BY <2>1, QueueAssumption DEF IInv, TypeOK
  <2>5. \A v \in workers : v.key \in Keys
    BY DEF IInv, TypeOK, Worker
  <2> HIDE DEF k, w
  <2> QED
    BY <2>1, <2>3, <2>4, <2>5
<1>3. ASSUME NEW w \in workers, JobCompletes(w) \/ JobContinues(w) \/ ErrorReported(w)
      PROVE  JobsKnown'
  <2>1. /\ workers' \subseteq workers /\ UNCHANGED <<submitted, served>>
        /\ DOMAIN slots' \subseteq DOMAIN slots
    BY <1>3 DEF JobCompletes, JobContinues, ErrorReported, Retire, Released, WithoutSlot
  <2> QED
    BY <2>1
<1>4. ASSUME NEW w \in workers, JobFails(w)
      PROVE  JobsKnown'
  <2> DEFINE v == [w EXCEPT !.phase = "reporting"]
  <2>1. v.key = w.key /\ v.job = w.job
    BY DEF IInv, TypeOK, Worker
  <2>2. workers' = (workers \ {w}) \cup {v} /\ UNCHANGED <<slots, submitted, served>>
    BY <1>4 DEF JobFails
  <2> HIDE DEF v
  <2> QED
    BY <2>1, <2>2
<1>5. CASE RunImmediate \/ PumpEnd \/ (\E x \in Waiters : WaitForIdle(x)) \/ UNCHANGED vars
  <2>1. UNCHANGED <<slots, workers, submitted, served>>
    BY <1>5 DEF RunImmediate, PumpEnd, WaitForIdle, vars
  <2> QED
    BY <2>1
<1> QED
  BY <1>1, <1>2, <1>3, <1>4, <1>5 DEF Next

(* What a key runs is the job of its one worker.                            *)
RunsKnown ==
    /\ \A w \in workers : Running(w.key) = w.job
    /\ \A k \in Keys : (\A w \in workers : w.key # k) => Running(k) = 0

LEMMA RunsAreKnown == IInv => RunsKnown
<1> SUFFICES ASSUME IInv PROVE RunsKnown
  OBVIOUS
<1>1. ASSUME NEW w \in workers
      PROVE  Running(w.key) = w.job
  <2>1. \A v \in workers : v.key = w.key <=> v = w
    BY DEF IInv, SerialPerKeyUnderCap
  <2>2. (CHOOSE v \in workers : v.key = w.key) = w
    BY <2>1
  <2> QED
    BY <2>2 DEF Running
<1> QED
  BY <1>1 DEF RunsKnown, Running

SameElsewhere(k) ==
    \A x \in Keys : x # k => Waiting(x)' = Waiting(x) /\ Running(x)' = Running(x)

(* A key whose slot, numbers and worker do not change keeps its jobs.       *)
LEMMA Elsewhere ==
    ASSUME IInv, IInv', NEW k \in Keys,
           \A x \in Keys : x # k =>
              /\ x \in DOMAIN slots' <=> x \in DOMAIN slots
              /\ x \in DOMAIN slots => slots'[x] = slots[x]
              /\ submitted'[x] = submitted[x] /\ served'[x] = served[x],
           \A w : w.key # k => (w \in workers' <=> w \in workers)
    PROVE  SameElsewhere(k)
<1>1. RunsKnown /\ RunsKnown'
  BY RunsAreKnown, PTL
<1>2. ASSUME NEW x \in Keys, x # k
      PROVE  Waiting(x)' = Waiting(x)
  BY <1>2 DEF Waiting, Claimed
<1>3. ASSUME NEW x \in Keys, x # k
      PROVE  Running(x)' = Running(x)
  <2>1. CASE \E w \in workers : w.key = x
    BY <1>1, <1>3, <2>1 DEF RunsKnown
  <2>2. CASE \A w \in workers : w.key # x
    BY <1>1, <1>3, <2>2 DEF RunsKnown
  <2> QED
    BY <2>1, <2>2
<1> QED
  BY <1>2, <1>3 DEF SameElsewhere

LEMMA OnlyThisKey ==
    ASSUME NEW k \in Keys, SameElsewhere(k)
    PROVE  /\ [x \in Keys |-> Waiting(x)]' = [[x \in Keys |-> Waiting(x)] EXCEPT ![k] = Waiting(k)']
           /\ [x \in Keys |-> Running(x)]' = [[x \in Keys |-> Running(x)] EXCEPT ![k] = Running(k)']
BY DEF SameElsewhere

LEMMA EnqueueMapped ==
    ASSUME IInv, IInv', JobsKnown, JobsKnown', NEW k \in Keys, EnqueueDetachedAgentEnd(k)
    PROVE  Coalescing!Enqueue(k)
<1>1. /\ submitted[k] < MaxEnqueues[k] /\ UNCHANGED <<workers, served>>
      /\ submitted' = [submitted EXCEPT ![k] = @ + 1]
      /\ submitted[k] \in Nat /\ MaxEnqueues[k] \in Nat /\ served[k] <= submitted[k]
      /\ served[k] \in Nat
  BY QueueAssumption DEF EnqueueDetachedAgentEnd, IInv, TypeOK, JobsKnown
<1>2. \E s : slots' = WithSlot(k, s)
  BY DEF EnqueueDetachedAgentEnd
<1>3. /\ k \in DOMAIN slots'
      /\ \A x \in Keys : x # k => /\ x \in DOMAIN slots' <=> x \in DOMAIN slots
                                  /\ x \in DOMAIN slots => slots'[x] = slots[x]
  BY <1>2 DEF WithSlot
<1>4. /\ submitted'[k] = submitted[k] + 1
      /\ \A x \in Keys : x # k => submitted'[x] = submitted[x]
  BY <1>1 DEF IInv, TypeOK
<1>5. SameElsewhere(k)
  <2>1. \A x \in Keys : x # k =>
           /\ x \in DOMAIN slots' <=> x \in DOMAIN slots
           /\ x \in DOMAIN slots => slots'[x] = slots[x]
           /\ submitted'[x] = submitted[x] /\ served'[x] = served[x]
    <3>1. served' = served
      BY <1>1
    <3> QED
      BY <1>3, <1>4, <3>1
  <2>2. \A w : w.key # k => (w \in workers' <=> w \in workers)
    BY <1>1
  <2> QED
    BY <2>1, <2>2, Elsewhere
<1>6. Waiting(k)' = submitted[k] + 1
  <2>1. slots'[k].latest = submitted'[k]
    BY <1>3 DEF IInv, ClaimsKnown
  <2>2. served'[k] # submitted'[k]
    BY <1>1, <1>4
  <2> QED
    BY <1>3, <1>4, <2>1, <2>2 DEF Waiting, Claimed
<1>7. Running(k)' = Running(k)
  BY <1>1 DEF Running
<1>8. submitted[k] + 1 \in UNION {1 .. MaxEnqueues[x] : x \in Keys}
  <2>1. submitted[k] + 1 \in 1 .. MaxEnqueues[k]
    BY <1>1
  <2> QED
    BY <2>1
<1>9. [x \in Keys |-> Running(x)]' = [x \in Keys |-> Running(x)]
  BY <1>5, <1>7 DEF SameElsewhere
<1>10. [x \in Keys |-> Waiting(x)]' = [[x \in Keys |-> Waiting(x)] EXCEPT ![k] = submitted[k] + 1]
  BY <1>5, <1>6, OnlyThisKey
<1> QED
  BY <1>8, <1>9, <1>10 DEF Coalescing!Enqueue

LEMMA PumpTakeMapped ==
    ASSUME IInv, IInv', JobsKnown, JobsKnown', PumpTake, NEW k, k = Head(wakeOrder)
    PROVE  k \in Keys /\ Coalescing!Start(k)
<1> DEFINE w == [key |-> k, job |-> slots[k].latest,
                 version |-> slots[k].version, phase |-> "running"]
<1>1. /\ k \in Keys /\ k \in DOMAIN slots /\ ~slots[k].active
      /\ \A v \in workers : v.key # k
      /\ RunKey(k) /\ submitted' = submitted
  BY HeadRuns DEF PumpTake
<1>2. /\ slots[k] \in Slot /\ slots[k].latest = submitted[k] /\ submitted[k] > 0
      /\ submitted[k] \in Nat
  BY <1>1, QueueAssumption DEF IInv, ClaimsKnown, TypeOK, JobsKnown
<1>3. /\ DOMAIN slots' = DOMAIN slots /\ slots'[k].active
      /\ slots'[k].latest = slots[k].latest
      /\ \A x \in DOMAIN slots : x # k => slots'[x] = slots[x]
      /\ served'[k] = submitted[k] /\ \A x \in Keys : x # k => served'[x] = served[x]
      /\ workers' = workers \cup {w} /\ w.key = k /\ w.job = submitted[k]
  BY <1>1, <1>2 DEF RunKey, IInv, TypeOK, Slot
<1> HIDE DEF w
<1>4. SameElsewhere(k)
  <2>1. \A x \in Keys : x # k =>
           /\ x \in DOMAIN slots' <=> x \in DOMAIN slots
           /\ x \in DOMAIN slots => slots'[x] = slots[x]
           /\ submitted'[x] = submitted[x] /\ served'[x] = served[x]
    BY <1>1, <1>3
  <2>2. \A v : v.key # k => (v \in workers' <=> v \in workers)
    BY <1>3
  <2> QED
    BY <1>1, <2>1, <2>2, Elsewhere
<1>5. RunsKnown /\ RunsKnown'
  BY RunsAreKnown, PTL
<1>6. Running(k) = 0 /\ Waiting(k) = submitted[k]
  BY <1>1, <1>2, <1>5 DEF RunsKnown, Waiting, Claimed
<1>7. Running(k)' = submitted[k] /\ Waiting(k)' = 0
  BY <1>1, <1>3, <1>5 DEF RunsKnown, Waiting, Claimed
<1>8. /\ [x \in Keys |-> Waiting(x)]' = [[x \in Keys |-> Waiting(x)] EXCEPT ![k] = 0]
      /\ [x \in Keys |-> Running(x)]' = [[x \in Keys |-> Running(x)] EXCEPT ![k] = Waiting(k)]
  BY <1>1, <1>4, <1>6, <1>7, OnlyThisKey
<1> QED
  BY <1>1, <1>2, <1>6, <1>8 DEF Coalescing!Start, Coalescing!Runnable

LEMMA RetireMapped ==
    ASSUME IInv, IInv', JobsKnown, JobsKnown', NEW w \in workers, NEW more \in BOOLEAN,
           Retire(w, more)
    PROVE  w.key \in Keys /\ (Coalescing!Finish(w.key) \/ Coalescing!Continue(w.key))
<1> DEFINE k == w.key
<1>1. /\ k \in Keys /\ k \in DOMAIN slots /\ slots[k].active
      /\ slots[k].latest = submitted[k] /\ w.job = served[k] /\ w.job > 0 /\ w.job \in Nat
      /\ \A v \in workers : v.key = k => v = w
  <2>1. w \in Worker /\ k \in DOMAIN slots
    BY DEF IInv, TypeOK, ClaimsKnown
  <2> QED
    BY <2>1 DEF Worker, IInv, EverySlotOwed, ClaimsKnown, SerialPerKeyUnderCap, JobsKnown
<1>2. workers' = workers \ {w} /\ UNCHANGED <<submitted, served>>
  BY DEF Retire
<1>3. /\ \A x \in Keys : x # k => /\ x \in DOMAIN slots' <=> x \in DOMAIN slots
                                  /\ x \in DOMAIN slots => slots'[x] = slots[x]
  BY <1>1 DEF Retire, Released, WithoutSlot, IInv, TypeOK
<1>4. SameElsewhere(k)
  <2>1. \A x \in Keys : x # k =>
           /\ x \in DOMAIN slots' <=> x \in DOMAIN slots
           /\ x \in DOMAIN slots => slots'[x] = slots[x]
           /\ submitted'[x] = submitted[x] /\ served'[x] = served[x]
    <3>1. served' = served /\ submitted' = submitted
      BY <1>2
    <3> HIDE DEF k
    <3> QED
      BY <1>3, <3>1
  <2>2. \A v : v.key # k => (v \in workers' <=> v \in workers)
    BY <1>2
  <2> HIDE DEF k
  <2> QED
    BY <1>1, <2>1, <2>2, Elsewhere
<1>5. RunsKnown /\ RunsKnown'
  BY RunsAreKnown, PTL
<1>6. Running(k) = w.job /\ Running(k)' = 0
  BY <1>1, <1>2, <1>5 DEF RunsKnown
<1>7. Waiting(k) = IF served[k] = submitted[k] THEN 0 ELSE submitted[k]
  BY <1>1 DEF Waiting, Claimed
<1>8. Waiting(k)' = IF NewerJob(w) \/ more THEN submitted[k] ELSE 0
  <2>1. CASE NewerJob(w) \/ more
    <3>1. slots' = Released(k)
      BY <2>1 DEF Retire
    <3>2. k \in DOMAIN slots' /\ slots'[k] = [slots[k] EXCEPT !.active = FALSE]
      BY <1>1, <3>1 DEF Released, IInv, TypeOK
    <3>3. ~slots'[k].active /\ slots'[k].latest = submitted[k]
      BY <1>1, <3>2 DEF IInv, TypeOK, Slot
    <3> QED
      BY <2>1, <3>2, <3>3 DEF Waiting, Claimed
  <2>2. CASE ~(NewerJob(w) \/ more)
    <3>1. slots' = WithoutSlot(k)
      BY <2>2 DEF Retire
    <3> QED
      BY <2>2, <3>1 DEF WithoutSlot, Waiting
  <2> QED
    BY <2>1, <2>2
<1>9. ~NewerJob(w) => served[k] = submitted[k]
  <2>1. w.version \in Nat /\ slots[k].version \in Nat
    BY <1>1 DEF IInv, TypeOK, Worker, Slot
  <2> QED
    BY <2>1 DEF IInv, LatestNeverDropped, NewerJob
<1>10. submitted[k] # 0
  BY <1>1, QueueAssumption DEF JobsKnown
<1> HIDE DEF k
<1>11. [x \in Keys |-> Running(x)]' = [[x \in Keys |-> Running(x)] EXCEPT ![k] = 0]
  BY <1>1, <1>4, <1>6, OnlyThisKey
<1>12. Running(k) # 0
  BY <1>1, <1>6
<1>13. CASE served[k] = submitted[k] /\ (NewerJob(w) \/ more)
  <2>1. Waiting(k) = 0 /\ Waiting(k)' = Running(k)
    BY <1>1, <1>6, <1>7, <1>8, <1>13
  <2>2. [x \in Keys |-> Waiting(x)]' = [[x \in Keys |-> Waiting(x)] EXCEPT ![k] = Running(k)]
    BY <1>1, <1>4, <2>1, OnlyThisKey
  <2>3. Coalescing!Continue(k)
    BY <1>1, <1>11, <1>12, <2>1, <2>2 DEF Coalescing!Continue
  <2> QED
    BY <1>1, <2>3 DEF k
<1>14. CASE ~(served[k] = submitted[k] /\ (NewerJob(w) \/ more))
  <2>1. Waiting(k)' = Waiting(k)
    BY <1>7, <1>8, <1>9, <1>14
  <2>2. [x \in Keys |-> Waiting(x)]' = [x \in Keys |-> Waiting(x)]
    BY <1>4, <2>1 DEF SameElsewhere
  <2>3. Coalescing!Finish(k)
    BY <1>1, <1>11, <1>12, <2>2 DEF Coalescing!Finish
  <2> QED
    BY <1>1, <2>3 DEF k
<1> QED
  BY <1>13, <1>14

(* The remaining steps change no job.                                       *)
LEMMA OthersMapped ==
    ASSUME IInv, IInv',
           \/ RunImmediate \/ PumpEnd \/ (\E x \in Waiters : WaitForIdle(x)) \/ UNCHANGED vars
           \/ \E w \in workers : JobFails(w)
    PROVE  UNCHANGED Coalescing!queueVars
<1>1. UNCHANGED <<slots, submitted, served>>
  BY DEF RunImmediate, PumpEnd, WaitForIdle, JobFails, vars
<1>2. \A k \in Keys : Waiting(k)' = Waiting(k)
  BY <1>1 DEF Waiting, Claimed
<1>3. CASE UNCHANGED workers
  <2>1. \A k \in Keys : Running(k)' = Running(k)
    BY <1>3 DEF Running
  <2> QED
    BY <1>2, <2>1 DEF Coalescing!queueVars
<1>4. ASSUME NEW w \in workers, JobFails(w)
      PROVE  UNCHANGED Coalescing!queueVars
  <2> DEFINE v == [w EXCEPT !.phase = "reporting"]
  <2>1. v.key = w.key /\ v.job = w.job /\ workers' = (workers \ {w}) \cup {v}
    BY <1>4 DEF JobFails, IInv, TypeOK, Worker
  <2>2. RunsKnown /\ RunsKnown'
    BY RunsAreKnown, PTL
  <2> HIDE DEF v
  <2>3. ASSUME NEW k \in Keys
        PROVE  Running(k)' = Running(k)
    <3>1. CASE k = w.key
      BY <2>1, <2>2, <3>1 DEF RunsKnown
    <3>2. CASE k # w.key /\ \E u \in workers : u.key = k
      BY <2>1, <2>2, <3>2 DEF RunsKnown
    <3>3. CASE k # w.key /\ \A u \in workers : u.key # k
      BY <2>1, <2>2, <3>3 DEF RunsKnown
    <3> QED
      BY <3>1, <3>2, <3>3
  <2> QED
    BY <1>2, <2>3 DEF Coalescing!queueVars
<1> QED
  BY <1>3, <1>4 DEF RunImmediate, PumpEnd, WaitForIdle, vars

(* The scheduler is a coalescing queue: every job enqueued for a key is run *)
(* or replaced by a newer one, one at a time, for any number of keys and    *)
(* workers and however enqueues, pumps and ends of runs fall.               *)
THEOREM QueueImplementsCoalescing == Spec => ImplementsCoalescing
<1>1. Init => Coalescing!Init
  BY DEF Init, Waiting, Running, Coalescing!Init, Coalescing!NoJobs
<1>2. IInv /\ IInv' /\ JobsKnown /\ JobsKnown' /\ [Next]_vars
        => [Coalescing!Next]_(Coalescing!queueVars)
  <2> SUFFICES ASSUME IInv, IInv', JobsKnown, JobsKnown', [Next]_vars
               PROVE  Coalescing!Next \/ UNCHANGED Coalescing!queueVars
    OBVIOUS
  <2>1. ASSUME NEW k \in Keys, EnqueueDetachedAgentEnd(k) PROVE Coalescing!Next
    BY <2>1, EnqueueMapped DEF Coalescing!Next
  <2>2. CASE PumpTake
    BY <2>2, PumpTakeMapped DEF Coalescing!Next
  <2>3. ASSUME NEW w \in workers, JobCompletes(w) \/ JobContinues(w) \/ ErrorReported(w)
        PROVE  Coalescing!Next
    BY <2>3, RetireMapped DEF Coalescing!Next, JobCompletes, JobContinues, ErrorReported
  <2>4. CASE \/ RunImmediate \/ PumpEnd \/ (\E x \in Waiters : WaitForIdle(x))
             \/ UNCHANGED vars \/ \E w \in workers : JobFails(w)
    BY <2>4, OthersMapped
  <2> QED
    BY <2>1, <2>2, <2>3, <2>4 DEF Next
<1>3. Spec => []JobsKnown
  BY JobsKnownInit, JobsKnownStep, InductiveInvariant, PTL DEF Spec
<1> QED
  BY <1>1, <1>2, <1>3, InductiveInvariant, PTL DEF Spec, ImplementsCoalescing, Coalescing!Spec
=============================================================================
