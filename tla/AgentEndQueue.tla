--------------------------- MODULE AgentEndQueue ---------------------------
(***************************************************************************)
(* The process-level scheduler of sediment's detached agent_end work       *)
(* (extensions/sediment/agent-end-queue.ts).  One JavaScript process: an   *)
(* action is one uninterrupted stretch of the event loop, except that the  *)
(* synchronous loop of pump() is unrolled, one action per iteration, with  *)
(* `pumping' holding everything else off until the loop ends.              *)
(***************************************************************************)
EXTENDS Integers, Sequences, FiniteSets

CONSTANTS
    Keys,                 \* queue keys, "session:<id>"
    Waiters,              \* callers of waitForDetachedAgentEndQueueIdle
    MaxGlobalConcurrent,  \* the process cap
    MaxEnqueues,          \* bound: jobs submitted for each key
    MaxImmediates         \* bound: setImmediate callbacks outstanding before a
                          \* continuation may add one more

ASSUME QueueAssumption ==
    /\ IsFiniteSet(Keys)
    /\ MaxGlobalConcurrent \in Nat \ {0}
    /\ MaxEnqueues \in [Keys -> Nat]
    /\ MaxImmediates \in Nat

VARIABLES
    slots,          \* Map key -> slot, a function whose domain is the keys held
    wakeOrder,      \* FIFO of keys waiting for a worker; wakeSet is its range
    workers,        \* runKey activations between their claim and their finally
    activeWorkers,  \* the counter the cap is enforced with
    immediates,     \* setImmediate(() => pump(state)) callbacks outstanding
    pumping,        \* the while loop of pump() is executing
    idleWaiters,    \* promises of waitForDetachedAgentEndQueueIdle not resolved
    submitted,      \* history: number of the last job enqueued for the key
    served          \* history: number of the last job claimed for the key

vars == <<slots, wakeOrder, workers, activeWorkers, immediates, pumping,
          idleWaiters, submitted, served>>

-----------------------------------------------------------------------------
(* A job is its number in the order its key's jobs were enqueued.           *)
Slot == [latest : Nat, version : Nat, active : BOOLEAN]
Worker == [key : Keys, job : Nat, version : Nat, phase : {"running", "reporting"}]

(* Map.set and Map.delete on slots.                                         *)
WithSlot(k, s) == [x \in DOMAIN slots \cup {k} |-> IF x = k THEN s ELSE slots[x]]
WithoutSlot(k) == [x \in DOMAIN slots \ {k} |-> slots[x]]

WakeSet == {wakeOrder[i] : i \in DOMAIN wakeOrder}

EnqueueWakeLifo(k) == IF k \in WakeSet THEN wakeOrder ELSE <<k>> \o wakeOrder
EnqueueWake(k) == IF k \in WakeSet THEN wakeOrder ELSE Append(wakeOrder, k)

(* settleIdleWaiters, on the counter and the wake order it is called with.  *)
Idle(count, order) == count = 0 /\ order = <<>>
Settled(count, order) == IF Idle(count, order) THEN {} ELSE idleWaiters

(* pump: the slot of a dequeued key is run unless it is gone or active.     *)
Runnable(k) == k \in DOMAIN slots /\ ~slots[k].active

-----------------------------------------------------------------------------
Init ==
    /\ slots = <<>>
    /\ wakeOrder = <<>>
    /\ workers = {}
    /\ activeWorkers = 0
    /\ immediates = 0
    /\ pumping = FALSE
    /\ idleWaiters = {}
    /\ submitted = [k \in Keys |-> 0]
    /\ served = [k \in Keys |-> 0]

(* enqueueDetachedAgentEnd: coalesce into the key's slot or create one; an  *)
(* active slot is not woken, its worker looks at the version when it ends.  *)
FreshSlot(k) == [latest |-> submitted[k] + 1, version |-> 1, active |-> FALSE]
CoalescedKeepingVersion(k) == [slots[k] EXCEPT !.latest = submitted[k] + 1]
Coalesced(k) ==
    [latest |-> submitted[k] + 1, version |-> slots[k].version + 1, active |-> slots[k].active]

EnqueueDetachedAgentEnd(k) ==
    /\ ~pumping
    /\ submitted[k] < MaxEnqueues[k]
    /\ submitted' = [submitted EXCEPT ![k] = @ + 1]
    /\ \/ /\ k \in DOMAIN slots
          /\ slots' = WithSlot(k, Coalesced(k))
          /\ wakeOrder' = IF slots[k].active THEN wakeOrder ELSE EnqueueWake(k)
       \/ /\ k \notin DOMAIN slots
          /\ slots' = WithSlot(k, FreshSlot(k))
          /\ wakeOrder' = EnqueueWake(k)
    /\ immediates' = immediates + 1
    /\ UNCHANGED <<workers, activeWorkers, pumping, idleWaiters, served>>

(* A setImmediate callback starts pump().                                   *)
RunImmediate ==
    /\ ~pumping
    /\ immediates > 0
    /\ immediates' = immediates - 1
    /\ pumping' = TRUE
    /\ UNCHANGED <<slots, wakeOrder, workers, activeWorkers, idleWaiters,
                   submitted, served>>

(* One iteration of pump's loop: dequeue a key and, unless it cannot run,   *)
(* the synchronous head of runKey, up to the await of the job.              *)
PumpHasRoomUncapped == wakeOrder # <<>>
PumpHasRoom == wakeOrder # <<>> /\ activeWorkers < MaxGlobalConcurrent

RunKey(k) ==
    /\ slots' = [slots EXCEPT ![k].active = TRUE]
    /\ activeWorkers' = activeWorkers + 1
    /\ workers' = workers \cup {[key |-> k, job |-> slots[k].latest,
                                 version |-> slots[k].version,
                                 phase |-> "running"]}
    /\ served' = [served EXCEPT ![k] = slots[k].latest]

PumpTake ==
    /\ pumping /\ PumpHasRoom
    /\ wakeOrder' = Tail(wakeOrder)
    /\ IF Runnable(Head(wakeOrder))
       THEN RunKey(Head(wakeOrder))
       ELSE UNCHANGED <<slots, activeWorkers, workers, served>>
    /\ UNCHANGED <<immediates, pumping, idleWaiters, submitted>>

(* The loop ends and pump settles the idle waiters.                         *)
PumpEnd ==
    /\ pumping /\ ~PumpHasRoom
    /\ pumping' = FALSE
    /\ idleWaiters' = Settled(activeWorkers, wakeOrder)
    /\ UNCHANGED <<slots, wakeOrder, workers, activeWorkers, immediates,
                   submitted, served>>

-----------------------------------------------------------------------------
(* The finally block of runKey: re-wake when a newer job coalesced during   *)
(* the run, else re-wake a continuation on a later macrotask, else drop.    *)
Released(k) == [slots EXCEPT ![k].active = FALSE]
OneWorkerLess == IF activeWorkers > 0 THEN activeWorkers - 1 ELSE 0

NewerJobNever(w) == FALSE
NewerJob(w) == slots[w.key].version > w.version

ImmediatesLeftAlone == immediates
ImmediateAdded == immediates + 1

Retire(w, more) ==
    /\ workers' = workers \ {w}
    /\ activeWorkers' = OneWorkerLess
    /\ \/ /\ NewerJob(w)
          /\ slots' = Released(w.key)
          /\ wakeOrder' = EnqueueWake(w.key)
          /\ pumping' = TRUE
          /\ UNCHANGED <<immediates, idleWaiters>>
       \/ /\ ~NewerJob(w) /\ more
          /\ slots' = Released(w.key)
          /\ wakeOrder' = EnqueueWake(w.key)
          /\ immediates' = ImmediateAdded
          /\ idleWaiters' = Settled(OneWorkerLess, EnqueueWake(w.key))
          /\ UNCHANGED pumping
       \/ /\ ~NewerJob(w) /\ ~more
          /\ slots' = WithoutSlot(w.key)
          /\ idleWaiters' = Settled(OneWorkerLess, wakeOrder)
          /\ pumping' = TRUE
          /\ UNCHANGED <<wakeOrder, immediates>>
    /\ UNCHANGED <<submitted, served>>

(* The job resolves, with nothing or with {more: true}.                     *)
JobCompletes(w) ==
    /\ ~pumping /\ w.phase = "running"
    /\ Retire(w, FALSE)

JobContinues(w) ==
    /\ ~pumping /\ w.phase = "running"
    /\ immediates < MaxImmediates
    /\ Retire(w, TRUE)

(* The job rejects: onError is awaited with the slot still active.          *)
JobFails(w) ==
    /\ ~pumping /\ w.phase = "running"
    /\ workers' = (workers \ {w}) \cup {[w EXCEPT !.phase = "reporting"]}
    /\ UNCHANGED <<slots, wakeOrder, activeWorkers, immediates, pumping,
                   idleWaiters, submitted, served>>

ErrorReported(w) ==
    /\ ~pumping /\ w.phase = "reporting"
    /\ Retire(w, FALSE)

(* waitForDetachedAgentEndQueueIdle, when it does not resolve at once.      *)
WaitForIdle(x) ==
    /\ ~pumping
    /\ ~Idle(activeWorkers, wakeOrder)
    /\ x \notin idleWaiters
    /\ idleWaiters' = idleWaiters \cup {x}
    /\ UNCHANGED <<slots, wakeOrder, workers, activeWorkers, immediates,
                   pumping, submitted, served>>

JobSettles(w) == JobCompletes(w) \/ JobContinues(w) \/ JobFails(w) \/ ErrorReported(w)

Next ==
    \/ \E k \in Keys : EnqueueDetachedAgentEnd(k)
    \/ RunImmediate
    \/ PumpTake
    \/ PumpEnd
    \/ \E w \in workers : JobCompletes(w)
    \/ \E w \in workers : JobContinues(w)
    \/ \E w \in workers : JobFails(w)
    \/ \E w \in workers : ErrorReported(w)
    \/ \E x \in Waiters : WaitForIdle(x)

Spec == Init /\ [][Next]_vars

(* The event loop runs its callbacks and a job's promise settles: strongly  *)
(* fair, for the pump() runs in between only delay it.  But a job may       *)
(* answer {more: true} for ever.                                            *)
Fairness ==
    /\ WF_vars(RunImmediate)
    /\ WF_vars(PumpTake \/ PumpEnd)
    /\ \A k \in Keys : SF_vars(\E w \in workers : w.key = k /\ JobSettles(w))

FairSpec == Spec /\ Fairness

(* A frozen backlog is finite: a key that keeps continuing ends one run     *)
(* without {more: true}.                                                    *)
BacklogsAreFinite ==
    \A k \in Keys :
        SF_vars(\E w \in workers : w.key = k /\ (JobCompletes(w) \/ ErrorReported(w)))

-----------------------------------------------------------------------------
TypeOK ==
    /\ DOMAIN slots \subseteq Keys
    /\ slots \in [DOMAIN slots -> Slot]
    /\ wakeOrder \in Seq(Keys)
    /\ workers \subseteq Worker
    /\ activeWorkers \in Nat
    /\ immediates \in Nat
    /\ pumping \in BOOLEAN
    /\ idleWaiters \subseteq Waiters
    /\ submitted \in [Keys -> Nat]
    /\ served \in [Keys -> Nat]

(* "One key never overlaps itself" and the counter the cap is enforced with *)
(* counts the runs in progress exactly, so the cap is a cap on runs.        *)
SerialPerKeyUnderCap ==
    /\ \A v, w \in workers : v.key = w.key => v = w
    /\ activeWorkers = Cardinality(workers)
    /\ activeWorkers <= MaxGlobalConcurrent

(* No wake-up is lost: a key left waiting has a pump() on its way, or every *)
(* worker is busy and the one that ends first pumps.                        *)
NoLostWakeup ==
    wakeOrder # <<>> =>
        pumping \/ immediates > 0 \/ activeWorkers = MaxGlobalConcurrent

(* A slot is held exactly while its key runs or waits in the wake order,    *)
(* never both; so an idle queue (what waiters and the test reset look at)   *)
(* holds no work.                                                           *)
EverySlotOwed ==
    \A k \in DOMAIN slots :
        /\ slots[k].active <=> \E w \in workers : w.key = k
        /\ slots[k].active <=> k \notin WakeSet

(* Coalescing drops only superseded jobs: when a key's slot is gone, the    *)
(* last job enqueued for the key has been claimed, and a claimed job that   *)
(* is not the last has its slot's version ahead of the claim.               *)
LatestNeverDropped ==
    /\ \A k \in Keys : served[k] # submitted[k] => k \in DOMAIN slots
    /\ \A w \in workers :
          served[w.key] # submitted[w.key] => slots[w.key].version > w.version

(* Nobody waits for an idle queue: outside pump() an unresolved idle waiter *)
(* means work is running or queued.                                         *)
WaiterMeansBusy == idleWaiters # {} /\ ~pumping => ~Idle(activeWorkers, wakeOrder)

(* A waiter is released only when nothing runs and nothing is queued.       *)
WaiterReleasedOnlyIdle ==
    [][~(idleWaiters \subseteq idleWaiters') =>
          workers' = {} /\ wakeOrder' = <<>> /\ DOMAIN slots' = {}]_vars

(* What a key waits for and runs, as CoalescingQueue sees it: a job is      *)
(* waiting until a worker has claimed it or a newer one.                    *)
Claimed(k) == k \in DOMAIN slots /\ slots[k].active /\ served[k] = submitted[k]
Waiting(k) == IF k \in DOMAIN slots /\ ~Claimed(k) THEN slots[k].latest ELSE 0
Running(k) ==
    IF \E w \in workers : w.key = k THEN (CHOOSE w \in workers : w.key = k).job ELSE 0

Coalescing ==
    INSTANCE CoalescingQueue
        WITH Jobs <- UNION {1 .. MaxEnqueues[k] : k \in Keys}, None <- 0,
             Brief <- {}, Mortal <- {},
             waiting <- [k \in Keys |-> Waiting(k)],
             running <- [k \in Keys |-> Running(k)]

(* Slots, versions and the wake order together keep the promise: each job   *)
(* enqueued is run or replaced by a newer one, one at a time and in order,  *)
(* also when it arrives while the key's worker is about to end              *)
(* (agent-end-queue.ts:164).                                                *)
ImplementsCoalescing == Coalescing!Spec

(* Every enqueued job is claimed or superseded by a claimed one, even while *)
(* other keys continue their backlogs for ever.                             *)
EveryKeyServed ==
    \A k \in Keys : \A n \in 1..MaxEnqueues[k] :
        submitted[k] >= n ~> served[k] >= n

(* Every waiter is released once the backlogs drain.                        *)
WaitersReleased ==
    BacklogsAreFinite => \A x \in Waiters : x \in idleWaiters ~> x \notin idleWaiters
=============================================================================
