--------------------------- MODULE DispatchParallel ---------------------------
(***************************************************************************)
(* dispatch_parallel (extensions/dispatch/index.ts): as many workers as    *)
(* tasks, each of which claims the first unclaimed task whose provider has *)
(* room, runs it (WorkerRun), releases the provider and goes round again.  *)
(* A worker that finds nothing to claim is gone for good.                  *)
(***************************************************************************)
EXTENDS WorkerRun, FiniteSets

CONSTANTS
    Total,           \* number of tasks; a task is its index
    Providers,
    ProviderOf,      \* [Tasks -> Providers]
    Malformed,       \* tasks whose tools or model are refused
    MaxConcurrency   \* maxProviderConcurrency

ASSUME PoolAssumption ==
    /\ Total \in Nat
    /\ Tasks = 1 .. Total
    /\ ProviderOf \in [Tasks -> Providers]
    /\ Malformed \subseteq Tasks
    /\ MaxConcurrency \in Nat \ {0}

VARIABLES
    claimed,    \* tasks some worker took
    finished,   \* tasks whose result is in
    active,     \* activeByProvider
    free        \* workers at the top of their loop

poolVars == <<claimed, finished, active, free>>
vars == <<run, aborted, claimed, finished, active, free>>

Init ==
    /\ RunInit
    /\ claimed = {}
    /\ finished = {}
    /\ active = [p \in Providers |-> 0]
    /\ free = Total

-----------------------------------------------------------------------------
(* claimNextTask.                                                           *)
HasRoomForOneMore(i) == active[ProviderOf[i]] <= MaxConcurrency
HasRoom(i) == active[ProviderOf[i]] < MaxConcurrency

IsFirst(i) ==
    /\ i \notin claimed
    /\ \A j \in Tasks \ claimed : i <= j
NextTaskInOrder(i) == HasRoom(i) /\ IsFirst(i)

NextTask(i) ==
    /\ i \notin claimed /\ HasRoom(i)
    /\ \A j \in Tasks \ claimed : HasRoom(j) => i <= j

Claim(i) ==
    /\ free > 0
    /\ ~aborted
    /\ NextTask(i)
    /\ claimed' = claimed \cup {i}
    /\ active' = [active EXCEPT ![ProviderOf[i]] = @ + 1]
    /\ free' = free - 1
    /\ run' = [run EXCEPT ![i] =
                  IF i \in Malformed
                  THEN [Called EXCEPT !.call = "returned", !.verdict = NothingStarted]
                  ELSE Called]
    /\ UNCHANGED <<aborted, finished>>

(* The worker returns: the signal is aborted, or nothing can be claimed.    *)
WorkerExits ==
    /\ free > 0
    /\ aborted \/ ~\E i \in Tasks : NextTask(i)
    /\ free' = free - 1
    /\ UNCHANGED <<run, aborted, claimed, finished, active>>

(* The result of a task is stored and its provider released, then the       *)
(* worker is at the top of its loop again.                                  *)
ReleasedNever(i) == active
Released(i) == [active EXCEPT ![ProviderOf[i]] = IF @ > 0 THEN @ - 1 ELSE 0]

Finish(i) ==
    /\ free = 0
    /\ i \in claimed \ finished
    /\ Over(i)
    /\ finished' = finished \cup {i}
    /\ active' = Released(i)
    /\ free' = free + 1
    /\ UNCHANGED <<run, aborted, claimed>>

(* From the top of its loop to its first await a worker is alone.           *)
WhileWorkersWait == free = 0 /\ UNCHANGED poolVars

Next ==
    \/ \E i \in Tasks : Claim(i)
    \/ WorkerExits
    \/ \E i \in Tasks : Finish(i)
    \/ \E i \in Tasks : RunStep(i) /\ WhileWorkersWait
    \/ ParentAbort /\ WhileWorkersWait

Spec == Init /\ [][Next]_vars

(* Of the promises of a session nothing is assumed: the watchdog fires, a   *)
(* bounded wait ends, and a run does what it can do without waiting.  Its   *)
(* resources are assumed to come or to fail (index.ts:2228).                *)
FairSpec ==
    /\ Spec
    /\ \A i \in Tasks : WF_vars(OwnStep(i) /\ WhileWorkersWait)
    /\ WF_vars((\E i \in Tasks : Claim(i) \/ Finish(i)) \/ WorkerExits)

-----------------------------------------------------------------------------
(* Every variable keeps its shape, and the map behind the cap counts the    *)
(* tasks in progress exactly.                                               *)
Busy(p) == {i \in claimed \ finished : ProviderOf[i] = p}

TypeOK ==
    /\ run \in [Tasks -> Runs]
    /\ aborted \in BOOLEAN
    /\ claimed \subseteq Tasks
    /\ finished \subseteq claimed
    /\ free \in 0 .. Total
    /\ active = [p \in Providers |-> Cardinality(Busy(p))]

(* A provider serves at most its cap of prompts, not counting those a       *)
(* result has reported as not cleaned up (index.ts:3917).                   *)
Accounted(i) == i \in finished /\ ~run[i].verdict.clean
LoadBounded ==
    \A p \in Providers :
        Cardinality({i \in Tasks : /\ ProviderOf[i] = p
                                   /\ run[i].phase = "running"
                                   /\ ~Accounted(i)}) <= MaxConcurrency

(* No task waits while its provider has room: when all workers are busy or  *)
(* gone, what is unclaimed waits for its own provider only                  *)
(* (index.ts:4090).                                                         *)
WorkConserving ==
    ~aborted /\ free = 0 => \A i \in Tasks \ claimed : ~HasRoom(i)

(* A task without a result is reported as "task did not start (parent abort *)
(* before worker claim)"; that is the only reason there is                  *)
(* (index.ts:4335).                                                         *)
Concluded == free = 0 /\ claimed = finished
HolesMeanAbort == Concluded /\ claimed # Tasks => aborted

(* Pool, runs and sessions together are the service a caller relies on. A   *)
(* run that ends by itself owns its outcome before it claims it             *)
(* (index.ts:2623, index.ts:4108, index.ts:4335).                           *)
OwnerOf(r) == IF r.claim = "none" /\ r.phase = "closing" THEN "run" ELSE r.claim
Service ==
    INSTANCE DispatchService
        WITH Cap <- MaxConcurrency, Deciders <- Owners,
             waiting <- Tasks \ claimed, serving <- claimed \ finished,
             owner <- [i \in Tasks |-> OwnerOf(run[i])],
             cancelled <- aborted, over <- Concluded
ImplementsService == Service!Spec

(* The call of dispatch_parallel returns, even if no session creation and   *)
(* no prompt ever settles (index.ts:2605).                                  *)
CallReturns == <>Concluded
=============================================================================
