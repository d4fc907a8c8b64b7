--------------------------- MODULE CanonicalBarrier ---------------------------
(***************************************************************************)
(* The canonical mutation barrier of one repository                        *)
(* (extensions/_shared/canonical-mutation-barrier.ts) over the process'    *)
(* chain of git operations (git-singleflight.ts) and the retained          *)
(* directory lock.  A call first gets its turn in the chain of its         *)
(* process, then polls for the lock that all processes share, runs its     *)
(* operation and lets go.  A call made inside an operation finds the lease *)
(* in its asynchronous context and runs at once.  A bounded call is        *)
(* answered BUSY at its deadline while its node still waits in the chain;  *)
(* a one-shot call neither queues nor polls.                               *)
(***************************************************************************)
EXTENDS Naturals, Sequences, FiniteSets

CONSTANTS
    Processes,
    Calls,       \* calls of the barrier, each made once
    HomeOf,      \* [Calls -> Processes]
    Bounded,     \* calls whose deadline includes the wait for their turn
    Trying,      \* tryWithCanonicalMutationBarrier
    Nobody,
    MaxCrashes   \* bound: processes killed

ASSUME BarrierAssumption ==
    /\ HomeOf \in [Calls -> Processes]
    /\ Bounded \subseteq Calls
    /\ Trying \subseteq Calls
    /\ Nobody \notin Calls
    /\ MaxCrashes \in Nat

VARIABLES
    chain,       \* [Processes -> Seq(Calls)], nodes that have not settled
    node,        \* [Calls -> NodeStates]
    answer,      \* [Calls -> Answers], what the caller was told
    context,     \* [Calls -> Calls \cup {Nobody}], the lease a call inherits
    awaitedBy,   \* [Calls -> Calls \cup {Nobody}], the operation that waits for it
    leases,      \* leases that are active
    lock,        \* the call that holds the retained directory lock, or Nobody
    crashes      \* history

vars == <<chain, node, answer, context, awaitedBy, leases, lock, crashes>>

NodeStates == {"none", "entry", "queued", "acquire", "run", "nested", "settled"}
Answers == {"none", "busy", "value", "lost"}

Init ==
    /\ chain = [p \in Processes |-> <<>>]
    /\ node = [c \in Calls |-> "none"]
    /\ answer = [c \in Calls |-> "none"]
    /\ context = [c \in Calls |-> Nobody]
    /\ awaitedBy = [c \in Calls |-> Nobody]
    /\ leases = {}
    /\ lock = Nobody
    /\ crashes = 0

-----------------------------------------------------------------------------
(* canonicalMutationBarrierHeld: the context carries a lease, and it is     *)
(* still active.                                                            *)
HeldNever(c) == FALSE
Held(c) == context[c] \in leases

Settle(c, told) ==
    /\ node' = [node EXCEPT ![c] = "settled"]
    /\ answer' = [answer EXCEPT ![c] = IF @ = "none" THEN told ELSE @]

(* The chain goes on with the next node when the one in front has settled.  *)
NextTurn(c) == chain' = [chain EXCEPT ![HomeOf[c]] = Tail(@)]

(* A call from outside any operation.                                       *)
Call(c) ==
    /\ node[c] = "none"
    /\ node' = [node EXCEPT ![c] = "entry"]
    /\ UNCHANGED <<chain, answer, context, awaitedBy, leases, lock, crashes>>

(* A call inside an operation that is awaited there.                        *)
CallInside(c) ==
    /\ node[c] = "none"
    /\ \E holder \in leases :
          /\ HomeOf[holder] = HomeOf[c]
          /\ context' = [context EXCEPT ![c] = holder]
          /\ awaitedBy' = [awaitedBy EXCEPT ![c] = holder]
    /\ node' = [node EXCEPT ![c] = "entry"]
    /\ UNCHANGED <<chain, answer, leases, lock, crashes>>

(* Work started inside an operation and not awaited leaves its context      *)
(* first (withoutCanonicalMutationBarrierContext).                          *)
CallDetachedInheriting(c) ==
    /\ node[c] = "none"
    /\ \E holder \in leases :
          /\ HomeOf[holder] = HomeOf[c]
          /\ context' = [context EXCEPT ![c] = holder]
    /\ node' = [node EXCEPT ![c] = "entry"]
    /\ UNCHANGED <<chain, answer, awaitedBy, leases, lock, crashes>>

CallDetached(c) ==
    /\ node[c] = "none"
    /\ \E holder \in leases : HomeOf[holder] = HomeOf[c]
    /\ context' = [context EXCEPT ![c] = Nobody]
    /\ node' = [node EXCEPT ![c] = "entry"]
    /\ UNCHANGED <<chain, answer, awaitedBy, leases, lock, crashes>>

(* Under its own lease a call neither queues nor locks again.               *)
EnterHeld(c) ==
    /\ node[c] = "entry"
    /\ Held(c)
    /\ node' = [node EXCEPT ![c] = "nested"]
    /\ UNCHANGED <<chain, answer, context, awaitedBy, leases, lock, crashes>>

(* tryWithCanonicalMutationBarrier asks the kernel once.                    *)
EnterTrying(c) ==
    /\ node[c] = "entry" /\ ~Held(c) /\ c \in Trying
    /\ IF lock = Nobody
       THEN /\ lock' = c /\ leases' = leases \cup {c}
            /\ node' = [node EXCEPT ![c] = "run"]
            /\ UNCHANGED answer
       ELSE Settle(c, "busy") /\ UNCHANGED <<lock, leases>>
    /\ UNCHANGED <<chain, context, awaitedBy, crashes>>

(* gitSingleFlight: a link behind everything that is in the chain.          *)
EnterQueue(c) ==
    /\ node[c] = "entry" /\ ~Held(c) /\ c \notin Trying
    /\ chain' = [chain EXCEPT ![HomeOf[c]] = Append(@, c)]
    /\ node' = [node EXCEPT ![c] = "queued"]
    /\ UNCHANGED <<answer, context, awaitedBy, leases, lock, crashes>>

(* The timer of gitSingleFlightWithDeadline: the caller is told, the node   *)
(* stays where it is.                                                       *)
ExpireQueued(c) ==
    /\ c \in Bounded /\ node[c] = "queued" /\ answer[c] = "none"
    /\ answer' = [answer EXCEPT ![c] = "busy"]
    /\ UNCHANGED <<chain, node, context, awaitedBy, leases, lock, crashes>>

InFront(c) == chain[HomeOf[c]] # <<>> /\ Head(chain[HomeOf[c]]) = c

(* The guard of the deadline's node: what was answered does not run.        *)
QueueExpiredNever(c) == FALSE
QueueExpired(c) == answer[c] # "none"

Dequeue(c) ==
    /\ node[c] = "queued" /\ InFront(c) /\ ~QueueExpired(c)
    /\ node' = [node EXCEPT ![c] = "acquire"]
    /\ UNCHANGED <<chain, answer, context, awaitedBy, leases, lock, crashes>>

(* Also when the deadline has passed and the timer has not fired yet.       *)
DequeueExpired(c) ==
    /\ node[c] = "queued" /\ InFront(c)
    /\ c \in Bounded
    /\ Settle(c, "busy")
    /\ NextTurn(c)
    /\ UNCHANGED <<context, awaitedBy, leases, lock, crashes>>

(* acquireWithRetry polls, and gives up at its deadline or after thirty     *)
(* seconds.                                                                 *)
Acquire(c) ==
    /\ node[c] = "acquire"
    /\ lock = Nobody
    /\ lock' = c
    /\ leases' = leases \cup {c}
    /\ node' = [node EXCEPT ![c] = "run"]
    /\ UNCHANGED <<chain, answer, context, awaitedBy, crashes>>

GiveUp(c) ==
    /\ node[c] = "acquire"
    /\ Settle(c, "busy")
    /\ NextTurn(c)
    /\ UNCHANGED <<context, awaitedBy, leases, lock, crashes>>

(* runWithCanonicalLease: the operation has returned or thrown, and with it *)
(* everything it awaited; the lease ends with the lock.                     *)
AwaitsNothing(c) == \A d \in Calls : awaitedBy[d] = c => answer[d] # "none"

End(c) ==
    /\ node[c] = "run" /\ AwaitsNothing(c)
    /\ Settle(c, "value")
    /\ lock' = Nobody
    /\ leases' = leases \ {c}
    /\ IF c \in Trying THEN UNCHANGED chain ELSE NextTurn(c)
    /\ UNCHANGED <<context, awaitedBy, crashes>>

EndNested(c) ==
    /\ node[c] = "nested"
    /\ Settle(c, "value")
    /\ UNCHANGED <<chain, context, awaitedBy, leases, lock, crashes>>

(* The kernel closes the dead process' descriptors.                         *)
Crash(p) ==
    /\ crashes < MaxCrashes
    /\ crashes' = crashes + 1
    /\ chain' = [chain EXCEPT ![p] = <<>>]
    /\ node' = [c \in Calls |-> IF HomeOf[c] = p THEN "settled" ELSE node[c]]
    /\ answer' = [c \in Calls |->
                    IF HomeOf[c] = p /\ answer[c] = "none" THEN "lost" ELSE answer[c]]
    /\ leases' = {c \in leases : HomeOf[c] # p}
    /\ lock' = IF lock # Nobody /\ HomeOf[lock] = p THEN Nobody ELSE lock
    /\ UNCHANGED <<context, awaitedBy>>

Issue(c) == Call(c) \/ CallInside(c) \/ CallDetached(c)

Advance(c) ==
    \/ EnterHeld(c) \/ EnterTrying(c) \/ EnterQueue(c)
    \/ Dequeue(c) \/ DequeueExpired(c) \/ Acquire(c) \/ GiveUp(c)
    \/ End(c) \/ EndNested(c)

Next ==
    \/ \E c \in Calls : Issue(c) \/ ExpireQueued(c) \/ Advance(c)
    \/ \E p \in Processes : Crash(p)

Spec == Init /\ [][Next]_vars

(* Operations end, and a process that is not killed goes on.  Nothing says  *)
(* that the kernel gives the lock to whoever waits for it longest.          *)
FairSpec == Spec /\ \A c \in Calls : WF_vars(Advance(c))

-----------------------------------------------------------------------------
(* Every variable keeps its shape, and the one active lease is the lock     *)
(* holder's.                                                                *)
TypeOK ==
    /\ leases = {lock} \ {Nobody}
    /\ chain \in [Processes -> Seq(Calls)]
    /\ node \in [Calls -> NodeStates]
    /\ answer \in [Calls -> Answers]
    /\ context \in [Calls -> Calls \cup {Nobody}]
    /\ awaitedBy \in [Calls -> Calls \cup {Nobody}]
    /\ lock \in Calls \cup {Nobody}
    /\ crashes \in 0 .. MaxCrashes

(* No mutation runs without the lock, and never two of different callers:   *)
(* every operation in progress runs under the lease of the lock's holder    *)
(* (canonical-mutation-barrier.ts:150).                                     *)
LeaseOf(c) == IF node[c] = "nested" THEN context[c] ELSE c
MutationsExclusive ==
    \A c \in Calls : node[c] \in {"run", "nested"} => lock = LeaseOf(c)

(* All that is in progress, in every process and at every depth, belongs to *)
(* one section at a time, and a lease does not outlive its section          *)
(* (canonical-mutation-barrier.ts:158).                                     *)
InProgress == {c \in Calls : node[c] \in {"run", "nested"}}
Section ==
    INSTANCE ExclusiveSection
        WITH Owners <- Calls, inside <- {LeaseOf(c) : c \in InProgress}
ImplementsSection == Section!Spec

(* A caller that was told BUSY may try again: what it asked for has not     *)
(* happened and never will (git-singleflight.ts:110).                       *)
BusyNeverRuns ==
    \A c \in Calls : answer[c] = "busy" => node[c] \notin {"acquire", "run", "nested"}

(* Turns of one process never overlap, although callers leave the queue     *)
(* before their nodes do (git-singleflight.ts:79).                          *)
TurnsSerial ==
    \A c, d \in Calls :
        /\ node[c] \in {"acquire", "run"} /\ node[d] \in {"acquire", "run"}
        /\ {c, d} \cap Trying = {} /\ HomeOf[c] = HomeOf[d]
        => c = d

(* Nobody waits for ever: not behind a lock that is never free, and not a   *)
(* nested call behind the operation that waits for it                       *)
(* (git-singleflight.ts:33, canonical-mutation-barrier.ts:131).             *)
EveryCallAnswered == \A c \in Calls : node[c] = "entry" ~> answer[c] # "none"
=============================================================================
