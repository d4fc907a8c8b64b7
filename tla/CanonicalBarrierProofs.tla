----------------------- MODULE CanonicalBarrierProofs -----------------------
(***************************************************************************)
(* Safety of the canonical mutation barrier for every set of processes and *)
(* calls.                                                                  *)
(***************************************************************************)
EXTENDS CanonicalBarrier, TLAPS

(* The lock is held by the one call whose operation runs of its own right.  *)
LockIsRun == \A c \in Calls : node[c] = "run" <=> lock = c

(* What has not come back has not been answered, except in the queue.       *)
Unanswered ==
    \A c \in Calls :
        node[c] \in {"none", "entry", "acquire", "run", "nested"} => answer[c] = "none"

(* Only awaited calls inherit a lease, from their own process.              *)
ContextAwaited ==
    \A c \in Calls :
        /\ awaitedBy[c] = context[c]
        /\ node[c] = "none" => context[c] = Nobody
        /\ context[c] # Nobody => HomeOf[context[c]] = HomeOf[c]

NestedUnderLock == \A c \in Calls : node[c] = "nested" => context[c] = lock /\ lock # Nobody

(* The chain holds waiting nodes, each once, behind at most one that has    *)
(* started.                                                                 *)
ChainShape ==
    \A p \in Processes :
        /\ \A i \in 1 .. Len(chain[p]) :
              /\ HomeOf[chain[p][i]] = p
              /\ chain[p][i] \notin Trying
              /\ node[chain[p][i]] \in {"queued", "acquire", "run"}
              /\ i > 1 => node[chain[p][i]] = "queued"
        /\ \A i, j \in 1 .. Len(chain[p]) : chain[p][i] = chain[p][j] => i = j

StartedInFront ==
    \A c \in Calls :
        node[c] = "acquire" \/ (node[c] = "run" /\ c \notin Trying) => InFront(c)

LockInv ==
    /\ TypeOK
    /\ LockIsRun
    /\ Unanswered
    /\ ContextAwaited
    /\ NestedUnderLock

ChainInv == ChainShape /\ StartedInFront

-----------------------------------------------------------------------------
(* The shape of the state and the discipline of lock and lease.             *)
LEMMA LockInit == ASSUME BarrierAssumption, Init PROVE LockInv
BY DEF BarrierAssumption, Init, LockInv, TypeOK, LockIsRun, Unanswered, ContextAwaited,
       NestedUnderLock, NodeStates, Answers

LEMMA IssueLock ==
    ASSUME BarrierAssumption, LockInv, NEW c \in Calls, Issue(c)
    PROVE  LockInv'
<1>1. CASE Call(c)
  BY <1>1 DEF Call, LockInv, TypeOK, LockIsRun, Unanswered, ContextAwaited, NestedUnderLock,
              NodeStates, BarrierAssumption
<1>2. CASE CallInside(c)
  BY <1>2 DEF CallInside, LockInv, TypeOK, LockIsRun, Unanswered, ContextAwaited,
              NestedUnderLock, NodeStates, BarrierAssumption
<1>3. CASE CallDetached(c)
  BY <1>3 DEF CallDetached, LockInv, TypeOK, LockIsRun, Unanswered, ContextAwaited,
              NestedUnderLock, NodeStates, BarrierAssumption
<1> QED
  BY <1>1, <1>2, <1>3 DEF Issue

LEMMA AdvanceLock ==
    ASSUME BarrierAssumption, LockInv, ChainInv, NEW c \in Calls, ExpireQueued(c) \/ Advance(c)
    PROVE  LockInv'
<1> USE DEF LockInv, TypeOK, LockIsRun, Unanswered, ContextAwaited, NestedUnderLock,
            NodeStates, Answers, BarrierAssumption
<1>1. CASE ExpireQueued(c)
  BY <1>1 DEF ExpireQueued
<1>2. CASE EnterHeld(c)
  BY <1>2 DEF EnterHeld, Held
<1>3. CASE EnterTrying(c)
  <2>1. CASE lock = Nobody
    BY <1>3, <2>1 DEF EnterTrying
  <2>2. CASE lock # Nobody
    <3>1. /\ node' = [node EXCEPT ![c] = "settled"]
          /\ answer' = [answer EXCEPT ![c] = "busy"]
          /\ UNCHANGED <<chain, context, awaitedBy, leases, lock, crashes>>
      BY <1>3, <2>2 DEF EnterTrying, Settle
    <3> QED
      BY <1>3, <3>1 DEF EnterTrying
  <2> QED
    BY <2>1, <2>2
<1>4. CASE EnterQueue(c)
  BY <1>4 DEF EnterQueue
<1>5. CASE Dequeue(c)
  BY <1>5 DEF Dequeue, QueueExpired
<1>6. CASE DequeueExpired(c)
  BY <1>6 DEF DequeueExpired, Settle, NextTurn, InFront
<1>7. CASE Acquire(c)
  BY <1>7 DEF Acquire
<1>8. CASE GiveUp(c)
  BY <1>8 DEF GiveUp, Settle, NextTurn, ChainInv, StartedInFront, InFront
<1>9. CASE End(c)
  <2>1. /\ lock = c /\ lock' = Nobody /\ leases' = leases \ {c}
        /\ node' = [node EXCEPT ![c] = "settled"]
        /\ answer' = [answer EXCEPT ![c] = "value"]
        /\ UNCHANGED <<context, awaitedBy, crashes>>
    BY <1>9 DEF End, Settle
  <2>2. chain' \in [Processes -> Seq(Calls)]
    <3>1. CASE c \in Trying
      BY <1>9, <3>1 DEF End
    <3>2. CASE c \notin Trying
      <4>1. InFront(c)
        BY <1>9, <3>2 DEF End, ChainInv, StartedInFront
      <4>2. Tail(chain[HomeOf[c]]) \in Seq(Calls)
        BY <4>1 DEF InFront
      <4> QED
        BY <1>9, <3>2, <4>2 DEF End, NextTurn
    <3> QED
      BY <3>1, <3>2
  <2>3. ASSUME NEW d \in Calls
        PROVE  node[d] # "nested"
    BY <1>9, <2>1 DEF End, AwaitsNothing
  <2> QED
    BY <2>1, <2>2, <2>3
<1>10. CASE EndNested(c)
  BY <1>10 DEF EndNested, Settle
<1> QED
  BY <1>1, <1>2, <1>3, <1>4, <1>5, <1>6, <1>7, <1>8, <1>9, <1>10 DEF Advance

LEMMA CrashLock ==
    ASSUME BarrierAssumption, LockInv, NEW p \in Processes, Crash(p)
    PROVE  LockInv'
BY DEF Crash, LockInv, TypeOK, LockIsRun, Unanswered, ContextAwaited, NestedUnderLock,
       NodeStates, Answers, BarrierAssumption

-----------------------------------------------------------------------------
(* The chain of each process.                                               *)
LEMMA ChainSame ==
    ASSUME ChainInv, UNCHANGED chain,
           \A c \in Calls :
              \/ node'[c] = node[c]
              \/ node'[c] \notin {"acquire", "run"} /\ node[c] \in {"none", "entry", "nested"}
              \/ c \in Trying /\ node[c] \in {"entry", "run"} /\ node'[c] # "acquire",
           TypeOK
    PROVE  ChainInv'
<1>1. ChainShape'
  <2>1. ASSUME NEW q \in Processes, NEW i \in 1 .. Len(chain[q])
        PROVE  node'[chain[q][i]] = node[chain[q][i]]
    BY <2>1 DEF ChainInv, ChainShape, TypeOK
  <2> QED
    BY <2>1 DEF ChainInv, ChainShape
<1>2. StartedInFront'
  BY DEF ChainInv, StartedInFront, InFront
<1> QED
  BY <1>1, <1>2 DEF ChainInv

LEMMA ChainNext ==
    ASSUME BarrierAssumption, ChainInv, TypeOK, NEW c \in Calls, InFront(c), NextTurn(c),
           node' = [node EXCEPT ![c] = "settled"]
    PROVE  ChainInv'
<1> DEFINE p == HomeOf[c]
<1>1. /\ chain[p] \in Seq(Calls) /\ chain[p] # <<>> /\ chain[p][1] = c
      /\ chain' = [chain EXCEPT ![p] = Tail(chain[p])] /\ p \in Processes
  BY DEF InFront, NextTurn, TypeOK, BarrierAssumption
<1>2. /\ Len(chain'[p]) = Len(chain[p]) - 1
      /\ \A i \in 1 .. Len(chain'[p]) : chain'[p][i] = chain[p][i + 1]
  BY <1>1 DEF TypeOK
<1>3. \A q \in Processes \ {p} : chain'[q] = chain[q]
  BY <1>1 DEF TypeOK
<1>4. ASSUME NEW q \in Processes, NEW i \in 1 .. Len(chain[q]), chain[q][i] = c
      PROVE  q = p /\ i = 1
  <2>1. q = p
    BY <1>4 DEF ChainInv, ChainShape
  <2>2. 1 \in 1 .. Len(chain[p])
    BY <1>1
  <2> QED
    BY <1>1, <1>4, <2>1, <2>2 DEF ChainInv, ChainShape
<1>5. ASSUME NEW q \in Processes, NEW i \in 1 .. Len(chain'[q])
      PROVE  \E k \in 1 .. Len(chain[q]) :
                /\ chain'[q][i] = chain[q][k] /\ chain[q][k] # c
                /\ k = IF q = p THEN i + 1 ELSE i
  <2>1. CASE q = p
    BY <1>1, <1>2, <1>4, <2>1
  <2>2. CASE q # p
    BY <1>3, <1>4, <2>2
  <2> QED
    BY <2>1, <2>2
<1>6. ChainShape'
  <2>1. SUFFICES ASSUME NEW q \in Processes
                 PROVE  /\ \A i \in 1 .. Len(chain'[q]) :
                              /\ HomeOf[chain'[q][i]] = q
                              /\ chain'[q][i] \notin Trying
                              /\ node'[chain'[q][i]] \in {"queued", "acquire", "run"}
                              /\ i > 1 => node'[chain'[q][i]] = "queued"
                        /\ \A i, j \in 1 .. Len(chain'[q]) :
                              chain'[q][i] = chain'[q][j] => i = j
    BY DEF ChainShape
  <2>2. ASSUME NEW i \in 1 .. Len(chain'[q])
        PROVE  /\ HomeOf[chain'[q][i]] = q
               /\ chain'[q][i] \notin Trying
               /\ node'[chain'[q][i]] \in {"queued", "acquire", "run"}
               /\ i > 1 => node'[chain'[q][i]] = "queued"
    <3>1. PICK k \in 1 .. Len(chain[q]) :
             /\ chain'[q][i] = chain[q][k] /\ chain[q][k] # c
             /\ k = IF q = p THEN i + 1 ELSE i
      BY <1>5
    <3>2. node'[chain[q][k]] = node[chain[q][k]]
      BY <3>1 DEF TypeOK
    <3>3. i \in Nat
      OBVIOUS
    <3> QED
      BY <3>1, <3>2, <3>3 DEF ChainInv, ChainShape
  <2>3. ASSUME NEW i \in 1 .. Len(chain'[q]), NEW j \in 1 .. Len(chain'[q]),
               chain'[q][i] = chain'[q][j]
        PROVE  i = j
    BY <1>5, <2>3 DEF ChainInv, ChainShape
  <2> QED
    BY <2>2, <2>3
<1>7. StartedInFront'
  <2>1. SUFFICES ASSUME NEW d \in Calls,
                        node'[d] = "acquire" \/ (node'[d] = "run" /\ d \notin Trying)
                 PROVE  InFront(d)'
    BY DEF StartedInFront
  <2>2. d # c /\ node[d] = node'[d]
    BY <2>1 DEF TypeOK
  <2>3. InFront(d)
    BY <2>1, <2>2 DEF ChainInv, StartedInFront
  <2>4. HomeOf[d] # p
    BY <1>1, <2>2, <2>3 DEF InFront
  <2> QED
    BY <1>3, <2>3, <2>4 DEF InFront, BarrierAssumption
<1> QED
  BY <1>6, <1>7 DEF ChainInv

LEMMA ChainAppend ==
    ASSUME BarrierAssumption, ChainInv, TypeOK, NEW c \in Calls, EnterQueue(c)
    PROVE  ChainInv'
<1> DEFINE p == HomeOf[c]
<1>1. /\ chain[p] \in Seq(Calls) /\ p \in Processes
      /\ chain' = [chain EXCEPT ![p] = Append(chain[p], c)]
      /\ node' = [node EXCEPT ![c] = "queued"]
      /\ node[c] = "entry" /\ c \notin Trying
  BY DEF EnterQueue, TypeOK, BarrierAssumption
<1>2. /\ Len(chain'[p]) = Len(chain[p]) + 1
      /\ chain'[p][Len(chain[p]) + 1] = c
      /\ \A i \in 1 .. Len(chain[p]) : chain'[p][i] = chain[p][i]
  BY <1>1 DEF TypeOK
<1>3. \A q \in Processes \ {p} : chain'[q] = chain[q]
  BY <1>1 DEF TypeOK
<1>4. \A q \in Processes : \A i \in 1 .. Len(chain[q]) : chain[q][i] # c
  BY <1>1 DEF ChainInv, ChainShape
<1>5. ChainShape'
  <2>1. ASSUME NEW q \in Processes, NEW i \in 1 .. Len(chain'[q])
        PROVE  \/ q = p /\ i = Len(chain[p]) + 1 /\ chain'[q][i] = c
               \/ /\ i \in 1 .. Len(chain[q])
                  /\ chain'[q][i] = chain[q][i]
                  /\ node'[chain[q][i]] = node[chain[q][i]]
    <3>1. CASE q = p /\ i = Len(chain[p]) + 1
      BY <1>2, <3>1
    <3>2. CASE ~(q = p /\ i = Len(chain[p]) + 1)
      <4>1. i \in 1 .. Len(chain[q]) /\ chain'[q][i] = chain[q][i]
        BY <1>1, <1>2, <1>3, <3>2
      <4> QED
        BY <1>1, <1>4, <4>1 DEF TypeOK
    <3> QED
      BY <3>1, <3>2
  <2>2. node'[c] = "queued"
    BY <1>1 DEF TypeOK
  <2>3. SUFFICES ASSUME NEW q \in Processes
                 PROVE  /\ \A i \in 1 .. Len(chain'[q]) :
                              /\ HomeOf[chain'[q][i]] = q
                              /\ chain'[q][i] \notin Trying
                              /\ node'[chain'[q][i]] \in {"queued", "acquire", "run"}
                              /\ i > 1 => node'[chain'[q][i]] = "queued"
                        /\ \A i, j \in 1 .. Len(chain'[q]) :
                              chain'[q][i] = chain'[q][j] => i = j
    BY DEF ChainShape
  <2>4. ASSUME NEW i \in 1 .. Len(chain'[q])
        PROVE  /\ HomeOf[chain'[q][i]] = q
               /\ chain'[q][i] \notin Trying
               /\ node'[chain'[q][i]] \in {"queued", "acquire", "run"}
               /\ i > 1 => node'[chain'[q][i]] = "queued"
    BY <1>1, <2>1, <2>2 DEF ChainInv, ChainShape
  <2>5. ASSUME NEW i \in 1 .. Len(chain'[q]), NEW j \in 1 .. Len(chain'[q]),
               chain'[q][i] = chain'[q][j]
        PROVE  i = j
    BY <1>4, <2>1, <2>5 DEF ChainInv, ChainShape
  <2> QED
    BY <2>4, <2>5
<1>6. StartedInFront'
  <2>1. SUFFICES ASSUME NEW d \in Calls,
                        node'[d] = "acquire" \/ (node'[d] = "run" /\ d \notin Trying)
                 PROVE  InFront(d)'
    BY DEF StartedInFront
  <2>2. node[d] = node'[d]
    BY <1>1, <2>1 DEF TypeOK
  <2>3. InFront(d)
    BY <2>1, <2>2 DEF ChainInv, StartedInFront
  <2>4. CASE HomeOf[d] = p
    <3>1. Len(chain[p]) > 0 /\ chain[p][1] = d
      BY <1>1, <2>3, <2>4 DEF InFront
    <3>2. chain'[p] # <<>> /\ chain'[p][1] = d
      BY <1>1, <1>2, <3>1
    <3> QED
      BY <2>4, <3>2 DEF InFront
  <2>5. CASE HomeOf[d] # p
    BY <1>3, <2>3, <2>5 DEF InFront, BarrierAssumption
  <2> QED
    BY <2>4, <2>5
<1> QED
  BY <1>5, <1>6 DEF ChainInv

(* The node in front starts, or goes on from acquiring to running.          *)
LEMMA ChainStart ==
    ASSUME BarrierAssumption, ChainInv, TypeOK, NEW c \in Calls, Dequeue(c) \/ Acquire(c)
    PROVE  ChainInv'
<1>1. /\ InFront(c) /\ chain' = chain /\ HomeOf[c] \in Processes
      /\ \A d \in Calls \ {c} : node'[d] = node[d]
      /\ node'[c] \in {"acquire", "run"}
  BY DEF Dequeue, Acquire, ChainInv, StartedInFront, TypeOK, BarrierAssumption
<1>2. ASSUME NEW q \in Processes, NEW i \in 1 .. Len(chain[q])
      PROVE  \/ chain[q][i] = c /\ i = 1
             \/ node'[chain[q][i]] = node[chain[q][i]]
  <2>1. chain[q][i] \in Calls
    BY DEF TypeOK
  <2>2. CASE chain[q][i] # c
    BY <1>1, <2>1, <2>2
  <2>3. CASE chain[q][i] = c
    <3>1. q = HomeOf[c]
      BY <2>3 DEF ChainInv, ChainShape
    <3>2. chain[q][1] = c /\ 1 \in 1 .. Len(chain[q])
      BY <1>1, <3>1 DEF InFront, TypeOK
    <3>3. i = 1
      BY <2>3, <3>2 DEF ChainInv, ChainShape
    <3> QED
      BY <2>3, <3>3
  <2> QED
    BY <2>2, <2>3
<1>3. ChainShape'
  BY <1>1, <1>2 DEF ChainInv, ChainShape
<1>4. StartedInFront'
  BY <1>1 DEF ChainInv, StartedInFront, InFront
<1> QED
  BY <1>3, <1>4 DEF ChainInv

LEMMA ChainCrash ==
    ASSUME BarrierAssumption, ChainInv, TypeOK, NEW p \in Processes, Crash(p)
    PROVE  ChainInv'
<1>1. /\ chain'[p] = <<>> /\ \A q \in Processes \ {p} : chain'[q] = chain[q]
      /\ \A c \in Calls : node'[c] = IF HomeOf[c] = p THEN "settled" ELSE node[c]
  BY DEF Crash, TypeOK
<1>2. ChainShape'
  <2>1. ASSUME NEW q \in Processes \ {p}, NEW i \in 1 .. Len(chain[q])
        PROVE  node'[chain[q][i]] = node[chain[q][i]]
    BY <1>1 DEF ChainInv, ChainShape, TypeOK
  <2> QED
    BY <1>1, <2>1 DEF ChainInv, ChainShape
<1>3. StartedInFront'
  BY <1>1 DEF ChainInv, StartedInFront, InFront, BarrierAssumption
<1> QED
  BY <1>2, <1>3 DEF ChainInv

LEMMA ChainStep ==
    ASSUME BarrierAssumption, LockInv, ChainInv, [Next]_vars
    PROVE  ChainInv'
<1> USE DEF LockInv
<1>1. ASSUME NEW c \in Calls,
             \/ Issue(c) \/ ExpireQueued(c) \/ EnterHeld(c) \/ EnterTrying(c)
             \/ EndNested(c) \/ (End(c) /\ c \in Trying)
      PROVE  ChainInv'
  <2>1. UNCHANGED chain
    BY <1>1 DEF Issue, Call, CallInside, CallDetached, ExpireQueued, EnterHeld,
                EnterTrying, EndNested, End
  <2>2. \A d \in Calls \ {c} : node'[d] = node[d]
    BY <1>1 DEF Issue, Call, CallInside, CallDetached, ExpireQueued, EnterHeld,
                EnterTrying, EndNested, End, Settle, TypeOK
  <2>3. \/ node'[c] = node[c]
        \/ node'[c] \notin {"acquire", "run"} /\ node[c] \in {"none", "entry", "nested"}
        \/ c \in Trying /\ node[c] \in {"entry", "run"} /\ node'[c] # "acquire"
    BY <1>1 DEF Issue, Call, CallInside, CallDetached, ExpireQueued, EnterHeld,
                EnterTrying, EndNested, End, Settle, TypeOK
  <2>4. \A d \in Calls :
           \/ node'[d] = node[d]
           \/ node'[d] \notin {"acquire", "run"} /\ node[d] \in {"none", "entry", "nested"}
           \/ d \in Trying /\ node[d] \in {"entry", "run"} /\ node'[d] # "acquire"
    BY <2>2, <2>3
  <2>5. TypeOK
    OBVIOUS
  <2> HIDE DEF LockInv
  <2> QED
    BY <2>1, <2>4, <2>5, ChainSame
<1>2. ASSUME NEW c \in Calls, DequeueExpired(c) \/ GiveUp(c) \/ (End(c) /\ c \notin Trying)
      PROVE  ChainInv'
  <2>1. NextTurn(c) /\ node' = [node EXCEPT ![c] = "settled"]
    BY <1>2 DEF DequeueExpired, GiveUp, End, Settle
  <2>2. InFront(c)
    BY <1>2 DEF DequeueExpired, GiveUp, End, ChainInv, StartedInFront
  <2>3. TypeOK
    OBVIOUS
  <2> HIDE DEF LockInv
  <2> QED
    BY <2>1, <2>2, <2>3, ChainNext
<1>3. CASE UNCHANGED vars
  BY <1>3, ChainSame DEF vars
<1> QED
  BY <1>1, <1>2, <1>3, ChainAppend, ChainStart, ChainCrash DEF Next, Advance

-----------------------------------------------------------------------------
LEMMA InductiveInvariant == Spec => [](LockInv /\ ChainInv)
<1>1. Init => LockInv /\ ChainInv
  <2>1. Init => ChainInv
    BY DEF Init, ChainInv, ChainShape, StartedInFront
  <2> QED
    BY <2>1, LockInit, BarrierAssumption
<1>2. LockInv /\ ChainInv /\ [Next]_vars => (LockInv /\ ChainInv)'
  <2>1. SUFFICES ASSUME LockInv, ChainInv, [Next]_vars PROVE (LockInv /\ ChainInv)'
    OBVIOUS
  <2>2. UNCHANGED vars => LockInv'
    BY <2>1 DEF vars, LockInv, TypeOK, LockIsRun, Unanswered, ContextAwaited,
                NestedUnderLock
  <2>3. LockInv'
    BY <2>1, <2>2, IssueLock, AdvanceLock, CrashLock, BarrierAssumption DEF Next
  <2>4. ChainInv'
    BY <2>1, ChainStep, BarrierAssumption
  <2> QED
    BY <2>3, <2>4
<1> QED
  BY <1>1, <1>2, PTL DEF Spec

(* The one active lease is always the lock holder's.                        *)
THEOREM BarrierTypeCorrect == Spec => []TypeOK
<1>1. LockInv => TypeOK
  BY DEF LockInv
<1> QED
  BY <1>1, InductiveInvariant, PTL

(* No operation runs outside the lock, nested ones included.                *)
THEOREM OperationsExclusive == Spec => []MutationsExclusive
<1>1. LockInv => MutationsExclusive
  BY DEF LockInv, LockIsRun, NestedUnderLock, MutationsExclusive, LeaseOf
<1> QED
  BY <1>1, InductiveInvariant, PTL

(* What was answered BUSY is never carried out.                             *)
THEOREM BusyIsFinal == Spec => []BusyNeverRuns
<1>1. LockInv => BusyNeverRuns
  BY DEF LockInv, Unanswered, BusyNeverRuns
<1> QED
  BY <1>1, InductiveInvariant, PTL

(* Turns of a process are serial.                                           *)
THEOREM TurnsNeverOverlap == Spec => []TurnsSerial
<1>1. ChainInv => TurnsSerial
  BY DEF ChainInv, StartedInFront, InFront, TurnsSerial
<1> QED
  BY <1>1, InductiveInvariant, PTL
-----------------------------------------------------------------------------
(* What is in progress belongs to the lock's holder, and there is something *)
(* in progress only while the lock is held.                                 *)
Sections == {LeaseOf(c) : c \in InProgress}

LEMMA SectionsAreLock == LockInv => Sections = {lock} \ {Nobody}
<1> SUFFICES ASSUME LockInv PROVE Sections = {lock} \ {Nobody}
  OBVIOUS
<1>1. \A c \in InProgress : LeaseOf(c) = lock /\ lock # Nobody
  BY BarrierAssumption DEF LockInv, LockIsRun, NestedUnderLock, InProgress, LeaseOf
<1>2. lock # Nobody => lock \in InProgress /\ LeaseOf(lock) = lock
  BY DEF LockInv, TypeOK, LockIsRun, InProgress, LeaseOf
<1> QED
  BY <1>1, <1>2 DEF Sections

(* The lock is taken when it is free, and otherwise given back or left      *)
(* alone.                                                                   *)
LEMMA LockMoves ==
    ASSUME LockInv, [Next]_vars
    PROVE  \/ lock = Nobody /\ lock' \in Calls
           \/ lock' = Nobody
           \/ lock' = lock
<1>1. ASSUME NEW c \in Calls, Issue(c) \/ ExpireQueued(c)
      PROVE  lock' = lock
  BY <1>1 DEF Issue, Call, CallInside, CallDetached, ExpireQueued
<1>2. ASSUME NEW c \in Calls, EnterTrying(c) \/ Acquire(c)
      PROVE  (lock = Nobody /\ lock' \in Calls) \/ lock' = lock
  BY <1>2 DEF EnterTrying, Acquire
<1>3. ASSUME NEW c \in Calls, End(c)
      PROVE  lock' = Nobody
  BY <1>3 DEF End
<1>4. ASSUME NEW c \in Calls,
             \/ EnterHeld(c) \/ EnterQueue(c) \/ Dequeue(c) \/ DequeueExpired(c)
             \/ GiveUp(c) \/ EndNested(c)
      PROVE  lock' = lock
  BY <1>4 DEF EnterHeld, EnterQueue, Dequeue, DequeueExpired, GiveUp, EndNested
<1>5. ASSUME NEW p \in Processes, Crash(p)
      PROVE  lock' = Nobody \/ lock' = lock
  BY <1>5 DEF Crash
<1>6. CASE UNCHANGED vars
  BY <1>6 DEF vars
<1> QED
  BY <1>1, <1>2, <1>3, <1>4, <1>5, <1>6 DEF Next, Advance

(* The chain, the lock and the leases together are one exclusive section    *)
(* after another, over all processes and nested calls.                      *)
THEOREM BarrierImplementsSection == Spec => ImplementsSection
<1>1. Init => Section!Init
  BY DEF Init, Section!Init, InProgress
<1>2. (LockInv => Sections = {lock} \ {Nobody})'
  BY SectionsAreLock, PTL
<1>3. LockInv /\ LockInv' /\ [Next]_vars => [Section!Next]_Sections
  <2>1. SUFFICES ASSUME LockInv, LockInv', [Next]_vars
                 PROVE  Section!Next \/ Sections' = Sections
    BY DEF Sections
  <2>2. Sections = {lock} \ {Nobody} /\ Sections' = {lock'} \ {Nobody}
    BY <2>1, <1>2, SectionsAreLock
  <2>3. CASE lock = Nobody /\ lock' \in Calls
    <3>1. Sections = {} /\ Sections' = {lock'}
      BY <2>2, <2>3, BarrierAssumption
    <3> QED
      BY <2>3, <3>1 DEF Section!Next, Section!Enter, Sections
  <2>4. CASE lock' = Nobody
    BY <2>2, <2>4 DEF Section!Next, Section!Leave, Sections
  <2>5. CASE lock' = lock
    BY <2>2, <2>5
  <2> QED
    BY <2>1, <2>3, <2>4, <2>5, LockMoves
<1>4. Spec => []LockInv
  BY InductiveInvariant, PTL
<1> QED
  BY <1>1, <1>3, <1>4, PTL DEF Spec, ImplementsSection, Section!Spec, Sections
=============================================================================
