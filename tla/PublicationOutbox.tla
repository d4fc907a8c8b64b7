-------------------------- MODULE PublicationOutbox --------------------------
(***************************************************************************)
(* How an accepted knowledge event reaches the canonical branch            *)
(* (extensions/sediment/publication-outbox.ts and writer.ts).  A pass      *)
(* accepts the events of its intake window one by one under the canonical  *)
(* mutation barrier: first a receipt in the outbox, then the L1 event      *)
(* file.  A publisher takes the barrier, freezes a bounded batch of ready  *)
(* receipts and the branch, moves the branch by compare-and-swap,          *)
(* materialises the projection, and then moves the receipts to done/ or    *)
(* failed/ -- after it let go of the barrier.  Files are durable and       *)
(* shared by all processes; a process loses its pass, its publisher and    *)
(* the barrier when it dies.                                               *)
(***************************************************************************)
EXTENDS Integers, FiniteSets

CONSTANTS
    Processes,
    Items,
    Windows,
    WindowOf,
    GroupOf,
    Unsound,         \* work whose receipt contradicts its L1 event
    BatchLimit,      \* KNOWLEDGE_PUBLICATION_BATCH_LIMIT
    MaxForeignMoves, \* bound: moves of the branch by somebody else
    MaxCrashes       \* bound: processes killed

ASSUME OutboxAssumption ==
    /\ WindowOf \in [Items -> Windows]
    /\ GroupOf \in [Items -> SUBSET Items]
    /\ \A i \in Items : i \in GroupOf[i]
    /\ \A i \in Items, j \in Items : j \in GroupOf[i] =>
          GroupOf[j] = GroupOf[i] /\ WindowOf[j] = WindowOf[i]
    /\ Unsound \subseteq Items
    /\ BatchLimit \in Nat \ {0}
    /\ MaxForeignMoves \in Nat
    /\ MaxCrashes \in Nat

VARIABLES
    open,         \* windows with a record in the intake's pending directory
    pending,      \* receipts in the outbox's pending directory
    done,         \* receipts in done/
    failed,       \* receipts in failed/
    events,       \* L1 event files in the worktree
    head,         \* the branch: the events in its tree, the foreign commits below it
    projected,    \* events the worktree's L2 projection shows
    barrier,      \* who holds the canonical mutation barrier
    writer,       \* the pass of each process
    publisher,    \* the drain of each process
    foreignMoves, \* history
    crashes       \* history

receipts == <<pending, done, failed>>
branch == <<head, projected>>
history == <<foreignMoves, crashes>>
vars == <<open, receipts, events, branch, barrier, writer, publisher, history>>

-----------------------------------------------------------------------------
Free == [holder |-> "none"]
WriterOf(p) == [holder |-> "writer", process |-> p]
PublisherOf(p) == [holder |-> "publisher", process |-> p]
(* An assumption of the theorems: contradictory receipts are not part of a *)
(* merge (PublicationOutboxSplit.cfg shows what they do to one).            *)
SoundMerges == \A i \in Unsound : GroupOf[i] = {i}

LetGo(owner) == barrier' = IF barrier = owner THEN Free ELSE barrier

Root == [events |-> {}, foreign |-> 0]

NoPass == [phase |-> "idle"]
NewPass(w, work) == [phase |-> "next", window |-> w, todo |-> work, item |-> {}]

NoDrain == [phase |-> "idle"]
NewDrain ==
    [phase |-> "freeze", frozen |-> Root, batch |-> {}, invalid |-> {}]

WorkOf(w) == {i \in Items : WindowOf[i] = w}

Init ==
    /\ open = Windows
    /\ pending = {} /\ done = {} /\ failed = {}
    /\ events = {} /\ projected = {}
    /\ head = Root
    /\ barrier = Free
    /\ writer = [p \in Processes |-> NoPass]
    /\ publisher = [p \in Processes |-> NoDrain]
    /\ foreignMoves = 0 /\ crashes = 0

-----------------------------------------------------------------------------
(* A pass claims the window.  What the curator makes of it may differ from  *)
(* one attempt to the next; a merge is always attempted as a whole.         *)
Claimed(w) == \E q \in Processes : writer[q] # NoPass /\ writer[q].window = w

StartPass(p) ==
    /\ writer[p] = NoPass
    /\ \E w \in open :
          /\ ~Claimed(w)
          /\ \E work \in SUBSET WorkOf(w) :
                /\ \A i \in work : GroupOf[i] \subseteq work
                /\ writer' = [writer EXCEPT ![p] = NewPass(w, work)]
    /\ UNCHANGED <<open, receipts, events, branch, barrier, publisher, history>>

(* withCanonicalMutationBarrier for one event.                              *)
Acquire(p) ==
    /\ writer[p].phase = "next"
    /\ barrier = Free
    /\ \E i \in writer[p].todo :
          writer' = [writer EXCEPT ![p].phase = "probe", ![p].item = {i}]
    /\ barrier' = WriterOf(p)
    /\ UNCHANGED <<open, receipts, events, branch, publisher, history>>

(* writePublicationOutboxItem looks into done/ and failed/ first: work that *)
(* was done needs no second receipt, work that failed is a collision.       *)
ProbeDone(p) ==
    /\ writer[p].phase = "probe"
    /\ writer[p].item \subseteq done
    /\ writer' = [writer EXCEPT ![p].phase = "append"]
    /\ UNCHANGED <<open, receipts, events, branch, barrier, publisher, history>>

ProbeNew(p) ==
    /\ writer[p].phase = "probe"
    /\ writer[p].item \cap (done \cup failed) = {}
    /\ writer' = [writer EXCEPT ![p].phase = "create"]
    /\ UNCHANGED <<open, receipts, events, branch, barrier, publisher, history>>

CreateReceipt(p) ==
    /\ writer[p].phase = "create"
    /\ pending' = pending \cup writer[p].item
    /\ writer' = [writer EXCEPT ![p].phase = "append"]
    /\ UNCHANGED <<open, done, failed, events, branch, barrier, publisher, history>>

(* appendPreparedKnowledgeEvidenceForWrite creates the event or finds it.   *)
AppendEvent(p) ==
    /\ writer[p].phase = "append"
    /\ events' = events \cup writer[p].item
    /\ writer' = [writer EXCEPT ![p].phase = "next", ![p].item = {},
                                 ![p].todo = @ \ writer[p].item]
    /\ LetGo(WriterOf(p))
    /\ UNCHANGED <<open, receipts, branch, publisher, history>>

(* Any refusal -- barrier busy, collision, a file that cannot be written,   *)
(* an entry whose status changed -- leaves the window pending.              *)
HoldWindow(p) ==
    /\ writer[p] # NoPass
    /\ writer' = [writer EXCEPT ![p] = NoPass]
    /\ LetGo(WriterOf(p))
    /\ UNCHANGED <<open, receipts, events, branch, publisher, history>>

(* Everything the pass decided is durable: checkpoint, then acknowledge.    *)
CloseWindow(p) ==
    /\ writer[p].phase = "next"
    /\ writer[p].todo = {}
    /\ open' = open \ {writer[p].window}
    /\ writer' = [writer EXCEPT ![p] = NoPass]
    /\ UNCHANGED <<receipts, events, branch, barrier, publisher, history>>

(* A job with a later window of the session acknowledges this one too, even *)
(* while another process works on it.                                       *)
CoverWindow(p) ==
    /\ writer[p] = NoPass
    /\ \E w \in open : open' = open \ {w}
    /\ UNCHANGED <<receipts, events, branch, barrier, writer, publisher, history>>

-----------------------------------------------------------------------------
(* schedulePublicationOutboxBatchDrain: one flight per process, and the     *)
(* barrier without waiting; a busy one ends the call.                       *)
StartDrain(p) ==
    /\ publisher[p] = NoDrain
    /\ barrier = Free
    /\ barrier' = PublisherOf(p)
    /\ publisher' = [publisher EXCEPT ![p] = NewDrain]
    /\ UNCHANGED <<open, receipts, events, branch, writer, history>>

(* durablePublicationBatchCounts: terminal receipts count for their merge.  *)
CompleteAlways(i) == TRUE
Complete(i) == GroupOf[i] \subseteq pending \cup done \cup failed
Rows(i) == GroupOf[i] \cap pending
HeldNever(i) == FALSE
HeldByWindow(i) == WindowOf[i] \in open
Sound(i) == i \in events \ Unsound

Examined == {i \in pending : Complete(i) /\ ~HeldByWindow(i)}
Ready == {i \in Examined : \A j \in Rows(i) : Sound(j)}

(* Whole groups until the limit; a larger group goes alone.  Groups are     *)
(* offered in the order of their receipts, so any choice that leaves out    *)
(* only what is too large can come out.                                     *)
TooLarge(batch, i) ==
    batch # {} /\ Cardinality(batch) + Cardinality(Rows(i)) > BatchLimit
WholeGroups(batch) == \A i \in batch : Rows(i) \subseteq batch
FitsLimitStrictly(batch) == Cardinality(batch) <= BatchLimit
FitsLimit(batch) ==
    \/ Cardinality(batch) <= BatchLimit
    \/ \E i \in batch : batch = Rows(i)
Batches ==
    {batch \in SUBSET Ready :
        /\ WholeGroups(batch) /\ FitsLimit(batch)
        /\ \A i \in Ready \ batch : TooLarge(batch, i)}

(* A group that was not skipped for its size has its rows examined in turn, *)
(* and the first one that is not ready ends it: a missing event may hide a  *)
(* contradiction.                                                           *)
Contradictory(i) == i \in events \cap Unsound
SureInvalid(batch) ==
    {i \in Examined : Contradictory(i) /\ Rows(i) \subseteq events /\ ~TooLarge(batch, i)}
MaybeInvalid == {i \in Examined : Contradictory(i)}

(* freezePublicationOutboxBatch and the branch it will be built upon.  One  *)
(* invalid row fails its whole group.                                       *)
FreezeBatch(p) ==
    /\ publisher[p].phase = "freeze"
    /\ \E batch \in Batches, found \in SUBSET MaybeInvalid :
          /\ SureInvalid(batch) \subseteq found
          /\ publisher' = [publisher EXCEPT
                ![p].phase = "publish", ![p].frozen = head, ![p].batch = batch,
                ![p].invalid = UNION {Rows(i) : i \in found}]
    /\ UNCHANGED <<open, receipts, events, branch, barrier, writer, history>>

(* The commit holds the batch's events and their projection, and moves the  *)
(* branch only if it is where it was frozen.  Without a difference to the   *)
(* branch nothing is committed.                                             *)
MoveBranchForced(p) ==
    /\ publisher[p].phase = "publish"
    /\ head' = [publisher[p].frozen EXCEPT !.events = @ \cup publisher[p].batch]
    /\ publisher' = [publisher EXCEPT ![p].phase = "materialize", ![p].frozen = Root]
    /\ UNCHANGED <<open, receipts, events, projected, barrier, writer, history>>

MoveBranch(p) ==
    /\ publisher[p].phase = "publish"
    /\ IF publisher[p].batch \subseteq publisher[p].frozen.events
       THEN UNCHANGED head
       ELSE /\ head = publisher[p].frozen
            /\ head' = [publisher[p].frozen EXCEPT !.events = @ \cup publisher[p].batch]
    /\ publisher' = [publisher EXCEPT ![p].phase = "materialize", ![p].frozen = Root]
    /\ UNCHANGED <<open, receipts, events, projected, barrier, writer, history>>

(* The branch was moved, or it cannot be resolved: the batch stays pending, *)
(* the invalid rows are settled.                                            *)
LoseRaceKeepingBatch(p) ==
    /\ publisher[p].phase = "publish"
    /\ publisher' = [publisher EXCEPT ![p].phase = "settle", ![p].frozen = Root]
    /\ LetGo(PublisherOf(p))
    /\ UNCHANGED <<open, receipts, events, branch, writer, history>>

LoseRace(p) ==
    /\ publisher[p].phase = "publish"
    /\ publisher' = [publisher EXCEPT ![p].phase = "settle", ![p].frozen = Root,
                                       ![p].batch = {}]
    /\ LetGo(PublisherOf(p))
    /\ UNCHANGED <<open, receipts, events, branch, writer, history>>

(* Index convergence and the projection in the worktree; the results are in *)
(* hand and the barrier is free again.                                      *)
Materialize(p) ==
    /\ publisher[p].phase = "materialize"
    /\ projected' = projected \cup publisher[p].batch
    /\ publisher' = [publisher EXCEPT ![p].phase = "settle"]
    /\ LetGo(PublisherOf(p))
    /\ UNCHANGED <<open, receipts, events, head, writer, history>>

(* An exception anywhere ends the flight, nothing more is acknowledged.     *)
AbortDrain(p) ==
    /\ publisher[p] # NoDrain
    /\ publisher' = [publisher EXCEPT ![p] = NoDrain]
    /\ LetGo(PublisherOf(p))
    /\ UNCHANGED <<open, receipts, events, branch, writer, history>>

(* ackPublicationOutboxItem: a rename that finds nothing is no error.       *)
AckItem(p) ==
    /\ publisher[p].phase = "settle"
    /\ \E i \in publisher[p].batch :
          /\ pending' = pending \ {i}
          /\ done' = IF i \in pending THEN done \cup {i} ELSE done
          /\ publisher' = [publisher EXCEPT ![p].batch = @ \ {i}]
    /\ UNCHANGED <<open, failed, events, branch, barrier, writer, history>>

(* failPublicationOutboxItem, once all acknowledgements are through.        *)
FailItem(p) ==
    /\ publisher[p].phase = "settle"
    /\ publisher[p].batch = {}
    /\ \E i \in publisher[p].invalid :
          /\ pending' = pending \ {i}
          /\ failed' = IF i \in pending THEN failed \cup {i} ELSE failed
          /\ publisher' = [publisher EXCEPT ![p].invalid = @ \ {i}]
    /\ UNCHANGED <<open, done, events, branch, barrier, writer, history>>

EndDrain(p) ==
    /\ publisher[p].phase = "settle"
    /\ publisher[p].batch = {} /\ publisher[p].invalid = {}
    /\ publisher' = [publisher EXCEPT ![p] = NoDrain]
    /\ UNCHANGED <<open, receipts, events, branch, barrier, writer, history>>

-----------------------------------------------------------------------------
(* A commit nobody made under the barrier.                                  *)
ForeignMove ==
    /\ foreignMoves < MaxForeignMoves
    /\ foreignMoves' = foreignMoves + 1
    /\ head' = [head EXCEPT !.foreign = @ + 1]
    /\ UNCHANGED <<open, receipts, events, projected, barrier, writer,
                   publisher, crashes>>

(* The kernel gives the dead process' lock back.                            *)
Crash(p) ==
    /\ crashes < MaxCrashes
    /\ crashes' = crashes + 1
    /\ writer' = [writer EXCEPT ![p] = NoPass]
    /\ publisher' = [publisher EXCEPT ![p] = NoDrain]
    /\ barrier' = IF barrier \in {WriterOf(p), PublisherOf(p)} THEN Free ELSE barrier
    /\ UNCHANGED <<open, receipts, events, branch, foreignMoves>>

WriterStep(p) ==
    \/ Acquire(p) \/ ProbeDone(p) \/ ProbeNew(p) \/ CreateReceipt(p)
    \/ AppendEvent(p) \/ HoldWindow(p) \/ CloseWindow(p)

DrainStep(p) ==
    \/ FreezeBatch(p) \/ MoveBranch(p) \/ LoseRace(p) \/ Materialize(p)
    \/ AbortDrain(p) \/ AckItem(p) \/ FailItem(p) \/ EndDrain(p)

Next ==
    \/ \E p \in Processes :
          \/ StartPass(p) \/ WriterStep(p) \/ CoverWindow(p)
          \/ StartDrain(p) \/ DrainStep(p) \/ Crash(p)
    \/ ForeignMove

Spec == Init /\ [][Next]_vars

(* Whoever holds the barrier goes on or gives it back.  Lifecycle triggers  *)
(* of a drain keep coming, and what made one fail -- a busy barrier, a      *)
(* branch that moved, an exception -- does not happen every time.           *)
FairSpec ==
    /\ Spec
    /\ \A p \in Processes :
          /\ WF_vars(WriterStep(p))
          /\ SF_vars(StartDrain(p)) /\ SF_vars(FreezeBatch(p))
          /\ SF_vars(MoveBranch(p)) /\ SF_vars(Materialize(p))
          /\ SF_vars(AckItem(p)) /\ SF_vars(FailItem(p)) /\ WF_vars(DrainStep(p))

-----------------------------------------------------------------------------
(* Every variable keeps its shape, and the barrier's holder is at work.     *)
Passes ==
    [phase : {"next", "probe", "create", "append"}, window : Windows,
     todo : SUBSET Items, item : SUBSET Items]
Trees == [events : SUBSET Items, foreign : 0 .. MaxForeignMoves]
Drains ==
    [phase : {"freeze", "publish", "materialize", "settle"}, frozen : Trees,
     batch : SUBSET Items, invalid : SUBSET Items]
Owners ==
    {Free} \cup {WriterOf(p) : p \in Processes} \cup {PublisherOf(p) : p \in Processes}

HolderAtWork ==
    \A p \in Processes :
        /\ barrier = WriterOf(p) <=> writer[p].phase \in {"probe", "create", "append"}
        /\ barrier = PublisherOf(p) <=>
              publisher[p].phase \in {"freeze", "publish", "materialize"}

TypeOK ==
    /\ HolderAtWork
    /\ open \subseteq Windows
    /\ pending \subseteq Items /\ done \subseteq Items /\ failed \subseteq Items
    /\ events \subseteq Items /\ projected \subseteq Items
    /\ head \in Trees
    /\ barrier \in Owners
    /\ writer \in [Processes -> {NoPass} \cup Passes]
    /\ publisher \in [Processes -> {NoDrain} \cup Drains]
    /\ foreignMoves \in 0 .. MaxForeignMoves
    /\ crashes \in 0 .. MaxCrashes

(* An event file never stands without a receipt that will bring it to the   *)
(* branch, wherever the acceptance was cut off (writer.ts:658, "durable     *)
(* outbox first").                                                          *)
EventHasReceipt == events \subseteq pending \cup done \cup failed

(* A receipt in done/ is history that replays are deduplicated against: its *)
(* event is on the branch and in the projection, whichever process          *)
(* published, crashed after the compare-and-swap or acknowledged late       *)
(* (publication-outbox.ts:1077).                                            *)
DoneMeansPublished == done \subseteq head.events \cap projected

(* The publisher never takes a commit off the branch that somebody else put *)
(* there between its freeze and its compare-and-swap (writer.ts:1349).      *)
ForeignCommitsKept == head.foreign = foreignMoves

(* The events of a merge are on the branch all or none                      *)
(* (publication-outbox.ts:1013, "without splitting any merge batch").       *)
MergesWhole == \A i \in head.events : GroupOf[i] \subseteq head.events

Delivery ==
    INSTANCE KnowledgeDelivery
        WITH accepted <- events, delivered <- head.events, refused <- failed

(* The receipts, the barrier and the publishers together do what            *)
(* KnowledgeDelivery promises.                                              *)
ImplementsDelivery == Delivery!Spec

(* A complete merge or single event whose window is closed reaches the      *)
(* branch or failed/, through crashes, lost races and late acknowledgements *)
(* (index.ts:931, writer.ts:1397).                                          *)
EventuallyDelivered == Delivery!Delivery
=============================================================================
