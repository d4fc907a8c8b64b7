----------------------- MODULE PublicationOutboxProofs -----------------------
(***************************************************************************)
(* The publication protocol implements KnowledgeDelivery for every set of  *)
(* processes, events, windows and merges and every batch limit.            *)
(***************************************************************************)
EXTENDS PublicationOutbox, TLAPS

(* An event is appended only behind its receipt.                            *)
ReceiptFirst ==
    \A p \in Processes :
        writer[p].phase = "append" => writer[p].item \subseteq pending \cup done \cup failed

(* Events are accepted one at a time.                                       *)
OneAtATime ==
    \A p \in Processes :
        writer[p].phase \in {"probe", "create", "append"}
           => \E i \in Items : writer[p].item = {i}

(* What a drain carries was ready when it was frozen, and still is.         *)
CarriesReady(d) ==
    /\ d.batch \subseteq events \ Unsound
    /\ SoundMerges => d.invalid \subseteq Unsound
    /\ \A i \in d.batch \cup d.invalid : WindowOf[i] \notin open

CarriesWhole(d) ==
    /\ d.frozen.events \subseteq head.events
    /\ SoundMerges => \A i \in d.batch : GroupOf[i] \subseteq d.batch \cup head.events

DrainSound(d) ==
    /\ d.phase \in {"publish", "materialize", "settle"} => CarriesReady(d)
    /\ d.phase = "publish" => CarriesWhole(d)
    /\ d.phase \in {"materialize", "settle"} => d.batch \subseteq head.events
    /\ d.phase = "settle" => d.batch \subseteq projected

DrainsSound == \A p \in Processes : DrainSound(publisher[p])

(* Only contradictory receipts fail, and they are never published.          *)
FailedApart ==
    /\ SoundMerges => failed \subseteq Unsound
    /\ head.events \subseteq events \ Unsound

IInv ==
    /\ TypeOK
    /\ ReceiptFirst
    /\ OneAtATime
    /\ DrainsSound
    /\ FailedApart
    /\ EventHasReceipt
    /\ DoneMeansPublished
    /\ ForeignCommitsKept
    /\ SoundMerges => MergesWhole

-----------------------------------------------------------------------------
(* The holders of the barrier are told apart.                               *)
LEMMA HoldersDiffer ==
    ASSUME NEW p, NEW q
    PROVE  /\ WriterOf(p) = WriterOf(q) => p = q
           /\ PublisherOf(p) = PublisherOf(q) => p = q
           /\ WriterOf(p) # PublisherOf(q)
           /\ WriterOf(p) # Free
           /\ PublisherOf(p) # Free
<1>1. WriterOf(p).process = p /\ WriterOf(q).process = q
  BY DEF WriterOf
<1>2. PublisherOf(p).process = p /\ PublisherOf(q).process = q
  BY DEF PublisherOf
<1>3. WriterOf(p).holder = "writer" /\ PublisherOf(q).holder = "publisher"
  BY DEF WriterOf, PublisherOf
<1>4. Free.holder = "none" /\ PublisherOf(p).holder = "publisher"
  BY DEF Free, PublisherOf
<1> QED
  BY <1>1, <1>2, <1>3, <1>4

(* A step of one process' pass or drain leaves the shape of everything      *)
(* intact; the barrier is taken when free and let go by its holder.         *)
LEMMA TypeInit == ASSUME OutboxAssumption, Init PROVE TypeOK
<1>1. \A p \in Processes : writer[p] = NoPass /\ publisher[p] = NoDrain
  BY DEF Init
<1>2. HolderAtWork
  BY <1>1, HoldersDiffer DEF Init, HolderAtWork, NoPass, NoDrain
<1>3. head \in Trees
  BY DEF Init, Root, Trees, OutboxAssumption
<1> QED
  BY <1>2, <1>3 DEF Init, TypeOK, Owners, OutboxAssumption

LEMMA WriterShape ==
    ASSUME TypeOK, NEW p \in Processes, StartPass(p) \/ WriterStep(p) \/ CoverWindow(p)
    PROVE  writer' \in [Processes -> {NoPass} \cup Passes]
<1>1. writer \in [Processes -> {NoPass} \cup Passes]
  BY DEF TypeOK
<1>2. CASE StartPass(p)
  BY <1>1, <1>2 DEF StartPass, NewPass, Passes, WorkOf, TypeOK
<1>3. CASE Acquire(p)
  <2>1. PICK i \in writer[p].todo :
           writer' = [writer EXCEPT ![p] = [writer[p] EXCEPT !.phase = "probe", !.item = {i}]]
    BY <1>3 DEF Acquire
  <2>2. writer[p] \in Passes
    BY <1>1, <1>3 DEF Acquire, NoPass
  <2>3. [writer[p] EXCEPT !.phase = "probe", !.item = {i}] \in Passes
    BY <2>1, <2>2 DEF Passes
  <2> QED
    BY <1>1, <2>1, <2>3
<1>4. CASE ProbeDone(p)
  BY <1>1, <1>4 DEF ProbeDone, NoPass, Passes
<1>5. CASE ProbeNew(p)
  BY <1>1, <1>5 DEF ProbeNew, NoPass, Passes
<1>6. CASE CreateReceipt(p)
  BY <1>1, <1>6 DEF CreateReceipt, NoPass, Passes
<1>7. CASE AppendEvent(p)
  <2> DEFINE new == [writer[p] EXCEPT !.phase = "next", !.item = {},
                                      !.todo = @ \ writer[p].item]
  <2>1. writer' = [writer EXCEPT ![p] = new]
    BY <1>7 DEF AppendEvent
  <2>2. writer[p] \in Passes
    BY <1>1, <1>7 DEF AppendEvent, NoPass
  <2>3. new \in Passes
    BY <2>2 DEF Passes
  <2> QED
    BY <1>1, <2>1, <2>3
<1>8. CASE HoldWindow(p)
  BY <1>1, <1>8 DEF HoldWindow
<1>9. CASE CloseWindow(p)
  BY <1>1, <1>9 DEF CloseWindow
<1>10. CASE CoverWindow(p)
  BY <1>1, <1>10 DEF CoverWindow
<1> QED
  BY <1>2, <1>3, <1>4, <1>5, <1>6, <1>7, <1>8, <1>9, <1>10 DEF WriterStep

LEMMA PublisherShape ==
    ASSUME TypeOK, OutboxAssumption, NEW p \in Processes, StartDrain(p) \/ DrainStep(p)
    PROVE  publisher' \in [Processes -> {NoDrain} \cup Drains]
<1>1. publisher \in [Processes -> {NoDrain} \cup Drains]
  BY DEF TypeOK
<1>2. Root \in Trees
  BY DEF Root, Trees, OutboxAssumption
<1>3. CASE StartDrain(p)
  BY <1>1, <1>2, <1>3 DEF StartDrain, NewDrain, Drains
<1>4. CASE FreezeBatch(p)
  <2>1. PICK batch \in Batches, found \in SUBSET MaybeInvalid :
           publisher' = [publisher EXCEPT
                ![p].phase = "publish", ![p].frozen = head, ![p].batch = batch,
                ![p].invalid = UNION {Rows(i) : i \in found}]
    BY <1>4 DEF FreezeBatch
  <2>2. batch \subseteq Items
    BY DEF Batches, Ready, Examined, TypeOK
  <2>3. UNION {Rows(i) : i \in found} \subseteq Items
    BY DEF Rows, TypeOK
  <2>4. head \in Trees
    BY DEF TypeOK
  <2> DEFINE invalid == UNION {Rows(i) : i \in found}
             new == [publisher[p] EXCEPT !.phase = "publish", !.frozen = head,
                                         !.batch = batch, !.invalid = invalid]
  <2>5. publisher' = [publisher EXCEPT ![p] = new]
    BY <2>1
  <2>6. publisher[p] \in Drains
    BY <1>1, <1>4 DEF FreezeBatch, NoDrain
  <2>7. new \in Drains
    <3>1. invalid \subseteq Items
      BY <2>3
    <3> HIDE DEF invalid
    <3> QED
      BY <3>1, <2>2, <2>4, <2>6 DEF Drains
  <2> QED
    BY <1>1, <2>5, <2>7
<1>5. CASE MoveBranch(p)
  <2> DEFINE new == [publisher[p] EXCEPT !.phase = "materialize", !.frozen = Root]
  <2>1. publisher' = [publisher EXCEPT ![p] = new]
    BY <1>5 DEF MoveBranch
  <2>2. publisher[p] \in Drains
    BY <1>1, <1>5 DEF MoveBranch, NoDrain
  <2>3. new \in Drains
    BY <1>2, <2>2 DEF Drains
  <2> QED
    BY <1>1, <2>1, <2>3
<1>6. CASE LoseRace(p)
  <2> DEFINE new == [publisher[p] EXCEPT !.phase = "settle", !.frozen = Root, !.batch = {}]
  <2>1. publisher' = [publisher EXCEPT ![p] = new]
    BY <1>6 DEF LoseRace
  <2>2. publisher[p] \in Drains
    BY <1>1, <1>6 DEF LoseRace, NoDrain
  <2>3. new \in Drains
    BY <1>2, <2>2 DEF Drains
  <2> QED
    BY <1>1, <2>1, <2>3
<1>7. CASE Materialize(p)
  BY <1>1, <1>7 DEF Materialize, NoDrain, Drains
<1>8. CASE AbortDrain(p)
  BY <1>1, <1>8 DEF AbortDrain
<1>9. CASE AckItem(p)
  BY <1>1, <1>9 DEF AckItem, NoDrain, Drains
<1>10. CASE FailItem(p)
  BY <1>1, <1>10 DEF FailItem, NoDrain, Drains
<1>11. CASE EndDrain(p)
  BY <1>1, <1>11 DEF EndDrain
<1> QED
  BY <1>3, <1>4, <1>5, <1>6, <1>7, <1>8, <1>9, <1>10, <1>11 DEF DrainStep

(* Taking and giving back the barrier go with the phases that need it.      *)
Holding(q) == writer[q].phase \in {"probe", "create", "append"}
Publishing(q) == publisher[q].phase \in {"freeze", "publish", "materialize"}

LEMMA WriterHolds ==
    ASSUME TypeOK, NEW p \in Processes, StartPass(p) \/ WriterStep(p) \/ CoverWindow(p)
    PROVE  HolderAtWork'
<1>1. \A q \in Processes : (barrier = WriterOf(q) <=> Holding(q))
                        /\ (barrier = PublisherOf(q) <=> Publishing(q))
  BY DEF TypeOK, HolderAtWork, Holding, Publishing
<1>2. writer \in [Processes -> {NoPass} \cup Passes]
  BY DEF TypeOK
<1>3. SUFFICES ASSUME NEW q \in Processes
               PROVE  /\ barrier' = WriterOf(q) <=> Holding(q)'
                      /\ barrier' = PublisherOf(q) <=> Publishing(q)'
  BY DEF HolderAtWork, Holding, Publishing
<1>4. publisher' = publisher
  BY DEF StartPass, WriterStep, CoverWindow, Acquire, ProbeDone, ProbeNew,
         CreateReceipt, AppendEvent, HoldWindow, CloseWindow
<1>5. CASE StartPass(p) \/ CoverWindow(p) \/ CloseWindow(p)
  <2>1. Holding(q)' = Holding(q)
    BY <1>2, <1>5 DEF StartPass, CoverWindow, CloseWindow, NewPass, NoPass, Holding
  <2>2. barrier' = barrier
    BY <1>5 DEF StartPass, CoverWindow, CloseWindow
  <2> QED
    BY <1>1, <1>4, <2>1, <2>2 DEF Publishing
<1>6. CASE ProbeDone(p) \/ ProbeNew(p) \/ CreateReceipt(p)
  <2>1. Holding(q)' = Holding(q)
    <3>1. CASE ProbeDone(p)
      BY <1>2, <3>1 DEF ProbeDone, Holding
    <3>2. CASE ProbeNew(p)
      BY <1>2, <3>2 DEF ProbeNew, Holding
    <3>3. CASE CreateReceipt(p)
      BY <1>2, <3>3 DEF CreateReceipt, Holding
    <3> QED
      BY <3>1, <3>2, <3>3, <1>6
  <2>2. barrier' = barrier
    BY <1>6 DEF ProbeDone, ProbeNew, CreateReceipt
  <2> QED
    BY <1>1, <1>4, <2>1, <2>2 DEF Publishing
<1>7. CASE Acquire(p)
  <2>1. barrier = Free /\ barrier' = WriterOf(p)
    BY <1>7 DEF Acquire
  <2>2. Holding(q)' <=> (q = p \/ Holding(q))
    BY <1>2, <1>7 DEF Acquire, Holding
  <2> QED
    BY <1>1, <1>4, <2>1, <2>2, HoldersDiffer DEF Publishing
<1>8. CASE AppendEvent(p) \/ HoldWindow(p)
  <2>1. barrier' = IF barrier = WriterOf(p) THEN Free ELSE barrier
    BY <1>8 DEF AppendEvent, HoldWindow, LetGo
  <2>2. Holding(q)' <=> (q # p /\ Holding(q))
    <3>1. CASE AppendEvent(p)
      BY <1>2, <3>1 DEF AppendEvent, NoPass, Holding
    <3>2. CASE HoldWindow(p)
      BY <1>2, <3>2 DEF HoldWindow, NoPass, Holding
    <3> QED
      BY <3>1, <3>2, <1>8
  <2> QED
    BY <1>1, <1>4, <2>1, <2>2, HoldersDiffer DEF Publishing
<1> QED
  BY <1>5, <1>6, <1>7, <1>8 DEF WriterStep

LEMMA PublisherHolds ==
    ASSUME TypeOK, NEW p \in Processes, StartDrain(p) \/ DrainStep(p)
    PROVE  HolderAtWork'
<1>1. \A q \in Processes : (barrier = WriterOf(q) <=> Holding(q))
                        /\ (barrier = PublisherOf(q) <=> Publishing(q))
  BY DEF TypeOK, HolderAtWork, Holding, Publishing
<1>2. publisher \in [Processes -> {NoDrain} \cup Drains]
  BY DEF TypeOK
<1>3. SUFFICES ASSUME NEW q \in Processes
               PROVE  /\ barrier' = WriterOf(q) <=> Holding(q)'
                      /\ barrier' = PublisherOf(q) <=> Publishing(q)'
  BY DEF HolderAtWork, Holding, Publishing
<1>4. writer' = writer
  BY DEF StartDrain, DrainStep, FreezeBatch, MoveBranch, LoseRace, Materialize,
         AbortDrain, AckItem, FailItem, EndDrain
<1>5. CASE StartDrain(p)
  <2>1. barrier = Free /\ barrier' = PublisherOf(p)
    BY <1>5 DEF StartDrain
  <2>2. Publishing(q)' <=> (q = p \/ Publishing(q))
    BY <1>2, <1>5 DEF StartDrain, NewDrain, Publishing
  <2> QED
    BY <1>1, <1>4, <2>1, <2>2, HoldersDiffer DEF Holding
<1>6. CASE FreezeBatch(p)
  <2>1. Publishing(q)' = Publishing(q)
    BY <1>2, <1>6 DEF FreezeBatch, Publishing
  <2> QED
    BY <1>1, <1>4, <1>6, <2>1 DEF FreezeBatch, Holding
<1>7. CASE MoveBranch(p)
  <2>1. Publishing(q)' = Publishing(q)
    BY <1>2, <1>7 DEF MoveBranch, Publishing
  <2> QED
    BY <1>1, <1>4, <1>7, <2>1 DEF MoveBranch, Holding
<1>8. CASE AckItem(p) \/ FailItem(p) \/ EndDrain(p)
  <2>1. Publishing(q)' = Publishing(q)
    <3>1. CASE AckItem(p)
      BY <1>2, <3>1 DEF AckItem, NoDrain, Publishing
    <3>2. CASE FailItem(p)
      BY <1>2, <3>2 DEF FailItem, NoDrain, Publishing
    <3>3. CASE EndDrain(p)
      BY <1>2, <3>3 DEF EndDrain, NoDrain, Publishing
    <3> QED
      BY <3>1, <3>2, <3>3, <1>8
  <2> QED
    BY <1>1, <1>4, <1>8, <2>1 DEF AckItem, FailItem, EndDrain, Holding
<1>9. CASE LoseRace(p) \/ Materialize(p) \/ AbortDrain(p)
  <2>1. barrier' = IF barrier = PublisherOf(p) THEN Free ELSE barrier
    BY <1>9 DEF LoseRace, Materialize, AbortDrain, LetGo
  <2>2. Publishing(q)' <=> (q # p /\ Publishing(q))
    <3>1. CASE LoseRace(p)
      BY <1>2, <3>1 DEF LoseRace, NoDrain, Publishing
    <3>2. CASE Materialize(p)
      BY <1>2, <3>2 DEF Materialize, NoDrain, Publishing
    <3>3. CASE AbortDrain(p)
      BY <1>2, <3>3 DEF AbortDrain, NoDrain, Publishing
    <3> QED
      BY <3>1, <3>2, <3>3, <1>9
  <2> QED
    BY <1>1, <1>4, <2>1, <2>2, HoldersDiffer DEF Holding
<1> QED
  BY <1>5, <1>6, <1>7, <1>8, <1>9 DEF DrainStep

LEMMA CrashHolds ==
    ASSUME TypeOK, NEW p \in Processes, Crash(p)
    PROVE  HolderAtWork'
<1>1. \A q \in Processes : (barrier = WriterOf(q) <=> Holding(q))
                        /\ (barrier = PublisherOf(q) <=> Publishing(q))
  BY DEF TypeOK, HolderAtWork, Holding, Publishing
<1>2. SUFFICES ASSUME NEW q \in Processes
               PROVE  /\ barrier' = WriterOf(q) <=> Holding(q)'
                      /\ barrier' = PublisherOf(q) <=> Publishing(q)'
  BY DEF HolderAtWork, Holding, Publishing
<1>3. barrier' = IF barrier \in {WriterOf(p), PublisherOf(p)} THEN Free ELSE barrier
  BY DEF Crash
<1>4. Holding(q)' <=> (q # p /\ Holding(q))
  BY DEF Crash, TypeOK, NoPass, Holding
<1>5. Publishing(q)' <=> (q # p /\ Publishing(q))
  BY DEF Crash, TypeOK, NoDrain, Publishing
<1> QED
  BY <1>1, <1>3, <1>4, <1>5, HoldersDiffer

(* What a step of a pass leaves of the files' shape.                        *)
FilesOK ==
    /\ open \subseteq Windows
    /\ pending \subseteq Items /\ done \subseteq Items /\ failed \subseteq Items
    /\ events \subseteq Items /\ projected \subseteq Items
    /\ head.events \subseteq Items
    /\ barrier \in Owners
    /\ crashes \in 0 .. MaxCrashes

LEMMA WriterFiles ==
    ASSUME TypeOK, NEW p \in Processes, StartPass(p) \/ WriterStep(p) \/ CoverWindow(p)
    PROVE  FilesOK' /\ head' = head /\ foreignMoves' = foreignMoves
<1>1. FilesOK
  BY DEF TypeOK, FilesOK, Trees
<1>2. writer[p] = NoPass \/ writer[p].item \subseteq Items
  BY DEF TypeOK, Passes
<1>3. WriterOf(p) \in Owners /\ Free \in Owners
  BY DEF Owners
<1>4. CASE StartPass(p)
  BY <1>1, <1>3, <1>4 DEF StartPass, receipts, branch, history, LetGo, FilesOK
<1>5. CASE CoverWindow(p)
  BY <1>1, <1>3, <1>5 DEF CoverWindow, receipts, branch, history, LetGo, FilesOK
<1>6. CASE Acquire(p)
  BY <1>1, <1>3, <1>6 DEF Acquire, receipts, branch, history, LetGo, FilesOK
<1>7. CASE ProbeDone(p)
  BY <1>1, <1>3, <1>7 DEF ProbeDone, receipts, branch, history, LetGo, FilesOK
<1>8. CASE ProbeNew(p)
  BY <1>1, <1>3, <1>8 DEF ProbeNew, receipts, branch, history, LetGo, FilesOK
<1>9. CASE CreateReceipt(p)
  BY <1>1, <1>2, <1>3, <1>9 DEF CreateReceipt, NoPass, receipts, branch, history, LetGo, FilesOK
<1>10. CASE AppendEvent(p)
  BY <1>1, <1>2, <1>3, <1>10 DEF AppendEvent, NoPass, receipts, branch, history, LetGo, FilesOK
<1>11. CASE HoldWindow(p)
  BY <1>1, <1>3, <1>11 DEF HoldWindow, receipts, branch, history, LetGo, FilesOK
<1>12. CASE CloseWindow(p)
  BY <1>1, <1>3, <1>12 DEF CloseWindow, receipts, branch, history, LetGo, FilesOK
<1> QED
  BY <1>4, <1>5, <1>6, <1>7, <1>8, <1>9, <1>10, <1>11, <1>12 DEF WriterStep

LEMMA PublisherFiles ==
    ASSUME TypeOK, NEW p \in Processes, StartDrain(p) \/ DrainStep(p)
    PROVE  FilesOK' /\ head'.foreign = head.foreign /\ foreignMoves' = foreignMoves
           /\ head' \in Trees
<1>1. FilesOK /\ head \in Trees
  BY DEF TypeOK, FilesOK, Trees
<1>2. publisher[p] = NoDrain
      \/ (publisher[p].batch \subseteq Items /\ publisher[p].invalid \subseteq Items)
  BY DEF TypeOK, Drains
<1>3. PublisherOf(p) \in Owners /\ Free \in Owners
  BY DEF Owners
<1>4. CASE StartDrain(p)
  BY <1>1, <1>2, <1>3, <1>4 DEF StartDrain, receipts, branch, history, LetGo, NoDrain, FilesOK
<1>5. CASE FreezeBatch(p)
  BY <1>1, <1>2, <1>3, <1>5 DEF FreezeBatch, receipts, branch, history, LetGo, NoDrain, FilesOK
<1>6. CASE MoveBranch(p)
  BY <1>1, <1>2, <1>3, <1>6 DEF MoveBranch, Trees, receipts, branch, history, LetGo, NoDrain, FilesOK
<1>7. CASE LoseRace(p)
  BY <1>1, <1>2, <1>3, <1>7 DEF LoseRace, receipts, branch, history, LetGo, NoDrain, FilesOK
<1>8. CASE Materialize(p)
  BY <1>1, <1>2, <1>3, <1>8 DEF Materialize, receipts, branch, history, LetGo, NoDrain, FilesOK
<1>9. CASE AbortDrain(p)
  BY <1>1, <1>2, <1>3, <1>9 DEF AbortDrain, receipts, branch, history, LetGo, NoDrain, FilesOK
<1>10. CASE AckItem(p)
  BY <1>1, <1>2, <1>3, <1>10 DEF AckItem, receipts, branch, history, LetGo, NoDrain, FilesOK
<1>11. CASE FailItem(p)
  BY <1>1, <1>2, <1>3, <1>11 DEF FailItem, receipts, branch, history, LetGo, NoDrain, FilesOK
<1>12. CASE EndDrain(p)
  BY <1>1, <1>2, <1>3, <1>12 DEF EndDrain, receipts, branch, history, LetGo, NoDrain, FilesOK
<1> QED
  BY <1>4, <1>5, <1>6, <1>7, <1>8, <1>9, <1>10, <1>11, <1>12 DEF DrainStep

LEMMA TypeStep ==
    ASSUME OutboxAssumption, TypeOK, ForeignCommitsKept, [Next]_vars
    PROVE  TypeOK'
<1>1. CASE \E p \in Processes : StartPass(p) \/ WriterStep(p) \/ CoverWindow(p)
  <2>1. PICK p \in Processes : StartPass(p) \/ WriterStep(p) \/ CoverWindow(p)
    BY <1>1
  <2>2. publisher' = publisher
    BY <2>1 DEF StartPass, WriterStep, CoverWindow, Acquire, ProbeDone, ProbeNew,
           CreateReceipt, AppendEvent, HoldWindow, CloseWindow
  <2>3. FilesOK' /\ head' = head /\ foreignMoves' = foreignMoves
    BY <2>1, WriterFiles
  <2>4. HolderAtWork' /\ writer' \in [Processes -> {NoPass} \cup Passes]
    BY <2>1, WriterHolds, WriterShape
  <2> QED
    BY <2>2, <2>3, <2>4 DEF TypeOK, FilesOK
<1>2. CASE \E p \in Processes : StartDrain(p) \/ DrainStep(p)
  <2>1. PICK p \in Processes : StartDrain(p) \/ DrainStep(p)
    BY <1>2
  <2>2. writer' = writer
    BY <2>1 DEF StartDrain, DrainStep, FreezeBatch, MoveBranch, LoseRace, Materialize,
           AbortDrain, AckItem, FailItem, EndDrain
  <2>3. FilesOK' /\ head' \in Trees /\ foreignMoves' = foreignMoves
    BY <2>1, PublisherFiles
  <2>4. HolderAtWork' /\ publisher' \in [Processes -> {NoDrain} \cup Drains]
    BY <2>1, PublisherHolds, PublisherShape
  <2> QED
    BY <2>2, <2>3, <2>4 DEF TypeOK, FilesOK
<1>3. CASE \E p \in Processes : Crash(p)
  <2>1. PICK p \in Processes : Crash(p)
    BY <1>3
  <2>2. HolderAtWork'
    BY <2>1, CrashHolds
  <2>3. barrier' \in Owners /\ crashes' \in 0 .. MaxCrashes
    BY <2>1 DEF Crash, TypeOK, Owners, OutboxAssumption
  <2>4. /\ writer' \in [Processes -> {NoPass} \cup Passes]
        /\ publisher' \in [Processes -> {NoDrain} \cup Drains]
    BY <2>1 DEF Crash, TypeOK
  <2> QED
    BY <2>1, <2>2, <2>3, <2>4 DEF Crash, TypeOK, receipts, branch
<1>4. CASE ForeignMove
  <2>1. foreignMoves' \in 0 .. MaxForeignMoves /\ head' \in Trees
    BY <1>4 DEF ForeignMove, TypeOK, Trees, ForeignCommitsKept, OutboxAssumption
  <2>2. HolderAtWork'
    BY <1>4 DEF ForeignMove, TypeOK, HolderAtWork
  <2> QED
    BY <1>4, <2>1, <2>2 DEF ForeignMove, TypeOK, receipts
<1>5. CASE UNCHANGED vars
  <2>1. HolderAtWork'
    BY <1>5 DEF vars, TypeOK, HolderAtWork
  <2> QED
    BY <1>5, <2>1 DEF vars, TypeOK, receipts, branch, history
<1> QED
  BY <1>1, <1>2, <1>3, <1>4, <1>5 DEF Next

-----------------------------------------------------------------------------
(* Receipts, events, branch and projection only grow, windows only close.   *)
Receipts == pending \cup done \cup failed

LEMMA Monotone ==
    ASSUME TypeOK, [Next]_vars
    PROVE  /\ Receipts \subseteq Receipts'
           /\ events \subseteq events'
           /\ head.events \subseteq head'.events
           /\ projected \subseteq projected'
           /\ open' \subseteq open
<1> USE DEF receipts, branch, history, Receipts
<1>1. CASE \E p \in Processes : StartPass(p) \/ WriterStep(p) \/ CoverWindow(p)
  BY <1>1 DEF StartPass, WriterStep, CoverWindow, Acquire, ProbeDone, ProbeNew,
              CreateReceipt, AppendEvent, HoldWindow, CloseWindow
<1>2. CASE \E p \in Processes :
              \/ StartDrain(p) \/ FreezeBatch(p) \/ LoseRace(p) \/ Materialize(p)
              \/ AbortDrain(p) \/ EndDrain(p) \/ Crash(p)
  BY <1>2 DEF StartDrain, FreezeBatch, LoseRace, Materialize, AbortDrain, EndDrain, Crash
<1>3. CASE \E p \in Processes : MoveBranch(p)
  <2>1. head.events \subseteq head'.events
    BY <1>3 DEF MoveBranch, TypeOK, Trees
  <2> QED
    BY <1>3, <2>1 DEF MoveBranch
<1>4. CASE \E p \in Processes : AckItem(p) \/ FailItem(p)
  BY <1>4 DEF AckItem, FailItem
<1>5. CASE ForeignMove
  BY <1>5 DEF ForeignMove, TypeOK, Trees
<1>6. CASE UNCHANGED vars
  BY <1>6 DEF vars
<1> QED
  BY <1>1, <1>2, <1>3, <1>4, <1>5, <1>6 DEF Next, DrainStep

(* What one process does leaves the pass and the drain of the others alone. *)
LEMMA OthersAlone ==
    ASSUME TypeOK, [Next]_vars
    PROVE  \/ writer' = writer /\ publisher' = publisher
           \/ \E p \in Processes :
                 /\ \/ StartPass(p) \/ WriterStep(p) \/ StartDrain(p) \/ DrainStep(p)
                    \/ Crash(p)
                 /\ \A q \in Processes \ {p} :
                       writer'[q] = writer[q] /\ publisher'[q] = publisher[q]
<1>1. ASSUME NEW p \in Processes, StartPass(p) \/ WriterStep(p)
      PROVE  \A q \in Processes \ {p} :
                writer'[q] = writer[q] /\ publisher'[q] = publisher[q]
  BY <1>1 DEF TypeOK, StartPass, WriterStep, Acquire, ProbeDone, ProbeNew,
              CreateReceipt, AppendEvent, HoldWindow, CloseWindow
<1>2. ASSUME NEW p \in Processes, StartDrain(p) \/ DrainStep(p)
      PROVE  \A q \in Processes \ {p} :
                writer'[q] = writer[q] /\ publisher'[q] = publisher[q]
  BY <1>2 DEF TypeOK, StartDrain, DrainStep, FreezeBatch, MoveBranch, LoseRace,
              Materialize, AbortDrain, AckItem, FailItem, EndDrain
<1>3. ASSUME NEW p \in Processes, Crash(p)
      PROVE  \A q \in Processes \ {p} :
                writer'[q] = writer[q] /\ publisher'[q] = publisher[q]
  BY <1>3 DEF TypeOK, Crash
<1>4. ASSUME NEW p \in Processes, CoverWindow(p)
      PROVE  writer' = writer /\ publisher' = publisher
  BY <1>4 DEF CoverWindow
<1>5. CASE ForeignMove \/ UNCHANGED vars
  BY <1>5 DEF ForeignMove, vars
<1> QED
  BY <1>1, <1>2, <1>3, <1>4, <1>5 DEF Next

(* A receipt stands before its event, and is never thrown away.             *)
LEMMA ReceiptStep ==
    ASSUME TypeOK, ReceiptFirst, EventHasReceipt, [Next]_vars
    PROVE  ReceiptFirst' /\ EventHasReceipt'
<1>1. Receipts \subseteq Receipts'
  BY Monotone
<1>2. ReceiptFirst'
  <2>1. SUFFICES ASSUME NEW q \in Processes, writer'[q].phase = "append"
                 PROVE  writer'[q].item \subseteq Receipts'
    BY DEF ReceiptFirst, Receipts
  <2>2. CASE writer'[q] = writer[q]
    BY <1>1, <2>1, <2>2 DEF ReceiptFirst, Receipts
  <2>3. CASE writer'[q] # writer[q]
    <3>1. StartPass(q) \/ WriterStep(q) \/ StartDrain(q) \/ DrainStep(q) \/ Crash(q)
      BY <2>3, OthersAlone
    <3>2. CASE StartPass(q) \/ Crash(q)
      BY <2>1, <3>2 DEF StartPass, NewPass, Crash, NoPass, TypeOK
    <3>3. CASE ProbeDone(q)
      BY <3>3 DEF ProbeDone, TypeOK, receipts, Receipts
    <3>4. CASE CreateReceipt(q)
      BY <3>4 DEF CreateReceipt, TypeOK, Receipts
    <3>5. CASE Acquire(q)
      BY <2>1, <3>5 DEF Acquire, TypeOK
    <3>6. CASE ProbeNew(q)
      BY <2>1, <3>6 DEF ProbeNew, TypeOK
    <3>7. CASE AppendEvent(q)
      BY <2>1, <3>7 DEF AppendEvent, TypeOK
    <3>8. CASE HoldWindow(q) \/ CloseWindow(q)
      BY <2>1, <3>8 DEF HoldWindow, CloseWindow, NoPass, TypeOK
    <3>9. CASE StartDrain(q) \/ DrainStep(q)
      BY <2>3, <3>9 DEF StartDrain, DrainStep, FreezeBatch, MoveBranch, LoseRace,
                        Materialize, AbortDrain, AckItem, FailItem, EndDrain
    <3> QED
      BY <3>1, <3>2, <3>3, <3>4, <3>5, <3>6, <3>7, <3>8, <3>9 DEF WriterStep
  <2> QED
    BY <2>2, <2>3
<1>3. EventHasReceipt'
  <2>1. events' \subseteq Receipts
    <3>1. CASE events' = events
      BY <3>1 DEF EventHasReceipt, Receipts
    <3>2. CASE \E p \in Processes : AppendEvent(p)
      BY <3>2 DEF AppendEvent, ReceiptFirst, EventHasReceipt, Receipts
    <3>3. events' = events \/ \E p \in Processes : AppendEvent(p)
      BY DEF Next, vars, StartPass, WriterStep, CoverWindow, Acquire, ProbeDone, ProbeNew,
             CreateReceipt, HoldWindow, CloseWindow, StartDrain, DrainStep, FreezeBatch,
             MoveBranch, LoseRace, Materialize, AbortDrain, AckItem, FailItem, EndDrain,
             Crash, ForeignMove
    <3> QED
      BY <3>1, <3>2, <3>3
  <2> QED
    BY <1>1, <2>1 DEF EventHasReceipt, Receipts
<1> QED
  BY <1>2, <1>3

LEMMA OneAtATimeStep ==
    ASSUME TypeOK, OneAtATime, [Next]_vars
    PROVE  OneAtATime'
<1>1. SUFFICES ASSUME NEW q \in Processes, writer'[q].phase \in {"probe", "create", "append"}
               PROVE  \E i \in Items : writer'[q].item = {i}
  BY DEF OneAtATime
<1>2. writer \in [Processes -> {NoPass} \cup Passes]
  BY DEF TypeOK
<1>3. CASE writer'[q] = writer[q]
  BY <1>1, <1>3 DEF OneAtATime
<1>4. CASE writer'[q] # writer[q]
  <2>1. StartPass(q) \/ WriterStep(q) \/ StartDrain(q) \/ DrainStep(q) \/ Crash(q)
    BY <1>4, OthersAlone
  <2>2. CASE StartPass(q) \/ Crash(q) \/ HoldWindow(q) \/ CloseWindow(q)
    BY <1>1, <1>2, <2>2 DEF StartPass, NewPass, Crash, HoldWindow, CloseWindow, NoPass
  <2>3. CASE Acquire(q)
    <3>1. writer[q] \in Passes
      BY <1>2, <2>3 DEF Acquire, NoPass
    <3> QED
      BY <1>2, <2>3, <3>1 DEF Acquire, Passes
  <2>4. CASE ProbeDone(q)
    BY <1>2, <2>4 DEF ProbeDone, OneAtATime
  <2>5. CASE ProbeNew(q)
    BY <1>2, <2>5 DEF ProbeNew, OneAtATime
  <2>6. CASE CreateReceipt(q)
    BY <1>2, <2>6 DEF CreateReceipt, OneAtATime
  <2>7. CASE AppendEvent(q)
    BY <1>1, <1>2, <2>7 DEF AppendEvent
  <2>8. CASE StartDrain(q) \/ DrainStep(q)
    BY <1>4, <2>8 DEF StartDrain, DrainStep, FreezeBatch, MoveBranch, LoseRace,
                      Materialize, AbortDrain, AckItem, FailItem, EndDrain
  <2> QED
    BY <2>1, <2>2, <2>3, <2>4, <2>5, <2>6, <2>7, <2>8 DEF WriterStep
<1> QED
  BY <1>3, <1>4

(* What is frozen is ready, closed and whole.                               *)
LEMMA Frozen ==
    ASSUME OutboxAssumption, IInv, NEW batch \in Batches,
           NEW found \in SUBSET MaybeInvalid
    PROVE  /\ batch \subseteq events \ Unsound
           /\ \A i \in batch : WindowOf[i] \notin open
           /\ SoundMerges => \A i \in batch : GroupOf[i] \subseteq batch \cup head.events
           /\ SoundMerges => UNION {Rows(i) : i \in found} \subseteq Unsound
           /\ \A i \in UNION {Rows(j) : j \in found} : WindowOf[i] \notin open
<1>1. pending \subseteq Items
  BY DEF IInv, TypeOK
<1>2. \A i \in batch : /\ i \in pending /\ Complete(i) /\ WindowOf[i] \notin open
                       /\ \A j \in Rows(i) : j \in events \ Unsound
                       /\ Rows(i) \subseteq batch
  BY DEF Batches, WholeGroups, Ready, Examined, HeldByWindow, Sound
<1>3. \A i \in batch : i \in Rows(i)
  BY <1>1, <1>2 DEF Rows, OutboxAssumption
<1>4. \A i \in found : /\ i \in Unsound \cap Items /\ WindowOf[i] \notin open
                       /\ SoundMerges => Rows(i) \subseteq {i}
  BY <1>1 DEF MaybeInvalid, Contradictory, Examined, HeldByWindow, Rows, SoundMerges
<1>5. ASSUME SoundMerges, NEW i \in batch, NEW j \in GroupOf[i]
      PROVE  j \in batch \cup head.events
  <2>1. j \in pending \cup done \cup failed
    BY <1>2 DEF Complete
  <2>2. CASE j \in pending
    BY <1>2, <2>2 DEF Rows
  <2>3. CASE j \in done
    BY <2>3 DEF IInv, DoneMeansPublished
  <2>4. CASE j \in failed
    <3>1. GroupOf[j] = {j}
      BY <1>5, <2>4 DEF IInv, FailedApart, SoundMerges
    <3>2. i \in GroupOf[i] /\ GroupOf[j] = GroupOf[i]
      BY <1>1, <1>2 DEF OutboxAssumption
    <3> QED
      BY <3>1, <3>2
  <2> QED
    BY <2>1, <2>2, <2>3, <2>4
<1>6. \A i \in UNION {Rows(j) : j \in found} : WindowOf[i] \notin open
  BY <1>1, <1>4 DEF Rows, OutboxAssumption
<1> QED
  BY <1>2, <1>3, <1>4, <1>5, <1>6

(* What a drain carries stays ready, on the branch and projected.           *)
LEMMA DrainsStep ==
    ASSUME OutboxAssumption, IInv, [Next]_vars
    PROVE  DrainsSound'
<1> USE DEF DrainSound, CarriesReady, CarriesWhole
<1>1. /\ events \subseteq events'
      /\ head.events \subseteq head'.events
      /\ projected \subseteq projected'
      /\ open' \subseteq open
  BY Monotone DEF IInv
<1>2. SUFFICES ASSUME NEW q \in Processes
               PROVE  DrainSound(publisher[q])'
  BY DEF DrainsSound
<1>3. DrainSound(publisher[q]) /\ publisher \in [Processes -> {NoDrain} \cup Drains]
  BY DEF IInv, DrainsSound, TypeOK
<1>4. CASE publisher'[q] = publisher[q]
  BY <1>1, <1>3, <1>4
<1>5. CASE publisher'[q] # publisher[q]
  <2>1. StartPass(q) \/ WriterStep(q) \/ StartDrain(q) \/ DrainStep(q) \/ Crash(q)
    BY <1>5, OthersAlone DEF IInv
  <2>2. CASE StartPass(q) \/ WriterStep(q)
    BY <1>5, <2>2 DEF StartPass, WriterStep, Acquire, ProbeDone, ProbeNew,
                      CreateReceipt, AppendEvent, HoldWindow, CloseWindow
  <2>3. CASE StartDrain(q)
    BY <1>3, <2>3 DEF StartDrain, NewDrain
  <2>4. CASE Crash(q) \/ AbortDrain(q) \/ EndDrain(q)
    BY <1>3, <2>4 DEF Crash, AbortDrain, EndDrain, NoDrain
  <2>5. CASE FreezeBatch(q)
    <3>1. PICK batch \in Batches, found \in SUBSET MaybeInvalid :
             publisher' = [publisher EXCEPT
                ![q].phase = "publish", ![q].frozen = head, ![q].batch = batch,
                ![q].invalid = UNION {Rows(i) : i \in found}]
      BY <2>5 DEF FreezeBatch
    <3> DEFINE invalid == UNION {Rows(i) : i \in found}
               new == [publisher[q] EXCEPT !.phase = "publish", !.frozen = head,
                                           !.batch = batch, !.invalid = invalid]
    <3>2. publisher' = [publisher EXCEPT ![q] = new]
      BY <3>1
    <3>3. /\ batch \subseteq events \ Unsound
          /\ \A i \in batch \cup invalid : WindowOf[i] \notin open
          /\ SoundMerges => \A i \in batch : GroupOf[i] \subseteq batch \cup head.events
          /\ SoundMerges => invalid \subseteq Unsound
      BY Frozen
    <3>4. publisher[q] \in Drains
      BY <1>3, <2>5 DEF FreezeBatch, NoDrain
    <3> HIDE DEF invalid
    <3>5. /\ publisher'[q].phase = "publish" /\ publisher'[q].frozen = head
          /\ publisher'[q].batch = batch /\ publisher'[q].invalid = invalid
      BY <1>3, <3>2, <3>4 DEF Drains
    <3> QED
      BY <1>1, <3>3, <3>5
  <2>6. CASE MoveBranch(q)
    <3>1. publisher[q] \in Drains /\ publisher[q].phase = "publish"
      BY <1>3, <2>6 DEF MoveBranch, NoDrain
    <3>2. /\ publisher'[q].phase = "materialize"
          /\ publisher'[q].batch = publisher[q].batch
          /\ publisher'[q].invalid = publisher[q].invalid
      BY <1>3, <2>6, <3>1 DEF MoveBranch, Drains
    <3>3. publisher[q].batch \subseteq head'.events
      BY <1>3, <2>6, <3>1 DEF MoveBranch, Drains, Trees
    <3> QED
      BY <1>1, <1>3, <3>1, <3>2, <3>3
  <2>7. CASE LoseRace(q)
    <3>1. publisher[q] \in Drains /\ publisher[q].phase = "publish"
      BY <1>3, <2>7 DEF LoseRace, NoDrain
    <3>2. /\ publisher'[q].phase = "settle" /\ publisher'[q].batch = {}
          /\ publisher'[q].invalid = publisher[q].invalid
      BY <1>3, <2>7, <3>1 DEF LoseRace, Drains
    <3> QED
      BY <1>1, <1>3, <3>1, <3>2
  <2>8. CASE Materialize(q)
    <3>1. publisher[q] \in Drains /\ publisher[q].phase = "materialize"
      BY <1>3, <2>8 DEF Materialize, NoDrain
    <3>2. /\ publisher'[q].phase = "settle"
          /\ publisher'[q].batch = publisher[q].batch
          /\ publisher'[q].invalid = publisher[q].invalid
          /\ projected' = projected \cup publisher[q].batch
      BY <1>3, <2>8, <3>1 DEF Materialize, Drains
    <3> QED
      BY <1>1, <1>3, <3>1, <3>2
  <2>9. CASE AckItem(q) \/ FailItem(q)
    <3>1. publisher[q] \in Drains /\ publisher[q].phase = "settle"
      BY <1>3, <2>9 DEF AckItem, FailItem, NoDrain
    <3>2. /\ publisher'[q].phase = "settle"
          /\ publisher'[q].batch \subseteq publisher[q].batch
          /\ publisher'[q].invalid \subseteq publisher[q].invalid
      <4>1. CASE AckItem(q)
        BY <1>3, <3>1, <4>1 DEF AckItem, Drains
      <4>2. CASE FailItem(q)
        BY <1>3, <3>1, <4>2 DEF FailItem, Drains
      <4> QED
        BY <4>1, <4>2, <2>9
    <3> QED
      BY <1>1, <1>3, <3>1, <3>2
  <2> QED
    BY <2>1, <2>2, <2>3, <2>4, <2>5, <2>6, <2>7, <2>8, <2>9 DEF DrainStep
<1> QED
  BY <1>4, <1>5

(* Acknowledgements follow publication, refusals the contradiction.         *)
LEMMA SettledStep ==
    ASSUME OutboxAssumption, IInv, [Next]_vars
    PROVE  /\ FailedApart' /\ DoneMeansPublished' /\ ForeignCommitsKept'
           /\ SoundMerges => MergesWhole'
<1>1. /\ events \subseteq events'
      /\ head.events \subseteq head'.events
      /\ projected \subseteq projected'
  BY Monotone DEF IInv
<1>2. \A q \in Processes : /\ DrainSound(publisher[q])
                           /\ publisher[q] \in {NoDrain} \cup Drains
  BY DEF IInv, DrainsSound, TypeOK
<1>3. ASSUME NEW q \in Processes, AckItem(q)
      PROVE  /\ done' \subseteq done \cup (head.events \cap projected)
             /\ failed' = failed /\ UNCHANGED <<events, branch, foreignMoves>>
  <2>1. publisher[q].batch \subseteq head.events \cap projected
    BY <1>2, <1>3 DEF AckItem, DrainSound
  <2> QED
    BY <1>3, <2>1 DEF AckItem, history
<1>4. ASSUME NEW q \in Processes, FailItem(q)
      PROVE  /\ SoundMerges => failed' \subseteq failed \cup Unsound
             /\ done' = done /\ UNCHANGED <<events, branch, foreignMoves>>
  <2>1. SoundMerges => publisher[q].invalid \subseteq Unsound
    BY <1>2, <1>4 DEF FailItem, DrainSound, CarriesReady
  <2> QED
    BY <1>4, <2>1 DEF FailItem, history
<1>5. ASSUME NEW q \in Processes, MoveBranch(q)
      PROVE  /\ head'.events = head.events \cup publisher[q].batch
             /\ head'.foreign = head.foreign
             /\ UNCHANGED <<done, failed, events, projected, foreignMoves>>
  <2>1. publisher[q].batch \subseteq publisher[q].frozen.events
           => publisher[q].batch \subseteq head.events
    BY <1>2, <1>5 DEF MoveBranch, DrainSound, CarriesWhole
  <2> QED
    BY <1>5, <2>1 DEF MoveBranch, IInv, TypeOK, Trees, receipts, history
<1>6. CASE \E q \in Processes : MoveBranch(q)
  <2>1. PICK q \in Processes : MoveBranch(q)
    BY <1>6
  <2>2. /\ publisher[q].batch \subseteq events \ Unsound
        /\ SoundMerges => \A i \in publisher[q].batch :
                             GroupOf[i] \subseteq publisher[q].batch \cup head.events
    BY <1>2, <2>1 DEF MoveBranch, DrainSound, CarriesReady, CarriesWhole
  <2> QED
    BY <1>1, <1>5, <2>1, <2>2 DEF IInv, FailedApart, DoneMeansPublished,
                                  ForeignCommitsKept, MergesWhole
<1>7. CASE \E q \in Processes : AckItem(q) \/ FailItem(q)
  BY <1>3, <1>4, <1>7 DEF IInv, FailedApart, DoneMeansPublished, ForeignCommitsKept,
                          MergesWhole, branch
<1>8. CASE ForeignMove
  <2>1. /\ head'.events = head.events /\ head'.foreign = head.foreign + 1
        /\ foreignMoves' = foreignMoves + 1
        /\ UNCHANGED <<done, failed, events, projected>>
    BY <1>8 DEF ForeignMove, IInv, TypeOK, Trees, receipts
  <2> QED
    BY <2>1 DEF IInv, FailedApart, DoneMeansPublished, ForeignCommitsKept, MergesWhole
<1>9. CASE UNCHANGED <<done, failed, head, foreignMoves>>
  BY <1>1, <1>9 DEF IInv, FailedApart, DoneMeansPublished, ForeignCommitsKept, MergesWhole
<1>10. ASSUME NEW q \in Processes, StartPass(q) \/ WriterStep(q) \/ CoverWindow(q)
       PROVE  UNCHANGED <<done, failed, head, foreignMoves>>
  BY <1>10 DEF receipts, branch, history, StartPass, WriterStep, CoverWindow, Acquire,
         ProbeDone, ProbeNew, CreateReceipt, AppendEvent, HoldWindow, CloseWindow
<1>11. ASSUME NEW q \in Processes, \/ StartDrain(q) \/ FreezeBatch(q) \/ LoseRace(q)
              \/ Materialize(q) \/ AbortDrain(q) \/ EndDrain(q) \/ Crash(q)
       PROVE  UNCHANGED <<done, failed, head, foreignMoves>>
  BY <1>11 DEF receipts, branch, history, StartDrain, FreezeBatch, LoseRace, Materialize,
         AbortDrain, EndDrain, Crash
<1>12. CASE UNCHANGED vars
  BY <1>9, <1>12 DEF vars, receipts, branch, history
<1> QED
  BY <1>6, <1>7, <1>8, <1>9, <1>10, <1>11, <1>12 DEF Next, DrainStep

LEMMA InductiveInvariant ==
    ASSUME OutboxAssumption
    PROVE  Spec => []IInv
<1>1. Init => IInv
  <2>1. SUFFICES ASSUME Init PROVE IInv
    OBVIOUS
  <2>2. TypeOK
    BY <2>1, TypeInit
  <2>3. \A p \in Processes : writer[p] = NoPass /\ publisher[p] = NoDrain
    BY <2>1 DEF Init
  <2>4. ReceiptFirst /\ OneAtATime
    BY <2>3 DEF ReceiptFirst, OneAtATime, NoPass
  <2>5. DrainsSound
    BY <2>3 DEF DrainsSound, DrainSound, NoDrain
  <2>6. FailedApart /\ EventHasReceipt /\ DoneMeansPublished /\ ForeignCommitsKept /\ MergesWhole
    BY <2>1 DEF Init, Root, FailedApart, EventHasReceipt, DoneMeansPublished,
                ForeignCommitsKept, MergesWhole
  <2> QED
    BY <2>2, <2>4, <2>5, <2>6 DEF IInv
<1>2. IInv /\ [Next]_vars => IInv'
  <2>1. SUFFICES ASSUME IInv, [Next]_vars PROVE IInv'
    OBVIOUS
  <2>2. TypeOK'
    BY <2>1, TypeStep DEF IInv
  <2>3. ReceiptFirst' /\ EventHasReceipt'
    BY <2>1, ReceiptStep DEF IInv
  <2>4. DrainsSound' /\ OneAtATime'
    BY <2>1, DrainsStep, OneAtATimeStep DEF IInv
  <2>5. /\ FailedApart' /\ DoneMeansPublished' /\ ForeignCommitsKept'
        /\ SoundMerges => MergesWhole'
    BY <2>1, SettledStep
  <2> QED
    BY <2>2, <2>3, <2>4, <2>5 DEF IInv
<1> QED
  BY <1>1, <1>2, PTL DEF Spec

-----------------------------------------------------------------------------
(* The variables keep their shape, and whoever holds the canonical mutation *)
(* barrier is inside the section it protects: never two at once.            *)
THEOREM OutboxTypeCorrect == Spec => []TypeOK
<1>1. IInv => TypeOK
  BY DEF IInv
<1> QED
  BY <1>1, InductiveInvariant, OutboxAssumption, PTL

(* An acceptance cut off anywhere leaves no event without its receipt.      *)
THEOREM ReceiptsPrecedeEvents == Spec => []EventHasReceipt
<1>1. IInv => EventHasReceipt
  BY DEF IInv
<1> QED
  BY <1>1, InductiveInvariant, OutboxAssumption, PTL

(* A receipt in done/ is published, for any number of processes, crashes    *)
(* and lost races.                                                          *)
THEOREM DoneIsPublished == Spec => []DoneMeansPublished
<1>1. IInv => DoneMeansPublished
  BY DEF IInv
<1> QED
  BY <1>1, InductiveInvariant, OutboxAssumption, PTL

(* No foreign commit is ever dropped from the branch.                       *)
THEOREM ForeignCommitsSurvive == Spec => []ForeignCommitsKept
<1>1. IInv => ForeignCommitsKept
  BY DEF IInv
<1> QED
  BY <1>1, InductiveInvariant, OutboxAssumption, PTL

(* Without contradictory receipts in merges, no merge is split.             *)
THEOREM MergesNeverSplit == ASSUME SoundMerges PROVE Spec => []MergesWhole
<1>1. IInv => MergesWhole
  BY SoundMerges DEF IInv
<1> QED
  BY <1>1, InductiveInvariant, OutboxAssumption, PTL

(* Every step of the protocol is a step of KnowledgeDelivery or nothing.    *)
Same == UNCHANGED <<open, events, head.events, failed>>

LEMMA AcceptStep ==
    ASSUME IInv, NEW p \in Processes, AppendEvent(p)
    PROVE  Delivery!Accept \/ Same
<1>1. PICK i \in Items : writer[p].item = {i}
  BY DEF IInv, OneAtATime, AppendEvent
<1>2. events' = events \cup {i} /\ UNCHANGED <<open, head.events, failed>>
  BY <1>1 DEF AppendEvent, receipts, branch
<1> QED
  BY <1>2 DEF Delivery!Accept, Same

LEMMA DeliverStep ==
    ASSUME OutboxAssumption, SoundMerges, IInv, NEW p \in Processes, MoveBranch(p)
    PROVE  Delivery!Deliver \/ Same
<1> DEFINE work == publisher[p].batch \ head.events
<1>1. DrainSound(publisher[p]) /\ publisher[p].phase = "publish"
  BY DEF IInv, DrainsSound, MoveBranch
<1>2. head'.events = head.events \cup work /\ UNCHANGED <<open, events, failed>>
  <2>1. publisher[p].batch \subseteq publisher[p].frozen.events
           => publisher[p].batch \subseteq head.events
    BY <1>1 DEF DrainSound, CarriesWhole
  <2> QED
    BY <2>1 DEF MoveBranch, IInv, TypeOK, Trees, receipts
<1>3. work \subseteq events \ (head.events \cup failed)
  BY <1>1 DEF DrainSound, CarriesReady, IInv, FailedApart
<1>4. ASSUME NEW i \in work
      PROVE  WindowOf[i] \notin open /\ GroupOf[i] \subseteq work
  <2>1. WindowOf[i] \notin open /\ GroupOf[i] \subseteq publisher[p].batch \cup head.events
    BY <1>1 DEF DrainSound, CarriesReady, CarriesWhole
  <2>2. i \in Items
    BY <1>3 DEF IInv, TypeOK
  <2>3. ASSUME NEW j \in GroupOf[i], j \in head.events
        PROVE  FALSE
    <3>1. GroupOf[j] = GroupOf[i] /\ i \in GroupOf[i]
      BY <2>2, <2>3 DEF IInv, TypeOK, Trees, OutboxAssumption
    <3>2. GroupOf[j] \subseteq head.events
      BY <2>3 DEF IInv, MergesWhole
    <3> QED
      BY <3>1, <3>2
  <2> QED
    BY <2>1, <2>3
<1>5. CASE work = {}
  BY <1>2, <1>5 DEF Same
<1>6. CASE work # {}
  <2> HIDE DEF work
  <2> QED
    BY <1>2, <1>3, <1>4, <1>6 DEF Delivery!Deliver, Delivery!Settled, Delivery!Closed
<1> QED
  BY <1>5, <1>6

LEMMA RefuseStep ==
    ASSUME SoundMerges, IInv, NEW p \in Processes, FailItem(p)
    PROVE  Delivery!Refuse \/ Same
<1>1. DrainSound(publisher[p]) /\ publisher[p].phase = "settle"
  BY DEF IInv, DrainsSound, FailItem
<1>2. PICK i \in publisher[p].invalid :
         failed' = IF i \in pending THEN failed \cup {i} ELSE failed
  BY DEF FailItem
<1>3. UNCHANGED <<open, events, head.events>>
  BY DEF FailItem, branch
<1>4. i \in Unsound /\ WindowOf[i] \notin open
  BY <1>1 DEF DrainSound, CarriesReady
<1>5. i \notin head.events
  BY <1>4 DEF IInv, FailedApart
<1>6. CASE i \in pending \ failed
  <2>1. i \in Items
    BY <1>6 DEF IInv, TypeOK
  <2> QED
    BY <1>2, <1>3, <1>4, <1>5, <1>6, <2>1
       DEF Delivery!Refuse, Delivery!Settled, Delivery!Closed
<1>7. CASE i \notin pending \ failed
  BY <1>2, <1>3, <1>7 DEF Same
<1> QED
  BY <1>6, <1>7

LEMMA DeliveryStep ==
    ASSUME OutboxAssumption, SoundMerges, IInv, [Next]_vars
    PROVE  Delivery!Next \/ Same
<1>1. ASSUME NEW p \in Processes, CloseWindow(p) \/ CoverWindow(p)
      PROVE  Delivery!Close \/ Same
  <2>1. UNCHANGED <<events, head.events, failed>>
    BY <1>1 DEF CloseWindow, CoverWindow, receipts, branch
  <2>2. \E w : open' = open \ {w}
    BY <1>1 DEF CloseWindow, CoverWindow
  <2> QED
    BY <2>1, <2>2 DEF Delivery!Close, Same
<1>2. ASSUME NEW p \in Processes,
             \/ StartPass(p) \/ Acquire(p) \/ ProbeDone(p) \/ ProbeNew(p)
             \/ CreateReceipt(p) \/ HoldWindow(p)
      PROVE  Same
  BY <1>2 DEF StartPass, Acquire, ProbeDone, ProbeNew, CreateReceipt, HoldWindow,
              receipts, branch, Same
<1>3. ASSUME NEW p \in Processes,
             \/ StartDrain(p) \/ FreezeBatch(p) \/ LoseRace(p) \/ Materialize(p)
             \/ AbortDrain(p) \/ AckItem(p) \/ EndDrain(p) \/ Crash(p)
      PROVE  Same
  BY <1>3 DEF StartDrain, FreezeBatch, LoseRace, Materialize, AbortDrain, AckItem,
              EndDrain, Crash, receipts, branch, Same
<1>4. CASE ForeignMove
  BY <1>4 DEF ForeignMove, IInv, TypeOK, Trees, receipts, Same
<1>5. CASE UNCHANGED vars
  BY <1>5 DEF vars, receipts, branch, Same
<1> QED
  BY <1>1, <1>2, <1>3, <1>4, <1>5, AcceptStep, DeliverStep, RefuseStep
     DEF Next, WriterStep, DrainStep, Delivery!Next

(* The protocol implements what KnowledgeDelivery promises, for every       *)
(* number of processes, events, merges and crashes.                         *)
THEOREM OutboxImplementsDelivery == ASSUME SoundMerges PROVE Spec => ImplementsDelivery
<1>1. Init => Delivery!Init
  BY DEF Init, Delivery!Init, Root
<1>2. IInv /\ [Next]_vars => [Delivery!Next]_(Delivery!deliveryVars)
  <2>1. SUFFICES ASSUME IInv, [Next]_vars PROVE Delivery!Next \/ Same
    BY DEF Same, Delivery!deliveryVars
  <2> QED
    BY <2>1, DeliveryStep, OutboxAssumption, SoundMerges
<1>3. Spec => []IInv
  BY InductiveInvariant, OutboxAssumption
<1> QED
  BY <1>1, <1>2, <1>3, PTL DEF Spec, ImplementsDelivery, Delivery!Spec
=============================================================================
