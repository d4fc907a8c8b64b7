---------------------------- MODULE CanonicalDrain ----------------------------
(***************************************************************************)
(* How content becomes a commit: the drains and the startup recovery of    *)
(* extensions/_shared/canonical-git-runtime.ts over the recovery journal   *)
(* of convergence-recovery.ts.  A drain freezes an exact operation (base   *)
(* commit, cohort of files, what the index holds of them), and takes it    *)
(* through claim, prepared commit, compare-and-swap of the branch, and     *)
(* convergence of the shared index.  Each transition is a row of the       *)
(* journal; rows are files of the same repository and ride along in later  *)
(* cohorts.  Everything between entry and return runs under the canonical  *)
(* barrier (module CanonicalBarrier); writers of content, ordinary git     *)
(* commits and crashes do not wait for it.                                 *)
(*                                                                         *)
(* A startup attempt whose inputs drifted starts over, so an attempt that  *)
(* goes on sees current files; the model has only attempts that go on.     *)
(***************************************************************************)
EXTENDS Naturals, Sequences, FiniteSets

CONSTANTS
    Procs,
    Contents,    \* L1/L2 content files, each written once
    Budget,      \* RECOVERY_LANE_BUDGETS.drain: slots of an episode
    MaxFaults,   \* bound: crashes and failed operations
    MaxForeign   \* bound: commits made by hand

ASSUME DrainAssumption ==
    /\ Budget \in Nat \ {0}
    /\ MaxFaults \in Nat
    /\ MaxForeign \in Nat

VARIABLES
    commits,     \* commit objects: ancestors, itself included, and the canonical files
    head,        \* the branch
    index,       \* canonical files in the shared index
    work,        \* content files in the working tree
    rows,        \* journal rows <<episode, slot, type>>, files as well
    ops,         \* the exact operation of each episode, and its candidate
    at,          \* [Procs -> where the process is]
    told,        \* [Procs -> the answer of its last drain]
    faults, foreign   \* history

diskVars == <<commits, head, index, work, rows, ops>>
vars == <<diskVars, at, told, faults, foreign>>

Inside == {"episodes", "claim", "prepare", "recover", "cas", "published",
           "target", "index", "converged", "abort", "terminal", "answer", "disposition"}
RowTypes == {"claimed", "prepared", "published", "converged", "aborted", "terminal"}
Outside(l) == [pc |-> l, ep |-> 0, slot |-> 0, via |-> "none", target |-> {}]

Init ==
    /\ commits = <<[anc |-> {1}, tree |-> {}]>>
    /\ head = 1
    /\ index = {} /\ work = {} /\ rows = {}
    /\ ops = <<>>
    /\ at = [p \in Procs |-> Outside("cold")]
    /\ told = [p \in Procs |-> "none"]
    /\ faults = 0 /\ foreign = 0

-----------------------------------------------------------------------------
(* The repository.  Files never change, so git status is set arithmetic.    *)
Tree(c) == commits[c].tree
Anc(c) == commits[c].anc
Dirty == (work \cup rows) \ Tree(head)
Staged == (index \ Tree(head)) \cup (Tree(head) \ index)

(* assertReachableRecoveryRetention: no reachable commit's rows are missing *)
(* from the head.                                                           *)
HistoryAccepted == \A c \in Anc(head) : (Tree(c) \cap rows) \subseteq Tree(head)

-----------------------------------------------------------------------------
(* The fold of an episode's rows.  A prepared row proves that an abort was  *)
(* decided from a stale fold, and takes the terminal of that slot with it.  *)
Episodes == 1 .. Len(ops)
Has(e, s, type) == <<e, s, type>> \in rows
Last(e) == Cardinality({s \in 1 .. Budget : Has(e, s, "claimed")})
Prepared(e) == Has(e, Last(e), "prepared")
Published(e) == Has(e, Last(e), "published")
Aborted(e, s) == Has(e, s, "aborted") /\ ~Has(e, s, "prepared")
Complete(e) == \E s \in 1 .. Budget : Has(e, s, "converged")
Terminal(e) ==
    \E s \in 1 .. Budget :
        Has(e, s, "terminal") /\ ~(Has(e, s, "prepared") /\ Has(e, s, "aborted"))
Open == {e \in Episodes : ~Complete(e) /\ ~Terminal(e)}
Pending(e) ==
    /\ Last(e) > 0
    /\ ~Aborted(e, Last(e)) /\ ~Has(e, Last(e), "converged") /\ ~Terminal(e)

Landed(e) == ops[e].candidate \in Anc(head)

-----------------------------------------------------------------------------
Free == \A p \in Procs : at[p].pc \notin Inside
In(p, l) == at[p].pc = l
Goto(p, l) == at' = [at EXCEPT ![p].pc = l]
AddRow(e, s, type) == rows' = rows \cup {<<e, s, type>>}

Answer(p, what) ==
    /\ at' = [at EXCEPT ![p] = Outside("ready")]
    /\ told' = [told EXCEPT ![p] = what]
Block(p) ==
    /\ at' = [at EXCEPT ![p] = Outside("cold")]
    /\ UNCHANGED told

LookAgain(p) ==
    /\ at' = [at EXCEPT ![p] = [Outside("episodes") EXCEPT !.via = at[p].via]]
    /\ UNCHANGED told

(* A throw.  After a join's compare-and-swap the startup loop goes on, for  *)
(* a number of rounds that is not counted here.                             *)
ThrowUnaware(p) ==
    CASE at[p].via = "drain" -> Answer(p, "error")
      [] at[p].via = "joined" -> LookAgain(p) \/ Block(p)
      [] OTHER -> Block(p)

(* recoverDrainSlotPublicationAware: a drain whose recovery throws looks    *)
(* first whether the irreversible step was taken.                           *)
Recovering == {"recover", "cas", "published", "target", "index", "converged", "abort"}
Throw(p) ==
    IF at[p].via = "drain" /\ at[p].pc \in Recovering
    THEN Goto(p, "disposition") /\ UNCHANGED told
    ELSE ThrowUnaware(p)

(* resolvePublishedPendingAfterRecoverFault                                 *)
Dispose(p) ==
    /\ In(p, "disposition")
    /\ LET e == at[p].ep IN
       Answer(p, IF Prepared(e) /\ (Landed(e) \/ Published(e)) THEN "pending" ELSE "error")
    /\ UNCHANGED <<diskVars, faults, foreign>>

-----------------------------------------------------------------------------
(* requestDrainUnlocked up to its first row.                                *)
OwnRows(e) == {r \in rows : r[1] = e}

(* The plan with the own rows of an unfinished operation left out, if that  *)
(* makes it the same operation.                                             *)
SameOperation(e, plan) ==
    /\ ops[e].base = head
    /\ LET cohort == plan \ OwnRows(e) IN
       ops[e].cohort = cohort /\ ops[e].staged = cohort \cap index
Matching(plan) == {e \in Open \cup {f \in Episodes : Terminal(f)} : SameOperation(e, plan)}

BeginAlways(p, via, plan) ==
    /\ ops' = Append(ops, [base |-> head, cohort |-> plan,
                           staged |-> plan \cap index, candidate |-> 0])
    /\ AddRow(Len(ops) + 1, 1, "claimed")
    /\ at' = [at EXCEPT ![p] = [Outside("prepare") EXCEPT !.ep = Len(ops) + 1,
                                                       !.slot = 1, !.via = via]]
    /\ UNCHANGED told

Refuse(p, via, what) ==
    /\ IF via = "drain" THEN Answer(p, what) ELSE Block(p)
    /\ UNCHANGED <<rows, ops>>

Begin(p, via, plan) ==
    IF Matching(plan) # {}
    THEN \E e \in Matching(plan) :
            IF Terminal(e) THEN Refuse(p, via, "unpublished")
            ELSE IF Open \ {e} # {} THEN Refuse(p, via, "error")
            ELSE /\ at' = [at EXCEPT ![p] = [Outside("claim") EXCEPT !.ep = e, !.via = via]]
                 /\ UNCHANGED <<rows, ops, told>>
    ELSE IF Open # {} THEN Refuse(p, via, "error")
    ELSE BeginAlways(p, via, plan)

(* A ready process drains what a writer hands it.  What is staged or dirty  *)
(* besides stands in the way, except the journal's own rows.                *)
RequestDrain(p) ==
    /\ In(p, "ready") /\ Free
    /\ \E receipts \in (SUBSET work) \ {{}} :
          LET plan == (receipts \cup rows) \ Tree(head) IN
          IF Staged \ receipts # {} \/ (Dirty \cap Contents) \ receipts # {}
          THEN Refuse(p, "drain", "error")
          ELSE IF plan \cap Contents = {}
          THEN Answer(p, "none") /\ UNCHANGED <<rows, ops>>
          ELSE IF ~HistoryAccepted
          THEN Refuse(p, "drain", "error")
          ELSE Begin(p, "drain", plan)
    /\ UNCHANGED <<commits, head, index, work, faults, foreign>>

-----------------------------------------------------------------------------
(* The steps of an operation.                                               *)

(* claimNextRecoverySlotV3, and recovery of a pending slot                  *)
ClaimOf(p, e, next) ==
    IF Pending(e)
    THEN /\ at' = [at EXCEPT ![p].pc = "recover", ![p].ep = e, ![p].slot = Last(e)]
         /\ UNCHANGED rows
    ELSE IF Last(e) = Budget
    THEN /\ at' = [at EXCEPT ![p].pc = "terminal", ![p].ep = e, ![p].slot = Budget]
         /\ UNCHANGED rows
    ELSE /\ AddRow(e, Last(e) + 1, "claimed")
         /\ at' = [at EXCEPT ![p].pc = next, ![p].ep = e, ![p].slot = Last(e) + 1]

Claim(p) ==
    /\ In(p, "claim")
    /\ ClaimOf(p, at[p].ep, "prepare")
    /\ UNCHANGED <<commits, head, index, work, ops, told, faults, foreign>>

(* prepareExactCohortCommit and recordDrainPreparedV3: the same operation   *)
(* always yields the same commit object.                                    *)
Prepare(p) ==
    /\ In(p, "prepare")
    /\ LET e == at[p].ep
           base == ops[e].base IN
       /\ commits' = Append(commits, [anc |-> Anc(base) \cup {Len(commits) + 1},
                                      tree |-> Tree(base) \cup ops[e].cohort])
       /\ ops' = [ops EXCEPT ![e].candidate = Len(commits) + 1]
       /\ AddRow(e, at[p].slot, "prepared")
    /\ Goto(p, "recover")
    /\ UNCHANGED <<head, index, work, told, faults, foreign>>

(* recoverDrainSlotV3 looks at the slot and at the branch.                  *)
Recover(p) ==
    /\ In(p, "recover")
    /\ LET e == at[p].ep IN
       IF ~Prepared(e) THEN Goto(p, "abort") /\ UNCHANGED told
       ELSE IF ~Published(e) /\ head = ops[e].base THEN Goto(p, "cas") /\ UNCHANGED told
       ELSE IF ~Landed(e) THEN Throw(p)
       ELSE Goto(p, IF Published(e) THEN "target" ELSE "published") /\ UNCHANGED told
    /\ UNCHANGED <<diskVars, faults, foreign>>

(* canonicalRefMovePrimitive: the gate, then update-ref with the old value. *)
CasForced(p) ==
    /\ In(p, "cas")
    /\ head' = ops[at[p].ep].candidate
    /\ Goto(p, "published")
    /\ UNCHANGED <<commits, index, work, rows, ops, told, faults, foreign>>

Cas(p) ==
    /\ In(p, "cas")
    /\ LET e == at[p].ep IN
       IF HistoryAccepted /\ Open = {e} /\ head = ops[e].base
       THEN /\ head' = ops[e].candidate
            /\ Goto(p, "published")
            /\ UNCHANGED told
       ELSE Throw(p) /\ UNCHANGED head
    /\ UNCHANGED <<commits, index, work, rows, ops, faults, foreign>>

RecordPublished(p) ==
    /\ In(p, "published")
    /\ AddRow(at[p].ep, at[p].slot, "published")
    /\ Goto(p, "target")
    /\ UNCHANGED <<commits, head, index, work, ops, told, faults, foreign>>

(* convergeExactCohortIndex reads the branch, and then writes the index.    *)
LeaveIndex(p) ==
    /\ In(p, "target")
    /\ Goto(p, "converged")
    /\ UNCHANGED <<diskVars, told, faults, foreign>>

ReadTarget(p) ==
    /\ In(p, "target")
    /\ at' = [at EXCEPT ![p].pc = "index",
                        ![p].target = ops[at[p].ep].cohort \cap Tree(head)]
    /\ UNCHANGED <<diskVars, told, faults, foreign>>

ConvergeIndex(p) ==
    /\ In(p, "index")
    /\ LET o == ops[at[p].ep]
           target == at[p].target IN
       IF \A f \in o.cohort : (f \in index <=> f \in target) \/ (f \in index <=> f \in o.staged)
       THEN /\ index' = (index \ o.cohort) \cup target
            /\ at' = [at EXCEPT ![p].pc = "converged", ![p].target = {}]
            /\ UNCHANGED told
       ELSE Throw(p) /\ UNCHANGED index
    /\ UNCHANGED <<commits, head, work, rows, ops, faults, foreign>>

(* After an operation of its own recovery a startup looks again.  A drain   *)
(* asks git for the commit that it answers with.                            *)
RecordConverged(p) ==
    /\ In(p, "converged")
    /\ AddRow(at[p].ep, at[p].slot, "converged")
    /\ IF at[p].via \in {"drain", "backlog"} THEN Goto(p, "answer") /\ UNCHANGED told
       ELSE LookAgain(p)
    /\ UNCHANGED <<commits, head, index, work, ops, faults, foreign>>

(* After its backlog a startup is ready.                                    *)
AnswerDurable(p) ==
    /\ In(p, "answer")
    /\ IF at[p].via = "drain" THEN Answer(p, "durable")
       ELSE IF HistoryAccepted THEN at' = [at EXCEPT ![p] = Outside("ready")] /\ UNCHANGED told
       ELSE Block(p)
    /\ UNCHANGED <<diskVars, faults, foreign>>

(* abortRecoverySlotV3AfterRefold: a claim without a commit is burned, the  *)
(* last one ends the episode.                                               *)
Abort(p) ==
    /\ In(p, "abort")
    /\ AddRow(at[p].ep, at[p].slot, "aborted")
    /\ IF at[p].slot = Budget THEN Goto(p, "terminal")
       ELSE IF at[p].via \in {"drain", "backlog"} THEN Goto(p, "claim")
       ELSE LookAgain(p)
    /\ UNCHANGED <<commits, head, index, work, ops, told, faults, foreign>>

EndEpisode(p) ==
    /\ In(p, "terminal")
    /\ AddRow(at[p].ep, at[p].slot, "terminal")
    /\ CASE at[p].via = "drain" -> Answer(p, "unpublished")
         [] at[p].via = "backlog" -> Block(p)
         [] OTHER -> LookAgain(p)
    /\ UNCHANGED <<commits, head, index, work, ops, faults, foreign>>
-----------------------------------------------------------------------------
(* Startup: recoverStartupEpisodesUnlocked, then the backlog, then ready.   *)
Startup(p) ==
    /\ In(p, "cold") /\ Free
    /\ HistoryAccepted
    /\ at' = [at EXCEPT ![p] = [Outside("episodes") EXCEPT !.via = "startup"]]
    /\ told' = [told EXCEPT ![p] = "none"]
    /\ UNCHANGED <<diskVars, faults, foreign>>

(* Candidate and branch have grown apart.                                   *)
Sibling(e) ==
    /\ Pending(e) /\ Prepared(e) /\ ~Published(e)
    /\ ~Landed(e) /\ head \notin Anc(ops[e].candidate)

(* A startup claims, too, and burns what it claims: it has no content to    *)
(* prepare a commit from.                                                   *)
ResumeEpisode(p) ==
    /\ In(p, "episodes")
    /\ \E e \in Open : ~Sibling(e) /\ ClaimOf(p, e, "recover")
    /\ UNCHANGED <<commits, head, index, work, ops, told, faults, foreign>>

(* runCsjInBarrier: a certified merge of both, if nothing speaks against it *)
(* (the eligibility clauses are not modelled).                              *)
Join(p) ==
    /\ In(p, "episodes")
    /\ \E e \in Open :
          /\ Sibling(e) /\ Open = {e} /\ HistoryAccepted
          /\ LET c == ops[e].candidate IN
             commits' = Append(commits, [anc |-> Anc(head) \cup Anc(c) \cup {Len(commits) + 1},
                                         tree |-> Tree(head) \cup Tree(c)])
          /\ at' = [at EXCEPT ![p].pc = "recover", ![p].ep = e,
                              ![p].slot = Last(e), ![p].via = "joined"]
    /\ head' = Len(commits) + 1
    /\ UNCHANGED <<index, work, rows, ops, told, faults, foreign>>

RefuseJoin(p) ==
    /\ In(p, "episodes")
    /\ \E e \in Open : Sibling(e)
    /\ Block(p)
    /\ UNCHANGED <<diskVars, faults, foreign>>

(* requestBacklogPreflightUnlocked and the drain of everything it finds     *)
BacklogNever(p) ==
    /\ In(p, "episodes") /\ Open = {}
    /\ at' = [at EXCEPT ![p] = Outside("ready")]
    /\ UNCHANGED <<diskVars, told, faults, foreign>>

Backlog(p) ==
    /\ In(p, "episodes") /\ Open = {}
    /\ IF Staged # {} \/ ~HistoryAccepted
       THEN Block(p) /\ UNCHANGED <<rows, ops>>
       ELSE IF Dirty \cap Contents = {}
       THEN at' = [at EXCEPT ![p] = Outside("ready")] /\ UNCHANGED <<rows, ops, told>>
       ELSE Begin(p, "backlog", Dirty)
    /\ UNCHANGED <<commits, head, index, work, faults, foreign>>

-----------------------------------------------------------------------------
(* The environment.                                                         *)
Write(c) ==
    /\ c \notin work
    /\ work' = work \cup {c}
    /\ UNCHANGED <<commits, head, index, rows, ops, at, told, faults, foreign>>

(* git commit by hand, which commits the index                              *)
ForeignCommit ==
    /\ foreign < MaxForeign
    /\ foreign' = foreign + 1
    /\ commits' = Append(commits, [anc |-> Anc(head) \cup {Len(commits) + 1}, tree |-> index])
    /\ head' = Len(commits) + 1
    /\ UNCHANGED <<index, work, rows, ops, at, told, faults>>

Fault(p) ==
    /\ at[p].pc \in Inside
    /\ faults < MaxFaults
    /\ faults' = faults + 1
    /\ Throw(p)
    /\ UNCHANGED <<diskVars, foreign>>

(* The process dies, and a session starts anew.                             *)
Crash(p) ==
    /\ at[p].pc \in Inside
    /\ faults < MaxFaults
    /\ faults' = faults + 1
    /\ Block(p)
    /\ UNCHANGED <<diskVars, foreign>>

Restart(p) ==
    /\ In(p, "ready")
    /\ at' = [at EXCEPT ![p] = Outside("cold")]
    /\ told' = [told EXCEPT ![p] = "none"]
    /\ UNCHANGED <<diskVars, faults, foreign>>

Step(p) ==
    \/ ResumeEpisode(p) \/ Join(p) \/ RefuseJoin(p) \/ Backlog(p)
    \/ Claim(p) \/ Prepare(p) \/ Recover(p) \/ Cas(p) \/ RecordPublished(p)
    \/ ReadTarget(p) \/ ConvergeIndex(p) \/ RecordConverged(p)
    \/ AnswerDurable(p) \/ Dispose(p) \/ Abort(p) \/ EndEpisode(p)

Next ==
    \/ \E p \in Procs :
          \/ RequestDrain(p) \/ Startup(p) \/ Step(p)
          \/ Fault(p) \/ Crash(p) \/ Restart(p)
    \/ \E c \in Contents : Write(c)
    \/ ForeignCommit

Spec == Init /\ [][Next]_vars

(* What has entered the barrier goes on; sessions end and others begin, and *)
(* a startup gets its turn.                                                 *)
FairSpec ==
    /\ Spec
    /\ \A p \in Procs :
          WF_vars(Step(p)) /\ SF_vars(Startup(p)) /\ WF_vars(Restart(p))

-----------------------------------------------------------------------------
TypeOK ==
    /\ head \in 1 .. Len(commits)
    /\ \A c \in 1 .. Len(commits) : c \in Anc(c) /\ Anc(c) \subseteq 1 .. c
    /\ work \subseteq Contents
    /\ rows \subseteq Episodes \X (1 .. Budget) \X RowTypes
    /\ (index \cup Tree(head)) \subseteq (work \cup rows)
    /\ \A e \in Episodes : ops[e].candidate \in 0 .. Len(commits)
    /\ \A p, q \in Procs : at[p].pc \in Inside /\ at[q].pc \in Inside => p = q
    /\ told \in [Procs -> {"none", "durable", "pending", "unpublished", "error"}]
    /\ faults \in 0 .. MaxFaults /\ foreign \in 0 .. MaxForeign

(* The fold never meets rows that contradict each other, whoever wrote them *)
(* before which crash, and at most one operation is unresolved: either      *)
(* would put the journal in quarantine and block every process for good     *)
(* (convergence-recovery.ts:752, canonical-git-runtime.ts:2827).            *)
SlotSound(e, s) ==
    /\ (\E t \in RowTypes : Has(e, s, t)) => \A r \in 1 .. s : Has(e, r, "claimed")
    /\ Has(e, s, "published") => Has(e, s, "prepared")
    /\ Has(e, s, "converged") => Has(e, s, "published")
    /\ Has(e, s, "prepared") /\ Has(e, s, "terminal") => Has(e, s, "aborted")
JournalSound ==
    /\ Cardinality(Open) <= 1
    /\ \A e \in Episodes :
          /\ \A s \in 1 .. Budget : SlotSound(e, s)
          /\ ~(Complete(e) /\ Terminal(e))
          /\ Complete(e) \/ Terminal(e) =>
                 \A s, r \in 1 .. Budget :
                     (Has(e, s, "converged") \/ Has(e, s, "terminal")) /\ Has(e, r, "claimed")
                     => r <= s

(* What has been on the branch stays on it: each operation that the journal *)
(* calls published, and each commit made by hand, which no recovery may     *)
(* take for the base of its own (canonical-ref-move.ts:409).                *)
PublishedStays ==
    /\ \A e \in Episodes : (\E s \in 1 .. Budget : Has(e, s, "published")) => Landed(e)
    /\ \A c \in 1 .. Len(commits) :
          (\A e \in Episodes : ops[e].candidate # c) => c \in Anc(head)

(* When no operation is unresolved, the index agrees with the branch: a     *)
(* commit made by hand then takes nothing back that a drain has published.  *)
(* Commits made by hand during a convergence are another matter             *)
(* (git-exact-cohort.ts:454).                                               *)
IndexAgrees == foreign = 0 /\ Free /\ Open = {} => Staged = {}

(* An answer is true, whatever failed on the way: durable and pending mean  *)
(* that the commit is on the branch, unpublished that it is not, and an     *)
(* error that it is not either, unless git failed once more: after the      *)
(* operation had converged, or as the handler of an earlier failure asked   *)
(* what had become of the commit (canonical-git-runtime.ts:1370,            *)
(* canonical-git-runtime.ts:2875).                                          *)
ReportTruthful ==
    [][\A p \in Procs :
          at[p].pc \in Inside /\ at[p].via = "drain" /\ at'[p].pc = "ready" =>
             LET landed == ops[at[p].ep].candidate \in Anc(head) IN
             /\ told'[p] \in {"durable", "pending"} => landed
             /\ told'[p] = "unpublished" => ~landed
             /\ told'[p] = "error" /\ landed =>
                    faults' # faults /\ at[p].pc \in {"answer", "disposition"}]_vars

(* Written content is in the branch in the end, whatever crashed or failed  *)
(* on the way, unless the owner has been asked: an operation on the present *)
(* base has used up its slots, a candidate could not be joined, or a commit *)
(* made by hand collided with a convergence                                 *)
(* (canonical-git-runtime.ts:1902).                                         *)
OwnerAsked ==
    \/ \E e \in Episodes : Terminal(e) /\ ops[e].base = head
    \/ \E e \in Open : Sibling(e)
    \/ foreign > 0 /\ (Staged # {} \/ ~HistoryAccepted)
EventuallyDurable == <>[](work \subseteq Tree(head) \/ OwnerAsked)
=============================================================================
