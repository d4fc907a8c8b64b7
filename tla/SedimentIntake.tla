--------------------------- MODULE SedimentIntake ---------------------------
(***************************************************************************)
(* The durable path of a turn through sediment: agent_end captures the     *)
(* branch tip as a pending intake record and enqueues a job, a job claims  *)
(* its record, restores the frozen branch and runs a pass, the pass        *)
(* evaluates windows, saves the session's checkpoint and acknowledges the  *)
(* records the checkpoint covers (extensions/sediment/index.ts and         *)
(* intake.ts).  One session of one project, shared by several processes:   *)
(* the session file, the checkpoint and the intake directory are durable,  *)
(* each process has its own queue slot for the session (AgentEndQueue with *)
(* one key) and loses it when it dies.  An action is the stretch between   *)
(* two awaits that touch shared files.                                     *)
(***************************************************************************)
EXTENDS SedimentCheckpoint

CONSTANTS
    Processes,
    Drafts,           \* entries that hold an explicit MEMORY block
    LegacyEntries,    \* entries processed before checkpoints recorded lineage
    MaxDrains,        \* AGENT_END_BACKLOG_WINDOWS_PER_TURN
    MaxEntries,       \* bound: entries of the session
    MaxCrashes        \* bound: processes killed

ASSUME IntakeAssumption ==
    /\ MaxDrains \in Nat
    /\ MaxEntries \in Nat
    /\ MaxCrashes \in Nat
    /\ LegacyEntries \in 0 .. MaxEntries
    /\ Drafts \subseteq 1 .. MaxEntries

VARIABLES
    session,      \* the session file: the branch from the root to each entry
    intake,       \* the receipt of each tip: "none", "pending", "acked"
    unhealthy,    \* the receipts that say the turn ended in "error" or "aborted"
    checkpoint,   \* the session's slot of the checkpoint file
    alive,        \* processes running
    scan,         \* the tip a recovery scan selected and has not enqueued yet
    queued,       \* the tip of the session's queued job
    pass,         \* the running job
    evaluated,    \* history: entries of windows whose outcome was terminal
    written,      \* history: drafts the writer gave a terminal result
    crashes       \* history

vars == <<session, intake, unhealthy, checkpoint, alive, scan, queued, pass,
          evaluated, written, crashes>>
durable == <<session, intake, unhealthy, checkpoint>>
history == <<evaluated, written, crashes>>

-----------------------------------------------------------------------------
Entries == 1 .. MaxEntries
NoTip == 0
Pending == {e \in Entries : intake[e] = "pending"}
BranchTo(e) == IF e = NoEntry THEN <<>> ELSE session[e]

Idle == [phase |-> "idle"]
NewPass(tip) ==
    [phase |-> "start", tip |-> tip, start |-> FreshCheckpoint,
     loaded |-> FreshCheckpoint, window |-> <<>>, keys |-> {}, advance |-> FALSE,
     drains |-> 0, toAck |-> {}]

Branch(p) == session[pass[p].tip]
Explicit(p) == Drafts \cap Range(pass[p].window)

(* A field of the pass record is reset once the code has no more use of it. *)
(* The phase that follows a window: only the background lanes go on         *)
(* draining, the explicit lane of the main window ends the pass.            *)
InMainExplicitLane(p) == pass[p].drains = 0 /\ Explicit(p) # {}
AfterWindow(p) == IF InMainExplicitLane(p) THEN "end" ELSE "drain"

Legacy == [e \in 1 .. LegacyEntries |-> [i \in 1 .. e |-> i]]

Init ==
    /\ session = Legacy
    /\ intake = [e \in Entries |-> "none"]
    /\ unhealthy = {}
    /\ checkpoint = LegacyCheckpoint(LegacyEntries)
    /\ alive = Processes
    /\ scan = [p \in Processes |-> NoTip]
    /\ queued = [p \in Processes |-> NoTip]
    /\ pass = [p \in Processes |-> Idle]
    /\ evaluated = 1 .. LegacyEntries
    /\ written = Drafts \cap (1 .. LegacyEntries)
    /\ crashes = 0

-----------------------------------------------------------------------------
(* agent_end: the turn has appended an entry under `parent'.  The receipt   *)
(* is made durable before the job is enqueued, and replaces the queued one; *)
(* when it cannot be written nothing is enqueued.  Nor is it when the       *)
(* boundary to sub-agents is untrusted: the handler returns before it       *)
(* captures, so no receipt of such a turn exists.                           *)
Turn(p, parent) ==
    LET tip == Len(session) + 1 IN
    /\ p \in alive
    /\ Len(session) < MaxEntries
    /\ session' = Append(session, Append(BranchTo(parent), tip))
    /\ \/ /\ intake' = [intake EXCEPT ![tip] = "pending"]
          /\ unhealthy' \in {unhealthy, unhealthy \cup {tip}}
          /\ queued' = [queued EXCEPT ![p] = tip]
       \/ UNCHANGED <<intake, unhealthy, queued>>
    /\ UNCHANGED <<checkpoint, alive, scan, pass, history>>

(* session_start: schedulePendingIntakeRecovery lists the pending records   *)
(* and keeps the newest of the session ...                                  *)
RecoveryScan(p) ==
    /\ p \in alive
    /\ scan[p] = NoTip
    /\ \E newest \in Pending :
          /\ \A e \in Pending : e <= newest
          /\ scan' = [scan EXCEPT ![p] = newest]
    /\ UNCHANGED <<durable, alive, queued, pass, history>>

(* ... then reads that record again and enqueues it if it is still there.   *)
RecoveryEnqueue(p) ==
    /\ scan[p] # NoTip
    /\ queued' = IF scan[p] \in Pending
                 THEN [queued EXCEPT ![p] = scan[p]] ELSE queued
    /\ scan' = [scan EXCEPT ![p] = NoTip]
    /\ UNCHANGED <<durable, alive, pass, history>>

-----------------------------------------------------------------------------
(* tryClaimSedimentIntake: an OFD lock per window, held until the job ends  *)
(* or its process dies.                                                     *)
Claimed(tip) == \E q \in Processes : pass[q] # Idle /\ pass[q].tip = tip

(* The job of enqueueSedimentIntakeRecord: the claim is taken and the       *)
(* branch restored from the session file, or the job is over.               *)
StartJob(p) ==
    /\ pass[p] = Idle
    /\ queued[p] # NoTip
    /\ ~Claimed(queued[p])
    /\ pass' = [pass EXCEPT ![p] = NewPass(queued[p])]
    /\ queued' = [queued EXCEPT ![p] = NoTip]
    /\ UNCHANGED <<durable, alive, scan, history>>

(* The window is claimed elsewhere, or the session file cannot be read.     *)
DropJob(p) ==
    /\ pass[p] = Idle
    /\ queued[p] # NoTip
    /\ queued' = [queued EXCEPT ![p] = NoTip]
    /\ UNCHANGED <<durable, alive, scan, pass, history>>

(* The pass notes the checkpoint it starts from.                            *)
StartPass(p) ==
    /\ pass[p].phase = "start"
    /\ pass' = [pass EXCEPT ![p].start = checkpoint, ![p].phase = "open"]
    /\ UNCHANGED <<durable, alive, scan, queued, history>>

(* Settings switched off, or a project that is not bound: the job is over.  *)
Unbound(p) ==
    /\ pass[p].phase = "start"
    /\ pass' = [pass EXCEPT ![p] = Idle]
    /\ UNCHANGED <<durable, alive, scan, queued, history>>

(* The main window of a turn that ended in an error or an abort is not      *)
(* opened, whoever asks and however often: its entries wait for the next    *)
(* healthy turn above them.                                                 *)
MainWindow(p) == pass[p].phase = "open" /\ pass[p].drains = 0

NeverDeferred(p) == FALSE
Deferred(p) == MainWindow(p) /\ pass[p].tip \in unhealthy

SkipUnhealthy(p) ==
    /\ Deferred(p)
    /\ pass' = [pass EXCEPT ![p].phase = "end"]
    /\ UNCHANGED <<durable, alive, scan, queued, history>>

(* The checkpoint is loaded again and the window built from it.             *)
OpenWindow(p) ==
    /\ pass[p].phase = "open" /\ ~Deferred(p)
    /\ \E n \in WindowSizes(Branch(p), checkpoint) :
          pass' = [pass EXCEPT ![p].window = Window(Branch(p), checkpoint, n),
                               ![p].phase = "evaluate"]
    /\ UNCHANGED <<durable, alive, scan, queued, history>>

(* There is nothing to evaluate ...                                         *)
NoWindow(p) ==
    /\ pass[p].phase = "open" /\ ~Deferred(p)
    /\ Candidates(Branch(p), checkpoint) = <<>>
    /\ pass' = [pass EXCEPT ![p].phase = "end"]
    /\ UNCHANGED <<durable, alive, scan, queued, history>>

(* ... or a drain finds a turn in progress, or too little text.             *)
SkipWindow(p) ==
    /\ pass[p].phase = "open" /\ ~MainWindow(p)
    /\ Candidates(Branch(p), checkpoint) # <<>>
    /\ pass' = [pass EXCEPT ![p].phase = "end"]
    /\ UNCHANGED <<durable, alive, scan, queued, history>>

-----------------------------------------------------------------------------
(* The background lane: extractor, classifier and curator settle the whole  *)
(* window, or a transient failure holds it.                                 *)
EvaluateWindow(p) ==
    /\ pass[p].phase = "evaluate"
    /\ Explicit(p) = {}
    /\ evaluated' = evaluated \cup Range(pass[p].window)
    /\ pass' = [pass EXCEPT ![p].advance = TRUE, ![p].phase = "save"]
    /\ UNCHANGED <<durable, alive, scan, queued, written, crashes>>

HoldWindow(p) ==
    /\ pass[p].phase = "evaluate"
    /\ pass' = [pass EXCEPT ![p].phase = AfterWindow(p), ![p].window = <<>>]
    /\ UNCHANGED <<durable, alive, scan, queued, history>>

(* The explicit lane writes the drafts whose key the checkpoint does not    *)
(* hold; `settled' are those with a terminal result.  The watermark may     *)
(* advance only when they all have one.                                     *)
Unwritten(p) ==
    {d \in Explicit(p) : CandidateKey(pass[p].window, d) \notin checkpoint.keys}

KeysOfAll(p, settled) == {CandidateKey(pass[p].window, d) : d \in Explicit(p)}
KeysOf(p, settled) == {CandidateKey(pass[p].window, d) : d \in settled}

WriteDrafts(p) ==
    /\ pass[p].phase = "evaluate"
    /\ Explicit(p) # {}
    /\ \E settled \in SUBSET Unwritten(p) :
          /\ written' = written \cup settled
          /\ evaluated' = IF settled = Unwritten(p)
                          THEN evaluated \cup Range(pass[p].window) ELSE evaluated
          /\ KeysOf(p, settled) # {} \/ settled = Unwritten(p)
          /\ pass' = [pass EXCEPT
                ![p].keys = KeysOf(p, settled),
                ![p].advance = (settled = Unwritten(p)),
                ![p].phase = "save"]
    /\ UNCHANGED <<durable, alive, scan, queued, crashes>>

-----------------------------------------------------------------------------
(* The slot is read once outside the file lock ...                          *)
LoadPrevious(p) ==
    /\ pass[p].phase = "save"
    /\ pass' = [pass EXCEPT ![p].loaded = checkpoint, ![p].phase = "write"]
    /\ UNCHANGED <<durable, alive, scan, queued, history>>

(* ... and every field of it is overwritten under the lock: the watermark   *)
(* with the window's last entry, or with the one read before when only      *)
(* candidate keys are recorded.                                             *)
NewWatermarkAtTip(p) ==
    IF pass[p].advance THEN pass[p].tip ELSE pass[p].loaded.watermark

NewWatermark(p) ==
    IF pass[p].advance THEN pass[p].window[Len(pass[p].window)]
    ELSE pass[p].loaded.watermark

SaveCheckpoint(p) ==
    /\ pass[p].phase = "write"
    /\ checkpoint' = Advanced(NewWatermark(p), Branch(p),
                              pass[p].loaded.keys, pass[p].keys)
    /\ pass' = [pass EXCEPT ![p].phase = AfterWindow(p),
                    ![p].loaded = FreshCheckpoint, ![p].window = <<>>,
                    ![p].keys = {}, ![p].advance = FALSE]
    /\ UNCHANGED <<session, intake, unhealthy, alive, scan, queued, history>>

(* The lock times out or the file cannot be written.  The background lanes  *)
(* catch the error; from the main explicit lane it ends the job.            *)
SaveFails(p) ==
    /\ pass[p].phase = "write"
    /\ pass' = [pass EXCEPT ![p] =
                   IF InMainExplicitLane(p) THEN Idle
                   ELSE [@ EXCEPT !.phase = "drain", !.loaded = FreshCheckpoint,
                                  !.window = <<>>, !.keys = {}, !.advance = FALSE]]
    /\ UNCHANGED <<durable, alive, scan, queued, history>>

(* scheduleDrainIfBacklog: another window within the budget.                *)
DrainAgain(p) ==
    /\ pass[p].phase = "drain"
    /\ pass[p].drains < MaxDrains
    /\ pass' = [pass EXCEPT ![p].drains = @ + 1, ![p].phase = "open"]
    /\ UNCHANGED <<durable, alive, scan, queued, history>>

DrainStops(p) ==
    /\ pass[p].phase = "drain"
    /\ pass' = [pass EXCEPT ![p].phase = "end"]
    /\ UNCHANGED <<durable, alive, scan, queued, history>>

-----------------------------------------------------------------------------
(* The end of the pass: the checkpoint is loaded and compared with the one  *)
(* of its start ...                                                         *)
LoadEnd(p) ==
    /\ pass[p].phase = "end"
    /\ pass' = [pass EXCEPT ![p].loaded = checkpoint, ![p].start = FreshCheckpoint,
                    ![p].drains = 0,
                    ![p].phase = IF AdvancedSince(pass[p].start, checkpoint)
                                 THEN "backlog" ELSE "list"]
    /\ UNCHANGED <<durable, alive, scan, queued, history>>

(* ... and once more to tell whether the frozen tip is still ahead.  With   *)
(* more to do the job is queued again, unless a newer one is queued.        *)
RequeuedAlways(p) == pass[p].tip
Requeued(p) == IF queued[p] = NoTip THEN pass[p].tip ELSE queued[p]

Continue(p) ==
    /\ pass[p].phase = "backlog"
    /\ StillHasBacklog(Branch(p), checkpoint)
    /\ queued' = [queued EXCEPT ![p] = Requeued(p)]
    /\ pass' = [pass EXCEPT ![p] = Idle]
    /\ UNCHANGED <<durable, alive, scan, history>>

NoBacklog(p) ==
    /\ pass[p].phase = "backlog"
    /\ ~StillHasBacklog(Branch(p), checkpoint)
    /\ pass' = [pass EXCEPT ![p].phase = "list"]
    /\ UNCHANGED <<durable, alive, scan, queued, history>>

(* ackCheckpointCoveredIntake: the pending tips of the frozen branch up to  *)
(* the watermark of the end checkpoint.                                     *)
CoveredByBranch(p) == Pending \cap Range(Branch(p))
CoveredBefore(p) ==
    {tip \in Pending \cap Range(Branch(p)) :
        IndexOf(Branch(p), tip, 1) < IndexOf(Branch(p), pass[p].loaded.watermark, 1)}
Covered(p) ==
    {tip \in Pending \cap Range(Branch(p)) :
        IndexOf(Branch(p), tip, 1) <= IndexOf(Branch(p), pass[p].loaded.watermark, 1)}

ListCovered(p) ==
    /\ pass[p].phase = "list"
    /\ pass' = [pass EXCEPT ![p].toAck = Covered(p),
                    ![p].loaded = FreshCheckpoint, ![p].phase = "ack"]
    /\ UNCHANGED <<durable, alive, scan, queued, history>>

(* One rename to the acked directory.  The job may end before: a record     *)
(* that cannot be listed, read or moved stays pending.                      *)
AckOne(p) ==
    /\ pass[p].phase = "ack"
    /\ \E tip \in pass[p].toAck :
          /\ intake' = [intake EXCEPT ![tip] = "acked"]
          /\ pass' = [pass EXCEPT ![p].toAck = @ \ {tip}]
    /\ UNCHANGED <<session, unhealthy, checkpoint, alive, scan, queued, history>>

EndJob(p) ==
    /\ pass[p].phase \in {"list", "ack"}
    /\ pass' = [pass EXCEPT ![p] = Idle]
    /\ UNCHANGED <<durable, alive, scan, queued, history>>

-----------------------------------------------------------------------------
Crash(p) ==
    /\ p \in alive
    /\ crashes < MaxCrashes
    /\ crashes' = crashes + 1
    /\ alive' = alive \ {p}
    /\ scan' = [scan EXCEPT ![p] = NoTip]
    /\ queued' = [queued EXCEPT ![p] = NoTip]
    /\ pass' = [pass EXCEPT ![p] = Idle]
    /\ UNCHANGED <<durable, evaluated, written>>

Restart(p) ==
    /\ p \notin alive
    /\ alive' = alive \cup {p}
    /\ UNCHANGED <<durable, scan, queued, pass, history>>

PassStep(p) ==
    \/ StartPass(p) \/ Unbound(p) \/ SkipUnhealthy(p)
    \/ OpenWindow(p) \/ NoWindow(p) \/ SkipWindow(p)
    \/ EvaluateWindow(p) \/ HoldWindow(p) \/ WriteDrafts(p)
    \/ LoadPrevious(p) \/ SaveCheckpoint(p) \/ SaveFails(p)
    \/ DrainAgain(p) \/ DrainStops(p)
    \/ LoadEnd(p) \/ Continue(p) \/ NoBacklog(p)
    \/ ListCovered(p) \/ AckOne(p) \/ EndJob(p)

Next ==
    \E p \in Processes :
        \/ \E parent \in 0 .. Len(session) : Turn(p, parent)
        \/ RecoveryScan(p) \/ RecoveryEnqueue(p)
        \/ StartJob(p) \/ DropJob(p)
        \/ PassStep(p)
        \/ Crash(p) \/ Restart(p)

Spec == Init /\ [][Next]_vars

(* What the scheduling gives: a job that can start starts and a pass that   *)
(* can step steps.                                                          *)
FairSpec ==
    /\ Spec
    /\ \A p \in Processes : WF_vars(StartJob(p)) /\ WF_vars(PassStep(p))

(* session_start keeps coming, and no failure -- a job dropped, a project   *)
(* unbound, a window held, a save that fails, a record that cannot be moved *)
(* -- prevents the same step for ever.  Nothing is assumed of the opening   *)
(* of a window: whether one is opened depends on the record alone.          *)
RecoveryRecurs ==
    \A p \in Processes :
        /\ WF_vars(Restart(p))
        /\ SF_vars(RecoveryScan(p)) /\ SF_vars(RecoveryEnqueue(p))
        /\ SF_vars(StartJob(p)) /\ SF_vars(StartPass(p))
        /\ SF_vars(EvaluateWindow(p))
        /\ SF_vars(SaveCheckpoint(p)) /\ SF_vars(ListCovered(p)) /\ SF_vars(AckOne(p))

-----------------------------------------------------------------------------
(* Every variable keeps its shape.                                          *)
Checkpoints ==
    [watermark : 0 .. MaxEntries,
     spine : {s \in Seq(Entries) : Len(s) <= MaxBranchEntryIds}, lineageRecorded : BOOLEAN,
     keys : SUBSET [source : Seq(Entries), candidate : Drafts]]
Passes ==
    [phase : {"start", "open", "evaluate", "save", "write", "drain", "end",
              "backlog", "list", "ack"},
     tip : Entries, start : Checkpoints, loaded : Checkpoints,
     window : Seq(Entries), keys : SUBSET [source : Seq(Entries), candidate : Drafts],
     advance : BOOLEAN, drains : 0 .. MaxDrains,
     toAck : SUBSET Entries]

TypeOK ==
    /\ session \in Seq(Seq(Entries)) /\ Len(session) <= MaxEntries
    /\ intake \in [Entries -> {"none", "pending", "acked"}]
    /\ unhealthy \subseteq Entries
    /\ checkpoint \in Checkpoints
    /\ alive \subseteq Processes
    /\ scan \in [Processes -> 0 .. MaxEntries]
    /\ queued \in [Processes -> 0 .. MaxEntries]
    /\ pass \in [Processes -> {Idle} \cup Passes]
    /\ evaluated \subseteq Entries
    /\ written \subseteq Drafts
    /\ crashes \in 0 .. MaxCrashes

(* A record leaves the pending directory only when every entry of its       *)
(* branch was in a window whose outcome was terminal, whichever processes   *)
(* evaluated them, died or saved an older checkpoint in between             *)
(* (ackCheckpointCoveredIntake, index.ts:1821).                             *)
AckedMeansEvaluated ==
    \A e \in Entries : intake[e] = "acked" => Range(session[e]) \subseteq evaluated

(* The watermark never stands past an entry nobody evaluated: the windows   *)
(* of all processes and branches join without a gap, also when a save       *)
(* overwrites a newer one with a value read before it (index.ts:1763).      *)
WatermarkMeansEvaluated == Range(BranchTo(checkpoint.watermark)) \subseteq evaluated

(* A draft behind the watermark was given a terminal result by the writer:  *)
(* a key that makes a retry skip a candidate (checkpoint.ts:246) is never   *)
(* recorded for one that failed.                                            *)
CoveredDraftsWritten ==
    Drafts \cap Range(BranchTo(checkpoint.watermark)) \subseteq written

(* Sequences of ids for TLC: ids may repeat, and one is of no entry.        *)
IdSequences == UNION {[1 .. n -> 1 .. MaxEntries + 1] : n \in 0 .. 2 * MaxEntries}

(* The lineage loop accepts a branch exactly when its ids occur in the      *)
(* recorded spine at increasing positions, also branches and spines that no *)
(* session tree produces (checkpoint.ts:204).  It has no state; TLC decides *)
(* it once, before the first entry.                                         *)
LoopDecides(branches) ==
    \A branch, spine \in branches :
        OrderKept(branch, spine) <=> OrderedSubsequence(branch, spine)

LoopDecidesSubsequence == session = <<>> => LoopDecides(IdSequences)

(* The queue slot and the pass of each process as CoalescingQueue sees      *)
(* them: one key per process, whose jobs die with it.                       *)
RunningTip(p) == IF pass[p] = Idle THEN NoTip ELSE pass[p].tip

Coalescing ==
    INSTANCE CoalescingQueue
        WITH Keys <- Processes, Jobs <- Entries, None <- NoTip,
             Brief <- Processes, Mortal <- Processes,
             waiting <- queued, running <- [p \in Processes |-> RunningTip(p)]

(* Passes are queued as AgentEndQueue queues jobs: a captured turn waits    *)
(* until its pass starts, is replaced by a newer one or dies with the       *)
(* process, and a pass that goes on with its backlog never takes the place  *)
(* of a newer turn (index.ts:7077).                                         *)
QueuesAsCoalescing == Coalescing!Spec

(* An unhealthy receipt is acknowledged only behind a healthy one: some     *)
(* captured turn that ended well has its entry on its branch, whichever     *)
(* pass evaluated it, continued itself, was recovered or shared the         *)
(* checkpoint (index.ts:4345, "next_healthy_agent_end").                    *)
Healthy == (1 .. LegacyEntries) \cup {e \in Entries : intake[e] # "none" /\ e \notin unhealthy}
UnhealthyTurnsWait ==
    \A e \in unhealthy :
        intake[e] = "acked" => \E tip \in Healthy : e \in Range(session[tip])

(* Every captured turn is acknowledged in the end, through crashes between  *)
(* any two steps, holds and coalesced jobs, as long as recovery scans keep  *)
(* coming (intake.ts:595, index.ts:859) and the newest pending receipt of   *)
(* the session, the only one a scan enqueues (index.ts:901), is never an    *)
(* unhealthy one for good.                                                  *)
NewestUnhealthy ==
    \E newest \in Pending \cap unhealthy : \A e \in Pending : e <= newest
EveryTurnAcked ==
    RecoveryRecurs /\ []<>~NewestUnhealthy =>
        \A e \in Entries : intake[e] = "pending" ~> intake[e] = "acked"

(* When nobody types and no recovery scan runs, the queue comes to rest: a  *)
(* held window, a failing save or a backlog never makes a pass continue     *)
(* itself for ever (index.ts:7079, "never tight-spin").                     *)
AtRest == \A p \in Processes : pass[p] = Idle /\ queued[p] = NoTip
Quiesces == (<>[][~\E p \in Processes : RecoveryEnqueue(p)]_vars) => []<>AtRest

-----------------------------------------------------------------------------
(* What the documentation says and the code does not do; each is refuted.   *)

(* A window is opened on a branch that does not show the watermark.         *)
OpensReplay(p) ==
    /\ pass[p].phase = "open" /\ pass'[p].phase = "evaluate"
    /\ checkpoint.watermark # NoEntry
    /\ ~Visible(Branch(p), checkpoint.watermark)

(* checkpoint.ts:163: the branch is the same lineage on an "exact match or  *)
(* compaction that dropped a prefix/middle while retaining a contiguous     *)
(* suffix of the recorded spine".                                           *)
KeepsSuffix(branch, spine) ==
    branch # <<>> /\ branch[Len(branch)] = spine[Len(spine)]
CompactionRetainsSuffix ==
    [][\A p \in Processes :
          OpensReplay(p) /\ Range(Branch(p)) \subseteq Range(checkpoint.spine)
            => KeepsSuffix(Branch(p), checkpoint.spine)]_vars

(* index.ts:6834: processedCandidateKeys persist "so retries skip           *)
(* already-applied candidates".  A retry evaluates the window the key was   *)
(* recorded with, or one that has grown since.                              *)
RetryOf(window, key) == key.source = SubSeq(window, 1, Len(key.source))
RetriesSkipApplied ==
    [][\A p \in Processes, d \in Drafts :
          /\ pass[p].phase = "evaluate" /\ pass'[p].phase = "save"
          /\ d \in Explicit(p)
          /\ \E key \in checkpoint.keys : key.candidate = d /\ RetryOf(pass[p].window, key)
          => ~\E key \in pass'[p].keys : key.candidate = d]_vars
=============================================================================
