------------------------ MODULE SedimentCheckpoint ------------------------
(***************************************************************************)
(* The per-session checkpoint of sediment (extensions/sediment/            *)
(* checkpoint.ts): the slot kept on disk, the lineage verdict on a branch  *)
(* whose watermark has disappeared, and the window a pass evaluates.       *)
(* Operators only; the components that load and save the slot extend this. *)
(*                                                                         *)
(* A branch is the sequence of entry ids from the root of the session tree *)
(* to a tip.  An id is a positive number and 0 stands for `undefined'.  A  *)
(* durable candidate key is the hash of the window's entry ids and of the  *)
(* candidate: a record of the two.                                         *)
(***************************************************************************)
EXTENDS Integers, Sequences, FiniteSets, Functions

CONSTANTS
    MaxWindowEntries,   \* settings.maxWindowEntries
    LongEntries,        \* entries whose text alone fills maxWindowChars
    MaxBranchEntryIds   \* bound on the recorded spine, 256 in the code

ASSUME CheckpointAssumption ==
    /\ MaxWindowEntries \in Nat \ {0}
    /\ MaxBranchEntryIds \in Nat \ {0}

NoEntry == 0

FreshCheckpoint ==
    [watermark |-> NoEntry, spine |-> <<>>, lineageRecorded |-> FALSE, keys |-> {}]

(* A slot upgraded from schema v1 or v2: a watermark without lineage.       *)
LegacyCheckpoint(w) == [FreshCheckpoint EXCEPT !.watermark = w]

-----------------------------------------------------------------------------
(* Array.prototype.indexOf(x, from), with 0 for "not found".                *)
IndexOf(s, x, from) ==
    IF \E i \in from .. Len(s) : s[i] = x
    THEN CHOOSE i \in from .. Len(s) :
            s[i] = x /\ \A j \in from .. Len(s) : s[j] = x => i <= j
    ELSE 0

Visible(branch, entry) == entry \in Range(branch)

-----------------------------------------------------------------------------
(* classifyCheckpointLineage.  The last part is its loop: cursor[n] is the  *)
(* cursor after n ids of the branch, 0 once one of them was not found.      *)
OrderKeptIgnoringCursor(branch, spine) ==
    \A i \in DOMAIN branch : IndexOf(spine, branch[i], 1) # 0

OrderKept(branch, spine) ==
    LET cursor[n \in 0 .. Len(branch)] ==
            IF n = 0 THEN 1
            ELSE IF cursor[n - 1] = 0 \/ IndexOf(spine, branch[n], cursor[n - 1]) = 0
                 THEN 0
                 ELSE IndexOf(spine, branch[n], cursor[n - 1]) + 1
    IN  cursor[Len(branch)] # 0

(* What the loop is to find out: the ids of the branch occur in the spine   *)
(* in their order, with or without others in between.                       *)
OrderedSubsequence(branch, spine) ==
    \E at \in [DOMAIN branch -> DOMAIN spine] :
        /\ \A i \in DOMAIN branch : spine[at[i]] = branch[i]
        /\ \A i, j \in DOMAIN branch : i < j => at[i] < at[j]

Verdict(status, replay) == [status |-> status, allowOldestFullReplay |-> replay]

ClassifyCheckpointLineage(branch, cp) ==
    IF cp.watermark = NoEntry THEN Verdict("fresh", TRUE)
    ELSE IF Visible(branch, cp.watermark) THEN Verdict("matched", TRUE)
    ELSE IF ~cp.lineageRecorded \/ cp.spine = <<>> THEN Verdict("unproven_legacy", FALSE)
    ELSE IF branch = <<>> THEN Verdict("compacted_same_lineage", TRUE)
    ELSE IF ~(Range(branch) \subseteq Range(cp.spine)) THEN Verdict("branch_switched", TRUE)
    ELSE IF ~OrderKept(branch, cp.spine) THEN Verdict("branch_switched", FALSE)
    ELSE Verdict("compacted_same_lineage", TRUE)

(* lineagePatchForBranch and the watermark saved with it.                   *)
BoundedSpineOffByOne(branch) ==
    SubSeq(branch, IF Len(branch) > MaxBranchEntryIds
                   THEN Len(branch) - MaxBranchEntryIds ELSE 1, Len(branch))

BoundedSpine(branch) ==
    SubSeq(branch, IF Len(branch) > MaxBranchEntryIds
                   THEN Len(branch) - MaxBranchEntryIds + 1 ELSE 1, Len(branch))

Advanced(watermark, branch, previousKeys, newKeys) ==
    [watermark |-> watermark, spine |-> BoundedSpine(branch),
     lineageRecorded |-> TRUE, keys |-> previousKeys \cup newKeys]

(* checkpointAdvancedSince.                                                 *)
AdvancedSinceAlways(before, after) == TRUE
AdvancedSince(before, after) ==
    \/ after.watermark # before.watermark
    \/ after.spine # before.spine
    \/ ~(after.keys \subseteq before.keys)
    \/ after.lineageRecorded /\ ~before.lineageRecorded

-----------------------------------------------------------------------------
(* buildRunWindow with backlogOrder "oldest": the branch position before    *)
(* the first candidate, and how many candidates the window holds: as many   *)
(* as both budgets allow, so that a retry on the same branch and checkpoint *)
(* finds the same window.  Of the characters only this is kept: a long      *)
(* entry has a window to itself, the others never fill one.                 *)
CandidatesAfter(branch, cp) ==
    IF cp.watermark = NoEntry THEN 0 ELSE IndexOf(branch, cp.watermark, 1)

ReplayRefused(branch, cp) ==
    /\ cp.watermark # NoEntry
    /\ ~Visible(branch, cp.watermark)
    /\ ~ClassifyCheckpointLineage(branch, cp).allowOldestFullReplay

Candidates(branch, cp) ==
    IF ReplayRefused(branch, cp) THEN <<>>
    ELSE SubSeq(branch, CandidatesAfter(branch, cp) + 1, Len(branch))

Smaller(a, b) == IF a < b THEN a ELSE b

Fits(candidates, n) == n = 1 \/ \A i \in 1 .. n : candidates[i] \notin LongEntries

WindowSizes(branch, cp) ==
    LET candidates == Candidates(branch, cp)
        sizes == 1 .. Smaller(MaxWindowEntries, Len(candidates))
    IN  {n \in sizes : /\ Fits(candidates, n)
                       /\ \A m \in sizes : Fits(candidates, m) => m <= n}

(* The entries of a window of n candidates.                                 *)
Window(branch, cp, n) == SubSeq(Candidates(branch, cp), 1, n)

(* frozenSnapshotStillHasBacklog: the window it builds is not empty.        *)
StillHasBacklog(branch, cp) ==
    cp.watermark # branch[Len(branch)] /\ Candidates(branch, cp) # <<>>

(* The key of a candidate parsed out of a window.                           *)
CandidateKey(window, candidate) == [source |-> window, candidate |-> candidate]
===========================================================================
