------------------------- MODULE CanonicalDrainProofs -------------------------
(***************************************************************************)
(* Theorems about CanonicalDrain, for any number of processes, files,      *)
(* slots, faults and commits made by hand.                                 *)
(***************************************************************************)
EXTENDS CanonicalDrain, FiniteSetTheorems, TLAPS

File == Contents \cup (Nat \X Nat \X RowTypes)
Commits == [anc : SUBSET Nat, tree : SUBSET File]
Ops == [base : Nat, cohort : SUBSET File, staged : SUBSET File, candidate : Nat]
Places == [pc : Inside \cup {"cold", "ready"}, ep : Nat, slot : Nat,
           via : {"none", "drain", "startup", "backlog", "joined"}, target : SUBSET File]

Answers == {"none", "durable", "pending", "unpublished", "error"}

DiskTypes ==
    /\ commits \in Seq(Commits) /\ head \in 1 .. Len(commits)
    /\ index \subseteq File /\ work \subseteq Contents
    /\ rows \subseteq (1 .. Len(ops)) \X (1 .. Budget) \X RowTypes
    /\ ops \in Seq(Ops)
ProcTypes ==
    /\ at \in [Procs -> Places] /\ told \in [Procs -> Answers]
    /\ faults \in 0 .. MaxFaults /\ foreign \in 0 .. MaxForeign

(* No tree, cohort or index holds what was never written.                   *)
FilesKnown ==
    /\ index \subseteq work \cup rows
    /\ \A c \in 1 .. Len(commits) : Tree(c) \subseteq work \cup rows
    /\ \A e \in Episodes : ops[e].cohort \subseteq work \cup rows

(* Ancestry is an order, a candidate is its base and one commit, and a      *)
(* commit that is nobody's candidate is on the branch.                      *)
AncestryOrdered ==
    \A c \in 1 .. Len(commits) :
        /\ c \in Anc(c) /\ Anc(c) \subseteq 1 .. c
        /\ \A d \in Anc(c) : Anc(d) \subseteq Anc(c)
Extends(o) ==
    /\ o.base \in 1 .. Len(commits) /\ o.candidate \in 0 .. Len(commits)
    /\ o.candidate # 0 =>
          /\ o.base < o.candidate
          /\ Anc(o.candidate) = Anc(o.base) \cup {o.candidate}
          /\ Tree(o.candidate) = Tree(o.base) \cup o.cohort
CandidatesExtend == \A e \in Episodes : Extends(ops[e])
OthersOnBranch ==
    \A c \in 1 .. Len(commits) :
        (\A e \in Episodes : ops[e].candidate # c) => c \in Anc(head)
CommitsSound == AncestryOrdered /\ CandidatesExtend /\ OthersOnBranch

(* The rows of an episode: slots are claimed in order, all but the last are *)
(* burned, and only the last can have a commit.                             *)
ClaimedUpTo(e, n) == \A s \in 1 .. Budget : Has(e, s, "claimed") <=> s <= n
RowsSound(e) ==
    \A s \in 1 .. Budget :
        /\ \A t \in RowTypes : Has(e, s, t) => s <= Last(e)
        /\ s < Last(e) => Has(e, s, "aborted")
        /\ Has(e, s, "aborted") => ~Has(e, s, "prepared")
        /\ Has(e, s, "converged") => Has(e, s, "published")
        /\ Has(e, s, "published") => Has(e, s, "prepared")
        /\ Has(e, s, "terminal") => s = Budget /\ Has(e, s, "aborted")
EpisodeSound(e) ==
    /\ Last(e) \in 1 .. Budget /\ ClaimedUpTo(e, Last(e)) /\ RowsSound(e)
    /\ ops[e].candidate # 0 <=> Prepared(e)
    /\ Published(e) => Landed(e)

OneOpen == \A e, f \in Open : e = f

(* The index while nobody commits by hand.                                  *)
IndexFollows ==
    foreign = 0 =>
        /\ Open = {} => index = Tree(head)
        /\ \A e \in Open :
              /\ head \in {ops[e].base, ops[e].candidate}
              /\ index = Tree(ops[e].base) \/ (index = Tree(head) /\ head = ops[e].candidate)

DiskInv ==
    /\ FilesKnown /\ CommitsSound
    /\ \A e \in Episodes : EpisodeSound(e)
    /\ OneOpen /\ IndexFollows

(* What a process inside knows of its operation.                            *)
Exclusive == \A p, q \in Procs : at[p].pc \in Inside /\ at[q].pc \in Inside => p = q

OnSlot == {"prepare", "recover", "cas", "published", "target", "index", "converged", "abort"}
PlaceSound(l) ==
    LET e == l.ep
        s == l.slot IN
    /\ l.via # "none"
    /\ l.pc = "episodes" => l.via \in {"startup", "joined"}
    /\ l.pc \notin {"episodes", "answer"} => e \in Open
    /\ l.pc = "answer" => l.via \in {"drain", "backlog"} /\ e \in Episodes /\ Landed(e)
    /\ l.pc = "disposition" => l.via = "drain"
    /\ l.pc = "claim" => ~Landed(e)
    /\ l.pc \in OnSlot => s = Last(e) /\ ~Has(e, s, "aborted")
    /\ l.pc \in {"prepare", "abort"} => ~Prepared(e)
    /\ l.pc \in {"cas", "published", "target", "index", "converged"} => Prepared(e)
    /\ l.pc = "published" => Landed(e)
    /\ l.pc \in {"target", "index", "converged"} => Published(e)
    /\ l.pc = "index" =>
          /\ l.target \subseteq ops[e].cohort
          /\ foreign = 0 => l.target = ops[e].cohort
    /\ l.pc = "converged" /\ foreign = 0 => index = Tree(head)
    /\ l.pc = "terminal" => s = Budget /\ Last(e) = Budget /\ Has(e, s, "aborted")
AtSound(p) == at[p].pc \in Inside => PlaceSound(at[p])

IInv == DiskTypes /\ ProcTypes /\ DiskInv /\ Exclusive /\ \A p \in Procs : AtSound(p)

-----------------------------------------------------------------------------
(* The last slot is the number of claimed slots, which are claimed in order.*)
LEMMA Last_Is ==
    ASSUME NEW e, NEW n \in 0 .. Budget, ClaimedUpTo(e, n)
    PROVE  Last(e) = n
<1>1. {s \in 1 .. Budget : Has(e, s, "claimed")} = 1 .. n
    BY DrainAssumption DEF ClaimedUpTo
<1>2. Cardinality(1 .. n) = n
    BY DrainAssumption, FS_Interval
<1> QED
    BY <1>1, <1>2 DEF Last

LEMMA Last_Stays ==
    ASSUME NEW e, \A s \in 1 .. Budget : Has(e, s, "claimed")' <=> Has(e, s, "claimed")
    PROVE  Last(e)' = Last(e)
<1>1. {s \in 1 .. Budget : Has(e, s, "claimed")}' = {s \in 1 .. Budget : Has(e, s, "claimed")}
    OBVIOUS
<1> QED
    BY <1>1 DEF Last

LEMMA Row_Has ==
    ASSUME NEW e, NEW s, NEW t, AddRow(e, s, t)
    PROVE  \A f, r, u : Has(f, r, u)' <=> Has(f, r, u) \/ (f = e /\ r = s /\ u = t)
BY DEF AddRow, Has

LEMMA Append_Is ==
    ASSUME NEW S, NEW q \in Seq(S), NEW x \in S
    PROVE  /\ Append(q, x) \in Seq(S) /\ Len(q) \in Nat
           /\ Len(Append(q, x)) = Len(q) + 1 /\ Append(q, x)[Len(q) + 1] = x
           /\ \A i \in 1 .. Len(q) : Append(q, x)[i] = q[i]
OBVIOUS

LEMMA Except_Is ==
    ASSUME NEW S, NEW q \in Seq(S), NEW i \in 1 .. Len(q), NEW x \in S
    PROVE  /\ [q EXCEPT ![i] = x] \in Seq(S) /\ Len([q EXCEPT ![i] = x]) = Len(q)
           /\ [q EXCEPT ![i] = x][i] = x
           /\ \A j \in 1 .. Len(q) : j # i => [q EXCEPT ![i] = x][j] = q[j]
OBVIOUS

LEMMA SeqLen_Is ==
    ASSUME NEW S, NEW q \in Seq(S)
    PROVE  Len(q) \in Nat /\ \A i \in 1 .. Len(q) : q[i] \in S
OBVIOUS

(* An unresolved operation has no last row.                                 *)
LEMMA Open_Unresolved ==
    ASSUME NEW e \in Episodes, EpisodeSound(e)
    PROVE  /\ Terminal(e) <=> \E s \in 1 .. Budget : Has(e, s, "terminal")
           /\ e \in Open <=> \A s \in 1 .. Budget :
                                 ~Has(e, s, "converged") /\ ~Has(e, s, "terminal")
BY DEF EpisodeSound, RowsSound, Open, Complete, Terminal

(* An episode nobody writes to stays what it is while the branch grows.     *)
LEMMA Episode_Stays ==
    ASSUME NEW e \in Episodes, EpisodeSound(e), e \in Episodes',
           \A s, t : Has(e, s, t)' <=> Has(e, s, t),
           ops'[e].candidate = ops[e].candidate, Anc(head) \subseteq Anc(head)'
    PROVE  /\ EpisodeSound(e)' /\ Last(e)' = Last(e)
           /\ (e \in Open)' <=> e \in Open
           /\ Landed(e) => Landed(e)'
<1>1. Last(e)' = Last(e)
    BY Last_Stays
<1>2. Landed(e) => Landed(e)'
    BY DEF Landed
<1>3. ClaimedUpTo(e, Last(e))' /\ RowsSound(e)'
    BY <1>1 DEF EpisodeSound, ClaimedUpTo, RowsSound
<1>4. EpisodeSound(e)'
    BY <1>1, <1>2, <1>3 DEF EpisodeSound, Prepared, Published
<1>5. (e \in Open)' <=> e \in Open
    BY DEF Open, Complete, Terminal
<1> QED
    BY <1>1, <1>2, <1>4, <1>5

(* Steps that leave the repository alone, or only write content.            *)
LEMMA Disk_Same ==
    ASSUME DiskInv, UNCHANGED <<commits, head, index, rows, ops, foreign>>, work \subseteq work'
    PROVE  DiskInv'
<1>1. FilesKnown' /\ CommitsSound'
    BY DEF DiskInv, FilesKnown, CommitsSound, AncestryOrdered, CandidatesExtend, Extends,
           OthersOnBranch, Tree, Anc, Episodes
<1>2. \A e : /\ Last(e)' = Last(e) /\ (Landed(e) <=> Landed(e)')
             /\ \A s, t : Has(e, s, t)' <=> Has(e, s, t)
    BY DEF Last, Landed, Has, Anc
<1>3. ASSUME NEW e \in Episodes
      PROVE  EpisodeSound(e)'
    <2>1. /\ EpisodeSound(e) /\ e \in Episodes' /\ ops'[e].candidate = ops[e].candidate
          /\ Anc(head) \subseteq Anc(head)'
        BY DEF DiskInv, Episodes, Anc
    <2> QED
        BY <1>2, <2>1, Episode_Stays
<1>4. Open' = Open
    BY DEF Open, Episodes, Complete, Terminal, Has
<1>5. OneOpen' /\ IndexFollows'
    BY <1>4 DEF DiskInv, OneOpen, IndexFollows, Tree
<1> QED
    BY <1>1, <1>3, <1>5 DEF DiskInv, Episodes

LEMMA Place_Same ==
    ASSUME UNCHANGED <<commits, head, index, rows, ops, foreign>>, NEW l, PlaceSound(l)
    PROVE  PlaceSound(l)'
BY DEF PlaceSound, Open, Episodes, Complete, Terminal, Has, Last, Landed, Anc, Tree,
       Prepared, Published

(* The processes outside know nothing that a step of another could break.   *)
LEMMA Inv_Step ==
    ASSUME IInv, NEW p \in Procs, at[p].pc \in Inside \/ Free,
           NEW l \in Places, at' = [at EXCEPT ![p] = l], told' \in [Procs -> Answers],
           faults' \in 0 .. MaxFaults, foreign' = foreign,
           DiskTypes', DiskInv', l.pc \in Inside => PlaceSound(l)'
    PROVE  IInv'
<1>1. /\ at' \in [Procs -> Places] /\ at'[p] = l
      /\ \A q \in Procs \ {p} : at'[q] = at[q]
    BY DEF IInv, ProcTypes
<1>2. \A q \in Procs \ {p} : at[q].pc \notin Inside
    BY DEF IInv, Exclusive, Free
<1>3. Exclusive' /\ \A q \in Procs : AtSound(q)'
    BY <1>1, <1>2 DEF Exclusive, AtSound
<1>4. ProcTypes'
    BY <1>1 DEF IInv, ProcTypes
<1> QED
    BY <1>3, <1>4 DEF IInv

(* Places that need no knowledge of an operation.                           *)
Leaving ==
    {l \in Places : l.pc \notin Inside \/ (l.pc = "episodes" /\ l.via \in {"startup", "joined"})}

LEMMA Leave_Step ==
    ASSUME IInv, NEW p \in Procs, at[p].pc \in Inside \/ Free,
           NEW l \in Leaving, at' = [at EXCEPT ![p] = l], told' \in [Procs -> Answers],
           faults' \in 0 .. MaxFaults, foreign' = foreign, DiskTypes', DiskInv'
    PROVE  IInv'
<1>1. l \in Places /\ (l.pc \in Inside => PlaceSound(l)')
    BY DEF Leaving, PlaceSound, OnSlot
<1> QED
    BY <1>1, Inv_Step

-----------------------------------------------------------------------------
(* A row that is not a claim, of the operation in progress.                 *)
LEMMA Row_Common ==
    ASSUME DiskTypes, DiskInv, NEW e \in Open, NEW t \in RowTypes \ {"claimed"},
           AddRow(e, Last(e), t), UNCHANGED <<commits, head, index, work, ops, foreign>>
    PROVE  /\ FilesKnown' /\ CommitsSound'
           /\ \A f \in Episodes : Last(f)' = Last(f)
           /\ \A f \in Episodes \ {e} : EpisodeSound(f)' /\ ~(f \in Open)'
           /\ Last(e) \in 1 .. Budget
           /\ rows' \subseteq (1 .. Len(ops)) \X (1 .. Budget) \X RowTypes
           /\ ClaimedUpTo(e, Last(e))'
           /\ (ops[e].candidate # 0)' <=> ops[e].candidate # 0
           /\ Episodes' = Episodes
           /\ \A f, r, u : Has(f, r, u)' <=> Has(f, r, u) \/ (f = e /\ r = Last(e) /\ u = t)
           /\ Landed(e)' <=> Landed(e)
<1>0. e \in Episodes /\ EpisodeSound(e) /\ Last(e) \in 1 .. Budget
    BY DEF DiskInv, EpisodeSound, Open
<1>1. \A f, r, u : Has(f, r, u)' <=> Has(f, r, u) \/ (f = e /\ r = Last(e) /\ u = t)
    BY Row_Has
<1>2. \A f \in Episodes : Last(f)' = Last(f)
    BY <1>1, Last_Stays
<1>3. \A f \in Episodes \ {e} : EpisodeSound(f)' /\ ~(f \in Open)'
    BY <1>1, Episode_Stays DEF DiskInv, OneOpen, Episodes, Anc
<1>4. FilesKnown' /\ CommitsSound'
    BY DEF DiskInv, FilesKnown, CommitsSound, AncestryOrdered, CandidatesExtend, Extends,
           OthersOnBranch, Tree, Anc, Episodes, AddRow
<1>5. rows' \subseteq (1 .. Len(ops)) \X (1 .. Budget) \X RowTypes
    BY <1>0 DEF AddRow, DiskTypes, Episodes
<1>6. ClaimedUpTo(e, Last(e))'
    BY <1>0, <1>1, <1>2 DEF ClaimedUpTo, EpisodeSound
<1> QED
    BY <1>0, <1>1, <1>2, <1>3, <1>4, <1>5, <1>6 DEF Episodes, Landed, Anc

(* The row of a step forward, or of a burned slot.                          *)
LEMMA Row_Forward ==
    ASSUME DiskTypes, DiskInv, NEW e \in Open,
           NEW t \in {"published", "aborted"}, AddRow(e, Last(e), t),
           ~Has(e, Last(e), "aborted"),
           t = "published" => Prepared(e) /\ Landed(e),
           t = "aborted" => ~Prepared(e),
           UNCHANGED <<commits, head, index, work, ops, foreign>>
    PROVE  DiskInv' /\ Open' = Open
<1> DEFINE n == Last(e)
<1>0. e \in Episodes /\ EpisodeSound(e)
    BY DEF DiskInv, Open
<1>1. /\ FilesKnown' /\ CommitsSound' /\ Last(e)' = n /\ n \in 1 .. Budget
      /\ \A f \in Episodes \ {e} : EpisodeSound(f)' /\ ~(f \in Open)'
      /\ ClaimedUpTo(e, n)' /\ ops'[e] = ops[e] /\ Episodes' = Episodes
      /\ \A f, r, u : Has(f, r, u)' <=> Has(f, r, u) \/ (f = e /\ r = n /\ u = t)
      /\ Landed(e)' <=> Landed(e)
    BY <1>0, Row_Common DEF RowTypes
<1>2. RowsSound(e)'
    BY <1>0, <1>1, Open_Unresolved DEF RowsSound, EpisodeSound, Prepared
<1>3. /\ Prepared(e)' <=> Prepared(e)
      /\ Published(e)' => Landed(e)'
    BY <1>0, <1>1 DEF Prepared, Published, EpisodeSound
<1>4. EpisodeSound(e)'
    BY <1>0, <1>1, <1>2, <1>3 DEF EpisodeSound
<1>5. (e \in Open)'
    <2>1. \A s \in 1 .. Budget : ~Has(e, s, "converged")' /\ ~Has(e, s, "terminal")'
        BY <1>0, <1>1, Open_Unresolved
    <2> QED
        BY <1>0, <1>1, <2>1 DEF Open, Complete, Terminal
<1>6. Open' = Open
    BY <1>0, <1>1, <1>5 DEF DiskInv, OneOpen, Open
<1>7. OneOpen' /\ IndexFollows'
    BY <1>6 DEF DiskInv, OneOpen, IndexFollows, Tree
<1> QED
    BY <1>1, <1>4, <1>6, <1>7 DEF DiskInv

(* The row that resolves it.                                                *)
LEMMA Row_Resolves ==
    ASSUME DiskTypes, DiskInv, NEW e \in Open,
           NEW t \in {"converged", "terminal"}, AddRow(e, Last(e), t),
           t = "converged" => Published(e) /\ (foreign = 0 => index = Tree(head)),
           t = "terminal" => Last(e) = Budget /\ Has(e, Budget, "aborted"),
           UNCHANGED <<commits, head, index, work, ops, foreign>>
    PROVE  DiskInv' /\ Open' = {} /\ Last(e)' = Last(e)
<1> DEFINE n == Last(e)
<1>0. e \in Episodes /\ EpisodeSound(e)
    BY DEF DiskInv, Open
<1>1. /\ FilesKnown' /\ CommitsSound' /\ Last(e)' = n /\ n \in 1 .. Budget
      /\ \A f \in Episodes \ {e} : EpisodeSound(f)' /\ ~(f \in Open)'
      /\ ClaimedUpTo(e, n)' /\ ops'[e] = ops[e] /\ Episodes' = Episodes
      /\ \A f, r, u : Has(f, r, u)' <=> Has(f, r, u) \/ (f = e /\ r = n /\ u = t)
      /\ Landed(e)' <=> Landed(e)
    BY <1>0, Row_Common DEF RowTypes
<1>2. RowsSound(e)'
    BY <1>0, <1>1 DEF RowsSound, EpisodeSound, Published
<1>3. /\ Prepared(e)' <=> Prepared(e)
      /\ Published(e)' => Landed(e)'
    BY <1>0, <1>1 DEF Prepared, Published, EpisodeSound
<1>4. EpisodeSound(e)'
    BY <1>0, <1>1, <1>2, <1>3 DEF EpisodeSound
<1>5. ~(e \in Open)'
    BY <1>1, <1>2 DEF Open, Complete, Terminal, RowsSound
<1>6. Open' = {}
    BY <1>1, <1>5 DEF Open
<1>7. foreign = 0 => index = Tree(head)
    <2>1. CASE t = "converged"
        BY <2>1
    <2>2. CASE t = "terminal"
        <3>1. ops[e].candidate = 0
            BY <1>0, <2>2 DEF EpisodeSound, RowsSound, Prepared
        <3>2. foreign = 0 => /\ head \in {ops[e].base, ops[e].candidate}
                             /\ \/ index = Tree(ops[e].base)
                                \/ index = Tree(head) /\ head = ops[e].candidate
            BY DEF DiskInv, IndexFollows
        <3>3. head # 0
            BY DEF DiskTypes
        <3> QED
            BY <3>1, <3>2, <3>3
    <2> QED
        BY <2>1, <2>2
<1>8. OneOpen' /\ IndexFollows'
    BY <1>6, <1>7 DEF OneOpen, IndexFollows, Tree
<1> QED
    BY <1>1, <1>4, <1>6, <1>8 DEF DiskInv

(* A burned slot is followed by a claim.                                    *)
LEMMA Claim_Row ==
    ASSUME DiskTypes, DiskInv, NEW e \in Open, ~Pending(e), Last(e) # Budget,
           AddRow(e, Last(e) + 1, "claimed"), UNCHANGED <<commits, head, index, work, ops, foreign>>
    PROVE  /\ DiskInv' /\ Open' = Open
           /\ Last(e)' = Last(e) + 1
           /\ rows' \subseteq (1 .. Len(ops)) \X (1 .. Budget) \X RowTypes
           /\ ~Has(e, Last(e), "aborted")' /\ ~Prepared(e)'
<1> DEFINE n == Last(e)
<1>0. /\ e \in Episodes /\ EpisodeSound(e) /\ n \in 1 .. Budget /\ n + 1 \in 1 .. Budget
    BY DrainAssumption DEF DiskInv, Open, EpisodeSound
<1>1. \A f, r, u : Has(f, r, u)' <=> Has(f, r, u) \/ (f = e /\ r = n + 1 /\ u = "claimed")
    BY Row_Has
<1>2. Has(e, n, "aborted")
    BY <1>0 DEF Pending, Open, Aborted, Complete
<1>3. \A t \in RowTypes : ~Has(e, n + 1, t)
    BY <1>0 DEF EpisodeSound, RowsSound
<1>4. /\ ~Has(e, n, "prepared") /\ ~Has(e, n, "published")
      /\ ops[e].candidate = 0
    BY <1>0, <1>2 DEF EpisodeSound, RowsSound, Prepared
<1>5. \A s \in 1 .. Budget : Has(e, s, "claimed")' <=> s <= n + 1
    BY <1>0, <1>1, DrainAssumption DEF EpisodeSound, ClaimedUpTo
<1>6. Last(e)' = n + 1
    <2>1. {s \in 1 .. Budget : Has(e, s, "claimed")}' = 1 .. n + 1
        BY <1>0, <1>5, DrainAssumption
    <2>2. Cardinality(1 .. n + 1) = n + 1
        BY <1>0, DrainAssumption, FS_Interval
    <2> QED
        BY <2>1, <2>2 DEF Last
<1>7. RowsSound(e)'
    <2> SUFFICES ASSUME NEW s \in 1 .. Budget
                 PROVE  /\ \A t \in RowTypes : Has(e, s, t)' => s <= n + 1
                        /\ s < n + 1 => Has(e, s, "aborted")'
                        /\ Has(e, s, "aborted")' => ~Has(e, s, "prepared")'
                        /\ Has(e, s, "converged")' => Has(e, s, "published")'
                        /\ Has(e, s, "published")' => Has(e, s, "prepared")'
                        /\ Has(e, s, "terminal")' => s = Budget /\ Has(e, s, "aborted")'
        BY <1>6 DEF RowsSound
    <2>1. s <= n => s < n \/ s = n
        BY <1>0
    <2> QED
        BY <1>0, <1>1, <1>2, <2>1 DEF EpisodeSound, RowsSound
<1>8. EpisodeSound(e)'
    <2>1. ~Prepared(e)' /\ ~Published(e)'
        BY <1>1, <1>3, <1>6 DEF Prepared, Published, RowTypes
    <2> QED
        BY <1>0, <1>4, <1>5, <1>6, <1>7, <2>1 DEF EpisodeSound, ClaimedUpTo
<1>9. \A f \in Episodes \ {e} : EpisodeSound(f)' /\ ~(f \in Open)'
    BY <1>1, Episode_Stays DEF DiskInv, OneOpen, Episodes, Anc
<1>10. (e \in Open)'
    <2>1. \A s \in 1 .. Budget : ~Has(e, s, "converged")' /\ ~Has(e, s, "terminal")'
        BY <1>0, <1>1, Open_Unresolved
    <2> QED
        BY <1>0, <2>1 DEF Open, Complete, Terminal, Episodes
<1>11. Open' = Open
    BY <1>0, <1>9, <1>10 DEF DiskInv, OneOpen, Open, Episodes
<1>12. FilesKnown' /\ CommitsSound'
    BY DEF DiskInv, FilesKnown, CommitsSound, AncestryOrdered, CandidatesExtend, Extends,
           OthersOnBranch, Tree, Anc, Episodes, AddRow
<1>13. OneOpen' /\ IndexFollows'
    BY <1>11 DEF DiskInv, OneOpen, IndexFollows, Tree
<1>14. DiskInv'
    BY <1>8, <1>9, <1>12, <1>13 DEF DiskInv, Episodes
<1>15. rows' \subseteq (1 .. Len(ops)) \X (1 .. Budget) \X RowTypes
    BY <1>0 DEF AddRow, DiskTypes, Episodes, RowTypes
<1> QED
    BY <1>1, <1>3, <1>6, <1>11, <1>14, <1>15 DEF RowTypes, Prepared

(* A new operation when none is unresolved.                                 *)
LEMMA Begin_Episode ==
    ASSUME DiskTypes, DiskInv, Open = {}, NEW plan \in SUBSET (work \cup rows),
           NEW e, e = Len(ops) + 1,
           ops' = Append(ops, [base |-> head, cohort |-> plan,
                               staged |-> plan \cap index, candidate |-> 0]),
           AddRow(e, 1, "claimed"), UNCHANGED <<commits, head, index, work, foreign>>
    PROVE  /\ DiskInv' /\ e \in Nat /\ e \in Open' /\ ops' \in Seq(Ops)
           /\ rows' \subseteq (1 .. Len(ops')) \X (1 .. Budget) \X RowTypes
           /\ Last(e)' = 1 /\ ~Has(e, 1, "aborted")' /\ ~Prepared(e)'
<1> DEFINE new == [base |-> head, cohort |-> plan, staged |-> plan \cap index, candidate |-> 0]
<1>1. /\ e \in Nat /\ e \notin Episodes /\ Len(ops) \in Nat
      /\ rows \subseteq File
      /\ head \in Nat
    BY DEF DiskTypes, Episodes, File
<1>2. new \in Ops
    BY <1>1 DEF Ops, DiskTypes, File
<1>3. /\ ops' \in Seq(Ops) /\ Len(ops') = e /\ ops'[e] = new
      /\ \A f \in Episodes : ops'[f] = ops[f]
      /\ Episodes' = Episodes \cup {e}
    BY <1>1, <1>2, Append_Is DEF DiskTypes, Episodes
<1>4. \A f, r, u : Has(f, r, u)' <=> Has(f, r, u) \/ (f = e /\ r = 1 /\ u = "claimed")
    BY Row_Has
<1>5. \A r, u : ~Has(e, r, u)
    BY <1>1 DEF DiskTypes, Has, Episodes
<1>6. Last(e)' = 1
    <2>1. {s \in 1 .. Budget : Has(e, s, "claimed")}' = {1}
        BY <1>4, <1>5, DrainAssumption
    <2>2. Cardinality({1}) = 1
        BY FS_Singleton
    <2> QED
        BY <2>1, <2>2 DEF Last
<1>7. EpisodeSound(e)'
    <2>1. RowsSound(e)'
        BY <1>4, <1>5, <1>6, DrainAssumption DEF RowsSound
    <2>2. ClaimedUpTo(e, 1)'
        BY <1>4, <1>5, DrainAssumption DEF ClaimedUpTo
    <2>3. ~Prepared(e)' /\ ~Published(e)'
        BY <1>4, <1>5, <1>6 DEF Prepared, Published
    <2> QED
        BY <1>3, <1>6, <2>1, <2>2, <2>3, DrainAssumption DEF EpisodeSound, ClaimedUpTo
<1>8. \A f \in Episodes : EpisodeSound(f)' /\ ~(f \in Open)'
    BY <1>1, <1>3, <1>4, Episode_Stays DEF DiskInv, Anc
<1>9. Open' = {e}
    <2>1. (e \in Open)'
        BY <1>3, <1>4, <1>5 DEF Open, Complete, Terminal
    <2> QED
        BY <1>3, <1>8, <2>1 DEF Open
<1>10. FilesKnown'
    <2>1. ops'[e].cohort \subseteq work \cup rows
        BY <1>3
    <2>2. \A f \in Episodes : ops'[f].cohort \subseteq work \cup rows
        BY <1>3 DEF DiskInv, FilesKnown
    <2> QED
        BY <1>3, <2>1, <2>2 DEF DiskInv, FilesKnown, Tree, AddRow
<1>11. CommitsSound'
    <2>1. AncestryOrdered'
        BY DEF DiskInv, CommitsSound, AncestryOrdered, Anc
    <2>2. CandidatesExtend'
        <3>1. CandidatesExtend /\ Len(commits) \in Nat
            BY SeqLen_Is DEF DiskInv, CommitsSound, DiskTypes
        <3>2. \A o : Extends(o)' <=> Extends(o)
            BY DEF Extends, Anc, Tree
        <3>3. Extends(new)
            BY <3>1 DEF DiskTypes, Extends
        <3> HIDE DEF new
        <3> QED
            BY <1>3, <3>1, <3>2, <3>3 DEF CandidatesExtend
    <2>3. OthersOnBranch'
        BY <1>3 DEF DiskInv, CommitsSound, OthersOnBranch, Anc
    <2> QED
        BY <2>1, <2>2, <2>3 DEF CommitsSound
<1>12. OneOpen' /\ IndexFollows'
    BY <1>3, <1>9 DEF DiskInv, OneOpen, IndexFollows, Tree
<1>13. rows' \subseteq (1 .. Len(ops')) \X (1 .. Budget) \X RowTypes
    BY <1>1, <1>3, DrainAssumption DEF AddRow, DiskTypes, RowTypes
<1> QED
    BY <1>3, <1>4, <1>5, <1>6, <1>7, <1>8, <1>9, <1>10, <1>11, <1>12, <1>13 DEF DiskInv, Prepared

-----------------------------------------------------------------------------
(* Commits.                                                                 *)
LEMMA Commit_Added ==
    ASSUME DiskTypes, AncestryOrdered, NEW A \in SUBSET (1 .. Len(commits)),
           \A d \in A : Anc(d) \subseteq A,
           NEW tree \in SUBSET File,
           commits' = Append(commits, [anc |-> A \cup {Len(commits) + 1}, tree |-> tree])
    PROVE  /\ AncestryOrdered' /\ commits' \in Seq(Commits)
           /\ Len(commits') = Len(commits) + 1
           /\ commits'[Len(commits) + 1] = [anc |-> A \cup {Len(commits) + 1}, tree |-> tree]
           /\ \A c \in 1 .. Len(commits) : commits'[c] = commits[c]
<1> DEFINE n == Len(commits) + 1
           new == [anc |-> A \cup {n}, tree |-> tree]
<1>0. Len(commits) \in Nat
    BY SeqLen_Is DEF DiskTypes
<1>1. Len(commits) \in Nat /\ new \in Commits
    <2>1. A \cup {n} \in SUBSET Nat
        <3>1. A \subseteq Nat
            BY <1>0
        <3>2. n \in Nat
            BY <1>0
        <3> QED
            BY <3>1, <3>2, Zenon
    <2> QED
        BY <1>0, <2>1 DEF Commits
<1>2. /\ commits' \in Seq(Commits) /\ Len(commits') = n /\ commits'[n] = new
      /\ \A c \in 1 .. Len(commits) : commits'[c] = commits[c]
    BY <1>1, Append_Is DEF DiskTypes
<1>3. ASSUME NEW c \in 1 .. n
      PROVE  /\ c \in commits'[c].anc /\ commits'[c].anc \subseteq 1 .. c
             /\ \A d \in commits'[c].anc : commits'[d].anc \subseteq commits'[c].anc
    <2>1. CASE c = n
        <3>1. commits'[n].anc = A \cup {n}
            BY <1>2
        <3>2. \A d \in A : commits'[d].anc = Anc(d)
            BY <1>2 DEF Anc
        <3>3. n \in 1 .. n /\ \A x \in A : x \in 1 .. n
            BY <1>1
        <3> HIDE DEF n, new
        <3>4. n \in commits'[n].anc /\ commits'[n].anc \subseteq 1 .. n
            BY <3>1, <3>3, Zenon
        <3>5. ASSUME NEW d \in commits'[n].anc
              PROVE  commits'[d].anc \subseteq commits'[n].anc
            <4>1. d = n \/ d \in A
                BY <3>1
            <4> QED
                BY <3>1, <3>2, <4>1
        <3> QED
            BY <2>1, <3>4, <3>5
    <2>2. CASE c \in 1 .. Len(commits)
        <3>1. Anc(c) \subseteq 1 .. c /\ Anc(c) \subseteq 1 .. Len(commits)
            BY <1>1, <2>2 DEF AncestryOrdered
        <3> QED
            BY <1>2, <2>2, <3>1 DEF AncestryOrdered, Anc
    <2> QED
        BY <1>1, <2>1, <2>2
<1>4. AncestryOrdered'
    BY <1>2, <1>3 DEF AncestryOrdered, Anc
<1> QED
    BY <1>2, <1>4

(* The candidate of the operation in progress.                              *)
LEMMA Prepare_Commit ==
    ASSUME DiskTypes, DiskInv, NEW e \in Open, ~Prepared(e), ~Has(e, Last(e), "aborted"),
           commits' = Append(commits, [anc |-> Anc(ops[e].base) \cup {Len(commits) + 1},
                                       tree |-> Tree(ops[e].base) \cup ops[e].cohort]),
           ops' = [ops EXCEPT ![e].candidate = Len(commits) + 1],
           AddRow(e, Last(e), "prepared"), UNCHANGED <<head, index, work, foreign>>
    PROVE  /\ DiskInv' /\ Open' = Open /\ Last(e)' = Last(e) /\ Prepared(e)'
           /\ ~Has(e, Last(e), "aborted")'
           /\ commits' \in Seq(Commits) /\ head \in 1 .. Len(commits')
           /\ ops' \in Seq(Ops) /\ Len(ops') = Len(ops)
           /\ rows' \subseteq (1 .. Len(ops)) \X (1 .. Budget) \X RowTypes
<1> DEFINE n == Len(commits) + 1
           b == ops[e].base
<1>0. /\ e \in Episodes /\ EpisodeSound(e) /\ Last(e) \in 1 .. Budget
      /\ AncestryOrdered /\ CandidatesExtend /\ OthersOnBranch
      /\ b \in 1 .. Len(commits) /\ ops[e].candidate = 0
      /\ Len(commits) \in Nat
    BY SeqLen_Is DEF DiskInv, Open, EpisodeSound, CommitsSound, CandidatesExtend, Extends, DiskTypes
<1>1. ops[e] \in Ops /\ commits[b] \in Commits
    BY <1>0, SeqLen_Is DEF DiskTypes, Episodes
<1>2. /\ AncestryOrdered' /\ commits' \in Seq(Commits) /\ Len(commits') = n
      /\ commits'[n] = [anc |-> Anc(b) \cup {n}, tree |-> Tree(b) \cup ops[e].cohort]
      /\ \A c \in 1 .. Len(commits) : commits'[c] = commits[c]
    <2>1. /\ Anc(b) \in SUBSET (1 .. Len(commits)) /\ \A d \in Anc(b) : Anc(d) \subseteq Anc(b)
        BY <1>0 DEF AncestryOrdered
    <2>2. Tree(b) \cup ops[e].cohort \in SUBSET File
        BY <1>1 DEF Ops, Commits, Tree
    <2> QED
        BY <1>0, <2>1, <2>2, Commit_Added
<1>3. /\ ops' \in Seq(Ops) /\ Len(ops') = Len(ops) /\ Episodes' = Episodes
      /\ ops'[e] = [ops[e] EXCEPT !.candidate = n]
      /\ \A f \in Episodes \ {e} : ops'[f] = ops[f]
    <2>1. [ops[e] EXCEPT !.candidate = n] \in Ops
        <3>1. n \in Nat
            BY <1>0
        <3> HIDE DEF n
        <3> QED
            BY <1>1, <3>1 DEF Ops
    <2>2. ops' = [ops EXCEPT ![e] = [ops[e] EXCEPT !.candidate = n]]
        OBVIOUS
    <2> QED
        BY <1>0, <2>1, <2>2, Except_Is DEF DiskTypes, Episodes
<1>4. /\ ops'[e].candidate = n /\ ops'[e].base = b /\ ops'[e].cohort = ops[e].cohort
    BY <1>1, <1>3 DEF Ops
<1>5. /\ \A f, r, u : Has(f, r, u)' <=> Has(f, r, u) \/ (f = e /\ r = Last(e) /\ u = "prepared")
      /\ \A f : Last(f)' = Last(f)
    BY Row_Has, Last_Stays
<1>6. Anc(head)' = Anc(head) /\ Tree(head)' = Tree(head)
    BY <1>2 DEF DiskTypes, Anc, Tree
<1>7. \A f \in Episodes \ {e} : EpisodeSound(f)' /\ ~(f \in Open)'
    BY <1>3, <1>5, <1>6, Episode_Stays DEF DiskInv, OneOpen
<1>8. EpisodeSound(e)' /\ Prepared(e)'
    <2>1. RowsSound(e)'
        BY <1>0, <1>5 DEF RowsSound, EpisodeSound
    <2>2. ClaimedUpTo(e, Last(e))'
        BY <1>0, <1>5 DEF ClaimedUpTo, EpisodeSound
    <2>3. Prepared(e)' /\ ~Published(e)'
        BY <1>0, <1>5 DEF Prepared, Published, EpisodeSound, RowsSound
    <2> QED
        BY <1>0, <1>4, <1>5, <2>1, <2>2, <2>3 DEF EpisodeSound
<1>9. Open' = Open
    <2>1. (e \in Open)'
        <3>1. \A s \in 1 .. Budget : ~Has(e, s, "converged")' /\ ~Has(e, s, "terminal")'
            BY <1>0, <1>5, Open_Unresolved
        <3> QED
            BY <1>0, <1>3, <3>1 DEF Open, Complete, Terminal
    <2> QED
        BY <1>0, <1>3, <1>7, <2>1 DEF DiskInv, OneOpen, Open
<1>10. FilesKnown'
    <2>1. \A c \in 1 .. n : commits'[c].tree \subseteq work \cup rows
        BY <1>0, <1>2 DEF DiskInv, FilesKnown, Tree
    <2> QED
        BY <1>2, <1>3, <1>4, <2>1 DEF DiskInv, FilesKnown, Tree, AddRow
<1>11. CandidatesExtend'
    <2>1. ASSUME NEW c \in 1 .. Len(commits)
          PROVE  Anc(c)' = Anc(c) /\ Tree(c)' = Tree(c)
        BY <1>2 DEF Anc, Tree
    <2>2. ASSUME NEW o, Extends(o)
          PROVE  Extends(o)'
        BY <1>0, <1>2, <2>1, <2>2 DEF Extends
    <2>3. Extends(ops[e])'
        <3>1. /\ commits'[n].anc = commits'[b].anc \cup {n}
              /\ commits'[n].tree = commits'[b].tree \cup ops[e].cohort
            BY <1>0, <1>2 DEF Anc, Tree
        <3>2. b < n /\ b \in 1 .. n /\ n \in 0 .. n
            BY <1>0
        <3> HIDE DEF n, b
        <3> QED
            BY <1>2, <1>4, <3>1, <3>2 DEF Extends, Anc, Tree
    <2> QED
        BY <1>0, <1>3, <2>2, <2>3 DEF CandidatesExtend
<1>12. OthersOnBranch'
    <2> SUFFICES ASSUME NEW c \in 1 .. n, \A f \in Episodes : ops'[f].candidate # c
                 PROVE  c \in Anc(head)
        BY <1>2, <1>3, <1>6 DEF OthersOnBranch
    <2>1. c \in 1 .. Len(commits)
        BY <1>0, <1>4
    <2>2. \A f \in Episodes : ops[f].candidate # c
        BY <1>0, <1>3, <2>1
    <2> QED
        BY <1>0, <2>1, <2>2 DEF OthersOnBranch
<1>13. OneOpen' /\ IndexFollows'
    <2>1. foreign = 0 => head = b /\ index = Tree(b)
        <3>1. head # 0
            BY DEF DiskTypes
        <3> QED
            BY <1>0, <3>1 DEF DiskInv, IndexFollows
    <2>2. Tree(b) = commits'[b].tree
        BY <1>0, <1>2 DEF Tree
    <2>3. Open = {e}
        BY DEF DiskInv, OneOpen
    <2> QED
        BY <1>4, <1>9, <2>1, <2>2, <2>3 DEF OneOpen, IndexFollows, Tree
<1>14. rows' \subseteq (1 .. Len(ops)) \X (1 .. Budget) \X RowTypes
    BY <1>0 DEF AddRow, DiskTypes, RowTypes, Episodes
<1>15. head \in 1 .. Len(commits')
    BY <1>0, <1>2 DEF DiskTypes
<1>16. DiskInv'
    BY <1>2, <1>3, <1>7, <1>8, <1>10, <1>11, <1>12, <1>13 DEF DiskInv, CommitsSound
<1> QED
    BY <1>2, <1>3, <1>5, <1>8, <1>9, <1>14, <1>15, <1>16

(* The branch moves to the candidate, from its base.                        *)
LEMMA Branch_Moves ==
    ASSUME DiskTypes, DiskInv, NEW e \in Open, Prepared(e), head = ops[e].base,
           head' = ops[e].candidate, UNCHANGED <<commits, index, work, rows, ops, foreign>>
    PROVE  DiskTypes' /\ DiskInv' /\ Open' = Open /\ Landed(e)'
<1>0. /\ e \in Episodes /\ EpisodeSound(e) /\ Extends(ops[e])
      /\ AncestryOrdered /\ CandidatesExtend /\ OthersOnBranch
      /\ Len(commits) \in Nat
    BY SeqLen_Is DEF DiskInv, Open, CommitsSound, CandidatesExtend, DiskTypes
<1>1. /\ ops[e].candidate # 0 /\ head' \in 1 .. Len(commits)
      /\ Anc(head)' = Anc(head) \cup {ops[e].candidate}
    BY <1>0 DEF EpisodeSound, Extends, Anc
<1>2. Landed(e)' /\ \A f : Landed(f) => Landed(f)'
    BY <1>1 DEF Landed
<1>3. DiskTypes'
    BY <1>1 DEF DiskTypes
<1>4. \A f \in Episodes : EpisodeSound(f)' /\ (f \in Open' <=> f \in Open)
    BY <1>1, Episode_Stays DEF DiskInv, Episodes, Has
<1>5. Open' = Open
    BY <1>4 DEF Open, Episodes
<1>6. FilesKnown'
    BY DEF DiskInv, FilesKnown, Episodes, Tree
<1>7. CommitsSound'
    <2>1. AncestryOrdered' /\ CandidatesExtend'
        BY <1>0 DEF AncestryOrdered, CandidatesExtend, Extends, Anc, Tree, Episodes
    <2>2. OthersOnBranch'
        BY <1>0, <1>1 DEF OthersOnBranch, Episodes
    <2> QED
        BY <2>1, <2>2 DEF CommitsSound
<1>8. OneOpen' /\ IndexFollows'
    <2>1. Open = {e}
        BY DEF DiskInv, OneOpen
    <2>2. foreign = 0 => index = Tree(ops[e].base)
        BY DEF DiskInv, IndexFollows
    <2> QED
        BY <1>5, <2>1, <2>2 DEF OneOpen, IndexFollows, Tree
<1> QED
    BY <1>2, <1>3, <1>4, <1>5, <1>6, <1>7, <1>8 DEF DiskInv, Episodes

(* A commit on top of the branch that is no candidate.                      *)
LEMMA Branch_Grows ==
    ASSUME DiskTypes, DiskInv, NEW A \in SUBSET (1 .. Len(commits)),
           \A d \in A : Anc(d) \subseteq A, head \in A,
           NEW tree \in SUBSET (work \cup rows),
           commits' = Append(commits, [anc |-> A \cup {Len(commits) + 1}, tree |-> tree]),
           head' = Len(commits) + 1, UNCHANGED <<index, work, rows, ops>>, foreign' # 0
    PROVE  /\ DiskTypes' /\ DiskInv' /\ Open' = Open /\ Anc(head)' = A \cup {Len(commits) + 1}
           /\ \A e \in Episodes : Last(e)' = Last(e) /\ (Landed(e) => Landed(e)')
<1> DEFINE n == Len(commits) + 1
<1>0. /\ AncestryOrdered /\ CandidatesExtend /\ OthersOnBranch
      /\ Len(commits) \in Nat
    BY SeqLen_Is DEF DiskInv, CommitsSound, DiskTypes
<1>1. tree \in SUBSET File
    BY DEF DiskTypes, File, Episodes
<1>2. /\ AncestryOrdered' /\ commits' \in Seq(Commits) /\ Len(commits') = n
      /\ commits'[n] = [anc |-> A \cup {n}, tree |-> tree]
      /\ \A c \in 1 .. Len(commits) : commits'[c] = commits[c]
    BY <1>0, <1>1, Commit_Added
<1>3. /\ \A c \in 1 .. Len(commits) : commits'[c].anc = Anc(c) /\ commits'[c].tree = Tree(c)
      /\ Anc(head)' = A \cup {n} /\ Anc(head) \subseteq A
    BY <1>2 DEF Anc, Tree
<1>4. DiskTypes'
    BY <1>0, <1>2 DEF DiskTypes
<1>5. \A e \in Episodes : /\ EpisodeSound(e)' /\ Last(e)' = Last(e)
                          /\ (e \in Open' <=> e \in Open) /\ (Landed(e) => Landed(e)')
    BY <1>3, Episode_Stays DEF DiskInv, Episodes, Has
<1>6. Open' = Open
    BY <1>5 DEF Open, Episodes
<1>7. FilesKnown'
    <2>1. \A c \in 1 .. n : commits'[c].tree \subseteq work \cup rows
        BY <1>0, <1>2 DEF DiskInv, FilesKnown, Tree
    <2> QED
        BY <1>2, <2>1 DEF DiskInv, FilesKnown, Tree, Episodes
<1>8. CandidatesExtend'
    <2>1. ASSUME NEW o, Extends(o)
          PROVE  Extends(o)'
        BY <1>0, <1>2, <1>3, <2>1 DEF Extends, Anc, Tree
    <2> QED
        BY <1>0, <2>1 DEF CandidatesExtend, Episodes
<1>9. OthersOnBranch'
    <2> SUFFICES ASSUME NEW c \in 1 .. n, \A f \in Episodes : ops[f].candidate # c
                 PROVE  c \in A \cup {n}
        BY <1>2, <1>3 DEF OthersOnBranch, Episodes
    <2>1. CASE c = n
        BY <2>1
    <2>2. CASE c \in 1 .. Len(commits)
        BY <1>0, <1>3, <2>2 DEF OthersOnBranch
    <2> QED
        BY <1>0, <2>1, <2>2
<1>10. OneOpen' /\ IndexFollows'
    BY <1>6 DEF DiskInv, OneOpen, IndexFollows
<1> QED
    BY <1>2, <1>3, <1>4, <1>5, <1>6, <1>7, <1>8, <1>9, <1>10 DEF DiskInv, CommitsSound, Episodes

(* While nobody commits by hand, a landed candidate is the branch.          *)
LEMMA Landed_Head ==
    ASSUME DiskTypes, DiskInv, NEW e \in Open, Landed(e), foreign = 0
    PROVE  /\ head = ops[e].candidate
           /\ Tree(head) = Tree(ops[e].base) \cup ops[e].cohort
           /\ index = Tree(ops[e].base) \/ index = Tree(head)
<1>1. /\ Extends(ops[e]) /\ AncestryOrdered /\ Len(commits) \in Nat
      /\ head \in {ops[e].base, ops[e].candidate} /\ head \in 1 .. Len(commits)
    BY SeqLen_Is DEF DiskInv, CommitsSound, CandidatesExtend, DiskTypes, IndexFollows, Open
<1>2. ops[e].candidate \in 1 .. head
    BY <1>1 DEF Landed, AncestryOrdered
<1>3. head = ops[e].candidate
    BY <1>1, <1>2 DEF Extends
<1> QED
    BY <1>1, <1>2, <1>3 DEF Extends, DiskInv, IndexFollows

LEMMA Index_Converges ==
    ASSUME DiskTypes, DiskInv, NEW e \in Open, Landed(e),
           NEW target \in SUBSET ops[e].cohort, foreign = 0 => target = ops[e].cohort,
           index' = (index \ ops[e].cohort) \cup target,
           UNCHANGED <<commits, head, work, rows, ops, foreign>>
    PROVE  /\ DiskTypes' /\ DiskInv' /\ Open' = Open
           /\ foreign = 0 => index' = Tree(head)
<1>0. /\ e \in Episodes
      /\ ops[e].cohort \subseteq work \cup rows
      /\ \A f : /\ Last(f)' = Last(f) /\ (Landed(f) <=> Landed(f)')
                /\ \A s, t : Has(f, s, t)' <=> Has(f, s, t)
    BY DEF Open, DiskInv, FilesKnown, Last, Landed, Has, Anc
<1>1. foreign = 0 => index' = Tree(head)
    BY Landed_Head
<1>2. index' \subseteq work \cup rows
    BY <1>0 DEF DiskInv, FilesKnown
<1>3. DiskTypes'
    BY <1>2 DEF DiskTypes, File, Episodes
<1>4. \A f \in Episodes : EpisodeSound(f)' /\ (f \in Open' <=> f \in Open)
    BY <1>0, Episode_Stays DEF DiskInv, Episodes, Anc
<1>5. Open' = Open
    BY <1>4 DEF Open, Episodes
<1>6. FilesKnown' /\ CommitsSound'
    BY <1>2 DEF DiskInv, FilesKnown, CommitsSound, AncestryOrdered, CandidatesExtend, Extends,
                OthersOnBranch, Tree, Anc, Episodes
<1>7. OneOpen' /\ IndexFollows'
    <2>1. Open = {e}
        BY DEF DiskInv, OneOpen
    <2>2. foreign = 0 => head = ops[e].candidate
        BY Landed_Head
    <2> QED
        BY <1>1, <1>5, <2>1, <2>2 DEF OneOpen, IndexFollows, Tree
<1> QED
    BY <1>1, <1>3, <1>4, <1>5, <1>6, <1>7 DEF DiskInv, Episodes

-----------------------------------------------------------------------------
(* The moves of a process.                                                  *)
LEMMA Goto_Is ==
    ASSUME ProcTypes, NEW p \in Procs, NEW c \in Inside \cup {"cold", "ready"}, Goto(p, c)
    PROVE  \E l \in Places : /\ at' = [at EXCEPT ![p] = l]
                             /\ l.pc = c /\ l.ep = at[p].ep /\ l.slot = at[p].slot
                             /\ l.via = at[p].via /\ l.target = at[p].target
<1> DEFINE l == [at[p] EXCEPT !.pc = c]
<1>1. at[p] \in Places
    BY DEF ProcTypes
<1>2. /\ l \in Places
      /\ l.pc = c /\ l.ep = at[p].ep /\ l.slot = at[p].slot
      /\ l.via = at[p].via /\ l.target = at[p].target
    BY <1>1 DEF Places
<1>3. at' = [at EXCEPT ![p] = l]
    BY DEF Goto
<1> QED
    BY <1>2, <1>3

LEMMA Outside_Leaves ==
    ASSUME NEW c \in {"cold", "ready"}
    PROVE  Outside(c) \in Leaving /\ Outside(c).pc = c
BY DEF Outside, Leaving, Places, Inside

LEMMA Answer_Leaves ==
    ASSUME ProcTypes, NEW p \in Procs, NEW a \in Answers, Answer(p, a)
    PROVE  /\ \E l \in Leaving : at' = [at EXCEPT ![p] = l]
           /\ told' \in [Procs -> Answers]
           /\ at'[p].pc = "ready" /\ told'[p] = a
BY Outside_Leaves DEF Answer, ProcTypes

LEMMA Block_Leaves ==
    ASSUME ProcTypes, NEW p \in Procs, Block(p)
    PROVE  /\ \E l \in Leaving : at' = [at EXCEPT ![p] = l]
           /\ told' \in [Procs -> Answers]
           /\ at'[p].pc = "cold"
BY Outside_Leaves DEF Block, ProcTypes

LEMMA LookAgain_Leaves ==
    ASSUME ProcTypes, NEW p \in Procs, at[p].via \in {"startup", "joined"}, LookAgain(p)
    PROVE  /\ \E l \in Leaving : at' = [at EXCEPT ![p] = l]
           /\ told' \in [Procs -> Answers]
           /\ at'[p].pc = "episodes"
<1> DEFINE l == [Outside("episodes") EXCEPT !.via = at[p].via]
<1>1. l \in Leaving /\ l.pc = "episodes"
    BY DEF Outside, Leaving, Places, Inside
<1>2. at' = [at EXCEPT ![p] = l] /\ told' = told
    BY DEF LookAgain
<1> QED
    BY <1>1, <1>2 DEF ProcTypes

LEMMA Throw_Leaves ==
    ASSUME ProcTypes, NEW p \in Procs, ThrowUnaware(p)
    PROVE  /\ \E l \in Leaving : at' = [at EXCEPT ![p] = l]
           /\ told' \in [Procs -> Answers]
           /\ at'[p].pc = "ready" => at[p].via = "drain" /\ told'[p] = "error"
<1>1. CASE at[p].via = "drain"
    BY <1>1, Answer_Leaves DEF ThrowUnaware, Answers
<1>2. CASE at[p].via = "joined"
    BY <1>2, LookAgain_Leaves, Block_Leaves DEF ThrowUnaware
<1>3. CASE at[p].via \notin {"drain", "joined"}
    BY <1>3, Block_Leaves DEF ThrowUnaware
<1> QED
    BY <1>1, <1>2, <1>3

(* A step that leaves, whatever it leaves behind.                           *)
LEMMA Left ==
    ASSUME IInv, NEW p \in Procs, at[p].pc \in Inside \/ Free,
           \E l \in Leaving : at' = [at EXCEPT ![p] = l], told' \in [Procs -> Answers],
           faults' \in 0 .. MaxFaults, foreign' = foreign, DiskTypes', DiskInv'
    PROVE  IInv'
BY Leave_Step

LEMMA Disk_Unchanged ==
    ASSUME IInv, UNCHANGED <<diskVars, foreign>>
    PROVE  DiskTypes' /\ DiskInv'
BY Disk_Same DEF IInv, diskVars, DiskTypes

LEMMA Faults_Unchanged ==
    ASSUME IInv, UNCHANGED faults
    PROVE  faults' \in 0 .. MaxFaults
BY DEF IInv, ProcTypes

LEMMA Throw_Step ==
    ASSUME IInv, NEW p \in Procs, at[p].pc \in Inside, Throw(p) \/ Block(p),
           faults' \in 0 .. MaxFaults, UNCHANGED <<diskVars, foreign>>
    PROVE  IInv'
<1>1. ProcTypes /\ PlaceSound(at[p])
    BY DEF IInv, AtSound
<1>2. CASE Block(p) \/ ThrowUnaware(p)
    <2>1. /\ \E l \in Leaving : at' = [at EXCEPT ![p] = l]
          /\ told' \in [Procs -> Answers]
        BY <1>1, <1>2, Throw_Leaves, Block_Leaves
    <2> QED
        BY <2>1, Disk_Unchanged, Left
<1>3. CASE at[p].via = "drain" /\ at[p].pc \in Recovering
           /\ Goto(p, "disposition") /\ UNCHANGED told
    <2>1. PICK l \in Places : /\ at' = [at EXCEPT ![p] = l] /\ l.pc = "disposition"
                              /\ l.ep = at[p].ep /\ l.via = at[p].via
        BY <1>1, <1>3, Goto_Is DEF Inside
    <2>2. PlaceSound(l)
        BY <1>1, <1>3, <2>1 DEF PlaceSound, OnSlot, Recovering
    <2>3. PlaceSound(l)' /\ told' \in [Procs -> Answers]
        BY <1>1, <1>3, <2>2, Place_Same DEF diskVars, ProcTypes
    <2> QED
        BY <2>1, <2>3, Disk_Unchanged, Inv_Step
<1> QED
    BY <1>2, <1>3 DEF Throw

LEMMA Fault_Step ==
    ASSUME IInv, NEW p \in Procs, Fault(p) \/ Crash(p)
    PROVE  IInv'
<1>1. faults' \in 0 .. MaxFaults
    BY DrainAssumption DEF Fault, Crash, IInv, ProcTypes
<1> QED
    BY <1>1, Throw_Step DEF Fault, Crash

LEMMA Restart_Step ==
    ASSUME IInv, NEW p \in Procs, Restart(p)
    PROVE  IInv'
<1>1. /\ at' \in [Procs -> Places] /\ told' \in [Procs -> Answers]
      /\ at'[p] = Outside("cold") /\ \A q \in Procs \ {p} : at'[q] = at[q]
    BY Outside_Leaves DEF IInv, ProcTypes, Restart, Leaving, Answers
<1>2. Outside("cold").pc \notin Inside /\ at[p].pc \notin Inside
    BY DEF Outside, Inside, Restart, In
<1>3. \A l : PlaceSound(l) => PlaceSound(l)'
    BY Place_Same DEF Restart, diskVars
<1>4. Exclusive' /\ \A q \in Procs : AtSound(q)'
    BY <1>1, <1>2, <1>3 DEF IInv, Exclusive, AtSound
<1>5. DiskTypes' /\ DiskInv'
    BY Disk_Unchanged DEF Restart
<1> QED
    BY <1>1, <1>4, <1>5 DEF IInv, ProcTypes, Restart

LEMMA Startup_Step ==
    ASSUME IInv, NEW p \in Procs, Startup(p)
    PROVE  IInv'
<1> DEFINE l == [Outside("episodes") EXCEPT !.via = "startup"]
<1>1. l \in Leaving
    BY DEF Outside, Leaving, Places, Inside
<1>2. at' = [at EXCEPT ![p] = l] /\ Free /\ told' \in [Procs -> Answers]
    BY DEF Startup, IInv, ProcTypes, Answers
<1>3. DiskTypes' /\ DiskInv'
    BY Disk_Unchanged DEF Startup
<1>4. UNCHANGED <<faults, foreign>>
    BY DEF Startup
<1> QED
    BY <1>1, <1>2, <1>3, <1>4, Left, Faults_Unchanged

LEMMA Write_Step ==
    ASSUME IInv, NEW c \in Contents, Write(c)
    PROVE  IInv'
<1>1. DiskTypes'
    BY DEF Write, IInv, DiskTypes
<1>2. DiskInv'
    BY Disk_Same DEF Write, IInv
<1>3. \A l : PlaceSound(l) => PlaceSound(l)'
    BY Place_Same DEF Write
<1>4. Exclusive' /\ \A q \in Procs : AtSound(q)'
    BY <1>3 DEF Write, IInv, Exclusive, AtSound
<1> QED
    BY <1>1, <1>2, <1>4 DEF IInv, ProcTypes, Write

LEMMA ForeignCommit_Step ==
    ASSUME IInv, ForeignCommit
    PROVE  IInv'
<1>1. /\ Anc(head) \in SUBSET (1 .. Len(commits)) /\ head \in Anc(head)
      /\ \A d \in Anc(head) : Anc(d) \subseteq Anc(head)
      /\ index \in SUBSET (work \cup rows)
    BY SeqLen_Is DEF IInv, DiskInv, CommitsSound, AncestryOrdered, DiskTypes, FilesKnown
<1>2. foreign' \in 0 .. MaxForeign /\ foreign' # 0
    BY DrainAssumption DEF IInv, ProcTypes, ForeignCommit
<1>3. /\ DiskTypes' /\ DiskInv' /\ Open' = Open
      /\ Anc(head)' = Anc(head) \cup {Len(commits) + 1}
      /\ \A e \in Episodes : Last(e)' = Last(e) /\ (Landed(e) => Landed(e)')
    BY <1>1, <1>2, Branch_Grows DEF IInv, ForeignCommit
<1>4. ASSUME NEW l, PlaceSound(l)
      PROVE  PlaceSound(l)'
    <2>1. /\ \A e, s, t : Has(e, s, t)' <=> Has(e, s, t)
          /\ \A e : Last(e)' = Last(e) /\ (Prepared(e)' <=> Prepared(e))
                    /\ (Published(e)' <=> Published(e))
        BY DEF ForeignCommit, Has, Last, Prepared, Published
    <2>2. ops' = ops /\ Episodes' = Episodes
        BY DEF ForeignCommit, Episodes
    <2>3. ASSUME NEW e \in Open
          PROVE  Landed(e)' => Landed(e)
        <3>1. ops[e].candidate \in 0 .. Len(commits)
            BY DEF IInv, DiskInv, CommitsSound, CandidatesExtend, Extends, Open
        <3>2. Len(commits) \in Nat
            BY SeqLen_Is DEF IInv, DiskTypes
        <3> QED
            BY <1>3, <2>2, <3>1, <3>2 DEF Landed
    <2> QED
        BY <1>2, <1>3, <1>4, <2>1, <2>2, <2>3 DEF PlaceSound, OnSlot, Open
<1>5. Exclusive' /\ \A q \in Procs : AtSound(q)'
    BY <1>4 DEF ForeignCommit, IInv, Exclusive, AtSound
<1> QED
    BY <1>2, <1>3, <1>5 DEF IInv, ProcTypes, ForeignCommit

-----------------------------------------------------------------------------
(* The steps of an operation.                                               *)
LEMMA Inside_Sound ==
    ASSUME IInv, NEW p \in Procs, at[p].pc \in Inside
    PROVE  /\ PlaceSound(at[p]) /\ at[p] \in Places /\ ProcTypes /\ DiskTypes /\ DiskInv
           /\ at[p].via # "none" /\ told \in [Procs -> Answers]
           /\ at[p].pc = "episodes" => at[p].via \in {"startup", "joined"}
           /\ at[p].pc \notin {"episodes", "answer"} =>
                 at[p].ep \in Open /\ at[p].ep \in Episodes /\ EpisodeSound(at[p].ep)
BY DEF IInv, AtSound, PlaceSound, ProcTypes, DiskInv, Open

(* A commit that is on the branch has been prepared.                        *)
LEMMA Unprepared_Unlanded ==
    ASSUME DiskTypes, DiskInv, NEW e \in Episodes
    PROVE  Landed(e) => Prepared(e)
BY DEF DiskTypes, DiskInv, CommitsSound, AncestryOrdered, EpisodeSound, Landed

LEMMA Claimed_Place ==
    ASSUME IInv, NEW p \in Procs, at[p].pc \in Inside, NEW e \in Open,
           NEW next \in {"prepare", "recover"}, ClaimOf(p, e, next),
           UNCHANGED <<commits, head, index, work, ops, told, faults, foreign>>
    PROVE  IInv'
<1>0. /\ at[p] \in Places /\ ProcTypes /\ DiskTypes /\ DiskInv /\ at[p].via # "none"
      /\ told' \in [Procs -> Answers] /\ faults' \in 0 .. MaxFaults
      /\ e \in Nat /\ EpisodeSound(e) /\ Last(e) \in 1 .. Budget
    BY Inside_Sound, SeqLen_Is DEF IInv, ProcTypes, DiskInv, Open, Episodes, EpisodeSound
<1> PICK l0 \in Places : l0 = at[p]
    BY <1>0
<1> PICK n \in Nat : n = Last(e)
    BY <1>0
<1>slots. n + 1 \in Nat /\ Budget \in Nat
    BY DrainAssumption
<1>1. CASE Pending(e)
    <2> DEFINE l == [l0 EXCEPT !.pc = "recover", !.ep = e, !.slot = n]
    <2>1. l \in Places /\ l.pc = "recover" /\ l.ep = e /\ l.slot = n /\ l.via = l0.via
        BY <1>0, <1>slots DEF Places, Inside
    <2>2. at' = [at EXCEPT ![p] = l] /\ UNCHANGED rows
        BY <1>1, <2>1 DEF ClaimOf
    <2>3. DiskTypes' /\ DiskInv'
        BY <2>2, Disk_Unchanged DEF diskVars
    <2>4. PlaceSound(l)
        BY <1>0, <1>1, <2>1 DEF PlaceSound, OnSlot, Pending, Aborted, EpisodeSound, RowsSound
    <2>5. PlaceSound(l)'
        BY <2>2, <2>4, Place_Same
    <2> QED
        BY <1>0, <2>1, <2>2, <2>3, <2>5, Inv_Step
<1>2. CASE ~Pending(e) /\ Last(e) = Budget
    <2> DEFINE l == [l0 EXCEPT !.pc = "terminal", !.ep = e, !.slot = Budget]
    <2>1. l \in Places /\ l.pc = "terminal" /\ l.ep = e /\ l.slot = Budget /\ l.via = l0.via
        BY <1>0, <1>slots DEF Places, Inside
    <2>2. at' = [at EXCEPT ![p] = l] /\ UNCHANGED rows
        BY <1>2, <2>1 DEF ClaimOf
    <2>3. DiskTypes' /\ DiskInv'
        BY <2>2, Disk_Unchanged DEF diskVars
    <2>4. Has(e, Budget, "aborted")
        BY <1>0, <1>2 DEF Pending, Aborted, Open, Complete
    <2>5. PlaceSound(l)
        BY <1>0, <1>2, <2>1, <2>4 DEF PlaceSound, OnSlot
    <2>6. PlaceSound(l)'
        BY <2>2, <2>5, Place_Same
    <2> QED
        BY <1>0, <2>1, <2>2, <2>3, <2>6, Inv_Step
<1>3. CASE ~Pending(e) /\ Last(e) # Budget
    <2> DEFINE l == [l0 EXCEPT !.pc = next, !.ep = e, !.slot = n + 1]
    <2>1. l \in Places /\ l.pc = next /\ l.ep = e /\ l.slot = n + 1 /\ l.via = l0.via
        BY <1>0, <1>slots DEF Places, Inside
    <2>2. at' = [at EXCEPT ![p] = l] /\ AddRow(e, Last(e) + 1, "claimed")
        BY <1>3, <2>1 DEF ClaimOf
    <2>3. /\ DiskInv' /\ Open' = Open /\ Last(e)' = Last(e) + 1
          /\ rows' \subseteq (1 .. Len(ops)) \X (1 .. Budget) \X RowTypes
          /\ ~Has(e, Last(e), "aborted")' /\ ~Prepared(e)'
        BY <1>0, <1>3, <2>2, Claim_Row
    <2>4. DiskTypes'
        BY <1>0, <2>3 DEF DiskTypes
    <2>5. PlaceSound(l)'
        BY <1>0, <2>1, <2>3 DEF PlaceSound, OnSlot, Has
    <2> QED
        BY <1>0, <2>1, <2>2, <2>3, <2>4, <2>5, Inv_Step
<1> QED
    BY <1>1, <1>2, <1>3

LEMMA Claim_Step ==
    ASSUME IInv, NEW p \in Procs, Claim(p) \/ ResumeEpisode(p)
    PROVE  IInv'
<1>1. CASE Claim(p)
    BY <1>1, Inside_Sound, Claimed_Place DEF Claim, In, Inside
<1>2. CASE ResumeEpisode(p)
    BY <1>2, Claimed_Place DEF ResumeEpisode, In, Inside
<1> QED
    BY <1>1, <1>2

LEMMA Prepare_Step ==
    ASSUME IInv, NEW p \in Procs, Prepare(p)
    PROVE  IInv'
<1> DEFINE e == at[p].ep
<1>0. /\ PlaceSound(at[p]) /\ ProcTypes /\ DiskTypes /\ DiskInv
      /\ e \in Open /\ at[p].pc = "prepare" /\ at[p].slot = Last(e)
      /\ ~Prepared(e) /\ ~Has(e, Last(e), "aborted") /\ at[p].via # "none"
    BY Inside_Sound DEF Prepare, In, Inside, PlaceSound, OnSlot
<1>1. PICK l \in Places : /\ at' = [at EXCEPT ![p] = l] /\ l.pc = "recover" /\ l.ep = at[p].ep
                          /\ l.slot = at[p].slot /\ l.via = at[p].via
    BY <1>0, Goto_Is DEF Prepare, Inside
<1>2. PICK f : f = e
    OBVIOUS
<1>3. /\ commits' = Append(commits, [anc |-> Anc(ops[f].base) \cup {Len(commits) + 1},
                                     tree |-> Tree(ops[f].base) \cup ops[f].cohort])
      /\ ops' = [ops EXCEPT ![f].candidate = Len(commits) + 1]
      /\ AddRow(f, Last(f), "prepared")
    BY <1>0, <1>2 DEF Prepare
<1>4. UNCHANGED <<head, index, work, told, faults, foreign>>
    BY DEF Prepare
<1>5. /\ DiskInv' /\ Open' = Open /\ Last(f)' = Last(f)
      /\ ~Has(f, Last(f), "aborted")'
      /\ commits' \in Seq(Commits) /\ head \in 1 .. Len(commits')
      /\ ops' \in Seq(Ops) /\ Len(ops') = Len(ops)
      /\ rows' \subseteq (1 .. Len(ops)) \X (1 .. Budget) \X RowTypes
    BY <1>0, <1>2, <1>3, <1>4, Prepare_Commit
<1>6. DiskTypes'
    BY <1>0, <1>4, <1>5 DEF DiskTypes
<1>7. PlaceSound(l)'
    BY <1>0, <1>1, <1>2, <1>5 DEF PlaceSound, OnSlot, Has
<1>8. told' \in [Procs -> Answers] /\ faults' \in 0 .. MaxFaults
    BY <1>0, <1>4 DEF ProcTypes
<1> QED
    BY <1>0, <1>1, <1>4, <1>5, <1>6, <1>7, <1>8, Inv_Step DEF Inside

LEMMA Quiet_Step ==
    ASSUME IInv, NEW p \in Procs, at[p].pc \in Inside, NEW l \in Places,
           at' = [at EXCEPT ![p] = l], PlaceSound(l),
           UNCHANGED <<diskVars, told, faults, foreign>>
    PROVE  IInv'
<1>1. told' \in [Procs -> Answers] /\ faults' \in 0 .. MaxFaults
    BY DEF IInv, ProcTypes
<1>2. PlaceSound(l)'
    BY Place_Same DEF diskVars
<1> QED
    BY <1>1, <1>2, Disk_Unchanged, Inv_Step

LEMMA Recover_Step ==
    ASSUME IInv, NEW p \in Procs, Recover(p)
    PROVE  IInv'
<1> DEFINE e == at[p].ep
<1>0. /\ PlaceSound(at[p]) /\ ProcTypes /\ at[p].pc = "recover" /\ at[p].pc \in Inside
      /\ e \in Open /\ at[p].slot = Last(e) /\ ~Has(e, Last(e), "aborted") /\ at[p].via # "none"
    BY Inside_Sound DEF Recover, In, Inside, PlaceSound, OnSlot
<1>1. UNCHANGED <<diskVars, faults, foreign>>
    BY DEF Recover
<1>2. CASE Throw(p)
    BY <1>0, <1>1, <1>2, Throw_Step, Faults_Unchanged
<1>3. ASSUME NEW c \in {"abort", "cas", "target", "published"}, Goto(p, c), UNCHANGED told,
             c = "abort" => ~Prepared(e),
             c # "abort" => Prepared(e),
             c = "target" => Published(e),
             c = "published" => Landed(e)
      PROVE  IInv'
    <2>1. PICK l \in Places : /\ at' = [at EXCEPT ![p] = l] /\ l.pc = c /\ l.ep = at[p].ep
                              /\ l.slot = at[p].slot /\ l.via = at[p].via
        BY <1>0, <1>3, Goto_Is DEF Inside
    <2>2. PlaceSound(l)
        BY <1>0, <1>3, <2>1 DEF PlaceSound, OnSlot
    <2> QED
        BY <1>0, <1>1, <1>3, <2>1, <2>2, Quiet_Step
<1>4. CASE ~Prepared(e)
    BY <1>3, <1>4 DEF Recover
<1>5. CASE Prepared(e) /\ ~Published(e) /\ head = ops[e].base
    BY <1>3, <1>5 DEF Recover
<1>6. CASE Prepared(e) /\ ~(~Published(e) /\ head = ops[e].base) /\ ~Landed(e)
    BY <1>2, <1>6 DEF Recover
<1>7. CASE Prepared(e) /\ ~(~Published(e) /\ head = ops[e].base) /\ Landed(e) /\ Published(e)
    BY <1>3, <1>7 DEF Recover
<1>8. CASE Prepared(e) /\ ~(~Published(e) /\ head = ops[e].base) /\ Landed(e) /\ ~Published(e)
    BY <1>3, <1>8 DEF Recover
<1> QED
    BY <1>4, <1>5, <1>6, <1>7, <1>8

LEMMA Cas_Step ==
    ASSUME IInv, NEW p \in Procs, Cas(p)
    PROVE  IInv'
<1>0. /\ PlaceSound(at[p]) /\ ProcTypes /\ DiskTypes /\ DiskInv
      /\ at[p].pc = "cas" /\ at[p].pc \in Inside /\ at[p].ep \in Open /\ at[p].via # "none"
    BY Inside_Sound DEF Cas, In, Inside
<1>1. UNCHANGED <<commits, index, work, rows, ops, faults, foreign>>
    BY DEF Cas
<1>2. CASE Throw(p) /\ UNCHANGED head
    BY <1>0, <1>1, <1>2, Throw_Step, Faults_Unchanged DEF diskVars
<1>3. CASE /\ head = ops[at[p].ep].base /\ head' = ops[at[p].ep].candidate
           /\ Goto(p, "published") /\ UNCHANGED told
    <2>1. PICK l \in Places : /\ at' = [at EXCEPT ![p] = l] /\ l.pc = "published"
                              /\ l.ep = at[p].ep /\ l.slot = at[p].slot /\ l.via = at[p].via
        BY <1>0, <1>3, Goto_Is DEF Inside
    <2>2. /\ l.ep \in Open /\ Prepared(l.ep) /\ l.slot = Last(l.ep)
          /\ ~Has(l.ep, l.slot, "aborted") /\ l.via # "none"
        BY <1>0, <2>1 DEF PlaceSound, OnSlot
    <2>3. DiskTypes' /\ DiskInv' /\ Open' = Open /\ Landed(l.ep)'
        BY <1>0, <1>1, <1>3, <2>1, <2>2, Branch_Moves
    <2>4. PlaceSound(l)'
        BY <1>1, <2>1, <2>2, <2>3 DEF PlaceSound, OnSlot, Prepared, Has, Last
    <2>5. told' \in [Procs -> Answers]
        BY <1>0, <1>3 DEF ProcTypes
    <2> QED
        BY <1>0, <1>1, <2>1, <2>3, <2>4, <2>5, Inv_Step, Faults_Unchanged
<1> QED
    BY <1>2, <1>3 DEF Cas

LEMMA Row_Step ==
    ASSUME IInv, NEW p \in Procs, RecordPublished(p) \/ Abort(p)
    PROVE  IInv'
<1>0. /\ PlaceSound(at[p]) /\ ProcTypes /\ DiskTypes /\ DiskInv
      /\ at[p].pc \in {"published", "abort"} /\ at[p].pc \in Inside
      /\ at[p].ep \in Open /\ at[p].via # "none"
    BY Inside_Sound DEF RecordPublished, Abort, In, Inside
<1>1. /\ at[p].slot = Last(at[p].ep) /\ ~Has(at[p].ep, Last(at[p].ep), "aborted")
      /\ at[p].pc = "published" => Prepared(at[p].ep) /\ Landed(at[p].ep)
      /\ at[p].pc = "abort" => ~Prepared(at[p].ep)
    BY <1>0 DEF PlaceSound, OnSlot
<1>2. PICK e \in Open, n \in Nat : e = at[p].ep /\ n = Last(e)
    BY <1>0 DEF DiskInv, EpisodeSound, Open
<1>3. /\ UNCHANGED <<commits, head, index, work, ops, told, faults, foreign>>
      /\ told' \in [Procs -> Answers] /\ faults' \in 0 .. MaxFaults
    BY <1>0 DEF RecordPublished, Abort, ProcTypes
<1>4. PICK t \in {"published", "aborted"} :
          /\ AddRow(e, n, t)
          /\ t = "published" <=> at[p].pc = "published"
    BY <1>1, <1>2 DEF RecordPublished, Abort, In
<1>5. DiskInv' /\ Open' = Open
    BY <1>0, <1>1, <1>2, <1>3, <1>4, Row_Forward
<1>6. Last(e)' = n /\ n \in 1 .. Budget
      /\ rows' \subseteq (1 .. Len(ops)) \X (1 .. Budget) \X RowTypes
    BY <1>0, <1>2, <1>3, <1>4, Row_Common DEF RowTypes, Open
<1>7. DiskTypes'
    BY <1>0, <1>3, <1>6 DEF DiskTypes
<1>8. \A f, r, u : Has(f, r, u)' <=> Has(f, r, u) \/ (f = e /\ r = n /\ u = t)
    BY <1>4, Row_Has
<1>9. CASE RecordPublished(p)
    <2>1. PICK l \in Places : /\ at' = [at EXCEPT ![p] = l] /\ l.pc = "target"
                              /\ l.ep = at[p].ep /\ l.slot = at[p].slot /\ l.via = at[p].via
        BY <1>0, <1>9, Goto_Is DEF RecordPublished, Inside
    <2>2. t = "published"
        BY <1>4, <1>9 DEF RecordPublished, In
    <2>3. ~Has(e, n, "aborted")' /\ Has(e, n, "prepared")' /\ Has(e, n, "published")'
        BY <1>1, <1>2, <1>8, <2>2, <1>9 DEF Prepared, RecordPublished, In
    <2>4. Prepared(e)' /\ Published(e)'
        BY <1>6, <2>3 DEF Prepared, Published
    <2>5. PlaceSound(l)'
        BY <1>0, <1>1, <1>2, <1>5, <1>6, <2>1, <2>3, <2>4 DEF PlaceSound, OnSlot
    <2> QED
        BY <1>0, <1>3, <1>5, <1>7, <2>1, <2>5, Inv_Step
<1>10. CASE Abort(p)
    <2>1. at[p].pc = "abort" /\ t = "aborted"
        BY <1>4, <1>10 DEF Abort, In
    <2>2. CASE LookAgain(p) /\ at[p].via \notin {"drain", "backlog"}
        <3>1. at[p].via \in {"startup", "joined"}
            BY <1>0, <2>2 DEF ProcTypes, Places
        <3> QED
            BY <1>0, <1>3, <1>5, <1>7, <2>2, <3>1, LookAgain_Leaves, Left
    <2>3. CASE Goto(p, "claim")
        <3>1. PICK l \in Places : /\ at' = [at EXCEPT ![p] = l] /\ l.pc = "claim"
                                  /\ l.ep = at[p].ep /\ l.slot = at[p].slot /\ l.via = at[p].via
            BY <1>0, <2>3, Goto_Is DEF Inside
        <3>2. ~Landed(e)'
            BY <1>0, <1>1, <1>2, <1>3, <2>1, Unprepared_Unlanded
               DEF DiskInv, Open, Landed, Anc
        <3>3. PlaceSound(l)'
            BY <1>0, <1>2, <1>5, <3>1, <3>2 DEF PlaceSound, OnSlot
        <3> QED
            BY <1>0, <1>3, <1>5, <1>7, <3>1, <3>3, Inv_Step
    <2>4. CASE Goto(p, "terminal") /\ at[p].slot = Budget
        <3>1. PICK l \in Places : /\ at' = [at EXCEPT ![p] = l] /\ l.pc = "terminal"
                                  /\ l.ep = at[p].ep /\ l.slot = at[p].slot /\ l.via = at[p].via
            BY <1>0, <2>4, Goto_Is DEF Inside
        <3>2. PlaceSound(l)'
            BY <1>0, <1>1, <1>2, <1>5, <1>6, <1>8, <2>1, <2>4, <3>1 DEF PlaceSound, OnSlot
        <3> QED
            BY <1>0, <1>3, <1>5, <1>7, <3>1, <3>2, Inv_Step
    <2> QED
        BY <1>10, <2>2, <2>3, <2>4 DEF Abort
<1> QED
    BY <1>9, <1>10

LEMMA ReadTarget_Step ==
    ASSUME IInv, NEW p \in Procs, ReadTarget(p)
    PROVE  IInv'
<1> DEFINE e == at[p].ep
<1>0. /\ PlaceSound(at[p]) /\ ProcTypes /\ DiskTypes /\ DiskInv /\ at[p] \in Places
      /\ at[p].pc = "target" /\ at[p].pc \in Inside /\ e \in Open /\ EpisodeSound(e)
      /\ Prepared(e) /\ Published(e) /\ Landed(e) /\ at[p].via # "none"
      /\ at[p].slot = Last(e) /\ ~Has(e, Last(e), "aborted")
    BY Inside_Sound DEF ReadTarget, In, Inside, PlaceSound, OnSlot, EpisodeSound
<1> DEFINE t == ops[e].cohort \cap Tree(head)
           l == [at[p] EXCEPT !.pc = "index", !.target = t]
<1>1. t \subseteq File
    <2>1. ops[e] \in Ops
        BY <1>0, SeqLen_Is DEF DiskTypes, Open, Episodes
    <2> QED
        BY <2>1 DEF Ops
<1>2. foreign = 0 => t = ops[e].cohort
    BY <1>0, Landed_Head
<1>3. t \subseteq ops[e].cohort
    OBVIOUS
<1>4. at' = [at EXCEPT ![p] = l]
    BY DEF ReadTarget
<1>5. l \in Places /\ l.pc = "index" /\ l.ep = e /\ l.slot = at[p].slot /\ l.via = at[p].via
      /\ l.target = t
    <2> HIDE DEF t
    <2> QED
        BY <1>0, <1>1 DEF Places, Inside
<1>6. PlaceSound(l)
    <2> HIDE DEF t, l
    <2> QED
        BY <1>0, <1>2, <1>3, <1>5 DEF PlaceSound, OnSlot
<1>7. UNCHANGED <<diskVars, told, faults, foreign>>
    BY DEF ReadTarget
<1> HIDE DEF t, l
<1> QED
    BY <1>0, <1>4, <1>5, <1>6, <1>7, Quiet_Step

LEMMA ConvergeIndex_Step ==
    ASSUME IInv, NEW p \in Procs, ConvergeIndex(p)
    PROVE  IInv'
<1>0. /\ PlaceSound(at[p]) /\ ProcTypes /\ DiskTypes /\ DiskInv /\ at[p] \in Places
      /\ at[p].pc = "index" /\ at[p].pc \in Inside
    BY Inside_Sound DEF ConvergeIndex, In, Inside
<1>1. PICK e \in Open, t \in SUBSET File : e = at[p].ep /\ t = at[p].target
    BY <1>0 DEF PlaceSound, Places
<1>2. /\ Prepared(e) /\ Published(e) /\ at[p].via # "none"
      /\ at[p].slot = Last(e) /\ ~Has(e, Last(e), "aborted")
      /\ t \subseteq ops[e].cohort /\ (foreign = 0 => t = ops[e].cohort)
    BY <1>0, <1>1 DEF PlaceSound, OnSlot
<1>3. Landed(e)
    BY <1>0, <1>2 DEF DiskInv, EpisodeSound, Open
<1>4. UNCHANGED <<commits, head, work, rows, ops, faults, foreign>>
    BY DEF ConvergeIndex
<1>5. CASE Throw(p) /\ UNCHANGED index
    BY <1>0, <1>4, <1>5, Throw_Step, Faults_Unchanged DEF diskVars
<1>6. CASE /\ index' = (index \ ops[e].cohort) \cup t
           /\ at' = [at EXCEPT ![p].pc = "converged", ![p].target = {}]
           /\ UNCHANGED told
    <2>1. /\ DiskTypes' /\ DiskInv' /\ Open' = Open
          /\ foreign = 0 => index' = Tree(head)
        BY <1>0, <1>2, <1>3, <1>4, <1>6, Index_Converges
    <2>2. PICK l \in Places : /\ at' = [at EXCEPT ![p] = l] /\ l.pc = "converged"
                              /\ l.ep = at[p].ep /\ l.slot = at[p].slot /\ l.via = at[p].via
        <3> DEFINE l == [at[p] EXCEPT !.pc = "converged", !.target = {}]
        <3>1. /\ l \in Places /\ l.pc = "converged"
              /\ l.ep = at[p].ep /\ l.slot = at[p].slot /\ l.via = at[p].via
            BY <1>0 DEF Places, Inside
        <3>2. at' = [at EXCEPT ![p] = l]
            BY <1>6
        <3> QED
            BY <3>1, <3>2
    <2>3. PlaceSound(l)'
        BY <1>1, <1>2, <1>4, <2>1, <2>2 DEF PlaceSound, OnSlot, Prepared, Published, Has, Last, Tree
    <2>4. told' \in [Procs -> Answers]
        BY <1>0, <1>6 DEF ProcTypes
    <2> QED
        BY <1>0, <1>4, <2>1, <2>2, <2>3, <2>4, Inv_Step, Faults_Unchanged
<1>7. \/ Throw(p) /\ UNCHANGED index
      \/ /\ index' = (index \ ops[e].cohort) \cup t
         /\ at' = [at EXCEPT ![p].pc = "converged", ![p].target = {}]
         /\ UNCHANGED told
    BY <1>1 DEF ConvergeIndex
<1> QED
    BY <1>5, <1>6, <1>7

(* The two rows that resolve an operation.                                  *)
LEMMA Resolve_Step ==
    ASSUME IInv, NEW p \in Procs, RecordConverged(p) \/ EndEpisode(p)
    PROVE  IInv'
<1>0. /\ PlaceSound(at[p]) /\ ProcTypes /\ DiskTypes /\ DiskInv /\ at[p].via # "none"
      /\ at[p].pc \in {"converged", "terminal"} /\ at[p].pc \in Inside /\ at[p] \in Places
    BY Inside_Sound DEF RecordConverged, EndEpisode, In, Inside
<1>1. PICK e \in Open : e = at[p].ep
    BY <1>0 DEF PlaceSound
<1>2. /\ at[p].slot = Last(e)
      /\ at[p].pc = "converged" => Published(e) /\ (foreign = 0 => index = Tree(head))
      /\ at[p].pc = "terminal" => Last(e) = Budget /\ Has(e, Budget, "aborted")
    BY <1>0, <1>1 DEF PlaceSound, OnSlot
<1>3. UNCHANGED <<commits, head, index, work, ops, faults, foreign>>
    BY DEF RecordConverged, EndEpisode
<1>4. PICK t \in {"converged", "terminal"} : AddRow(e, Last(e), t) /\ t = at[p].pc
    BY <1>1, <1>2 DEF RecordConverged, EndEpisode, In
<1>5. DiskInv'
    BY <1>0, <1>2, <1>3, <1>4, Row_Resolves
<1>6. rows' \subseteq (1 .. Len(ops)) \X (1 .. Budget) \X RowTypes
    BY <1>0, <1>3, <1>4, Row_Common DEF RowTypes, Open
<1>7. DiskTypes'
    BY <1>0, <1>3, <1>6 DEF DiskTypes
<1>8. CASE /\ \E l \in Leaving : at' = [at EXCEPT ![p] = l]
           /\ told' \in [Procs -> Answers]
    BY <1>0, <1>3, <1>5, <1>7, <1>8, Left, Faults_Unchanged
<1>9. CASE /\ at[p].pc = "converged" /\ at[p].via \in {"drain", "backlog"}
           /\ Goto(p, "answer") /\ UNCHANGED told
    <2>1. PICK l \in Places : /\ at' = [at EXCEPT ![p] = l] /\ l.pc = "answer"
                              /\ l.ep = e /\ l.via = at[p].via
        BY <1>0, <1>1, <1>9, Goto_Is DEF Inside
    <2>2. e \in Episodes' /\ Landed(e)'
        BY <1>0, <1>2, <1>3, <1>9 DEF DiskInv, EpisodeSound, Open, Episodes, Landed, Anc
    <2>3. PlaceSound(l)'
        BY <1>9, <2>1, <2>2 DEF PlaceSound, OnSlot
    <2>4. told' \in [Procs -> Answers]
        BY <1>0, <1>9 DEF ProcTypes
    <2> QED
        BY <1>0, <1>3, <1>5, <1>7, <2>1, <2>3, <2>4, Inv_Step, Faults_Unchanged
<1>10. CASE RecordConverged(p)
    <2>1. at[p].via \notin {"drain", "backlog"} => at[p].via \in {"startup", "joined"}
        BY <1>0 DEF Places
    <2> QED
        BY <1>0, <1>8, <1>9, <1>10, <2>1, LookAgain_Leaves DEF RecordConverged, In
<1>11. CASE EndEpisode(p)
    <2>1. CASE at[p].via = "drain" /\ Answer(p, "unpublished")
        BY <1>0, <1>8, <2>1, Answer_Leaves DEF Answers
    <2>2. CASE Block(p)
        BY <1>0, <1>8, <2>2, Block_Leaves
    <2>3. CASE at[p].via \notin {"drain", "backlog"} /\ LookAgain(p)
        <3>1. at[p].via \in {"startup", "joined"}
            BY <1>0, <2>3 DEF Places
        <3> QED
            BY <1>0, <1>8, <2>3, <3>1, LookAgain_Leaves
    <2> QED
        BY <1>11, <2>1, <2>2, <2>3 DEF EndEpisode
<1> QED
    BY <1>10, <1>11

LEMMA AnswerDurable_Step ==
    ASSUME IInv, NEW p \in Procs, AnswerDurable(p) \/ Dispose(p)
    PROVE  IInv'
<1>0. /\ ProcTypes /\ at[p].pc \in Inside
      /\ UNCHANGED <<diskVars, faults, foreign>>
    BY DEF IInv, AnswerDurable, Dispose, In, Inside
<1>1. CASE \E a \in {"durable", "pending", "error"} : Answer(p, a)
    BY <1>0, <1>1, Answer_Leaves, Disk_Unchanged, Faults_Unchanged, Left DEF Answers
<1>2. CASE Block(p)
    BY <1>0, <1>2, Throw_Step, Faults_Unchanged
<1>3. CASE at' = [at EXCEPT ![p] = Outside("ready")] /\ UNCHANGED told
    <2>1. told' \in [Procs -> Answers]
        BY <1>0, <1>3 DEF ProcTypes
    <2> QED
        BY <1>0, <1>3, <2>1, Outside_Leaves, Disk_Unchanged, Faults_Unchanged, Left
<1> QED
    BY <1>1, <1>2, <1>3 DEF AnswerDurable, Dispose

LEMMA RefuseJoin_Step ==
    ASSUME IInv, NEW p \in Procs, RefuseJoin(p)
    PROVE  IInv'
BY Throw_Step, Faults_Unchanged DEF RefuseJoin, In, Inside

LEMMA Join_Step ==
    ASSUME IInv, NEW p \in Procs, Join(p)
    PROVE  IInv'
<1>0. /\ PlaceSound(at[p]) /\ ProcTypes /\ DiskTypes /\ DiskInv /\ at[p] \in Places
      /\ at[p].pc = "episodes" /\ at[p].pc \in Inside
    BY Inside_Sound DEF Join, In, Inside
<1>1. PICK e \in Open :
          /\ Sibling(e)
          /\ commits' = Append(commits, [anc |-> Anc(head) \cup Anc(ops[e].candidate)
                                                          \cup {Len(commits) + 1},
                                         tree |-> Tree(head) \cup Tree(ops[e].candidate)])
          /\ at' = [at EXCEPT ![p].pc = "recover", ![p].ep = e,
                              ![p].slot = Last(e), ![p].via = "joined"]
    BY DEF Join
<1>2. PICK c : c = ops[e].candidate
    OBVIOUS
<1>3. /\ head' = Len(commits) + 1
      /\ UNCHANGED <<index, work, rows, ops, told, faults, foreign>>
    BY DEF Join
<1>4. /\ e \in Episodes /\ EpisodeSound(e) /\ Extends(ops[e]) /\ AncestryOrdered
      /\ Len(commits) \in Nat /\ head \in 1 .. Len(commits) /\ Last(e) \in Nat /\ e \in Nat
      /\ ~Landed(e) /\ head \notin Anc(c) /\ Prepared(e)
    BY <1>0, <1>1, <1>2, SeqLen_Is
       DEF DiskInv, CommitsSound, CandidatesExtend, Open, DiskTypes, Episodes, EpisodeSound, Sibling
<1>5. /\ c \in 1 .. Len(commits) /\ c # 0 /\ ops[e].base \in 1 .. Len(commits)
      /\ Anc(c) = Anc(ops[e].base) \cup {c}
    BY <1>2, <1>4 DEF EpisodeSound, Extends
<1>6. foreign # 0
    <2>1. c \in Anc(c) /\ ops[e].base \in Anc(c)
        BY <1>4, <1>5 DEF AncestryOrdered
    <2>2. head # c /\ head # ops[e].base
        BY <1>2, <1>4, <2>1 DEF Landed
    <2> QED
        BY <1>0, <1>2, <2>2 DEF DiskInv, IndexFollows
<1> DEFINE A == Anc(head) \cup Anc(c)
           tree == Tree(head) \cup Tree(c)
<1>7. /\ A \in SUBSET (1 .. Len(commits)) /\ head \in A
      /\ \A d \in A : Anc(d) \subseteq A
    BY <1>4, <1>5 DEF AncestryOrdered
<1>8. tree \in SUBSET (work \cup rows)
    BY <1>0, <1>4, <1>5 DEF DiskInv, FilesKnown
<1>9. commits' = Append(commits, [anc |-> A \cup {Len(commits) + 1}, tree |-> tree])
    BY <1>1, <1>2
<1> HIDE DEF A, tree
<1>10. DiskTypes' /\ DiskInv' /\ Open' = Open
    BY <1>0, <1>3, <1>6, <1>7, <1>8, <1>9, Branch_Grows
<1>11. PICK l \in Places : /\ at' = [at EXCEPT ![p] = l] /\ l.pc = "recover"
                           /\ l.ep = e /\ l.slot = Last(e) /\ l.via = "joined"
    <2> DEFINE l == [at[p] EXCEPT !.pc = "recover", !.ep = e, !.slot = Last(e), !.via = "joined"]
    <2>1. /\ l \in Places /\ l.pc = "recover"
          /\ l.ep = e /\ l.slot = Last(e) /\ l.via = "joined"
        BY <1>0, <1>4 DEF Places, Inside
    <2>2. at' = [at EXCEPT ![p] = l]
        BY <1>1
    <2> QED
        BY <2>1, <2>2
<1>12. ~Has(e, Last(e), "aborted")
    BY <1>4 DEF EpisodeSound, RowsSound, Prepared
<1>13. PlaceSound(l)'
    BY <1>3, <1>10, <1>11, <1>12 DEF PlaceSound, OnSlot, Has, Last
<1>14. told' \in [Procs -> Answers]
    BY <1>0, <1>3 DEF ProcTypes
<1> QED
    BY <1>0, <1>3, <1>10, <1>11, <1>13, <1>14, Inv_Step, Faults_Unchanged

LEMMA Refuse_Leaves ==
    ASSUME ProcTypes, NEW p \in Procs, NEW via, NEW a \in Answers, Refuse(p, via, a)
    PROVE  /\ \E l \in Leaving : at' = [at EXCEPT ![p] = l]
           /\ told' \in [Procs -> Answers]
<1>1. CASE via = "drain"
    BY <1>1, Answer_Leaves DEF Refuse
<1>2. CASE via # "drain"
    BY <1>2, Block_Leaves DEF Refuse
<1> QED
    BY <1>1, <1>2

LEMMA Begin_Step ==
    ASSUME IInv, NEW p \in Procs, at[p].pc \in Inside \/ Free,
           NEW via \in {"drain", "backlog"}, NEW plan \in SUBSET (work \cup rows),
           Begin(p, via, plan), UNCHANGED <<commits, head, index, work, faults, foreign>>
    PROVE  IInv'
<1>0. ProcTypes /\ DiskTypes /\ DiskInv /\ Len(ops) \in Nat
    BY SeqLen_Is DEF IInv, DiskTypes
<1>1. ASSUME NEW a \in Answers, Refuse(p, via, a)
      PROVE  IInv'
    <2>1. UNCHANGED <<diskVars, foreign>>
        BY <1>1 DEF Refuse, diskVars
    <2> QED
        BY <1>0, <1>1, <2>1, Refuse_Leaves, Disk_Unchanged, Faults_Unchanged, Left
<1>2. ASSUME NEW e \in Matching(plan), ~Terminal(e),
             at' = [at EXCEPT ![p] = [Outside("claim") EXCEPT !.ep = e, !.via = via]],
             UNCHANGED <<rows, ops, told>>
      PROVE  IInv'
    <2> DEFINE l == [Outside("claim") EXCEPT !.ep = e, !.via = via]
    <2>1. e \in Open /\ e \in Nat /\ e \in Episodes /\ ops[e].base = head
        BY <1>0, <1>2 DEF Matching, SameOperation, Open, Episodes
    <2>2. l \in Places /\ l.pc = "claim" /\ l.ep = e /\ l.via = via
        BY <2>1 DEF Outside, Places, Inside
    <2>3. ~Landed(e)
        BY <1>0, <2>1 DEF Landed, DiskInv, DiskTypes, CommitsSound, AncestryOrdered,
                          CandidatesExtend, Extends
    <2>4. PlaceSound(l)'
        <3>1. PlaceSound(l)
            BY <2>1, <2>2, <2>3 DEF PlaceSound, OnSlot
        <3> QED
            BY <1>2, <3>1, Place_Same
    <2>5. DiskTypes' /\ DiskInv'
        BY <1>2, Disk_Unchanged DEF diskVars
    <2>6. told' \in [Procs -> Answers]
        BY <1>0, <1>2 DEF ProcTypes
    <2> QED
        BY <1>2, <2>2, <2>4, <2>5, <2>6, Faults_Unchanged, Inv_Step
<1>3. CASE Open = {} /\ BeginAlways(p, via, plan)
    <2>1. PICK e \in Nat : e = Len(ops) + 1
        BY <1>0
    <2>2. /\ ops' = Append(ops, [base |-> head, cohort |-> plan,
                                 staged |-> plan \cap index, candidate |-> 0])
          /\ AddRow(e, 1, "claimed")
          /\ at' = [at EXCEPT ![p] = [Outside("prepare") EXCEPT !.ep = e, !.slot = 1, !.via = via]]
          /\ UNCHANGED told
        BY <1>3, <2>1 DEF BeginAlways
    <2>3. /\ DiskInv' /\ e \in Open' /\ ops' \in Seq(Ops)
          /\ rows' \subseteq (1 .. Len(ops')) \X (1 .. Budget) \X RowTypes
          /\ Last(e)' = 1 /\ ~Has(e, 1, "aborted")' /\ ~Prepared(e)'
        BY <1>0, <1>3, <2>1, <2>2, Begin_Episode
    <2>4. DiskTypes'
        BY <1>0, <2>3 DEF DiskTypes
    <2> DEFINE l == [Outside("prepare") EXCEPT !.ep = e, !.slot = 1, !.via = via]
    <2>5. l \in Places /\ l.pc = "prepare" /\ l.ep = e /\ l.slot = 1 /\ l.via = via
        BY DEF Outside, Places, Inside
    <2>6. PlaceSound(l)'
        BY <2>3, <2>5 DEF PlaceSound, OnSlot
    <2>7. told' \in [Procs -> Answers]
        BY <1>0, <2>2 DEF ProcTypes
    <2> QED
        BY <2>2, <2>3, <2>4, <2>5, <2>6, <2>7, Faults_Unchanged, Inv_Step
<1>4. CASE Matching(plan) # {}
    <2>1. PICK e \in Matching(plan) :
              IF Terminal(e) THEN Refuse(p, via, "unpublished")
              ELSE IF Open \ {e} # {} THEN Refuse(p, via, "error")
              ELSE /\ at' = [at EXCEPT ![p] = [Outside("claim") EXCEPT !.ep = e, !.via = via]]
                   /\ UNCHANGED <<rows, ops, told>>
        BY <1>4 DEF Begin
    <2> QED
        BY <1>1, <1>2, <2>1 DEF Answers
<1> QED
    BY <1>1, <1>3, <1>4 DEF Begin, Answers

LEMMA RequestDrain_Step ==
    ASSUME IInv, NEW p \in Procs, RequestDrain(p)
    PROVE  IInv'
<1>0. ProcTypes /\ Free /\ UNCHANGED <<commits, head, index, work, faults, foreign>>
    BY DEF IInv, RequestDrain
<1>1. PICK receipts \in SUBSET work :
          \/ Refuse(p, "drain", "error")
          \/ Answer(p, "none") /\ UNCHANGED <<rows, ops>>
          \/ Begin(p, "drain", (receipts \cup rows) \ Tree(head))
    BY DEF RequestDrain
<1>2. CASE Refuse(p, "drain", "error")
    <2>1. UNCHANGED <<diskVars, foreign>>
        BY <1>0, <1>2 DEF Refuse, diskVars
    <2> QED
        BY <1>0, <1>2, <2>1, Refuse_Leaves, Disk_Unchanged, Faults_Unchanged, Left DEF Answers
<1>3. CASE Answer(p, "none") /\ UNCHANGED <<rows, ops>>
    <2>1. UNCHANGED <<diskVars, foreign>>
        BY <1>0, <1>3 DEF diskVars
    <2> QED
        BY <1>0, <1>3, <2>1, Answer_Leaves, Disk_Unchanged, Faults_Unchanged, Left DEF Answers
<1>4. CASE Begin(p, "drain", (receipts \cup rows) \ Tree(head))
    <2>1. (receipts \cup rows) \ Tree(head) \in SUBSET (work \cup rows)
        OBVIOUS
    <2> QED
        BY <1>0, <1>4, <2>1, Begin_Step
<1> QED
    BY <1>1, <1>2, <1>3, <1>4

LEMMA Backlog_Step ==
    ASSUME IInv, NEW p \in Procs, Backlog(p)
    PROVE  IInv'
<1>0. /\ ProcTypes /\ at[p].pc \in Inside
      /\ UNCHANGED <<commits, head, index, work, faults, foreign>>
    BY DEF IInv, Backlog, In, Inside
<1>1. CASE Block(p) /\ UNCHANGED <<rows, ops>>
    <2>1. UNCHANGED <<diskVars, foreign>>
        BY <1>0, <1>1 DEF diskVars
    <2> QED
        BY <1>0, <1>1, <2>1, Throw_Step, Faults_Unchanged
<1>2. CASE at' = [at EXCEPT ![p] = Outside("ready")] /\ UNCHANGED <<rows, ops, told>>
    <2>1. UNCHANGED <<diskVars, foreign>>
        BY <1>0, <1>2 DEF diskVars
    <2>2. told' \in [Procs -> Answers]
        BY <1>0, <1>2 DEF ProcTypes
    <2> QED
        BY <1>0, <1>2, <2>1, <2>2, Outside_Leaves, Disk_Unchanged, Faults_Unchanged, Left
<1>3. CASE Begin(p, "backlog", Dirty)
    <2>1. Dirty \in SUBSET (work \cup rows)
        BY DEF Dirty
    <2> QED
        BY <1>0, <1>3, <2>1, Begin_Step
<1> QED
    BY <1>1, <1>2, <1>3 DEF Backlog

-----------------------------------------------------------------------------
LEMMA Init_Inv == Init => IInv
<1> SUFFICES ASSUME Init PROVE IInv
    OBVIOUS
<1>1. /\ Len(commits) = 1 /\ commits[1] = [anc |-> {1}, tree |-> {}]
      /\ Len(ops) = 0 /\ Episodes = {} /\ Open = {}
    BY DEF Init, Episodes, Open
<1>2. DiskTypes
    <2>1. commits[1] \in Commits /\ commits \in Seq({commits[1]})
        BY <1>1 DEF Init, Commits
    <2>2. commits \in Seq(Commits)
        BY <2>1 DEF Init
    <2> QED
        BY <1>1, <2>2 DEF DiskTypes, Init
<1>3. ProcTypes /\ Exclusive /\ \A p \in Procs : AtSound(p)
    <2>1. Outside("cold") \in Places /\ Outside("cold").pc \notin Inside
        BY DEF Outside, Places, Inside
    <2>2. 0 \in 0 .. MaxFaults /\ 0 \in 0 .. MaxForeign
        BY DrainAssumption
    <2> QED
        BY <2>1, <2>2 DEF Init, ProcTypes, Exclusive, AtSound, Answers
<1>4. CommitsSound
    <2>1. AncestryOrdered
        BY <1>1 DEF AncestryOrdered, Anc
    <2> QED
        BY <1>1, <2>1 DEF CommitsSound, CandidatesExtend, OthersOnBranch, Init, Anc
<1>5. DiskInv
    BY <1>1, <1>4 DEF DiskInv, FilesKnown, OneOpen, IndexFollows, Init, Tree
<1> QED
    BY <1>2, <1>3, <1>5 DEF IInv

LEMMA Next_Inv == IInv /\ [Next]_vars => IInv'
<1> SUFFICES ASSUME IInv, [Next]_vars PROVE IInv'
    OBVIOUS
<1>1. ASSUME NEW p \in Procs, Step(p)
      PROVE  IInv'
    BY <1>1, Claim_Step, Join_Step, RefuseJoin_Step, Backlog_Step, Prepare_Step, Recover_Step,
       Cas_Step, Row_Step, ReadTarget_Step, ConvergeIndex_Step, Resolve_Step,
       AnswerDurable_Step DEF Step
<1>2. ASSUME NEW p \in Procs,
             RequestDrain(p) \/ Startup(p) \/ Fault(p) \/ Crash(p) \/ Restart(p)
      PROVE  IInv'
    BY <1>2, RequestDrain_Step, Startup_Step, Fault_Step, Restart_Step
<1>3. CASE UNCHANGED vars
    <2>1. DiskTypes' /\ DiskInv'
        BY <1>3, Disk_Unchanged DEF vars, diskVars
    <2>2. \A l : PlaceSound(l) => PlaceSound(l)'
        BY <1>3, Place_Same DEF vars, diskVars
    <2>3. ProcTypes' /\ Exclusive' /\ \A p \in Procs : AtSound(p)'
        BY <1>3, <2>2 DEF IInv, ProcTypes, Exclusive, AtSound, vars
    <2> QED
        BY <2>1, <2>3 DEF IInv
<1> QED
    BY <1>1, <1>2, <1>3, Write_Step, ForeignCommit_Step DEF Next

THEOREM DrainInvariant == Spec => []IInv
BY Init_Inv, Next_Inv, PTL DEF Spec

(* What a process, or a commit made by hand, leaves behind is typed: no     *)
(* index and no tree holds a file that was never written, ancestry is       *)
(* acyclic, and at most one process is behind the barrier.                  *)
THEOREM DrainTypeCorrect == Spec => []TypeOK
<1>1. IInv => TypeOK
    BY DEF IInv, DiskTypes, ProcTypes, DiskInv, FilesKnown, CommitsSound, AncestryOrdered,
           CandidatesExtend, Extends, Exclusive, Answers, Episodes, TypeOK
<1> QED
    BY <1>1, DrainInvariant, PTL

LEMMA Fold_Is ==
    ASSUME DiskInv, NEW e \in Episodes
    PROVE  /\ \A s \in 1 .. Budget : SlotSound(e, s)
           /\ ~(Complete(e) /\ Terminal(e))
           /\ \A s, r \in 1 .. Budget :
                  (Has(e, s, "converged") \/ Has(e, s, "terminal")) /\ Has(e, r, "claimed")
                  => r <= s
           /\ \A s \in 1 .. Budget : Has(e, s, "published") => Landed(e)
<1>1. EpisodeSound(e)
    BY DEF DiskInv
<1>2. \A s \in 1 .. Budget : SlotSound(e, s)
    <2> SUFFICES ASSUME NEW s \in 1 .. Budget PROVE SlotSound(e, s)
        OBVIOUS
    <2>1. ASSUME NEW t \in RowTypes, Has(e, s, t), NEW r \in 1 .. s
          PROVE  Has(e, r, "claimed")
        <3>1. s <= Last(e) /\ Last(e) \in 1 .. Budget /\ ClaimedUpTo(e, Last(e))
            BY <1>1, <2>1 DEF EpisodeSound, RowsSound
        <3> QED
            BY <3>1, DrainAssumption DEF ClaimedUpTo
    <2> QED
        BY <1>1, <2>1 DEF EpisodeSound, RowsSound, SlotSound
<1>3. \A s \in 1 .. Budget : Has(e, s, "prepared") => s = Last(e)
    BY <1>1 DEF EpisodeSound, RowsSound, RowTypes
<1>4. \A s \in 1 .. Budget : Has(e, s, "converged") \/ Has(e, s, "terminal") => s = Last(e)
    BY <1>1, <1>3 DEF EpisodeSound, RowsSound, RowTypes
<1>5. \A s \in 1 .. Budget : Has(e, s, "published") => Landed(e)
    BY <1>1, <1>3 DEF EpisodeSound, RowsSound, Published
<1>6. ~(Complete(e) /\ Terminal(e))
    BY <1>1, <1>3, <1>4 DEF EpisodeSound, RowsSound, Complete, Terminal
<1>7. \A r \in 1 .. Budget : Has(e, r, "claimed") => r <= Last(e)
    BY <1>1 DEF EpisodeSound, ClaimedUpTo
<1> QED
    BY <1>2, <1>4, <1>5, <1>6, <1>7

(* The fold of the journal never meets rows that contradict each other, and *)
(* at most one operation is unresolved, after any crash and any recovery    *)
(* (convergence-recovery.ts:752, canonical-git-runtime.ts:2827).            *)
THEOREM JournalIsSound == Spec => []JournalSound
<1>1. ASSUME IInv
      PROVE  JournalSound
    <2>1. DiskInv
        BY <1>1 DEF IInv
    <2>2. Cardinality(Open) <= 1
        <3>1. CASE Open = {}
            BY <3>1, FS_EmptySet
        <3>2. CASE Open # {}
            <4>1. PICK e \in Open : Open = {e}
                BY <2>1, <3>2 DEF DiskInv, OneOpen
            <4> QED
                BY <4>1, FS_Singleton
        <3> QED
            BY <3>1, <3>2
    <2> QED
        BY <2>1, <2>2, Fold_Is DEF JournalSound
<1> QED
    BY <1>1, DrainInvariant, PTL

(* Whatever is called published is on the branch, and so is every commit    *)
(* made by hand: no recovery moves the branch past one                      *)
(* (canonical-ref-move.ts:409).                                             *)
THEOREM PublishedIsKept == Spec => []PublishedStays
<1>1. IInv => PublishedStays
    BY Fold_Is DEF IInv, DiskInv, CommitsSound, OthersOnBranch, PublishedStays
<1> QED
    BY <1>1, DrainInvariant, PTL

(* The index agrees with the branch whenever no operation is unresolved and *)
(* nobody commits by hand (git-exact-cohort.ts:454).                        *)
THEOREM IndexIsTheBranch == Spec => []IndexAgrees
<1>1. IInv => IndexAgrees
    BY DEF IInv, DiskInv, IndexFollows, IndexAgrees, Staged
<1> QED
    BY <1>1, DrainInvariant, PTL

(* Where a process stands tells whether its commit is on the branch.        *)
LEMMA Operation_Known ==
    ASSUME IInv, NEW p \in Procs, at[p].pc \in Inside, at[p].pc # "episodes"
    PROVE  LET landed == ops[at[p].ep].candidate \in Anc(head) IN
           /\ at[p].pc = "answer" => landed
           /\ at[p].pc \in {"claim", "prepare", "terminal"} => ~landed
           /\ at[p].pc = "disposition" /\ Published(at[p].ep) => landed
           /\ at[p].pc = "disposition" /\ landed => Prepared(at[p].ep)
<1> DEFINE e == at[p].ep
<1>0. PlaceSound(at[p]) /\ DiskTypes /\ DiskInv /\ e \in Episodes
    BY Inside_Sound DEF PlaceSound
<1>1. Landed(e) => Prepared(e)
    BY <1>0, Unprepared_Unlanded
<1>2. Published(e) => Landed(e)
    BY <1>0 DEF DiskInv, EpisodeSound
<1>3. at[p].pc = "terminal" => ~Prepared(e)
    BY <1>0 DEF PlaceSound, DiskInv, EpisodeSound, RowsSound, Prepared
<1> QED
    BY <1>0, <1>1, <1>2, <1>3 DEF PlaceSound, Landed

(* An answer is true, whatever failed on the way, for any number of         *)
(* processes, faults and commits made by hand: only a drain to which git    *)
(* fails after the operation has converged, or in the handler of an earlier *)
(* failure, ends in an error although its commit is on the branch           *)
(* (canonical-git-runtime.ts:1370, canonical-git-runtime.ts:2875).          *)
THEOREM ReportsAreTruthful == Spec => ReportTruthful
<1> DEFINE True(p) ==
        LET landed == ops[at[p].ep].candidate \in Anc(head) IN
        /\ told'[p] \in {"durable", "pending"} => landed
        /\ told'[p] = "unpublished" => ~landed
        /\ told'[p] = "error" /\ landed =>
               faults' # faults /\ at[p].pc \in {"answer", "disposition"}
    Report(p) ==
        at[p].pc \in Inside /\ at[p].via = "drain" /\ at'[p].pc = "ready" => True(p)
<1>1. ASSUME IInv, [Next]_vars, NEW p \in Procs
      PROVE  Report(p)
    <2> SUFFICES ASSUME at[p].pc \in Inside, at[p].via = "drain", at'[p].pc = "ready"
                 PROVE  True(p)
        OBVIOUS
    <2>0. /\ ProcTypes /\ at \in [Procs -> Places] /\ at[p] \in Places
          /\ at[p].pc # "episodes" /\ at[p].pc # "ready" /\ at[p].pc # "cold"
        BY <1>1, Inside_Sound DEF Inside, ProcTypes
    <2>1. ASSUME NEW c \in Inside, Goto(p, c)
          PROVE  FALSE
        BY <2>0, <2>1, Goto_Is DEF Inside
    <2>2. CASE Throw(p) /\ (at[p].pc \in Recovering \/ faults' # faults)
        <3>1. ThrowUnaware(p) /\ at[p].pc \notin Recovering
            BY <2>1, <2>2 DEF Throw, Inside
        <3>2. told'[p] = "error"
            BY <2>0, <3>1, Throw_Leaves
        <3>3. at[p].pc \in {"claim", "prepare", "terminal", "answer", "disposition"}
            BY <2>0, <3>1 DEF Inside, Recovering
        <3> QED
            BY <1>1, <2>0, <2>2, <3>2, <3>3, Operation_Known DEF Recovering
    <2>3. CASE AnswerDurable(p)
        <3>1. told'[p] = "durable"
            BY <2>0, <2>3, Answer_Leaves DEF AnswerDurable, Answers
        <3> QED
            BY <1>1, <2>0, <2>3, <3>1, Operation_Known DEF AnswerDurable, In
    <2>4. CASE EndEpisode(p)
        <3>1. told'[p] = "unpublished"
            BY <2>0, <2>4, Answer_Leaves DEF EndEpisode, Answers
        <3> QED
            BY <1>1, <2>0, <2>4, <3>1, Operation_Known DEF EndEpisode, In
    <2>5. CASE Dispose(p)
        <3>1. at[p].pc = "disposition"
            BY <2>5 DEF Dispose, In
        <3>2. PICK a \in {"pending", "error"} :
                  /\ Answer(p, a)
                  /\ a = "pending" <=> /\ Prepared(at[p].ep)
                                       /\ Landed(at[p].ep) \/ Published(at[p].ep)
            BY <2>5 DEF Dispose
        <3>3. told'[p] = a
            BY <2>0, <3>2, Answer_Leaves DEF Answers
        <3> QED
            BY <1>1, <2>0, <3>1, <3>2, <3>3, Operation_Known DEF Landed
    <2>6. CASE Block(p)
        BY <2>0, <2>6, Block_Leaves
    <2>7. CASE Claim(p) \/ ConvergeIndex(p) \/ ReadTarget(p)
        BY <2>0, <2>2, <2>7 DEF Claim, ClaimOf, ConvergeIndex, ReadTarget, Places, In, Recovering
    <2>8. CASE Prepare(p) \/ Recover(p) \/ Cas(p) \/ RecordPublished(p) \/ Abort(p)
        BY <2>1, <2>2, <2>8 DEF Prepare, Recover, Cas, RecordPublished, Abort, In, Inside, Recovering
    <2>9. CASE RecordConverged(p)
        BY <2>1, <2>9 DEF RecordConverged, Inside
    <2>10. CASE Step(p)
        BY <2>0, <2>3, <2>4, <2>5, <2>7, <2>8, <2>9, <2>10
           DEF Step, ResumeEpisode, Join, RefuseJoin, Backlog, In
    <2>11. ASSUME NEW q \in Procs \ {p}
          PROVE  /\ ~(RequestDrain(q) \/ Startup(q) \/ Step(q) \/ Fault(q) \/ Crash(q))
                 /\ ~Restart(q)
        <3>1. at[q].pc \notin Inside /\ ~Free
            BY <1>1 DEF IInv, Exclusive, Free
        <3>2. ~Restart(q)
            BY <2>0 DEF Restart
        <3>3. ~(RequestDrain(q) \/ Startup(q) \/ Fault(q) \/ Crash(q))
            BY <3>1 DEF RequestDrain, Startup, Fault, Crash
        <3>4. ~Step(q)
            BY <3>1 DEF Step, ResumeEpisode, Join, RefuseJoin, Backlog, Claim, Prepare, Recover,
                        Cas, RecordPublished, ReadTarget, ConvergeIndex, RecordConverged,
                        AnswerDurable, Dispose, Abort, EndEpisode, In, Inside
        <3> QED
            BY <3>2, <3>3, <3>4
    <2>12. CASE RequestDrain(p) \/ Startup(p) \/ Restart(p)
        BY <2>0, <2>12 DEF RequestDrain, Startup, Restart, In
    <2>13. CASE Fault(p) \/ Crash(p)
        <3>1. faults' # faults
            BY <1>1, <2>13 DEF IInv, ProcTypes, Fault, Crash
        <3> QED
            BY <2>2, <2>6, <2>13, <3>1 DEF Fault, Crash
    <2>14. CASE at' = at
        BY <2>0, <2>14
    <2> QED
        BY <1>1, <2>10, <2>11, <2>12, <2>13, <2>14 DEF Next, Write, ForeignCommit, vars
<1>2. IInv /\ [Next]_vars => [\A p \in Procs : Report(p)]_vars
    BY <1>1
<1> QED
    BY <1>2, DrainInvariant, PTL DEF ReportTruthful, Spec
=============================================================================
