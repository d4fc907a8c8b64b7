------------------------ MODULE SedimentIntakeProofs ------------------------
(***************************************************************************)
(* Theorems about SedimentIntake, for any number of processes, entries,    *)
(* windows and crashes: nothing is acknowledged, and no watermark moves,   *)
(* past what has been evaluated and written.                               *)
(***************************************************************************)
EXTENDS SedimentIntake, SequenceTheorems, FiniteSetTheorems, TLAPS

KeySets == SUBSET [source : Seq(Entries), candidate : Drafts]
Spines == {s \in Seq(Entries) : Len(s) <= MaxBranchEntryIds}

(* The conjuncts of the invariant are operators of a session tree s, of the *)
(* entries `done' and of the drafts `wrote', so that a lemma can compare    *)
(* two states.  A branch ends in its tip, repeats no entry, and the branch  *)
(* of each of its entries is what stands before it.                         *)
BranchSound(s, b, e) ==
    /\ Len(b) >= 1 /\ b[Len(b)] = e
    /\ \A i \in 1 .. Len(b) : b[i] \in 1 .. Len(s) /\ Range(s[b[i]]) = {b[j] : j \in 1 .. i}
    /\ \A i, j \in 1 .. Len(b) : b[i] = b[j] => i = j
TreeSound(s) == \A e \in 1 .. Len(s) : BranchSound(s, s[e], e)

(* The entries that a healthy captured turn has on its branch, and those    *)
(* of them for which nothing is left to do.                                 *)
Behind == {e \in Entries : \E tip \in Healthy : e \in Range(session[tip])}
Done == {e \in evaluated \cap Behind : e \in Drafts => e \in written}
BranchSettled(s, done, w) ==
    w \in 0 .. Len(s) /\ (w # 0 => Range(s[w]) \subseteq done)

KeysSound(keys, wrote) == \A key \in keys : key.candidate \in wrote

(* A window continues a branch right behind settled entries.                *)
WindowAt(b, window, done, k) ==
    /\ k + Len(window) <= Len(b)
    /\ \A j \in 1 .. Len(window) : window[j] = b[k + j]
    /\ \A j \in 1 .. k : b[j] \in done

PassSound(s, done, wrote, r) ==
    /\ r.tip \in 1 .. Len(s)
    /\ BranchSettled(s, done, r.loaded.watermark)
    /\ KeysSound(r.loaded.keys, wrote) /\ KeysSound(r.keys, wrote)
    /\ r.phase \in {"evaluate", "save", "write"} =>
          Len(r.window) >= 1 /\ \E k \in Nat : WindowAt(s[r.tip], r.window, done, k)
    /\ r.phase \in {"save", "write"} /\ r.advance => Range(r.window) \subseteq done
    /\ \A e \in r.toAck : e # 0 /\ BranchSettled(s, done, e)

IntakeSound(s, done, receipts) ==
    \A e \in Entries : /\ receipts[e] # "none" => e \in 1 .. Len(s)
                       /\ receipts[e] = "acked" => BranchSettled(s, done, e)

(* A receipt stands behind every job, a healthy one behind a pass that has  *)
(* opened a window.                                                         *)
Captured == {e \in Entries : intake[e] # "none"}
Opened(r) == r.phase \in {"evaluate", "save", "write", "drain"} \/ r.drains > 0
Captures ==
    /\ LegacyEntries <= Len(session)
    /\ unhealthy \subseteq Captured
    /\ \A p \in Processes :
          /\ queued[p] # NoTip => queued[p] \in Captured
          /\ scan[p] # NoTip => scan[p] \in Captured
          /\ pass[p] # Idle => /\ pass[p].tip \in Captured
                               /\ Opened(pass[p]) => pass[p].tip \notin unhealthy

Sound ==
    /\ TypeOK
    /\ TreeSound(session)
    /\ IntakeSound(session, Done, intake)
    /\ \A p \in Processes : queued[p] <= Len(session) /\ scan[p] <= Len(session)
    /\ BranchSettled(session, Done, checkpoint.watermark)
    /\ KeysSound(checkpoint.keys, written)
    /\ \A p \in Processes : pass[p] # Idle => PassSound(session, Done, written, pass[p])

IInv == Sound /\ Captures

-----------------------------------------------------------------------------
(* Sequences.                                                               *)
LEMMA Seq_Is ==
    ASSUME NEW S, NEW q \in Seq(S)
    PROVE  /\ Len(q) \in Nat /\ \A i \in 1 .. Len(q) : q[i] \in S
           /\ Range(q) = {q[i] : i \in 1 .. Len(q)}
BY DEF Range

LEMMA Append_Is ==
    ASSUME NEW S, NEW q \in Seq(S), NEW x \in S
    PROVE  /\ Append(q, x) \in Seq(S) /\ Len(Append(q, x)) = Len(q) + 1
           /\ Append(q, x)[Len(q) + 1] = x
           /\ \A i \in 1 .. Len(q) : Append(q, x)[i] = q[i]
OBVIOUS

LEMMA SubSeq_Is ==
    ASSUME NEW S, NEW q \in Seq(S), NEW m \in Nat \ {0}, NEW n \in 0 .. Len(q), m <= n + 1
    PROVE  /\ SubSeq(q, m, n) \in Seq(S) /\ Len(SubSeq(q, m, n)) = n - m + 1
           /\ \A i \in 1 .. n - m + 1 : SubSeq(q, m, n)[i] = q[m + i - 1]
<1>1. m \in 1 .. Len(q) + 1
    OBVIOUS
<1> QED
    BY <1>1, SubSeqProperties

LEMMA IndexOf_Is ==
    ASSUME NEW S, NEW b \in Seq(S), \A i, j \in 1 .. Len(b) : b[i] = b[j] => i = j
    PROVE  /\ \A i \in 1 .. Len(b) : IndexOf(b, b[i], 1) = i
           /\ \A x : IndexOf(b, x, 1) = 0 \/ \E i \in 1 .. Len(b) : x = b[i] /\ IndexOf(b, x, 1) = i
<1>1. ASSUME NEW i \in 1 .. Len(b)
      PROVE  IndexOf(b, b[i], 1) = i
    <2>1. /\ b[i] = b[i] /\ \A j \in 1 .. Len(b) : b[j] = b[i] => i <= j
          /\ \A j \in 1 .. Len(b) : b[j] = b[i] => j = i
        OBVIOUS
    <2> QED
        BY <2>1 DEF IndexOf
<1>2. ASSUME NEW x, ~\E i \in 1 .. Len(b) : b[i] = x
      PROVE  IndexOf(b, x, 1) = 0
    BY <1>2 DEF IndexOf
<1> QED
    BY <1>1, <1>2

-----------------------------------------------------------------------------
(* What is known of files and passes stays known while the session, the     *)
(* settled entries and the written drafts only grow.                        *)
Grows(s, done, wrote, s2, done2, wrote2) ==
    /\ Len(s) \in Nat /\ Len(s2) \in Nat /\ Len(s) <= Len(s2)
    /\ \A e \in 1 .. Len(s) : s2[e] = s[e]
    /\ done \subseteq done2 /\ wrote \subseteq wrote2

LEMMA Settled_Stays ==
    ASSUME NEW s, NEW done, NEW wrote, NEW s2, NEW done2, NEW wrote2,
           Grows(s, done, wrote, s2, done2, wrote2)
    PROVE  /\ \A w : BranchSettled(s, done, w) => BranchSettled(s2, done2, w)
           /\ \A keys : KeysSound(keys, wrote) => KeysSound(keys, wrote2)
<1>1. ASSUME NEW w, BranchSettled(s, done, w)
      PROVE  BranchSettled(s2, done2, w)
    <2>1. w \in 0 .. Len(s2) /\ (w # 0 => s2[w] = s[w])
        BY <1>1 DEF Grows, BranchSettled
    <2> QED
        BY <1>1, <2>1 DEF BranchSettled, Grows
<1>2. \A keys : KeysSound(keys, wrote) => KeysSound(keys, wrote2)
    BY DEF Grows, KeysSound
<1> QED
    BY <1>1, <1>2

LEMMA Pass_Stays ==
    ASSUME NEW s, NEW done, NEW wrote, NEW s2, NEW done2, NEW wrote2,
           Grows(s, done, wrote, s2, done2, wrote2),
           NEW r, PassSound(s, done, wrote, r)
    PROVE  PassSound(s2, done2, wrote2, r)
<1>1. s2[r.tip] = s[r.tip] /\ r.tip \in 1 .. Len(s2) /\ done \subseteq done2
    BY DEF PassSound, Grows
<1>2. \A k \in Nat : WindowAt(s[r.tip], r.window, done, k) => WindowAt(s2[r.tip], r.window, done2, k)
    BY <1>1 DEF WindowAt
<1>3. Range(r.window) \subseteq done => Range(r.window) \subseteq done2
    BY <1>1
<1>4. \A e \in r.toAck : e # 0 /\ BranchSettled(s2, done2, e)
    BY Settled_Stays DEF PassSound
<1>5. /\ BranchSettled(s2, done2, r.loaded.watermark)
      /\ KeysSound(r.loaded.keys, wrote2) /\ KeysSound(r.keys, wrote2)
    BY Settled_Stays DEF PassSound
<1> QED
    BY <1>1, <1>2, <1>3, <1>4, <1>5 DEF PassSound

(* A step that leaves the session file alone.                               *)
LEMMA Step_Keeps ==
    ASSUME IInv, TypeOK', UNCHANGED session,
           Done \subseteq Done', written \subseteq written',
           \A e \in Entries : \/ intake'[e] = intake[e]
                              \/ e \in 1 .. Len(session) /\ BranchSettled(session, Done', e),
           \A p \in Processes : queued'[p] <= Len(session) /\ scan'[p] <= Len(session),
           \/ UNCHANGED checkpoint
           \/ /\ BranchSettled(session, Done', checkpoint'.watermark)
              /\ KeysSound(checkpoint'.keys, written'),
           \A p \in Processes : \/ pass'[p] = pass[p] \/ pass'[p] = Idle
                                \/ PassSound(session, Done', written', pass'[p])
    PROVE  Sound'
<1>1. Grows(session, Done, written, session', Done', written')
    BY DEF Grows, IInv, Sound, TypeOK
<1>2. TreeSound(session')
    BY DEF IInv, Sound
<1>3. IntakeSound(session', Done', intake')
    <2> SUFFICES ASSUME NEW e \in Entries
                 PROVE  /\ intake'[e] # "none" => e \in 1 .. Len(session)
                        /\ intake'[e] = "acked" => BranchSettled(session, Done', e)
        BY DEF IntakeSound
    <2>1. BranchSettled(session, Done, e) => BranchSettled(session, Done', e)
        BY <1>1, Settled_Stays
    <2> QED
        BY <2>1 DEF IInv, Sound, IntakeSound
<1>4. BranchSettled(session', Done', checkpoint'.watermark) /\ KeysSound(checkpoint'.keys, written')
    <2>1. CASE UNCHANGED checkpoint
        BY <1>1, <2>1, Settled_Stays DEF IInv, Sound
    <2> QED
        BY <2>1
<1>5. ASSUME NEW p \in Processes, pass'[p] # Idle
      PROVE  PassSound(session', Done', written', pass'[p])
    <2>1. CASE pass'[p] = pass[p]
        BY <1>1, <1>5, <2>1, Pass_Stays DEF IInv, Sound
    <2> QED
        BY <1>5, <2>1
<1> QED
    BY <1>2, <1>3, <1>4, <1>5 DEF IInv, Sound

-----------------------------------------------------------------------------
(* Steps of one pass.                                                       *)
LEMMA Pass_Is ==
    ASSUME IInv, NEW p \in Processes, pass[p].phase # "idle"
    PROVE  pass[p] \in Passes /\ PassSound(session, Done, written, pass[p])
BY DEF IInv, Sound, TypeOK, Idle

LEMMA Pass_Moves ==
    ASSUME IInv, NEW p \in Processes, NEW r \in {Idle} \cup Passes,
           pass' = [pass EXCEPT ![p] = r],
           UNCHANGED <<durable, alive, scan, queued, history>>,
           r = Idle \/ PassSound(session, Done, written, r)
    PROVE  Sound'
<1>1. TypeOK'
    BY DEF IInv, Sound, TypeOK, durable, history
<1>2. Done' = Done
    BY DEF Done, Behind, Healthy, durable, history
<1>3. \A q \in Processes : pass'[q] = (IF q = p THEN r ELSE pass[q])
    BY DEF IInv, Sound, TypeOK
<1> QED
    BY <1>1, <1>2, <1>3, Step_Keeps DEF IInv, Sound, durable, history

LEMMA StartPass_Step ==
    ASSUME IInv, NEW p \in Processes, StartPass(p)
    PROVE  Sound'
<1> DEFINE r == [pass[p] EXCEPT !.start = checkpoint, !.phase = "open"]
<1>1. pass[p] \in Passes /\ PassSound(session, Done, written, pass[p]) /\ checkpoint \in Checkpoints
    BY Pass_Is DEF StartPass, IInv, Sound, TypeOK
<1>2. r \in Passes /\ PassSound(session, Done, written, r)
    BY <1>1 DEF Passes, PassSound
<1>3. pass' = [pass EXCEPT ![p] = r]
    BY DEF StartPass, IInv, Sound, TypeOK
<1> HIDE DEF r
<1> QED
    BY <1>2, <1>3, Pass_Moves DEF StartPass

(* The slot of a session without a checkpoint, and a pass without a window. *)
LEMMA Fresh_Is ==
    ASSUME NEW s, NEW done, NEW wrote, Len(s) \in Nat
    PROVE  /\ FreshCheckpoint \in Checkpoints
           /\ BranchSettled(s, done, FreshCheckpoint.watermark)
           /\ KeysSound(FreshCheckpoint.keys, wrote)
           /\ <<>> \in Seq(Entries) /\ {} \in KeySets /\ KeysSound({}, wrote)
<1>1. FreshCheckpoint \in Checkpoints
    BY CheckpointAssumption, IntakeAssumption DEF FreshCheckpoint, Checkpoints, NoEntry
<1>2. <<>> \in Seq(Entries) /\ {} \in KeySets
    BY DEF KeySets
<1> QED
    BY <1>1, <1>2 DEF FreshCheckpoint, NoEntry, BranchSettled, KeysSound

LEMMA NoWindow_Step ==
    ASSUME IInv, NEW p \in Processes, NoWindow(p)
    PROVE  Sound'
<1> DEFINE r == [pass[p] EXCEPT !.phase = "end"]
<1>1. /\ pass[p] \in Passes /\ PassSound(session, Done, written, pass[p])
      /\ checkpoint \in Checkpoints /\ BranchSettled(session, Done, checkpoint.watermark)
      /\ KeysSound(checkpoint.keys, written)
    BY Pass_Is DEF NoWindow, IInv, Sound, TypeOK
<1>3. r \in Passes
    BY <1>1 DEF Passes
<1>4. PassSound(session, Done, written, r)
    BY <1>1 DEF Passes, PassSound
<1>5. pass' = [pass EXCEPT ![p] = r]
    BY DEF NoWindow, IInv, Sound, TypeOK
<1> HIDE DEF r
<1> QED
    BY <1>3, <1>4, <1>5, Pass_Moves DEF NoWindow

LEMMA SkipWindow_Step ==
    ASSUME IInv, NEW p \in Processes, SkipWindow(p)
    PROVE  Sound'
<1> DEFINE r == [pass[p] EXCEPT !.phase = "end"]
<1>1. /\ pass[p] \in Passes /\ PassSound(session, Done, written, pass[p])
      /\ checkpoint \in Checkpoints /\ BranchSettled(session, Done, checkpoint.watermark)
      /\ KeysSound(checkpoint.keys, written)
    BY Pass_Is DEF SkipWindow, IInv, Sound, TypeOK
<1>3. r \in Passes
    BY <1>1 DEF Passes
<1>4. PassSound(session, Done, written, r)
    BY <1>1 DEF Passes, PassSound
<1>5. pass' = [pass EXCEPT ![p] = r]
    BY DEF SkipWindow, IInv, Sound, TypeOK
<1> HIDE DEF r
<1> QED
    BY <1>3, <1>4, <1>5, Pass_Moves DEF SkipWindow

LEMMA SkipUnhealthy_Step ==
    ASSUME IInv, NEW p \in Processes, SkipUnhealthy(p)
    PROVE  Sound'
<1> DEFINE r == [pass[p] EXCEPT !.phase = "end"]
<1>1. /\ pass[p] \in Passes /\ PassSound(session, Done, written, pass[p])
      /\ checkpoint \in Checkpoints /\ BranchSettled(session, Done, checkpoint.watermark)
      /\ KeysSound(checkpoint.keys, written)
    BY Pass_Is DEF SkipUnhealthy, Deferred, MainWindow, IInv, Sound, TypeOK
<1>3. r \in Passes
    BY <1>1 DEF Passes
<1>4. PassSound(session, Done, written, r)
    BY <1>1 DEF Passes, PassSound
<1>5. pass' = [pass EXCEPT ![p] = r]
    BY DEF SkipUnhealthy, IInv, Sound, TypeOK
<1> HIDE DEF r
<1> QED
    BY <1>3, <1>4, <1>5, Pass_Moves DEF SkipUnhealthy

LEMMA HoldWindow_Step ==
    ASSUME IInv, NEW p \in Processes, HoldWindow(p)
    PROVE  Sound'
<1> DEFINE r == [pass[p] EXCEPT !.phase = AfterWindow(p), !.window = <<>>]
<1>1. /\ pass[p] \in Passes /\ PassSound(session, Done, written, pass[p])
      /\ checkpoint \in Checkpoints /\ BranchSettled(session, Done, checkpoint.watermark)
      /\ KeysSound(checkpoint.keys, written)
    BY Pass_Is DEF HoldWindow, IInv, Sound, TypeOK
<1>2. AfterWindow(p) \in {"end", "drain"} /\ <<>> \in Seq(Entries)
    BY <1>1 DEF AfterWindow
<1>3. r \in Passes
    BY <1>1, <1>2 DEF Passes
<1>4. PassSound(session, Done, written, r)
    BY <1>1, <1>2 DEF Passes, PassSound
<1>5. pass' = [pass EXCEPT ![p] = r]
    BY DEF HoldWindow, IInv, Sound, TypeOK
<1> HIDE DEF r
<1> QED
    BY <1>3, <1>4, <1>5, Pass_Moves DEF HoldWindow

LEMMA LoadPrevious_Step ==
    ASSUME IInv, NEW p \in Processes, LoadPrevious(p)
    PROVE  Sound'
<1> DEFINE r == [pass[p] EXCEPT !.loaded = checkpoint, !.phase = "write"]
<1>1. /\ pass[p] \in Passes /\ PassSound(session, Done, written, pass[p])
      /\ checkpoint \in Checkpoints /\ BranchSettled(session, Done, checkpoint.watermark)
      /\ KeysSound(checkpoint.keys, written)
    BY Pass_Is DEF LoadPrevious, IInv, Sound, TypeOK
<1>2. pass[p].phase = "save"
    BY <1>1 DEF LoadPrevious
<1>3. r \in Passes
    BY <1>1, <1>2 DEF Passes
<1>4. PassSound(session, Done, written, r)
    BY <1>1, <1>2 DEF Passes, PassSound
<1>5. pass' = [pass EXCEPT ![p] = r]
    BY DEF LoadPrevious, IInv, Sound, TypeOK
<1> HIDE DEF r
<1> QED
    BY <1>3, <1>4, <1>5, Pass_Moves DEF LoadPrevious

LEMMA DrainAgain_Step ==
    ASSUME IInv, NEW p \in Processes, DrainAgain(p)
    PROVE  Sound'
<1> DEFINE r == [pass[p] EXCEPT !.drains = @ + 1, !.phase = "open"]
<1>1. /\ pass[p] \in Passes /\ PassSound(session, Done, written, pass[p])
      /\ checkpoint \in Checkpoints /\ BranchSettled(session, Done, checkpoint.watermark)
      /\ KeysSound(checkpoint.keys, written)
    BY Pass_Is DEF DrainAgain, IInv, Sound, TypeOK
<1>2. pass[p].drains + 1 \in 0 .. MaxDrains
    BY <1>1, IntakeAssumption DEF DrainAgain, Passes
<1>3. r \in Passes
    BY <1>1, <1>2 DEF Passes
<1>4. PassSound(session, Done, written, r)
    BY <1>1, <1>2 DEF Passes, PassSound
<1>5. pass' = [pass EXCEPT ![p] = r]
    BY DEF DrainAgain, IInv, Sound, TypeOK
<1> HIDE DEF r
<1> QED
    BY <1>3, <1>4, <1>5, Pass_Moves DEF DrainAgain

LEMMA DrainStops_Step ==
    ASSUME IInv, NEW p \in Processes, DrainStops(p)
    PROVE  Sound'
<1> DEFINE r == [pass[p] EXCEPT !.phase = "end"]
<1>1. /\ pass[p] \in Passes /\ PassSound(session, Done, written, pass[p])
      /\ checkpoint \in Checkpoints /\ BranchSettled(session, Done, checkpoint.watermark)
      /\ KeysSound(checkpoint.keys, written)
    BY Pass_Is DEF DrainStops, IInv, Sound, TypeOK
<1>3. r \in Passes
    BY <1>1 DEF Passes
<1>4. PassSound(session, Done, written, r)
    BY <1>1 DEF Passes, PassSound
<1>5. pass' = [pass EXCEPT ![p] = r]
    BY DEF DrainStops, IInv, Sound, TypeOK
<1> HIDE DEF r
<1> QED
    BY <1>3, <1>4, <1>5, Pass_Moves DEF DrainStops

LEMMA NoBacklog_Step ==
    ASSUME IInv, NEW p \in Processes, NoBacklog(p)
    PROVE  Sound'
<1> DEFINE r == [pass[p] EXCEPT !.phase = "list"]
<1>1. /\ pass[p] \in Passes /\ PassSound(session, Done, written, pass[p])
      /\ checkpoint \in Checkpoints /\ BranchSettled(session, Done, checkpoint.watermark)
      /\ KeysSound(checkpoint.keys, written)
    BY Pass_Is DEF NoBacklog, IInv, Sound, TypeOK
<1>3. r \in Passes
    BY <1>1 DEF Passes
<1>4. PassSound(session, Done, written, r)
    BY <1>1 DEF Passes, PassSound
<1>5. pass' = [pass EXCEPT ![p] = r]
    BY DEF NoBacklog, IInv, Sound, TypeOK
<1> HIDE DEF r
<1> QED
    BY <1>3, <1>4, <1>5, Pass_Moves DEF NoBacklog

LEMMA LoadEnd_Step ==
    ASSUME IInv, NEW p \in Processes, LoadEnd(p)
    PROVE  Sound'
<1> DEFINE r == [pass[p] EXCEPT !.loaded = checkpoint, !.start = FreshCheckpoint, !.drains = 0,
                            !.phase = IF AdvancedSince(pass[p].start, checkpoint)
                                      THEN "backlog" ELSE "list"]
<1>1. /\ pass[p] \in Passes /\ PassSound(session, Done, written, pass[p])
      /\ checkpoint \in Checkpoints /\ BranchSettled(session, Done, checkpoint.watermark)
      /\ KeysSound(checkpoint.keys, written)
    BY Pass_Is DEF LoadEnd, IInv, Sound, TypeOK
<1>2. /\ FreshCheckpoint \in Checkpoints /\ 0 \in 0 .. MaxDrains
      /\ r.phase \in {"backlog", "list"}
    BY <1>1, Fresh_Is, IntakeAssumption DEF IInv, Sound, TypeOK, Passes
<1>3. r \in Passes
    BY <1>1, <1>2 DEF Passes
<1>4. PassSound(session, Done, written, r)
    BY <1>1, <1>2 DEF Passes, PassSound
<1>5. pass' = [pass EXCEPT ![p] = r]
    BY DEF LoadEnd, IInv, Sound, TypeOK
<1> HIDE DEF r
<1> QED
    BY <1>3, <1>4, <1>5, Pass_Moves DEF LoadEnd

LEMMA Unbound_Step ==
    ASSUME IInv, NEW p \in Processes, Unbound(p)
    PROVE  Sound'
BY Pass_Moves DEF Unbound

LEMMA EndJob_Step ==
    ASSUME IInv, NEW p \in Processes, EndJob(p)
    PROVE  Sound'
BY Pass_Moves DEF EndJob

LEMMA SaveFails_Step ==
    ASSUME IInv, NEW p \in Processes, SaveFails(p)
    PROVE  Sound'
<1> DEFINE r == [pass[p] EXCEPT !.phase = "drain", !.loaded = FreshCheckpoint,
                                !.window = <<>>, !.keys = {}, !.advance = FALSE]
<1>1. /\ pass[p] \in Passes /\ PassSound(session, Done, written, pass[p])
      /\ Len(session) \in Nat
    BY Pass_Is DEF SaveFails, IInv, Sound, TypeOK
<1>2. /\ FreshCheckpoint \in Checkpoints /\ <<>> \in Seq(Entries) /\ {} \in KeySets
      /\ BranchSettled(session, Done, FreshCheckpoint.watermark)
      /\ KeysSound(FreshCheckpoint.keys, written) /\ KeysSound({}, written)
    BY <1>1, Fresh_Is
<1>3. r \in Passes
    BY <1>1, <1>2 DEF Passes, KeySets
<1>4. PassSound(session, Done, written, r)
    BY <1>1, <1>2 DEF Passes, PassSound
<1>5. pass' = [pass EXCEPT ![p] = Idle] \/ pass' = [pass EXCEPT ![p] = r]
    BY DEF SaveFails, IInv, Sound, TypeOK
<1> HIDE DEF r
<1> QED
    BY <1>3, <1>4, <1>5, Pass_Moves DEF SaveFails

-----------------------------------------------------------------------------
(* Branches and windows.                                                    *)
LEMMA Branch_Is ==
    ASSUME NEW s \in Seq(Seq(Entries)), TreeSound(s), NEW e \in 1 .. Len(s)
    PROVE  /\ s[e] \in Seq(Entries) /\ Len(s[e]) \in Nat \ {0} /\ s[e][Len(s[e])] = e
           /\ Range(s[e]) = {s[e][j] : j \in 1 .. Len(s[e])}
           /\ \A i \in 1 .. Len(s[e]) : s[e][i] \in 1 .. Len(s) /\ s[e][i] \in Entries
           /\ \A i, j \in 1 .. Len(s[e]) : s[e][i] = s[e][j] => i = j
BY Seq_Is DEF TreeSound, BranchSound

LEMMA Prefix_Is ==
    ASSUME NEW s \in Seq(Seq(Entries)), TreeSound(s), NEW e \in 1 .. Len(s), NEW done,
           NEW i \in 1 .. Len(s[e])
    PROVE  BranchSettled(s, done, s[e][i]) <=> \A j \in 1 .. i : s[e][j] \in done
<1>1. s[e][i] \in 1 .. Len(s) /\ Range(s[s[e][i]]) = {s[e][j] : j \in 1 .. i}
    BY DEF TreeSound, BranchSound
<1>2. Len(s) \in Nat /\ s[e][i] # 0
    BY <1>1
<1> QED
    BY <1>1, <1>2 DEF BranchSettled

LEMMA Window_Is ==
    ASSUME NEW s \in Seq(Seq(Entries)), TreeSound(s), NEW e \in 1 .. Len(s), NEW done,
           NEW cp, BranchSettled(s, done, cp.watermark), NEW n \in WindowSizes(s[e], cp)
    PROVE  /\ Window(s[e], cp, n) \in Seq(Entries) /\ Len(Window(s[e], cp, n)) >= 1
           /\ \E k \in Nat : WindowAt(s[e], Window(s[e], cp, n), done, k)
<1> DEFINE b == s[e]
           k == CandidatesAfter(b, cp)
           rest == SubSeq(b, k + 1, Len(b))
<1>1. b \in Seq(Entries) /\ Len(b) \in Nat /\ \A i, j \in 1 .. Len(b) : b[i] = b[j] => i = j
    BY Branch_Is
<1>2. k \in 0 .. Len(b) /\ \A j \in 1 .. k : b[j] \in done
    <2>1. k = 0 \/ \E i \in 1 .. Len(b) : cp.watermark = b[i] /\ k = i
        BY <1>1, IndexOf_Is DEF CandidatesAfter
    <2>2. ASSUME NEW i \in 1 .. Len(b), cp.watermark = b[i], k = i
          PROVE  \A j \in 1 .. k : b[j] \in done
        BY <2>2, Prefix_Is
    <2> QED
        BY <1>1, <2>1, <2>2
<1> HIDE DEF k
<1>3. rest \in Seq(Entries) /\ Len(rest) = Len(b) - k /\ \A i \in 1 .. Len(b) - k : rest[i] = b[k + i]
    <2>1. k + 1 \in Nat \ {0} /\ Len(b) \in 0 .. Len(b) /\ k + 1 <= Len(b) + 1
        BY <1>1, <1>2
    <2> HIDE DEF b
    <2>2. /\ rest \in Seq(Entries) /\ Len(rest) = Len(b) - (k + 1) + 1
          /\ \A i \in 1 .. Len(b) - (k + 1) + 1 : rest[i] = b[k + 1 + i - 1]
        BY <1>1, <2>1, SubSeq_Is
    <2>3. Len(b) - (k + 1) + 1 = Len(b) - k /\ \A i \in 1 .. Len(b) - k : k + 1 + i - 1 = k + i
        BY <1>1, <1>2
    <2> HIDE DEF rest
    <2> QED
        BY <2>2, <2>3
<1>4. Candidates(b, cp) = <<>> \/ Candidates(b, cp) = rest
    BY DEF Candidates, k
<1>5. /\ Candidates(b, cp) = rest
      /\ n \in 1 .. Len(b) - k
    <2>1. n \in 1 .. Smaller(MaxWindowEntries, Len(Candidates(b, cp)))
        BY DEF WindowSizes
    <2>2. Len(Candidates(b, cp)) \in Nat /\ n \in Nat /\ 1 <= n /\ n <= Len(Candidates(b, cp))
        <3>1. Len(Candidates(b, cp)) \in Nat
            BY <1>1, <1>2, <1>3, <1>4
        <3> QED
            BY <2>1, <3>1, CheckpointAssumption DEF Smaller
    <2> QED
        BY <1>3, <1>4, <2>2
<1>6. /\ Window(b, cp, n) \in Seq(Entries) /\ Len(Window(b, cp, n)) = n
      /\ \A i \in 1 .. n : Window(b, cp, n)[i] = b[k + i]
    <2>1. n \in 0 .. Len(rest) /\ 1 <= n + 1
        BY <1>2, <1>3, <1>5
    <2> HIDE DEF rest
    <2>2. /\ SubSeq(rest, 1, n) \in Seq(Entries) /\ Len(SubSeq(rest, 1, n)) = n - 1 + 1
          /\ \A i \in 1 .. n - 1 + 1 : SubSeq(rest, 1, n)[i] = rest[1 + i - 1]
        BY <1>3, <2>1, SubSeq_Is
    <2> QED
        BY <1>1, <1>2, <1>3, <1>5, <2>2 DEF Window
<1>7. WindowAt(b, Window(b, cp, n), done, k)
    BY <1>1, <1>2, <1>5, <1>6 DEF WindowAt
<1> QED
    BY <1>2, <1>5, <1>6, <1>7

LEMMA OpenWindow_Step ==
    ASSUME IInv, NEW p \in Processes, OpenWindow(p)
    PROVE  Sound'
<1>1. PICK n \in WindowSizes(Branch(p), checkpoint) :
          pass' = [pass EXCEPT ![p].window = Window(Branch(p), checkpoint, n),
                               ![p].phase = "evaluate"]
    BY DEF OpenWindow
<1> DEFINE w == Window(Branch(p), checkpoint, n)
           r == [pass[p] EXCEPT !.window = w, !.phase = "evaluate"]
<1>2. /\ pass[p] \in Passes /\ PassSound(session, Done, written, pass[p])
      /\ BranchSettled(session, Done, checkpoint.watermark)
      /\ session \in Seq(Seq(Entries)) /\ TreeSound(session)
      /\ pass[p].tip \in 1 .. Len(session)
    BY Pass_Is DEF OpenWindow, IInv, Sound, TypeOK, PassSound
<1>3. w \in Seq(Entries) /\ Len(w) >= 1 /\ \E k \in Nat : WindowAt(session[pass[p].tip], w, Done, k)
    BY <1>2, Window_Is DEF Branch
<1>4. pass' = [pass EXCEPT ![p] = r]
    BY <1>1 DEF IInv, Sound, TypeOK
<1> HIDE DEF w
<1>5. r \in Passes
    BY <1>2, <1>3 DEF Passes
<1>6. PassSound(session, Done, written, r)
    BY <1>2, <1>3 DEF Passes, PassSound
<1> HIDE DEF r
<1> QED
    BY <1>4, <1>5, <1>6, Pass_Moves DEF OpenWindow

(* Steps of a pass that evaluate or write.                                  *)
LEMMA Pass_Evaluates ==
    ASSUME IInv, NEW p \in Processes, NEW r \in Passes,
           pass' = [pass EXCEPT ![p] = r],
           UNCHANGED <<durable, alive, scan, queued, crashes>>,
           evaluated \subseteq evaluated', evaluated' \subseteq Entries,
           written \subseteq written', written' \subseteq Drafts,
           PassSound(session, Done', written', r)
    PROVE  Sound'
<1>1. TypeOK'
    BY DEF IInv, Sound, TypeOK, durable
<1>2. Done \subseteq Done'
    BY DEF Done, Behind, Healthy, durable
<1>3. \A q \in Processes : pass'[q] = (IF q = p THEN r ELSE pass[q])
    BY DEF IInv, Sound, TypeOK
<1> QED
    BY <1>1, <1>2, <1>3, Step_Keeps DEF IInv, Sound, durable

(* A window is opened on the branch of a healthy captured turn.             *)
LEMMA Window_Behind ==
    ASSUME IInv, NEW p \in Processes, pass[p].phase = "evaluate"
    PROVE  Range(pass[p].window) \subseteq Behind
<1> DEFINE tip == pass[p].tip
           w == pass[p].window
<1>1. /\ pass[p] \in Passes /\ PassSound(session, Done, written, pass[p])
      /\ pass[p] # Idle /\ session \in Seq(Seq(Entries)) /\ TreeSound(session)
    BY Pass_Is DEF IInv, Sound, TypeOK, Idle
<1>2. tip \in Healthy /\ tip \in 1 .. Len(session)
    BY <1>1 DEF IInv, Captures, Captured, Opened, Healthy, PassSound
<1>3. PICK k \in Nat : WindowAt(session[tip], w, Done, k)
    BY <1>1 DEF PassSound
<1>4. w \in Seq(Entries) /\ Len(w) \in Nat /\ Range(w) = {w[j] : j \in 1 .. Len(w)}
    BY <1>1, Seq_Is DEF Passes
<1>5. /\ Len(session[tip]) \in Nat
      /\ Range(session[tip]) = {session[tip][j] : j \in 1 .. Len(session[tip])}
      /\ \A j \in 1 .. Len(session[tip]) : session[tip][j] \in Entries
    <2>1. PICK e \in 1 .. Len(session) : e = tip
        BY <1>2
    <2> DEFINE b == session[e]
    <2>2. b \in Seq(Entries)
        BY <1>1
    <2> HIDE DEF b
    <2>3. /\ Len(b) \in Nat /\ Range(b) = {b[j] : j \in 1 .. Len(b)}
          /\ \A j \in 1 .. Len(b) : b[j] \in Entries
        BY <2>2, Seq_Is
    <2> QED
        BY <2>1, <2>3 DEF b
<1> HIDE DEF tip, w
<1>6. ASSUME NEW j \in 1 .. Len(w)
      PROVE  w[j] \in Entries /\ w[j] \in Range(session[tip])
    <2>1. k + j \in 1 .. Len(session[tip]) /\ w[j] = session[tip][k + j]
        BY <1>3, <1>4, <1>5 DEF WindowAt
    <2> QED
        BY <1>5, <2>1
<1> QED
    BY <1>2, <1>4, <1>6 DEF Behind, w

LEMMA EvaluateWindow_Step ==
    ASSUME IInv, NEW p \in Processes, EvaluateWindow(p)
    PROVE  Sound'
<1> DEFINE r == [pass[p] EXCEPT !.advance = TRUE, !.phase = "save"]
<1>1. /\ pass[p] \in Passes /\ PassSound(session, Done, written, pass[p])
      /\ pass[p].phase = "evaluate" /\ Len(session) \in Nat
    BY Pass_Is DEF EvaluateWindow, IInv, Sound, TypeOK
<1>2. /\ Range(pass[p].window) \subseteq Entries
      /\ evaluated' = evaluated \cup Range(pass[p].window) /\ written' = written
    BY <1>1, Seq_Is DEF EvaluateWindow, Passes
<1>3. Done \subseteq Done' /\ Range(pass[p].window) \subseteq Done'
    <2>1. Behind' = Behind
        BY DEF EvaluateWindow, durable, Behind, Healthy
    <2>2. Range(pass[p].window) \subseteq Behind
        BY <1>1, Window_Behind
    <2> QED
        BY <1>2, <2>1, <2>2 DEF Done, EvaluateWindow, Explicit
<1>4. PassSound(session, Done', written', pass[p])
    <2>1. Grows(session, Done, written, session, Done', written')
        BY <1>1, <1>2, <1>3 DEF Grows
    <2> QED
        BY <1>1, <2>1, Pass_Stays
<1>5. r \in Passes
    BY <1>1 DEF Passes
<1>6. PassSound(session, Done', written', r)
    BY <1>1, <1>3, <1>4 DEF Passes, PassSound
<1>7. pass' = [pass EXCEPT ![p] = r]
    BY DEF EvaluateWindow, IInv, Sound, TypeOK
<1> HIDE DEF r
<1> QED
    BY <1>2, <1>5, <1>6, <1>7, Pass_Evaluates DEF EvaluateWindow, IInv, Sound, TypeOK

LEMMA WriteDrafts_Step ==
    ASSUME IInv, NEW p \in Processes, WriteDrafts(p)
    PROVE  Sound'
<1>1. PICK settled \in SUBSET Unwritten(p) :
          /\ written' = written \cup settled
          /\ evaluated' = IF settled = Unwritten(p)
                          THEN evaluated \cup Range(pass[p].window) ELSE evaluated
          /\ pass' = [pass EXCEPT
                ![p].keys = KeysOf(p, settled),
                ![p].advance = (settled = Unwritten(p)),
                ![p].phase = "save"]
    BY DEF WriteDrafts
<1> DEFINE keys == KeysOf(p, settled)
           all == settled = Unwritten(p)
           r == [pass[p] EXCEPT !.keys = keys, !.advance = all, !.phase = "save"]
<1>2. /\ pass[p] \in Passes /\ PassSound(session, Done, written, pass[p])
      /\ pass[p].phase = "evaluate" /\ Len(session) \in Nat
      /\ KeysSound(checkpoint.keys, written)
      /\ evaluated \subseteq Entries /\ written \subseteq Drafts
    BY Pass_Is DEF WriteDrafts, IInv, Sound, TypeOK
<1>3. pass[p].window \in Seq(Entries) /\ Range(pass[p].window) \subseteq Entries
    BY <1>2, Seq_Is DEF Passes
<1>4. settled \subseteq Drafts /\ settled \subseteq Explicit(p)
    BY DEF Unwritten, Explicit
<1>5. keys \in KeySets /\ KeysSound(keys, written')
    <2> SUFFICES ASSUME NEW d \in settled
                 PROVE  /\ CandidateKey(pass[p].window, d) \in [source : Seq(Entries), candidate : Drafts]
                        /\ CandidateKey(pass[p].window, d).candidate \in written'
        BY DEF KeysOf, KeySets, KeysSound
    <2> QED
        BY <1>1, <1>3, <1>4 DEF CandidateKey
<1>6. /\ evaluated \subseteq evaluated' /\ evaluated' \subseteq Entries
      /\ written \subseteq written' /\ written' \subseteq Drafts
    BY <1>1, <1>2, <1>3, <1>4
<1>7. Done \subseteq Done' /\ Behind' = Behind
    BY <1>6 DEF Done, Behind, Healthy, WriteDrafts, durable
<1>8. ASSUME all
      PROVE  Range(pass[p].window) \subseteq Done'
    <2> SUFFICES ASSUME NEW e \in Range(pass[p].window), e \in Drafts
                 PROVE  e \in written'
        BY <1>1, <1>2, <1>7, <1>8, Window_Behind DEF Done
    <2>1. e \in Unwritten(p) \/ CandidateKey(pass[p].window, e) \in checkpoint.keys
        BY DEF Unwritten, Explicit
    <2>2. CandidateKey(pass[p].window, e).candidate = e
        BY DEF CandidateKey
    <2> QED
        BY <1>1, <1>2, <1>8, <2>1, <2>2 DEF KeysSound
<1>9. PassSound(session, Done', written', pass[p])
    <2>1. Grows(session, Done, written, session, Done', written')
        BY <1>2, <1>6, <1>7 DEF Grows
    <2> QED
        BY <1>2, <2>1, Pass_Stays
<1>10. all \in BOOLEAN
    OBVIOUS
<1>11. pass' = [pass EXCEPT ![p] = r]
    BY <1>1 DEF IInv, Sound, TypeOK
<1> HIDE DEF keys, all
<1>12. r \in Passes
    BY <1>2, <1>5, <1>10 DEF Passes, KeySets
<1>13. PassSound(session, Done', written', r)
    BY <1>2, <1>5, <1>8, <1>9, <1>10 DEF Passes, PassSound
<1> HIDE DEF r
<1> QED
    BY <1>6, <1>11, <1>12, <1>13, Pass_Evaluates DEF WriteDrafts

LEMMA Spine_Is ==
    ASSUME NEW b \in Seq(Entries)
    PROVE  BoundedSpine(b) \in Spines
<1> DEFINE n == Len(b)
           m == IF n > MaxBranchEntryIds THEN n - MaxBranchEntryIds + 1 ELSE 1
<1>1. n \in Nat /\ MaxBranchEntryIds \in Nat
    BY CheckpointAssumption
<1>2. m \in Nat \ {0} /\ n \in 0 .. n /\ m <= n + 1 /\ n - m + 1 <= MaxBranchEntryIds
    BY <1>1
<1>3. BoundedSpine(b) = SubSeq(b, m, n)
    BY DEF BoundedSpine
<1>4. /\ SubSeq(b, m, n) \in Seq(Entries)
      /\ Len(SubSeq(b, m, n)) = n - m + 1
    <2> HIDE DEF m
    <2> QED
        BY <1>2, SubSeq_Is
<1> QED
    BY <1>2, <1>3, <1>4 DEF Spines

LEMMA NewWatermark_Settled ==
    ASSUME IInv, NEW p \in Processes, pass[p].phase = "write"
    PROVE  BranchSettled(session, Done, NewWatermark(p))
<1>1. /\ pass[p] \in Passes /\ PassSound(session, Done, written, pass[p])
      /\ session \in Seq(Seq(Entries)) /\ TreeSound(session)
    BY Pass_Is DEF IInv, Sound, TypeOK
<1>2. CASE ~pass[p].advance
    BY <1>1, <1>2 DEF NewWatermark, PassSound
<1>3. CASE pass[p].advance
    <2> DEFINE b == session[pass[p].tip]
               w == pass[p].window
    <2>1. /\ pass[p].tip \in 1 .. Len(session) /\ Len(w) >= 1 /\ Range(w) \subseteq Done
          /\ w \in Seq(Entries) /\ Len(w) \in Nat /\ Range(w) = {w[i] : i \in 1 .. Len(w)}
        BY <1>1, <1>3, Seq_Is DEF PassSound, Passes
    <2>2. PICK k \in Nat : WindowAt(b, w, Done, k)
        BY <1>1, <1>3 DEF PassSound
    <2>3. b \in Seq(Entries) /\ Len(b) \in Nat
        BY <1>1, <2>1, Branch_Is
    <2>4. NewWatermark(p) = b[k + Len(w)] /\ k + Len(w) \in 1 .. Len(b)
        <3>1. NewWatermark(p) = w[Len(w)]
            BY <1>3 DEF NewWatermark
        <3>2. Len(w) \in 1 .. Len(w)
            BY <2>1
        <3> HIDE DEF b, w
        <3> QED
            BY <2>1, <2>2, <2>3, <3>1, <3>2 DEF WindowAt
    <2>5. ASSUME NEW j \in 1 .. k + Len(w)
          PROVE  b[j] \in Done
        <3>1. CASE j <= k
            BY <2>2, <3>1 DEF WindowAt
        <3>2. CASE j > k
            <4>1. j - k \in 1 .. Len(w) /\ j = k + (j - k)
                BY <2>1, <3>2
            <4>2. b[j] = w[j - k]
                BY <2>2, <4>1 DEF WindowAt
            <4> QED
                BY <2>1, <4>1, <4>2
        <3> QED
            BY <3>1, <3>2
    <2>6. PICK i \in 1 .. Len(b) : i = k + Len(w)
        BY <2>4
    <2>7. BranchSettled(session, Done, b[i])
        BY <1>1, <2>1, <2>5, <2>6, Prefix_Is
    <2> QED
        BY <2>4, <2>6, <2>7
<1> QED
    BY <1>2, <1>3

LEMMA SaveCheckpoint_Step ==
    ASSUME IInv, NEW p \in Processes, SaveCheckpoint(p)
    PROVE  Sound'
<1> DEFINE r == [pass[p] EXCEPT !.phase = AfterWindow(p), !.loaded = FreshCheckpoint,
                                !.window = <<>>, !.keys = {}, !.advance = FALSE]
<1>1. /\ pass[p] \in Passes /\ PassSound(session, Done, written, pass[p])
      /\ session \in Seq(Seq(Entries)) /\ TreeSound(session)
      /\ Len(session) \in Nat /\ Len(session) \in 0 .. MaxEntries
    BY Pass_Is, Seq_Is, IntakeAssumption DEF SaveCheckpoint, IInv, Sound, TypeOK
<1>2. /\ FreshCheckpoint \in Checkpoints /\ <<>> \in Seq(Entries) /\ {} \in KeySets
      /\ BranchSettled(session, Done, FreshCheckpoint.watermark)
      /\ KeysSound(FreshCheckpoint.keys, written) /\ KeysSound({}, written)
      /\ AfterWindow(p) \in {"end", "drain"}
    <2>1. AfterWindow(p) \in {"end", "drain"}
        BY DEF AfterWindow
    <2> QED
        BY <1>1, <2>1, Fresh_Is
<1>3. r \in Passes
    BY <1>1, <1>2 DEF Passes, KeySets
<1>4. PassSound(session, Done, written, r)
    BY <1>1, <1>2 DEF Passes, PassSound
<1>5. pass' = [pass EXCEPT ![p] = r]
    BY DEF SaveCheckpoint, IInv, Sound, TypeOK
<1> HIDE DEF r
<1>6. BranchSettled(session, Done, NewWatermark(p)) /\ NewWatermark(p) \in 0 .. MaxEntries
    <2>1. BranchSettled(session, Done, NewWatermark(p))
        BY NewWatermark_Settled DEF SaveCheckpoint
    <2> QED
        BY <1>1, <2>1, IntakeAssumption DEF BranchSettled
<1>7. /\ pass[p].keys \in KeySets /\ pass[p].loaded.keys \in KeySets
      /\ KeysSound(pass[p].keys, written) /\ KeysSound(pass[p].loaded.keys, written)
    BY <1>1 DEF Passes, Checkpoints, KeySets, PassSound
<1>8. BoundedSpine(Branch(p)) \in Spines
    BY <1>1, Branch_Is, Spine_Is DEF Branch, PassSound
<1>9. /\ checkpoint' \in Checkpoints /\ checkpoint'.watermark = NewWatermark(p)
      /\ KeysSound(checkpoint'.keys, written)
    BY <1>6, <1>7, <1>8 DEF SaveCheckpoint, Advanced, Checkpoints, Spines, KeySets, KeysSound
<1>10. UNCHANGED <<session, intake, unhealthy, alive, queued, scan, evaluated, written, crashes>>
    BY DEF SaveCheckpoint, history
<1>11. /\ pass' \in [Processes -> {Idle} \cup Passes]
       /\ \A q \in Processes : pass'[q] = (IF q = p THEN r ELSE pass[q])
    BY <1>3, <1>5 DEF IInv, Sound, TypeOK
<1>12. TypeOK'
    BY <1>9, <1>10, <1>11 DEF IInv, Sound, TypeOK
<1>13. Done' = Done
    BY <1>10 DEF Done, Behind, Healthy
<1> QED
    BY <1>4, <1>6, <1>9, <1>10, <1>11, <1>12, <1>13, Step_Keeps DEF IInv, Sound

LEMMA Continue_Step ==
    ASSUME IInv, NEW p \in Processes, Continue(p)
    PROVE  Sound'
<1>1. /\ pass[p].tip \in 1 .. Len(session) /\ pass[p].tip \in Entries
      /\ Len(session) \in Nat
    BY Pass_Is DEF Continue, PassSound, Passes, IInv, Sound, TypeOK
<1>2. \A q \in Processes : /\ queued'[q] = queued[q] \/ queued'[q] = pass[p].tip
                           /\ pass'[q] = pass[q] \/ pass'[q] = Idle
    BY DEF Continue, Requeued, IInv, Sound, TypeOK
<1>3. TypeOK'
    BY <1>1, IntakeAssumption DEF Continue, Requeued, IInv, Sound, TypeOK, durable, history, Entries
<1>4. Done' = Done /\ UNCHANGED <<session, intake, checkpoint, scan, written>>
    BY DEF Done, Behind, Healthy, Continue, history, durable
<1> QED
    BY <1>1, <1>2, <1>3, <1>4, Step_Keeps DEF IInv, Sound

LEMMA Covered_Settled ==
    ASSUME IInv, NEW p \in Processes, pass[p].phase = "list", NEW tip \in Covered(p)
    PROVE  tip \in Entries /\ BranchSettled(session, Done, tip)
<1> DEFINE b == session[pass[p].tip]
           w == pass[p].loaded.watermark
<1>1. /\ pass[p].tip \in 1 .. Len(session) /\ BranchSettled(session, Done, w)
      /\ session \in Seq(Seq(Entries)) /\ TreeSound(session)
    BY Pass_Is DEF IInv, Sound, TypeOK, PassSound
<1>2. /\ b \in Seq(Entries) /\ Len(b) \in Nat /\ Range(b) = {b[j] : j \in 1 .. Len(b)}
      /\ \A i, j \in 1 .. Len(b) : b[i] = b[j] => i = j
    <2> HIDE DEF w
    <2>1. PICK e \in 1 .. Len(session) : e = pass[p].tip
        BY <1>1
    <2>2. b \in Seq(Entries) /\ \A i, j \in 1 .. Len(b) : b[i] = b[j] => i = j
        BY <1>1, <2>1, Branch_Is
    <2> HIDE DEF b
    <2> QED
        BY <2>2, Seq_Is
<1>3. /\ tip \in Entries /\ tip \in Range(b)
      /\ IndexOf(b, tip, 1) <= IndexOf(b, w, 1)
    BY DEF Covered, Branch, Pending
<1>4. PICK i \in 1 .. Len(b) : tip = b[i]
    BY <1>2, <1>3
<1> HIDE DEF b, w
<1>5. IndexOf(b, tip, 1) = i
    BY <1>2, <1>4, IndexOf_Is
<1>6. PICK m \in 1 .. Len(b) : w = b[m] /\ IndexOf(b, w, 1) = m
    BY <1>2, <1>3, <1>5, IndexOf_Is
<1>7. \A j \in 1 .. m : b[j] \in Done
    BY <1>1, <1>6, Prefix_Is DEF b
<1>8. \A j \in 1 .. i : b[j] \in Done
    BY <1>3, <1>5, <1>6, <1>7
<1> QED
    BY <1>1, <1>3, <1>4, <1>8, Prefix_Is DEF b

LEMMA ListCovered_Step ==
    ASSUME IInv, NEW p \in Processes, ListCovered(p)
    PROVE  Sound'
<1> DEFINE r == [pass[p] EXCEPT !.toAck = Covered(p), !.loaded = FreshCheckpoint, !.phase = "ack"]
<1>1. /\ pass[p] \in Passes /\ PassSound(session, Done, written, pass[p])
      /\ Len(session) \in Nat
    BY Pass_Is DEF ListCovered, IInv, Sound, TypeOK
<1>2. /\ FreshCheckpoint \in Checkpoints
      /\ BranchSettled(session, Done, FreshCheckpoint.watermark)
      /\ KeysSound(FreshCheckpoint.keys, written)
    BY <1>1, Fresh_Is
<1>3. \A tip \in Covered(p) : tip \in Entries /\ tip # 0 /\ BranchSettled(session, Done, tip)
    BY Covered_Settled DEF ListCovered, Entries
<1>4. r \in Passes
    BY <1>1, <1>2, <1>3 DEF Passes
<1>5. PassSound(session, Done, written, r)
    BY <1>1, <1>2, <1>3 DEF Passes, PassSound
<1>6. pass' = [pass EXCEPT ![p] = r]
    BY DEF ListCovered, IInv, Sound, TypeOK
<1> HIDE DEF r
<1> QED
    BY <1>4, <1>5, <1>6, Pass_Moves DEF ListCovered

LEMMA AckOne_Step ==
    ASSUME IInv, NEW p \in Processes, AckOne(p)
    PROVE  Sound'
<1>1. PICK tip \in pass[p].toAck :
          /\ intake' = [intake EXCEPT ![tip] = "acked"]
          /\ pass' = [pass EXCEPT ![p].toAck = @ \ {tip}]
    BY DEF AckOne
<1> DEFINE r == [pass[p] EXCEPT !.toAck = @ \ {tip}]
<1>2. /\ pass[p] \in Passes /\ PassSound(session, Done, written, pass[p])
      /\ pass[p].phase = "ack" /\ Len(session) \in Nat
    BY Pass_Is DEF AckOne, IInv, Sound, TypeOK
<1>3. tip # 0 /\ BranchSettled(session, Done, tip) /\ tip \in 1 .. Len(session) /\ tip \in Entries
    BY <1>2 DEF PassSound, BranchSettled, Passes
<1>4. pass' = [pass EXCEPT ![p] = r]
    BY <1>1 DEF IInv, Sound, TypeOK
<1>5. r \in Passes
    BY <1>2 DEF Passes
<1>6. PassSound(session, Done, written, r)
    BY <1>2 DEF Passes, PassSound
<1> HIDE DEF r
<1>7. UNCHANGED <<session, unhealthy, checkpoint, alive, scan, queued, evaluated, written, crashes>>
    BY DEF AckOne, history
<1>8. /\ pass' \in [Processes -> {Idle} \cup Passes]
      /\ \A q \in Processes : pass'[q] = (IF q = p THEN r ELSE pass[q])
    BY <1>4, <1>5 DEF IInv, Sound, TypeOK
<1>9. /\ intake' \in [Entries -> {"none", "pending", "acked"}]
      /\ \A e \in Entries : intake'[e] = intake[e] \/ e = tip
    BY <1>1, <1>3 DEF IInv, Sound, TypeOK
<1>10. TypeOK'
    BY <1>7, <1>8, <1>9 DEF IInv, Sound, TypeOK
<1>11. Done \subseteq Done'
    <2>1. Healthy \subseteq Healthy'
        BY <1>1, <1>7, <1>9 DEF Healthy, IInv, Sound, TypeOK
    <2> QED
        BY <1>7, <2>1 DEF Done, Behind
<1>12. Grows(session, Done, written, session, Done', written')
    BY <1>2, <1>7, <1>11 DEF Grows
<1>13. BranchSettled(session, Done', tip) /\ PassSound(session, Done', written', r)
    BY <1>3, <1>6, <1>12, Settled_Stays, Pass_Stays
<1> QED
    BY <1>3, <1>7, <1>8, <1>9, <1>10, <1>11, <1>13, Step_Keeps DEF IInv, Sound

-----------------------------------------------------------------------------
(* Steps of the queue and of processes.                                     *)
LEMMA Queue_Moves ==
    ASSUME IInv, UNCHANGED <<durable, evaluated, written>>,
           alive' \subseteq Processes, crashes' \in 0 .. MaxCrashes,
           scan' \in [Processes -> 0 .. MaxEntries], queued' \in [Processes -> 0 .. MaxEntries],
           \A p \in Processes : queued'[p] <= Len(session) /\ scan'[p] <= Len(session),
           pass' \in [Processes -> {Idle} \cup Passes],
           \A p \in Processes : \/ pass'[p] = pass[p] \/ pass'[p] = Idle
                                \/ PassSound(session, Done, written, pass'[p])
    PROVE  Sound'
<1>1. TypeOK'
    BY DEF IInv, Sound, TypeOK, durable
<1>2. Done' = Done
    BY DEF Done, Behind, Healthy, durable
<1> QED
    BY <1>1, <1>2, Step_Keeps DEF IInv, Sound, durable

LEMMA RecoveryScan_Step ==
    ASSUME IInv, NEW p \in Processes, RecoveryScan(p)
    PROVE  Sound'
<1>1. PICK newest \in Pending : scan' = [scan EXCEPT ![p] = newest]
    BY DEF RecoveryScan
<1>2. newest \in 1 .. Len(session) /\ newest \in 0 .. MaxEntries
    BY DEF Pending, IInv, Sound, IntakeSound, Entries
<1>3. scan' \in [Processes -> 0 .. MaxEntries] /\ \A q \in Processes : scan'[q] = scan[q] \/ scan'[q] = newest
    BY <1>1, <1>2 DEF IInv, Sound, TypeOK
<1>4. UNCHANGED <<durable, alive, queued, pass, history>>
    BY DEF RecoveryScan
<1>5. \A q \in Processes : queued'[q] <= Len(session) /\ scan'[q] <= Len(session)
    <2>1. /\ Len(session) \in Nat /\ newest <= Len(session) /\ queued' = queued
          /\ \A q \in Processes : queued[q] <= Len(session) /\ scan[q] <= Len(session)
        BY <1>2, <1>4 DEF IInv, Sound, TypeOK
    <2> QED
        BY <1>3, <2>1
<1> QED
    BY <1>3, <1>4, <1>5, Queue_Moves DEF history, IInv, Sound, TypeOK

LEMMA RecoveryEnqueue_Step ==
    ASSUME IInv, NEW p \in Processes, RecoveryEnqueue(p)
    PROVE  Sound'
<1>1. Len(session) \in Nat
    BY DEF IInv, Sound, TypeOK
<1>2. /\ scan' \in [Processes -> 0 .. MaxEntries] /\ queued' \in [Processes -> 0 .. MaxEntries]
      /\ \A q \in Processes : /\ scan'[q] = scan[q] \/ scan'[q] = 0
                              /\ queued'[q] = queued[q] \/ queued'[q] = scan[q]
    BY IntakeAssumption DEF RecoveryEnqueue, NoTip, IInv, Sound, TypeOK
<1> QED
    BY <1>1, <1>2, Queue_Moves DEF RecoveryEnqueue, history, IInv, Sound, TypeOK

LEMMA DropJob_Step ==
    ASSUME IInv, NEW p \in Processes, DropJob(p)
    PROVE  Sound'
<1>1. Len(session) \in Nat
    BY DEF IInv, Sound, TypeOK
<1>2. /\ queued' \in [Processes -> 0 .. MaxEntries]
      /\ \A q \in Processes : queued'[q] = queued[q] \/ queued'[q] = 0
    BY IntakeAssumption DEF DropJob, NoTip, IInv, Sound, TypeOK
<1> QED
    BY <1>1, <1>2, Queue_Moves DEF DropJob, history, IInv, Sound, TypeOK

LEMMA StartJob_Step ==
    ASSUME IInv, NEW p \in Processes, StartJob(p)
    PROVE  Sound'
<1>1. Len(session) \in Nat /\ queued[p] \in 1 .. Len(session) /\ queued[p] \in Entries
    BY DEF IInv, Sound, TypeOK, StartJob, NoTip, Entries
<1>2. /\ queued' \in [Processes -> 0 .. MaxEntries]
      /\ \A q \in Processes : queued'[q] = queued[q] \/ queued'[q] = 0
    BY IntakeAssumption DEF StartJob, NoTip, IInv, Sound, TypeOK
<1> DEFINE r == NewPass(queued[p])
<1>3. /\ FreshCheckpoint \in Checkpoints /\ <<>> \in Seq(Entries) /\ {} \in KeySets
      /\ 0 \in 0 .. MaxDrains
      /\ BranchSettled(session, Done, FreshCheckpoint.watermark)
      /\ KeysSound(FreshCheckpoint.keys, written) /\ KeysSound({}, written)
    <2>1. 0 \in 0 .. MaxDrains
        BY IntakeAssumption
    <2> QED
        BY <1>1, <2>1, Fresh_Is
<1>4. r \in Passes
    BY <1>1, <1>3 DEF Passes, NewPass, KeySets
<1>5. PassSound(session, Done, written, r)
    BY <1>1, <1>3 DEF NewPass, PassSound
<1>6. pass' = [pass EXCEPT ![p] = r]
    BY DEF StartJob
<1> HIDE DEF r
<1>7. /\ pass' \in [Processes -> {Idle} \cup Passes]
      /\ \A q \in Processes : pass'[q] = (IF q = p THEN r ELSE pass[q])
    BY <1>4, <1>6 DEF IInv, Sound, TypeOK
<1> QED
    BY <1>1, <1>2, <1>5, <1>7, Queue_Moves DEF StartJob, history, IInv, Sound, TypeOK

LEMMA Crash_Step ==
    ASSUME IInv, NEW p \in Processes, Crash(p)
    PROVE  Sound'
<1>1. Len(session) \in Nat
    BY DEF IInv, Sound, TypeOK
<1>2. /\ scan' \in [Processes -> 0 .. MaxEntries] /\ queued' \in [Processes -> 0 .. MaxEntries]
      /\ pass' \in [Processes -> {Idle} \cup Passes]
      /\ \A q \in Processes : /\ scan'[q] = scan[q] \/ scan'[q] = 0
                              /\ queued'[q] = queued[q] \/ queued'[q] = 0
                              /\ pass'[q] = pass[q] \/ pass'[q] = Idle
    BY IntakeAssumption DEF Crash, NoTip, IInv, Sound, TypeOK
<1>3. alive' \subseteq Processes /\ crashes' \in 0 .. MaxCrashes
    BY IntakeAssumption DEF Crash, IInv, Sound, TypeOK
<1> QED
    BY <1>1, <1>2, <1>3, Queue_Moves DEF Crash, IInv, Sound, TypeOK

LEMMA Restart_Step ==
    ASSUME IInv, NEW p \in Processes, Restart(p)
    PROVE  Sound'
BY Queue_Moves DEF Restart, history, IInv, Sound, TypeOK

-----------------------------------------------------------------------------
(* A turn adds a branch to the tree: its parent's and the new tip.          *)
LEMMA Tree_Grows ==
    ASSUME NEW s \in Seq(Seq(Entries)), TreeSound(s), NEW s2 \in Seq(Seq(Entries)),
           NEW stem \in Seq(Entries), NEW tip, tip = Len(s) + 1, tip \in Entries,
           s2 = Append(s, Append(stem, tip)),
           stem = <<>> \/ \E e \in 1 .. Len(s) : stem = s[e]
    PROVE  TreeSound(s2)
<1> DEFINE b == Append(stem, tip)
           n == Len(stem)
<1>1. /\ b \in Seq(Entries) /\ Len(b) = n + 1 /\ b[n + 1] = tip
      /\ \A i \in 1 .. n : b[i] = stem[i]
      /\ n \in Nat
    BY Append_Is
<1> HIDE DEF b, n
<1>2. /\ Len(s) \in Nat /\ Len(s2) = Len(s) + 1 /\ s2[tip] = b
      /\ \A e \in 1 .. Len(s) : s2[e] = s[e]
    BY <1>1 DEF b
<1>3. ASSUME NEW e \in 1 .. Len(s)
      PROVE  BranchSound(s2, s2[e], e)
    <2>1. PICK c : c = s[e] /\ c = s2[e] /\ BranchSound(s, c, e)
        BY <1>2 DEF TreeSound
    <2>2. \A i \in 1 .. Len(c) : c[i] \in 1 .. Len(s) /\ c[i] \in 1 .. Len(s2) /\ s2[c[i]] = s[c[i]]
        BY <1>2, <2>1 DEF BranchSound
    <2>3. BranchSound(s2, c, e)
        BY <2>1, <2>2 DEF BranchSound
    <2> QED
        BY <2>1, <2>3
<1>4. /\ \A i \in 1 .. n : stem[i] \in 1 .. Len(s) /\ Range(s[stem[i]]) = {stem[j] : j \in 1 .. i}
      /\ \A i, j \in 1 .. n : stem[i] = stem[j] => i = j
    <2>1. CASE stem = <<>>
        <3>1. n = 0
            BY <2>1 DEF n
        <3> QED
            BY <3>1
    <2>2. CASE \E e \in 1 .. Len(s) : stem = s[e]
        <3>1. PICK e \in 1 .. Len(s) : stem = s[e]
            BY <2>2
        <3>2. BranchSound(s, stem, e)
            BY <3>1 DEF TreeSound
        <3> QED
            BY <3>2 DEF BranchSound, n
    <2> QED
        BY <2>1, <2>2
<1>5. BranchSound(s2, b, tip)
    <2>1. Len(b) >= 1 /\ b[Len(b)] = tip
        BY <1>1
    <2>2. ASSUME NEW i \in 1 .. Len(b)
          PROVE  b[i] \in 1 .. Len(s2) /\ Range(s2[b[i]]) = {b[j] : j \in 1 .. i}
        <3>1. CASE i \in 1 .. n
            <4>1. b[i] = stem[i] /\ s2[b[i]] = s[stem[i]] /\ b[i] \in 1 .. Len(s2)
                BY <1>1, <1>2, <1>4, <3>1
            <4>2. {b[j] : j \in 1 .. i} = {stem[j] : j \in 1 .. i}
                <5>1. \A j \in 1 .. i : b[j] = stem[j]
                    BY <1>1, <3>1
                <5> QED
                    BY <5>1
            <4> QED
                BY <1>4, <3>1, <4>1, <4>2
        <3>2. CASE i = n + 1
            <4>1. b[i] = tip /\ s2[b[i]] = b /\ i = Len(b) /\ tip \in 1 .. Len(s2)
                BY <1>1, <1>2, <3>2
            <4>2. Range(b) = {b[j] : j \in 1 .. Len(b)}
                BY <1>1, Seq_Is
            <4> QED
                BY <4>1, <4>2
        <3>3. i \in 1 .. n \/ i = n + 1
            BY <1>1
        <3> QED
            BY <3>1, <3>2, <3>3
    <2>3. ASSUME NEW i \in 1 .. Len(b), NEW j \in 1 .. Len(b), b[i] = b[j]
          PROVE  i = j
        <3>1. \A m \in 1 .. n : b[m] # tip
            <4> SUFFICES ASSUME NEW m \in 1 .. n
                         PROVE  b[m] # tip
                OBVIOUS
            <4>1. b[m] = stem[m] /\ stem[m] \in 1 .. Len(s)
                BY <1>1, <1>4
            <4> QED
                BY <1>2, <4>1
        <3>2. (i \in 1 .. n \/ i = n + 1) /\ (j \in 1 .. n \/ j = n + 1)
            BY <1>1
        <3>3. CASE i \in 1 .. n /\ j \in 1 .. n
            BY <1>1, <1>4, <2>3, <3>3
        <3> QED
            BY <1>1, <2>3, <3>1, <3>2, <3>3
    <2> QED
        BY <1>2, <2>1, <2>2, <2>3 DEF BranchSound
<1> QED
    <2> SUFFICES ASSUME NEW e \in 1 .. Len(s2)
                 PROVE  BranchSound(s2, s2[e], e)
        BY DEF TreeSound
    <2>1. e \in 1 .. Len(s) \/ e = tip
        BY <1>2
    <2> QED
        BY <1>2, <1>3, <1>5, <2>1

LEMMA Turn_Step ==
    ASSUME IInv, NEW p \in Processes, NEW parent \in 0 .. Len(session), Turn(p, parent)
    PROVE  Sound'
<1> DEFINE tip == Len(session) + 1
           stem == BranchTo(parent)
<1>1. /\ session \in Seq(Seq(Entries)) /\ Len(session) \in Nat /\ TreeSound(session)
      /\ tip \in Entries
    BY IntakeAssumption DEF IInv, Sound, TypeOK, Turn, Entries
<1>2. stem \in Seq(Entries) /\ (stem = <<>> \/ \E e \in 1 .. Len(session) : stem = session[e])
    BY <1>1, Branch_Is DEF BranchTo, NoEntry
<1>3. /\ session' \in Seq(Seq(Entries)) /\ Len(session') = Len(session) + 1
      /\ \A e \in 1 .. Len(session) : session'[e] = session[e]
      /\ session' = Append(session, Append(stem, tip))
    <2>1. session' = Append(session, Append(stem, tip))
        BY DEF Turn
    <2>2. Append(stem, tip) \in Seq(Entries)
        BY <1>1, <1>2, Append_Is
    <2> HIDE DEF stem, tip
    <2> QED
        BY <1>1, <2>1, <2>2, Append_Is
<1>4. TreeSound(session')
    <2> HIDE DEF stem
    <2> QED
        BY <1>1, <1>2, <1>3, Tree_Grows
<1>5. /\ UNCHANGED <<checkpoint, alive, scan, pass, evaluated, written, crashes>>
      /\ Len(session') <= MaxEntries
    BY <1>1, <1>3, IntakeAssumption DEF Turn, history
<1>6. Grows(session, Done, written, session', Done', written')
    <2>1. /\ Healthy \subseteq 1 .. Len(session)
          /\ \A e \in Healthy : e \in Healthy'
        <3>1. \A e \in Healthy : e \in 1 .. Len(session)
            BY <1>1, IntakeAssumption DEF Healthy, IInv, Captures, Sound, IntakeSound
        <3>2. \A e \in Entries : e \in 1 .. Len(session) => intake'[e] = intake[e]
            BY <1>1 DEF Turn, IInv, Sound, TypeOK
        <3>3. unhealthy' \subseteq unhealthy \cup {tip}
            BY DEF Turn
        <3> QED
            <4> SUFFICES ASSUME NEW e \in Healthy
                         PROVE  e \in Healthy'
                BY <3>1
            <4>1. e \in 1 .. Len(session) /\ e # tip
                BY <1>1, <3>1
            <4>2. CASE e \in 1 .. LegacyEntries
                BY <4>2 DEF Healthy
            <4>3. CASE e \in Entries /\ intake[e] # "none" /\ e \notin unhealthy
                BY <3>2, <3>3, <4>1, <4>3 DEF Healthy
            <4> QED
                BY <4>2, <4>3 DEF Healthy
    <2>2. Behind \subseteq Behind'
        BY <1>3, <2>1 DEF Behind
    <2>3. Done \subseteq Done'
        BY <1>5, <2>2 DEF Done
    <2> QED
        BY <1>1, <1>3, <1>5, <2>3 DEF Grows
<1>7. /\ intake' \in [Entries -> {"none", "pending", "acked"}]
      /\ \A e \in Entries : intake'[e] = intake[e] \/ (e = tip /\ intake'[e] = "pending")
      /\ unhealthy' \subseteq Entries
    BY <1>1 DEF Turn, IInv, Sound, TypeOK
<1>8. /\ queued' \in [Processes -> 0 .. MaxEntries]
      /\ \A q \in Processes : queued'[q] = queued[q] \/ queued'[q] = tip
    <2>1. queued' = queued \/ queued' = [queued EXCEPT ![p] = tip]
        BY DEF Turn
    <2>2. queued \in [Processes -> 0 .. MaxEntries] /\ tip \in 0 .. MaxEntries
        BY <1>1, IntakeAssumption DEF IInv, Sound, TypeOK, Entries
    <2> HIDE DEF tip
    <2> QED
        BY <2>1, <2>2
<1>9. TypeOK'
    BY <1>3, <1>5, <1>7, <1>8 DEF IInv, Sound, TypeOK
<1>10. IntakeSound(session', Done', intake')
    <2> SUFFICES ASSUME NEW e \in Entries
                 PROVE  /\ intake'[e] # "none" => e \in 1 .. Len(session')
                        /\ intake'[e] = "acked" => BranchSettled(session', Done', e)
        BY DEF IntakeSound
    <2>1. /\ intake[e] # "none" => e \in 1 .. Len(session)
          /\ intake[e] = "acked" => BranchSettled(session, Done, e)
        BY DEF IInv, Sound, IntakeSound
    <2>2. BranchSettled(session, Done, e) => BranchSettled(session', Done', e)
        BY <1>6, Settled_Stays
    <2> QED
        BY <1>1, <1>3, <1>7, <2>1, <2>2
<1>11. \A q \in Processes : queued'[q] <= Len(session') /\ scan'[q] <= Len(session')
    <2>1. /\ \A q \in Processes : queued[q] <= Len(session) /\ scan[q] <= Len(session)
          /\ queued \in [Processes -> 0 .. MaxEntries] /\ scan \in [Processes -> 0 .. MaxEntries]
        BY DEF IInv, Sound, TypeOK
    <2> SUFFICES ASSUME NEW q \in Processes
                 PROVE  queued'[q] <= Len(session) + 1 /\ scan[q] <= Len(session) + 1
        BY <1>3, <1>5
    <2>2. queued[q] \in Nat /\ scan[q] \in Nat
        BY <2>1, IntakeAssumption
    <2>3. queued'[q] = queued[q] \/ queued'[q] = Len(session) + 1
        BY <1>8
    <2>4. queued[q] <= Len(session) /\ scan[q] <= Len(session)
        BY <2>1
    <2> QED
        BY <1>1, <2>2, <2>3, <2>4
<1>12. BranchSettled(session', Done', checkpoint'.watermark) /\ KeysSound(checkpoint'.keys, written')
    BY <1>5, <1>6, Settled_Stays DEF IInv, Sound
<1>13. \A q \in Processes : pass'[q] # Idle => PassSound(session', Done', written', pass'[q])
    BY <1>5, <1>6, Pass_Stays DEF IInv, Sound
<1> QED
    BY <1>4, <1>9, <1>10, <1>11, <1>12, <1>13 DEF IInv, Sound

-----------------------------------------------------------------------------
(* The session starts with entries that were processed before checkpoints   *)
(* recorded lineage.                                                        *)
LEMMA Init_Holds == Init => IInv
<1> SUFFICES ASSUME Init
             PROVE  IInv
    OBVIOUS
<1> DEFINE n == LegacyEntries
<1>1. n \in Nat /\ n <= MaxEntries /\ MaxEntries \in Nat
    BY IntakeAssumption
<1>2. \A e \in 1 .. n : /\ [i \in 1 .. e |-> i] \in Seq(Entries)
                        /\ Len([i \in 1 .. e |-> i]) = e
                        /\ Range([i \in 1 .. e |-> i]) = 1 .. e
    <2> TAKE e \in 1 .. n
    <2>1. [i \in 1 .. e |-> i] \in Seq(Entries) /\ Len([i \in 1 .. e |-> i]) = e
        BY <1>1 DEF Entries
    <2> QED
        BY <2>1 DEF Range
<1>3. session \in Seq(Seq(Entries)) /\ Len(session) = n /\ \A e \in 1 .. n : session[e] = [i \in 1 .. e |-> i]
    BY <1>1, <1>2 DEF Init, Legacy
<1>4. TreeSound(session)
    <2> SUFFICES ASSUME NEW e \in 1 .. n
                 PROVE  BranchSound(session, session[e], e)
        BY <1>3 DEF TreeSound
    <2>1. Len(session[e]) = e /\ \A i \in 1 .. e : session[e][i] = i /\ i \in 1 .. n
        BY <1>1, <1>2, <1>3
    <2>2. \A i \in 1 .. e : Range(session[i]) = 1 .. i /\ {session[e][j] : j \in 1 .. i} = 1 .. i
        BY <1>2, <1>3, <2>1
    <2> QED
        BY <1>1, <1>3, <2>1, <2>2 DEF BranchSound
<1>5. /\ checkpoint.watermark = n /\ checkpoint.keys = {} /\ checkpoint \in Checkpoints
    <2>1. checkpoint = [FreshCheckpoint EXCEPT !.watermark = n] /\ n \in 0 .. MaxEntries
        BY <1>1 DEF Init, LegacyCheckpoint
    <2>2. <<>> \in Spines /\ {} \in KeySets
        BY CheckpointAssumption DEF Spines, KeySets
    <2> HIDE DEF n
    <2> QED
        BY <2>1, <2>2 DEF FreshCheckpoint, Checkpoints, Spines, KeySets
<1>6. Done = 1 .. n
    <2>1. Healthy = 1 .. n
        BY DEF Init, Healthy
    <2>2. \A e \in 1 .. n : e \in Entries /\ e \in Range(session[e])
        BY <1>1, <1>2, <1>3 DEF Entries
    <2> QED
        BY <2>1, <2>2 DEF Init, Done, Behind
<1>7. BranchSettled(session, Done, n) /\ KeysSound({}, written)
    BY <1>1, <1>2, <1>3, <1>6 DEF BranchSettled, KeysSound
<1>8. IntakeSound(session, Done, intake)
    BY DEF Init, IntakeSound
<1>9. TypeOK
    BY <1>1, <1>3, <1>5, IntakeAssumption DEF Init, TypeOK, NoTip, Entries
<1>10. \A p \in Processes : queued[p] <= Len(session) /\ scan[p] <= Len(session)
    BY <1>1, <1>3 DEF Init, NoTip
<1> QED
    <2>1. Captures
        BY <1>1, <1>3 DEF Init, Captures
    <2> QED
        BY <1>4, <1>5, <1>7, <1>8, <1>9, <1>10, <2>1 DEF IInv, Sound, Init

(* Receipts stay, so that the tip of a job keeps its own; what a step makes *)
(* of one pass.                                                             *)
LEMMA Pass_Opens ==
    ASSUME IInv, NEW p \in Processes, PassStep(p)
    PROVE  /\ \A q \in Processes : q # p => pass'[q] = pass[q]
           /\ \/ pass'[p] = Idle
              \/ /\ pass[p] # Idle /\ pass'[p].tip = pass[p].tip
                 /\ Opened(pass'[p]) => Opened(pass[p]) \/ pass[p].tip \notin unhealthy
<1>1. pass[p].phase # "idle"
    BY DEF PassStep, StartPass, Unbound, SkipUnhealthy, Deferred, MainWindow, OpenWindow, NoWindow,
       SkipWindow, EvaluateWindow, HoldWindow, WriteDrafts, LoadPrevious, SaveCheckpoint, SaveFails,
       DrainAgain, DrainStops, LoadEnd, Continue, NoBacklog, ListCovered, AckOne, EndJob
<1>2. pass[p] \in Passes /\ pass \in [Processes -> {Idle} \cup Passes] /\ pass[p] # Idle
    BY <1>1, Pass_Is DEF IInv, Sound, TypeOK, Idle
<1>3. MaxDrains \in Nat
    BY IntakeAssumption
<1> USE <1>2, <1>3 DEF Passes, Opened
<1>4. CASE StartPass(p) \/ SkipUnhealthy(p) \/ NoWindow(p) \/ SkipWindow(p)
    BY <1>4 DEF StartPass, SkipUnhealthy, NoWindow, SkipWindow
<1>5. CASE Unbound(p) \/ Continue(p) \/ EndJob(p)
    BY <1>5 DEF Unbound, Continue, EndJob
<1>6. CASE OpenWindow(p)
    BY <1>6 DEF OpenWindow, Deferred, MainWindow
<1>7. CASE EvaluateWindow(p) \/ LoadPrevious(p)
    BY <1>7 DEF EvaluateWindow, LoadPrevious
<1>8. CASE HoldWindow(p) \/ SaveCheckpoint(p)
    BY <1>8 DEF HoldWindow, SaveCheckpoint
<1>9. CASE WriteDrafts(p)
    BY <1>9 DEF WriteDrafts
<1>10. CASE SaveFails(p)
    BY <1>10 DEF SaveFails
<1>11. CASE DrainAgain(p) \/ DrainStops(p)
    BY <1>11 DEF DrainAgain, DrainStops
<1>12. CASE LoadEnd(p)
    BY <1>12 DEF LoadEnd
<1>13. CASE NoBacklog(p) \/ ListCovered(p)
    BY <1>13 DEF NoBacklog, ListCovered
<1>14. CASE AckOne(p)
    BY <1>14 DEF AckOne
<1> QED
    BY <1>4, <1>5, <1>6, <1>7, <1>8, <1>9, <1>10, <1>11, <1>12, <1>13, <1>14 DEF PassStep

(* A step that captures nothing.                                            *)
LEMMA Captures_Stay ==
    ASSUME IInv, UNCHANGED <<session, unhealthy>>, Captured \subseteq Captured',
           \A q \in Processes :
              /\ queued'[q] = NoTip \/ queued'[q] \in Captured
              /\ scan'[q] = NoTip \/ scan'[q] \in Captured
              /\ \/ pass'[q] = Idle
                 \/ /\ pass'[q].tip \in Captured
                    /\ Opened(pass'[q]) => pass'[q].tip \notin unhealthy
    PROVE  Captures'
BY DEF IInv, Captures

LEMMA Captures_Keep ==
    ASSUME IInv, [Next]_vars
    PROVE  Captures'
<1>1. /\ \A q \in Processes :
            /\ queued[q] = NoTip \/ queued[q] \in Captured
            /\ scan[q] = NoTip \/ scan[q] \in Captured
            /\ \/ pass[q] = Idle
               \/ /\ pass[q].tip \in Captured
                  /\ Opened(pass[q]) => pass[q].tip \notin unhealthy
      /\ unhealthy \subseteq Captured /\ LegacyEntries <= Len(session)
      /\ \A e \in Captured : e \in 1 .. Len(session)
      /\ Len(session) \in Nat /\ LegacyEntries \in Nat
    BY IntakeAssumption DEF IInv, Captures, Captured, Sound, IntakeSound, TypeOK
<1>2. /\ queued \in [Processes -> 0 .. MaxEntries] /\ scan \in [Processes -> 0 .. MaxEntries]
      /\ pass \in [Processes -> {Idle} \cup Passes]
      /\ intake \in [Entries -> {"none", "pending", "acked"}]
    BY DEF IInv, Sound, TypeOK
<1>3. UNCHANGED intake => Captured' = Captured
    BY DEF Captured
<1>4. CASE UNCHANGED vars
    BY <1>1, <1>3, <1>4, Captures_Stay DEF vars
<1>5. ASSUME NEW p \in Processes, NEW parent \in 0 .. Len(session), Turn(p, parent)
      PROVE  Captures'
    <2> DEFINE tip == Len(session) + 1
    <2>1. /\ tip \in Entries /\ tip \notin Captured /\ Len(session') = Len(session) + 1
          /\ UNCHANGED <<scan, pass>>
        BY <1>1, <1>5, IntakeAssumption DEF Turn, Entries
    <2>2. \/ UNCHANGED <<intake, unhealthy, queued>>
          \/ /\ intake' = [intake EXCEPT ![tip] = "pending"]
             /\ unhealthy' \in {unhealthy, unhealthy \cup {tip}}
             /\ queued' = [queued EXCEPT ![p] = tip]
        BY <1>5 DEF Turn
    <2> HIDE DEF tip
    <2>3. /\ Captured \subseteq Captured'
          /\ unhealthy' \subseteq unhealthy \cup {tip} /\ unhealthy' \subseteq Captured'
        BY <1>1, <1>2, <2>1, <2>2 DEF Captured
    <2>4. \A q \in Processes : queued'[q] = NoTip \/ queued'[q] \in Captured'
        <3>1. \A q \in Processes :
                 queued'[q] = queued[q] \/ (queued'[q] = tip /\ tip \in Captured')
            BY <1>2, <2>1, <2>2 DEF Captured
        <3> QED
            BY <1>1, <2>3, <3>1
    <2>5. \A q \in Processes :
             \/ pass[q] = Idle
             \/ pass[q].tip \in Captured' /\ (Opened(pass[q]) => pass[q].tip \notin unhealthy')
        BY <1>1, <2>1, <2>3
    <2>6. LegacyEntries <= Len(session')
        BY <1>1, <2>1
    <2>7. \A q \in Processes : scan[q] = NoTip \/ scan[q] \in Captured'
        BY <1>1, <2>3
    <2> QED
        BY <2>1, <2>3, <2>4, <2>5, <2>6, <2>7 DEF Captures
<1>6. ASSUME NEW p \in Processes,
             RecoveryScan(p) \/ RecoveryEnqueue(p) \/ DropJob(p) \/ Restart(p)
      PROVE  Captures'
    <2>1. UNCHANGED <<session, intake, unhealthy, pass>>
        BY <1>6 DEF RecoveryScan, RecoveryEnqueue, DropJob, Restart, durable
    <2>2. \A q \in Processes :
             /\ queued'[q] = NoTip \/ queued'[q] \in Captured
             /\ scan'[q] = NoTip \/ scan'[q] \in Captured
        BY <1>1, <1>2, <1>6 DEF RecoveryScan, RecoveryEnqueue, DropJob, Restart, Pending, Captured
    <2> QED
        BY <1>1, <1>3, <2>1, <2>2, Captures_Stay
<1>7. ASSUME NEW p \in Processes, StartJob(p) \/ Crash(p)
      PROVE  Captures'
    <2>1. UNCHANGED <<session, intake, unhealthy>>
        BY <1>7 DEF StartJob, Crash, durable
    <2>2. \A q \in Processes :
             /\ queued'[q] = NoTip \/ queued'[q] = queued[q]
             /\ scan'[q] = NoTip \/ scan'[q] = scan[q]
        BY <1>2, <1>7 DEF StartJob, Crash
    <2>3. /\ NewPass(queued[p]).tip = queued[p] /\ ~Opened(NewPass(queued[p]))
          /\ \A q \in Processes :
                \/ pass'[q] = pass[q] \/ pass'[q] = Idle
                \/ q = p /\ queued[p] # NoTip /\ pass'[q] = NewPass(queued[p])
        <3>1. NewPass(queued[p]).tip = queued[p] /\ ~Opened(NewPass(queued[p]))
            BY DEF NewPass, Opened
        <3>2. \/ pass' = [pass EXCEPT ![p] = Idle]
              \/ queued[p] # NoTip /\ pass' = [pass EXCEPT ![p] = NewPass(queued[p])]
            BY <1>7 DEF StartJob, Crash
        <3> QED
            BY <1>2, <3>1, <3>2
    <2> QED
        BY <1>1, <1>3, <2>1, <2>2, <2>3, Captures_Stay
<1>8. ASSUME NEW p \in Processes, PassStep(p)
      PROVE  Captures'
    <2>1. /\ UNCHANGED <<session, unhealthy, scan>>
          /\ \/ UNCHANGED intake
             \/ \E tip \in pass[p].toAck : intake' = [intake EXCEPT ![tip] = "acked"]
          /\ queued' = queued \/ (Continue(p) /\ queued' = [queued EXCEPT ![p] = Requeued(p)])
        BY <1>8 DEF PassStep, StartPass, Unbound, SkipUnhealthy, OpenWindow, NoWindow,
           SkipWindow, EvaluateWindow, HoldWindow, WriteDrafts, LoadPrevious, SaveCheckpoint,
           SaveFails, DrainAgain, DrainStops, LoadEnd, Continue, NoBacklog, ListCovered, AckOne,
           EndJob, durable
    <2>2. Captured \subseteq Captured'
        BY <1>2, <2>1 DEF Captured
    <2>3. \A q \in Processes : queued'[q] = NoTip \/ queued'[q] \in Captured
        <3>1. Continue(p) => pass[p] # Idle
            BY DEF Continue, Idle
        <3>2. \A q \in Processes :
                 \/ queued'[q] = queued[q]
                 \/ Continue(p) /\ queued'[q] = pass[p].tip
            BY <1>2, <2>1 DEF Requeued
        <3> QED
            BY <1>1, <3>1, <3>2
    <2>4. \A q \in Processes :
             \/ pass'[q] = Idle
             \/ pass'[q].tip \in Captured /\ (Opened(pass'[q]) => pass'[q].tip \notin unhealthy)
        BY <1>1, <1>8, Pass_Opens
    <2> QED
        BY <1>1, <2>1, <2>2, <2>3, <2>4, Captures_Stay
<1> QED
    BY <1>4, <1>5, <1>6, <1>7, <1>8 DEF Next

LEMMA Next_Keeps == IInv /\ [Next]_vars => IInv'
<1> SUFFICES ASSUME IInv, [Next]_vars
             PROVE  Sound'
    BY Captures_Keep DEF IInv
<1>1. CASE UNCHANGED vars
    <2>1. TypeOK' /\ Done' = Done
        BY <1>1 DEF IInv, Sound, TypeOK, vars, Done, Behind, Healthy
    <2> QED
        BY <1>1, <2>1 DEF IInv, Sound, vars
<1>2. ASSUME NEW p \in Processes, NEW parent \in 0 .. Len(session), Turn(p, parent)
      PROVE  Sound'
    BY <1>2, Turn_Step
<1>3. ASSUME NEW p \in Processes,
             RecoveryScan(p) \/ RecoveryEnqueue(p) \/ StartJob(p) \/ DropJob(p) \/ Crash(p) \/ Restart(p)
      PROVE  Sound'
    BY <1>3, RecoveryScan_Step, RecoveryEnqueue_Step, StartJob_Step, DropJob_Step, Crash_Step, Restart_Step
<1>4. ASSUME NEW p \in Processes, PassStep(p)
      PROVE  Sound'
    BY <1>4, StartPass_Step, Unbound_Step, SkipUnhealthy_Step, OpenWindow_Step, NoWindow_Step,
       SkipWindow_Step, EvaluateWindow_Step, HoldWindow_Step, WriteDrafts_Step, LoadPrevious_Step,
       SaveCheckpoint_Step, SaveFails_Step, DrainAgain_Step, DrainStops_Step, LoadEnd_Step,
       Continue_Step, NoBacklog_Step, ListCovered_Step, AckOne_Step, EndJob_Step DEF PassStep
<1> QED
    BY <1>1, <1>2, <1>3, <1>4 DEF Next

(* The invariant the theorems below are read from.                          *)
THEOREM IntakeInvariant == Spec => []IInv
<1> QED
    BY Init_Holds, Next_Keeps, PTL DEF Spec

(* Every variable keeps its shape; in particular the recorded spine never   *)
(* exceeds its bound (lineagePatchForBranch, checkpoint.ts:143).            *)
THEOREM IntakeTypeCorrect == Spec => []TypeOK
<1>1. IInv => TypeOK
    BY DEF IInv, Sound
<1> QED
    BY IntakeInvariant, <1>1, PTL

(* No intake record is acknowledged before every entry of its branch was    *)
(* evaluated, for any number of processes that share the session, crash     *)
(* and overwrite each other's checkpoint (index.ts:1821).                   *)
THEOREM AckedIsEvaluated == Spec => []AckedMeansEvaluated
<1>1. IInv => AckedMeansEvaluated
    <2> SUFFICES ASSUME IInv, NEW e \in Entries, intake[e] = "acked"
                 PROVE  Range(session[e]) \subseteq evaluated
        BY DEF AckedMeansEvaluated
    <2>1. BranchSettled(session, Done, e) /\ e # 0
        BY DEF IInv, Sound, IntakeSound, Entries
    <2> QED
        BY <2>1 DEF BranchSettled, Done
<1> QED
    BY IntakeInvariant, <1>1, PTL

LEMMA Watermark_Settled ==
    IInv => Range(BranchTo(checkpoint.watermark)) \subseteq Done
<1> SUFFICES ASSUME IInv
             PROVE  Range(BranchTo(checkpoint.watermark)) \subseteq Done
    OBVIOUS
<1>1. CASE checkpoint.watermark = 0
    <2>1. BranchTo(checkpoint.watermark) = <<>> /\ Range(<<>>) = {}
        BY <1>1 DEF BranchTo, NoEntry, Range
    <2> QED
        BY <2>1
<1>2. CASE checkpoint.watermark # 0
    BY <1>2 DEF IInv, Sound, BranchSettled, BranchTo, NoEntry
<1> QED
    BY <1>1, <1>2

(* The watermark never stands past an entry nobody evaluated (index.ts:1763). *)
THEOREM WatermarkIsEvaluated == Spec => []WatermarkMeansEvaluated
<1>1. IInv => WatermarkMeansEvaluated
    BY Watermark_Settled DEF WatermarkMeansEvaluated, Done
<1> QED
    BY IntakeInvariant, <1>1, PTL

(* A draft behind the watermark has its terminal result (checkpoint.ts:246). *)
THEOREM CoveredIsWritten == Spec => []CoveredDraftsWritten
<1>1. IInv => CoveredDraftsWritten
    BY Watermark_Settled DEF CoveredDraftsWritten, Done
<1> QED
    BY IntakeInvariant, <1>1, PTL

(* No unhealthy receipt is acknowledged before a healthy captured turn has  *)
(* its entry on its branch (index.ts:4345).                                 *)
THEOREM UnhealthyWaits == Spec => []UnhealthyTurnsWait
<1>1. IInv => UnhealthyTurnsWait
    <2> SUFFICES ASSUME IInv, NEW e \in unhealthy, intake[e] = "acked"
                 PROVE  \E tip \in Healthy : e \in Range(session[tip])
        BY DEF UnhealthyTurnsWait
    <2>1. e \in Entries /\ session \in Seq(Seq(Entries)) /\ TreeSound(session)
        BY DEF IInv, Sound, TypeOK
    <2>2. BranchSettled(session, Done, e) /\ e \in 1 .. Len(session) /\ e # 0
        BY <2>1 DEF IInv, Sound, IntakeSound, Entries
    <2>3. e \in Range(session[e])
        <3>1. /\ Len(session[e]) \in Nat \ {0} /\ session[e][Len(session[e])] = e
              /\ Range(session[e]) = {session[e][j] : j \in 1 .. Len(session[e])}
            BY <2>1, <2>2, Branch_Is
        <3> QED
            BY <3>1
    <2> QED
        BY <2>2, <2>3 DEF BranchSettled, Done, Behind
<1> QED
    BY IntakeInvariant, <1>1, PTL

-----------------------------------------------------------------------------
(* The refinement of CoalescingQueue.                                       *)
RunsUnchanged == \A q \in Processes : RunningTip(q)' = RunningTip(q)

LEMMA Tip_Is ==
    ASSUME IInv, NEW p \in Processes
    PROVE  /\ pass[p].phase # "idle" => pass[p] # Idle
           /\ pass[p] = Idle => RunningTip(p) = NoTip
           /\ pass[p] # Idle => RunningTip(p) = pass[p].tip /\ RunningTip(p) \in Entries
BY DEF IInv, Sound, TypeOK, Passes, RunningTip, Idle

(* The pass of p changes, or ends, and no other.                            *)
LEMMA Only_One_Runs ==
    ASSUME NEW p \in Processes, \A q \in Processes : q # p => pass'[q] = pass[q]
    PROVE  /\ [q \in Processes |-> RunningTip(q)]' =
                 [[q \in Processes |-> RunningTip(q)] EXCEPT ![p] = RunningTip(p)']
           /\ RunningTip(p)' = RunningTip(p) => RunsUnchanged
BY DEF RunningTip, RunsUnchanged

LEMMA Runs_Stay ==
    ASSUME RunsUnchanged
    PROVE  [q \in Processes |-> RunningTip(q)]' = [q \in Processes |-> RunningTip(q)]
BY DEF RunsUnchanged

(* A step inside a pass keeps its tip and leaves the queue alone.           *)
LEMMA Pass_Inside ==
    ASSUME IInv, NEW p \in Processes, PassStep(p),
           ~Continue(p), ~EndJob(p), ~Unbound(p), ~(SaveFails(p) /\ InMainExplicitLane(p))
    PROVE  UNCHANGED queued /\ RunsUnchanged
<1> DEFINE inside == /\ pass'[p].tip = pass[p].tip /\ pass'[p].phase # "idle"
                     /\ \A q \in Processes : q # p => pass'[q] = pass[q]
                     /\ queued' = queued
<1>1. pass[p].phase # "idle"
    BY DEF PassStep, StartPass, SkipUnhealthy, Deferred, MainWindow, OpenWindow, NoWindow,
       SkipWindow, EvaluateWindow, HoldWindow, WriteDrafts, LoadPrevious, SaveCheckpoint,
       SaveFails, DrainAgain, DrainStops, LoadEnd, NoBacklog, ListCovered, AckOne
<1>2. pass[p] \in Passes /\ pass \in [Processes -> {Idle} \cup Passes] /\ pass[p] # Idle
    BY <1>1, Pass_Is DEF IInv, Sound, TypeOK, Idle
<1>3. inside
    <2> USE <1>2 DEF durable, history, Passes
    <2>1. CASE StartPass(p)
        BY <2>1 DEF StartPass
    <2>2. CASE OpenWindow(p)
        BY <2>2 DEF OpenWindow
    <2>3. CASE NoWindow(p) \/ SkipWindow(p) \/ SkipUnhealthy(p)
        BY <2>3 DEF NoWindow, SkipWindow, SkipUnhealthy
    <2>4. CASE EvaluateWindow(p)
        BY <2>4 DEF EvaluateWindow
    <2>5. CASE HoldWindow(p)
        BY <2>5 DEF HoldWindow, AfterWindow
    <2>6. CASE WriteDrafts(p)
        BY <2>6 DEF WriteDrafts
    <2>7. CASE LoadPrevious(p)
        BY <2>7 DEF LoadPrevious
    <2>8. CASE SaveCheckpoint(p)
        BY <2>8 DEF SaveCheckpoint, AfterWindow
    <2>9. CASE SaveFails(p)
        BY <2>9 DEF SaveFails
    <2>10. CASE DrainAgain(p) \/ DrainStops(p)
        BY <2>10 DEF DrainAgain, DrainStops
    <2>11. CASE LoadEnd(p)
        BY <2>11 DEF LoadEnd
    <2>12. CASE NoBacklog(p) \/ ListCovered(p)
        BY <2>12 DEF NoBacklog, ListCovered
    <2>13. CASE AckOne(p)
        BY <2>13 DEF AckOne
    <2> QED
        BY <2>1, <2>2, <2>3, <2>4, <2>5, <2>6, <2>7, <2>8, <2>9, <2>10, <2>11, <2>12, <2>13
           DEF PassStep
<1>4. RunningTip(p)' = RunningTip(p)
    BY <1>2, <1>3 DEF RunningTip, Idle
<1> QED
    BY <1>3, <1>4, Only_One_Runs

(* Everything outside the passes.                                           *)
LEMMA Queue_Steps ==
    ASSUME IInv, NEW p \in Processes, NEW parent \in 0 .. Len(session),
           Turn(p, parent) \/ RecoveryScan(p) \/ RecoveryEnqueue(p) \/ Restart(p)
    PROVE  Coalescing!Enqueue(p) \/ UNCHANGED Coalescing!queueVars
<1>1. UNCHANGED pass
    BY DEF Turn, RecoveryScan, RecoveryEnqueue, Restart
<1>2. [q \in Processes |-> RunningTip(q)]' = [q \in Processes |-> RunningTip(q)]
    BY <1>1 DEF RunningTip
<1>3. UNCHANGED queued \/ \E j \in Entries : queued' = [queued EXCEPT ![p] = j]
    <2>1. CASE Turn(p, parent)
        <3>1. Len(session) + 1 \in Entries
            BY <2>1, IntakeAssumption DEF Turn, IInv, Sound, TypeOK, Entries
        <3> QED
            BY <2>1, <3>1 DEF Turn
    <2>2. CASE RecoveryEnqueue(p)
        BY <2>2 DEF RecoveryEnqueue, Pending
    <2>3. CASE RecoveryScan(p) \/ Restart(p)
        BY <2>3 DEF RecoveryScan, Restart, durable, history
    <2> QED
        BY <2>1, <2>2, <2>3
<1> QED
    BY <1>2, <1>3 DEF Coalescing!Enqueue, Coalescing!queueVars

LEMMA Job_Starts ==
    ASSUME IInv, NEW p \in Processes, StartJob(p) \/ DropJob(p)
    PROVE  Coalescing!Start(p) \/ Coalescing!StartAndFinish(p)
<1>1. /\ pass[p] = Idle /\ queued[p] # NoTip /\ RunningTip(p) = NoTip
      /\ queued' = [queued EXCEPT ![p] = NoTip]
    BY DEF StartJob, DropJob, RunningTip
<1>2. CASE StartJob(p)
    <2>1. \A q \in Processes : pass'[q] = IF q = p THEN NewPass(queued[p]) ELSE pass[q]
        BY <1>2 DEF StartJob, IInv, Sound, TypeOK
    <2>2. NewPass(queued[p]) # Idle /\ NewPass(queued[p]).tip = queued[p]
        BY DEF NewPass, Idle
    <2>3. RunningTip(p)' = queued[p]
        BY <2>1, <2>2 DEF RunningTip
    <2>4. [q \in Processes |-> RunningTip(q)]' =
             [[q \in Processes |-> RunningTip(q)] EXCEPT ![p] = queued[p]]
        BY <2>1, <2>3, Only_One_Runs
    <2> QED
        BY <1>1, <2>4 DEF Coalescing!Start, Coalescing!Runnable
<1>3. CASE DropJob(p)
    <2>1. [q \in Processes |-> RunningTip(q)]' = [q \in Processes |-> RunningTip(q)]
        BY <1>3 DEF DropJob, RunningTip
    <2> QED
        BY <1>1, <2>1 DEF Coalescing!StartAndFinish, Coalescing!Runnable
<1> QED
    BY <1>2, <1>3

LEMMA Job_Ends ==
    ASSUME IInv, NEW p \in Processes,
           \/ Continue(p) \/ EndJob(p) \/ Unbound(p) \/ Crash(p)
           \/ SaveFails(p) /\ InMainExplicitLane(p)
    PROVE  Coalescing!Continue(p) \/ Coalescing!Finish(p) \/ Coalescing!Lose(p)
<1>1. \A q \in Processes : pass'[q] = IF q = p THEN Idle ELSE pass[q]
    BY DEF Continue, EndJob, Unbound, SaveFails, Crash, IInv, Sound, TypeOK
<1>2. RunningTip(p)' = NoTip
    BY <1>1 DEF RunningTip
<1>3. [q \in Processes |-> RunningTip(q)]' =
         [[q \in Processes |-> RunningTip(q)] EXCEPT ![p] = NoTip]
    BY <1>1, <1>2, Only_One_Runs
<1>4. CASE Crash(p)
    BY <1>3, <1>4 DEF Crash, Coalescing!Lose
<1>5. ASSUME ~Crash(p)
      PROVE  RunningTip(p) # NoTip /\ RunningTip(p) = pass[p].tip
    <2>1. pass[p].phase # "idle"
        BY <1>5 DEF Continue, EndJob, Unbound, SaveFails
    <2>2. RunningTip(p) = pass[p].tip /\ RunningTip(p) \in Entries
        BY <2>1, Tip_Is
    <2> QED
        BY <2>2, IntakeAssumption DEF Entries, NoTip
<1>6. CASE Continue(p) /\ ~Crash(p)
    <2>1. queued' = [queued EXCEPT ![p] = IF @ = NoTip THEN RunningTip(p) ELSE @]
        BY <1>5, <1>6 DEF Continue, Requeued
    <2> QED
        BY <1>3, <1>5, <1>6, <2>1 DEF Coalescing!Continue
<1>7. CASE ~Continue(p) /\ ~Crash(p)
    <2>1. UNCHANGED queued
        BY <1>7 DEF EndJob, Unbound, SaveFails
    <2> QED
        BY <1>3, <1>5, <1>7, <2>1 DEF Coalescing!Finish
<1> QED
    BY <1>4, <1>6, <1>7

(* index.ts, enqueueSedimentIntakeRecord and the end of a pass: for any     *)
(* number of processes, the queue slot and the pass of each behave as one   *)
(* key of the coalescing queue that AgentEndQueue implements.               *)
THEOREM PassesQueueAsCoalescing == Spec => QueuesAsCoalescing
<1>1. Init => Coalescing!Init
    BY DEF Init, RunningTip, Coalescing!Init, Coalescing!NoJobs
<1>2. IInv /\ [Next]_vars => [Coalescing!Next]_(Coalescing!queueVars)
    <2> SUFFICES ASSUME IInv, [Next]_vars
                 PROVE  Coalescing!Next \/ UNCHANGED Coalescing!queueVars
        OBVIOUS
    <2>1. CASE UNCHANGED vars
        BY <2>1 DEF vars, RunningTip, Coalescing!queueVars
    <2>2. ASSUME NEW p \in Processes, NEW parent \in 0 .. Len(session),
                 Turn(p, parent) \/ RecoveryScan(p) \/ RecoveryEnqueue(p) \/ Restart(p)
          PROVE  Coalescing!Next \/ UNCHANGED Coalescing!queueVars
        BY <2>2, Queue_Steps DEF Coalescing!Next
    <2>3. ASSUME NEW p \in Processes, StartJob(p) \/ DropJob(p)
          PROVE  Coalescing!Next
        BY <2>3, Job_Starts DEF Coalescing!Next
    <2>4. ASSUME NEW p \in Processes,
                 \/ Continue(p) \/ EndJob(p) \/ Unbound(p) \/ Crash(p)
                 \/ SaveFails(p) /\ InMainExplicitLane(p)
          PROVE  Coalescing!Next
        BY <2>4, Job_Ends DEF Coalescing!Next
    <2>5. ASSUME NEW p \in Processes, PassStep(p),
                 ~Continue(p), ~EndJob(p), ~Unbound(p), ~(SaveFails(p) /\ InMainExplicitLane(p))
          PROVE  UNCHANGED Coalescing!queueVars
        BY <2>5, Pass_Inside, Runs_Stay DEF Coalescing!queueVars
    <2>6. 0 \in 0 .. Len(session)
        BY DEF IInv, Sound, TypeOK
    <2> QED
        BY <2>1, <2>2, <2>3, <2>4, <2>5, <2>6 DEF Next
<1> QED
    BY <1>1, <1>2, IntakeInvariant, PTL DEF Spec, QueuesAsCoalescing, Coalescing!Spec

-----------------------------------------------------------------------------
(* The lineage loop.  A set of numbers has a least one, from which follows  *)
(* induction over the positions of a branch.                                *)
LEMMA LeastNumber ==
    ASSUME NEW T \in SUBSET Nat, T # {}
    PROVE  \E m \in T : \A n \in T : m <= n
<1> DEFINE R == StrictSubsetOrdering(Nat)
           U == {0 .. n : n \in T}
<1>1. IsWellFoundedOn(R, FiniteSubsetsOf(Nat))
    BY FS_StrictSubsetOrderingWellFounded
<1>2. U \subseteq FiniteSubsetsOf(Nat) /\ U # {}
    <2>1. ASSUME NEW n \in T
          PROVE  0 .. n \in FiniteSubsetsOf(Nat)
        <3>1. IsFiniteSet(0 .. n)
            BY FS_Interval
        <3> QED
            BY <3>1 DEF FiniteSubsetsOf
    <2> QED
        BY <2>1
<1>3. \E x \in U : \A y \in U : ~(<<y, x>> \in R)
    <2> HIDE DEF R, U
    <2> QED
        BY <1>1, <1>2, WFMin
<1>4. PICK m \in T : \A y \in U : ~(<<y, 0 .. m>> \in R)
    BY <1>3
<1>5. ASSUME NEW n \in T, n < m
      PROVE  FALSE
    <2>1. <<0 .. n, 0 .. m>> \in R
        BY <1>5 DEF StrictSubsetOrdering
    <2> QED
        BY <2>1, <1>4
<1> QED
    BY <1>5

LEMMA InductiveSet ==
    ASSUME NEW S \in SUBSET Nat, 0 \in S, \A n \in S : n + 1 \in S
    PROVE  S = Nat
<1> SUFFICES ASSUME Nat \ S # {}
             PROVE  FALSE
    OBVIOUS
<1>1. PICK m \in Nat \ S : \A n \in Nat \ S : m <= n
    BY LeastNumber
<1>2. m - 1 \in S
    BY <1>1
<1> QED
    BY <1>1, <1>2

(* IndexOf finds the first position from `from' on, or nothing.             *)
LEMMA IndexOf_First ==
    ASSUME NEW s, Len(s) \in Nat, NEW x, NEW from \in Nat \ {0}
    PROVE  /\ IndexOf(s, x, from) = 0 => \A i \in from .. Len(s) : s[i] # x
           /\ IndexOf(s, x, from) # 0 =>
                 /\ IndexOf(s, x, from) \in from .. Len(s)
                 /\ s[IndexOf(s, x, from)] = x
                 /\ \A i \in from .. Len(s) : s[i] = x => IndexOf(s, x, from) <= i
<1> DEFINE F == {i \in from .. Len(s) : s[i] = x}
<1>1. CASE F = {}
    <2>1. IndexOf(s, x, from) = 0
        BY <1>1 DEF IndexOf
    <2> QED
        BY <1>1, <2>1
<1>2. CASE F # {}
    <2>1. F \in SUBSET Nat
        OBVIOUS
    <2>2. PICK i \in F : \A j \in F : i <= j
        <3> HIDE DEF F
        <3> QED
            BY <1>2, <2>1, LeastNumber
    <2>3. \E k \in from .. Len(s) : s[k] = x /\ \A j \in from .. Len(s) : s[j] = x => k <= j
        BY <2>2
    <2>4. /\ IndexOf(s, x, from) \in from .. Len(s)
          /\ s[IndexOf(s, x, from)] = x
          /\ \A j \in from .. Len(s) : s[j] = x => IndexOf(s, x, from) <= j
        BY <2>3 DEF IndexOf
    <2> QED
        BY <2>4
<1> QED
    BY <1>1, <1>2

(* One turn of the loop, and what the loop leaves in `cursor'.              *)
NextCursor(branch, spine, n, c) ==
    IF c = 0 \/ IndexOf(spine, branch[n], c) = 0 THEN 0 ELSE IndexOf(spine, branch[n], c) + 1

Cursors(branch, spine, last, f) ==
    f = [n \in 0 .. last |-> IF n = 0 THEN 1 ELSE NextCursor(branch, spine, n, f[n - 1])]

(* The recursive definition of `cursor' defines a function.                 *)
LEMMA CursorsExist ==
    ASSUME NEW branch, NEW spine, NEW last \in Nat
    PROVE  \E f : Cursors(branch, spine, last, f)
<1> DEFINE S == {n \in Nat : \E f : Cursors(branch, spine, n, f)}
<1>1. 0 \in S
    <2>1. Cursors(branch, spine, 0, [n \in 0 .. 0 |-> 1])
        BY DEF Cursors
    <2> QED
        BY <2>1
<1>2. ASSUME NEW n \in S
      PROVE  n + 1 \in S
    <2>1. PICK f : Cursors(branch, spine, n, f)
        OBVIOUS
    <2> DEFINE g == [i \in 0 .. n + 1 |->
                        IF i = n + 1 THEN NextCursor(branch, spine, n + 1, f[n]) ELSE f[i]]
    <2>2. \A i \in 0 .. n : g[i] = f[i]
        OBVIOUS
    <2>3. \A i \in 0 .. n : f[i] = IF i = 0 THEN 1 ELSE NextCursor(branch, spine, i, f[i - 1])
        BY <2>1 DEF Cursors
    <2>4. ASSUME NEW i \in 0 .. n + 1
          PROVE  g[i] = IF i = 0 THEN 1 ELSE NextCursor(branch, spine, i, g[i - 1])
        <3>1. CASE i = n + 1
            <4>1. g[i] = NextCursor(branch, spine, n + 1, f[n]) /\ g[i - 1] = f[n] /\ i # 0
                BY <2>2, <3>1
            <4> QED
                BY <3>1, <4>1
        <3>2. CASE i # n + 1
            <4>1. i \in 0 .. n /\ (i # 0 => i - 1 \in 0 .. n)
                BY <3>2
            <4>2. g[i] = f[i] /\ (i # 0 => g[i - 1] = f[i - 1])
                BY <2>2, <4>1
            <4> HIDE DEF g
            <4> QED
                BY <2>3, <4>1, <4>2
        <3> QED
            BY <3>1, <3>2
    <2>5. g = [i \in 0 .. n + 1 |-> g[i]]
        OBVIOUS
    <2>6. Cursors(branch, spine, n + 1, g)
        <3> HIDE DEF g
        <3> QED
            BY <2>4, <2>5 DEF Cursors
    <2> QED
        BY <2>6
<1>3. S = Nat
    <2> HIDE DEF S
    <2>1. S \in SUBSET Nat
        BY DEF S
    <2> QED
        BY <1>1, <1>2, <2>1, InductiveSet
<1> QED
    BY <1>3

(* Positions of the spine that show the first n ids of the branch in order. *)
Embeds(branch, spine, n, at) ==
    /\ at \in [1 .. n -> 1 .. Len(spine)]
    /\ \A i \in 1 .. n : spine[at[i]] = branch[i]
    /\ \A i, j \in 1 .. n : i < j => at[i] < at[j]

(* A cursor stands behind the earliest such positions, or there are none.   *)
CursorSound(branch, spine, n, c) ==
    /\ c \in Nat
    /\ c = 0 => \A at : ~Embeds(branch, spine, n, at)
    /\ c # 0 => /\ \E at : Embeds(branch, spine, n, at) /\ \A i \in 1 .. n : at[i] < c
                /\ \A at : Embeds(branch, spine, n, at) /\ n > 0 => c <= at[n] + 1
                /\ n = 0 => c = 1

LEMMA Embeds_Prefix ==
    ASSUME NEW branch, NEW spine, NEW n \in Nat, NEW at, Embeds(branch, spine, n + 1, at)
    PROVE  Embeds(branch, spine, n, [i \in 1 .. n |-> at[i]])
BY DEF Embeds

LEMMA Embeds_More ==
    ASSUME NEW branch, NEW spine, Len(spine) \in Nat, NEW n \in Nat, NEW at,
           Embeds(branch, spine, n, at), NEW k \in 1 .. Len(spine),
           spine[k] = branch[n + 1], \A i \in 1 .. n : at[i] < k
    PROVE  \E more : /\ Embeds(branch, spine, n + 1, more)
                     /\ \A i \in 1 .. n + 1 : more[i] < k + 1
<1> DEFINE more == [i \in 1 .. n + 1 |-> IF i = n + 1 THEN k ELSE at[i]]
<1>1. \A i \in 1 .. n : at[i] \in 1 .. Len(spine) /\ spine[at[i]] = branch[i]
    BY DEF Embeds
<1>2. \A i \in 1 .. n + 1 :
         /\ more[i] \in 1 .. Len(spine) /\ spine[more[i]] = branch[i] /\ more[i] < k + 1
    <2> TAKE i \in 1 .. n + 1
    <2>1. CASE i = n + 1
        BY <2>1
    <2>2. CASE i # n + 1
        <3>1. i \in 1 .. n /\ more[i] = at[i]
            BY <2>2
        <3> QED
            BY <1>1, <3>1
    <2> QED
        BY <2>1, <2>2
<1>3. ASSUME NEW i \in 1 .. n + 1, NEW j \in 1 .. n + 1, i < j
      PROVE  more[i] < more[j]
    <2>1. i \in 1 .. n /\ more[i] = at[i]
        BY <1>3
    <2>2. CASE j = n + 1
        BY <2>1, <2>2
    <2>3. CASE j # n + 1
        <3>1. j \in 1 .. n /\ more[j] = at[j]
            BY <2>3
        <3> QED
            BY <1>3, <2>1, <3>1 DEF Embeds
    <2> QED
        BY <2>2, <2>3
<1>4. more \in [1 .. n + 1 -> 1 .. Len(spine)]
    BY <1>2
<1>5. Embeds(branch, spine, n + 1, more)
    <2> HIDE DEF more
    <2> QED
        BY <1>2, <1>3, <1>4 DEF Embeds
<1> QED
    <2> HIDE DEF more
    <2> QED
        BY <1>2, <1>5

LEMMA Cursor_Steps ==
    ASSUME NEW branch, NEW spine, Len(spine) \in Nat, NEW n \in Nat, NEW c,
           CursorSound(branch, spine, n, c)
    PROVE  CursorSound(branch, spine, n + 1, NextCursor(branch, spine, n + 1, c))
<1> DEFINE k == IndexOf(spine, branch[n + 1], c)
           c2 == NextCursor(branch, spine, n + 1, c)
<1>1. c \in Nat
    BY DEF CursorSound
<1>2. CASE c = 0
    <2>1. c2 = 0
        BY <1>2 DEF NextCursor
    <2>2. \A at : ~Embeds(branch, spine, n + 1, at)
        BY <1>2, Embeds_Prefix DEF CursorSound
    <2> QED
        BY <2>1, <2>2 DEF CursorSound
<1>3. CASE c # 0
    <2>1. PICK at : Embeds(branch, spine, n, at) /\ \A i \in 1 .. n : at[i] < c
        BY <1>3 DEF CursorSound
    <2>2. ASSUME NEW ev, Embeds(branch, spine, n + 1, ev)
          PROVE  ev[n + 1] \in c .. Len(spine) /\ spine[ev[n + 1]] = branch[n + 1]
        <3>1. /\ ev[n + 1] \in 1 .. Len(spine) /\ spine[ev[n + 1]] = branch[n + 1]
              /\ \A i \in 1 .. n : ev[i] \in 1 .. Len(spine) /\ ev[i] < ev[n + 1]
            BY <2>2 DEF Embeds
        <3>2. CASE n = 0
            BY <1>1, <1>3, <3>1, <3>2 DEF CursorSound
        <3>3. CASE n > 0
            <4>1. c <= [i \in 1 .. n |-> ev[i]][n] + 1
                BY <1>3, <2>2, <3>3, Embeds_Prefix DEF CursorSound
            <4>2. c <= ev[n] + 1
                BY <3>3, <4>1
            <4> QED
                BY <1>1, <3>1, <3>3, <4>2
        <3> QED
            BY <3>2, <3>3
    <2>3. CASE k = 0
        <3>1. c2 = 0
            BY <2>3 DEF NextCursor
        <3>2. \A i \in c .. Len(spine) : spine[i] # branch[n + 1]
            BY <1>1, <1>3, <2>3, IndexOf_First
        <3> QED
            BY <2>2, <3>1, <3>2 DEF CursorSound
    <2>4. CASE k # 0
        <3>1. c2 = k + 1
            BY <1>3, <2>4 DEF NextCursor
        <3>2. /\ k \in c .. Len(spine) /\ spine[k] = branch[n + 1]
              /\ \A i \in c .. Len(spine) : spine[i] = branch[n + 1] => k <= i
            BY <1>1, <1>3, <2>4, IndexOf_First
        <3> HIDE DEF k, c2
        <3>3. k \in 1 .. Len(spine)
            BY <1>1, <1>3, <3>2
        <3>4. ASSUME NEW i \in 1 .. n
              PROVE  at[i] < k
            <4>1. at[i] \in 1 .. Len(spine) /\ at[i] < c
                BY <2>1 DEF Embeds
            <4> QED
                BY <1>1, <1>3, <3>2, <4>1
        <3>5. \E more : Embeds(branch, spine, n + 1, more) /\ \A i \in 1 .. n + 1 : more[i] < k + 1
            BY <2>1, <3>2, <3>3, <3>4, Embeds_More
        <3>6. ASSUME NEW ev, Embeds(branch, spine, n + 1, ev)
              PROVE  c2 <= ev[n + 1] + 1
            BY <2>2, <3>1, <3>2, <3>3, <3>6
        <3> QED
            BY <3>1, <3>3, <3>5, <3>6 DEF CursorSound, c2
    <2> QED
        BY <2>3, <2>4
<1> QED
    BY <1>2, <1>3

LEMMA Loop_Decides ==
    ASSUME NEW S, NEW branch \in Seq(S), NEW spine \in Seq(S)
    PROVE  OrderKept(branch, spine) <=> OrderedSubsequence(branch, spine)
<1> DEFINE L == Len(branch)
           P == {n \in Nat : n <= L => \A f : Cursors(branch, spine, L, f)
                                               => CursorSound(branch, spine, n, f[n])}
           cursor == CHOOSE f : Cursors(branch, spine, L, f)
<1>1. L \in Nat /\ Len(spine) \in Nat /\ DOMAIN branch = 1 .. L /\ DOMAIN spine = 1 .. Len(spine)
    OBVIOUS
<1>2. 0 \in P
    <2>1. ASSUME NEW f, Cursors(branch, spine, L, f)
          PROVE  CursorSound(branch, spine, 0, f[0])
        <3>1. f[0] = 1
            BY <1>1, <2>1 DEF Cursors
        <3>2. Embeds(branch, spine, 0, [i \in 1 .. 0 |-> i])
            BY DEF Embeds
        <3> QED
            BY <3>1, <3>2 DEF CursorSound
    <2> QED
        BY <2>1
<1>3. ASSUME NEW n \in P
      PROVE  n + 1 \in P
    <2>1. ASSUME NEW f, Cursors(branch, spine, L, f), n + 1 <= L
          PROVE  CursorSound(branch, spine, n + 1, f[n + 1])
        <3>1. f[n + 1] = NextCursor(branch, spine, n + 1, f[n])
            <4>1. n + 1 \in 0 .. L /\ n + 1 # 0 /\ (n + 1) - 1 = n
                BY <1>1, <2>1
            <4> QED
                BY <2>1, <4>1 DEF Cursors
        <3>2. CursorSound(branch, spine, n, f[n])
            BY <1>1, <2>1
        <3> QED
            BY <1>1, <3>1, <3>2, Cursor_Steps
    <2> QED
        BY <2>1
<1>4. P = Nat
    <2>1. P \in SUBSET Nat
        OBVIOUS
    <2> HIDE DEF P
    <2> QED
        BY <1>2, <1>3, <2>1, InductiveSet
<1>5. CursorSound(branch, spine, L, cursor[L])
    <2>1. Cursors(branch, spine, L, cursor)
        BY <1>1, CursorsExist
    <2> HIDE DEF cursor
    <2> QED
        BY <1>1, <1>4, <2>1
<1>6. OrderKept(branch, spine) <=> cursor[L] # 0
    BY DEF OrderKept, Cursors, NextCursor
<1>7. OrderedSubsequence(branch, spine) <=> \E at : Embeds(branch, spine, L, at)
    BY <1>1 DEF OrderedSubsequence, Embeds
<1> QED
    <2> HIDE DEF cursor
    <2> QED
        BY <1>5, <1>6, <1>7 DEF CursorSound

(* checkpoint.ts, classifyCheckpointLineage: the loop accepts a branch      *)
(* exactly when its ids occur in the recorded spine at increasing positions,*)
(* for sequences of any length over any ids.                                *)
THEOREM LineageLoopDecides == \A S : LoopDecides(Seq(S))
BY Loop_Decides DEF LoopDecides

(* The same as the invariant of a run, over the sequences the run tries.    *)
THEOREM LineageLoopDecidesInRun == Spec => []LoopDecidesSubsequence
<1>1. IdSequences \subseteq Seq(1 .. MaxEntries + 1)
    BY IntakeAssumption DEF IdSequences
<1>2. LoopDecidesSubsequence
    BY <1>1, Loop_Decides DEF LoopDecidesSubsequence, LoopDecides
<1> QED
    BY <1>2, PTL
=============================================================================
