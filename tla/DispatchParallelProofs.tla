----------------------- MODULE DispatchParallelProofs -----------------------
(***************************************************************************)
(* Safety of dispatch_parallel and of its sub-agent runs for every list of *)
(* tasks and every cap.                                                    *)
(***************************************************************************)
EXTENDS DispatchParallel, FiniteSetTheorems, WellFoundedInduction, TLAPS

(* The stages of a run's call and of its session agree.                     *)
CallAgrees(r) ==
    /\ r.call \in {"none", "resources", "thrown"} =>
          r.phase = "none" /\ ~r.verdict.clean
    /\ r.call \in {"racing", "joining"} => r.phase # "none" /\ ~r.verdict.clean
    /\ r.call = "joining" => r.claim # "none"
    /\ r.call = "returned" => r.phase = "none" \/ r.claim # "none"
    /\ r.verdict.status # "unknown"
    /\ r.timers # {} => r.call = "racing" /\ ~r.sealed

SessionAgrees(r) ==
    /\ r.phase \in {"none", "creating"} => r.session = "none"
    /\ r.phase \in {"created", "preflight", "running"} => r.session # "none"
    /\ r.phase = "none" => r.claim = "none" /\ ~r.sealed /\ ~r.late
    /\ r.session = "none" => r.closure = "none"
    /\ r.session = "disposed" => r.closure # "none"
    /\ r.session = "open" => r.closure \in {"none", "pending"}
    /\ r.phase = "closing" /\ r.session # "none" => r.closure # "none"
    /\ r.phase = "settled" => r.closure # "pending" /\ r.session # "open"

(* A claim closes the session, and a run that closes by itself is sealed.   *)
ClaimAgrees(r) ==
    /\ r.claim # "none" => r.session # "open"
    /\ r.claim = "run" => r.phase = "settled"
    /\ r.phase = "settled" => r.claim # "none"
    /\ r.phase = "closing" /\ r.claim = "none" => r.sealed
    /\ r.phase \in {"creating", "created"} => ~r.sealed

(* A clean verdict is given to a settled run, and nothing happens to it.    *)
CleanAgrees(r) ==
    r.verdict.clean =>
        /\ r.phase \in {"none", "settled"}
        /\ r.closure \notin {"pending", "no"} /\ r.session # "open" /\ ~r.late

Good(r) ==
    /\ r \in Runs
    /\ CallAgrees(r) /\ SessionAgrees(r) /\ ClaimAgrees(r) /\ CleanAgrees(r)

USE DEF Owners

-----------------------------------------------------------------------------
(* Each way a run moves on leaves it in a good state.                       *)
LEMMA CalledGood ==
    /\ Good(NotStarted) /\ Good(Called)
    /\ Good([Called EXCEPT !.call = "returned", !.verdict = NothingStarted])
    /\ Good([Called EXCEPT !.call = "thrown"])
BY DEF Good, Runs, Verdicts, NotStarted, Called, NoVerdict, NothingStarted,
       CallAgrees, SessionAgrees, ClaimAgrees, CleanAgrees

LEMMA ResourcesGood ==
    ASSUME NEW r, Good(r), r.call = "resources"
    PROVE  LET skipped == [r EXCEPT !.call = "returned", !.verdict = NothingStarted]
               started == [r EXCEPT !.call = "racing", !.phase = "creating",
                                    !.timers = {"idle", "max_runtime"}]
               failed == [r EXCEPT !.call = "thrown"]
           IN  /\ Good(skipped) /\ skipped.call = "returned" /\ skipped.phase = "none"
               /\ Good(started) /\ started.call = "racing"
               /\ Good(failed) /\ failed.call = "thrown" /\ failed.phase = "none"
BY DEF Good, Runs, Verdicts, NothingStarted,
       CallAgrees, SessionAgrees, ClaimAgrees, CleanAgrees

(* The fields of a run.                                                     *)
Is(c, call, phase, claim, sealed, timers, session, closure, late, verdict) ==
    /\ c \in Runs
    /\ c.call = call /\ c.phase = phase /\ c.claim = claim /\ c.sealed = sealed
    /\ c.timers = timers /\ c.session = session /\ c.closure = closure
    /\ c.late = late /\ c.verdict = verdict

ClosureOf(r) == IF r.session # "none" /\ r.closure = "none" THEN "pending" ELSE r.closure
SessionOf(r, immediate) ==
    IF r.session # "none" /\ immediate THEN "disposed" ELSE r.session

(* What the helpers of a run do to its fields.                              *)
LEMMA ClosedIs ==
    ASSUME NEW r \in Runs, NEW immediate \in BOOLEAN
    PROVE  Is(Closed(r, immediate), r.call, r.phase, r.claim, r.sealed, r.timers,
              SessionOf(r, immediate), ClosureOf(r), r.late, r.verdict)
<1>1. CASE r.session = "none"
  BY <1>1 DEF Closed, Is, ClosureOf, SessionOf
<1>2. CASE r.session # "none"
  <2>1. PICK x \in {"none", "pending", "yes", "no"}, y \in {"none", "open", "disposed"} :
            /\ x = IF r.closure = "none" THEN "pending" ELSE r.closure
            /\ y = IF immediate THEN "disposed" ELSE r.session
    BY DEF Runs
  <2> DEFINE c == [r EXCEPT !.closure = x, !.session = y]
  <2>2. /\ c \in Runs
        /\ c.closure = x /\ c.session = y
        /\ c.call = r.call /\ c.phase = r.phase /\ c.claim = r.claim
        /\ c.sealed = r.sealed /\ c.timers = r.timers /\ c.late = r.late
        /\ c.verdict = r.verdict
    BY DEF Runs
  <2>3. Closed(r, immediate) = c
    BY <1>2, <2>1 DEF Closed
  <2> HIDE DEF c
  <2> QED
    BY <1>2, <2>1, <2>2, <2>3 DEF Is, ClosureOf, SessionOf
<1> QED
  BY <1>1, <1>2

LEMMA SealedIs ==
    ASSUME NEW r \in Runs
    PROVE  Is(Sealed(r), r.call, r.phase, r.claim, TRUE, {},
              r.session, r.closure, r.late, r.verdict)
BY DEF Is, Sealed, Runs

TimersOf(r) == IF r.claim # "none" \/ r.sealed THEN r.timers ELSE r.timers \cup {"idle"}

LEMMA ProgressedIs ==
    ASSUME NEW r \in Runs
    PROVE  Is(Progressed(r), r.call, r.phase, r.claim, r.sealed, TimersOf(r),
              r.session, r.closure, r.late, r.verdict)
<1>1. CASE r.claim # "none" \/ r.sealed
  BY <1>1 DEF Is, Progressed, TimersOf
<1>2. CASE ~(r.claim # "none" \/ r.sealed)
  <2>1. PICK x \in SUBSET {"idle", "max_runtime"} : x = r.timers \cup {"idle"}
    BY DEF Runs
  <2> DEFINE c == [r EXCEPT !.timers = x]
  <2>2. Is(c, r.call, r.phase, r.claim, r.sealed, x, r.session, r.closure, r.late, r.verdict)
    BY DEF Is, Runs
  <2> QED
    BY <1>2, <2>1, <2>2 DEF Progressed, TimersOf
<1> QED
  BY <1>1, <1>2

(* What a change of phase does.                                             *)
LEMMA PhaseIs ==
    ASSUME NEW r \in Runs,
           NEW x \in {"none", "creating", "created", "preflight", "running", "closing", "settled"}
    PROVE  Is([r EXCEPT !.phase = x], r.call, x, r.claim, r.sealed, r.timers,
              r.session, r.closure, r.late, r.verdict)
BY DEF Is, Runs

LEMMA ClaimIs ==
    ASSUME NEW r \in Runs, NEW owner \in Owners
    PROVE  Is([r EXCEPT !.claim = owner], r.call, r.phase, owner, r.sealed, r.timers,
              r.session, r.closure, r.late, r.verdict)
BY DEF Is, Runs

(* A claim from outside.                                                    *)
LEMMA ClaimedGood ==
    ASSUME NEW r, Good(r), r.call = "racing", NEW owner \in {"parent", "timeout", "governor"}
    PROVE  /\ Good(Claimed(r, owner)) /\ Claimed(r, owner).call = r.call
           /\ Claimed(r, owner).phase = r.phase
           /\ r.sealed \/ Claimed(r, owner).claim # "none"
<1>1. CASE r.claim # "none" \/ r.sealed
  BY <1>1 DEF Claimed
<1>2. CASE r.claim = "none" /\ ~r.sealed
  <2> DEFINE c == [r EXCEPT !.claim = owner]
  <2>1. Claimed(r, owner) = Closed(c, TRUE)
    BY <1>2 DEF Claimed
  <2>2. Is(c, r.call, r.phase, owner, r.sealed, r.timers,
           r.session, r.closure, r.late, r.verdict)
    BY ClaimIs DEF Good
  <2> HIDE DEF c
  <2> DEFINE d == Closed(c, TRUE)
  <2>3. Is(d, c.call, c.phase, c.claim, c.sealed, c.timers,
           SessionOf(c, TRUE), ClosureOf(c), c.late, c.verdict)
    BY <2>2, ClosedIs DEF Is
  <2> HIDE DEF d
  <2>4. Is(d, r.call, r.phase, owner, r.sealed, r.timers,
           SessionOf(r, TRUE), ClosureOf(r), r.late, r.verdict)
    BY <2>2, <2>3 DEF Is, SessionOf, ClosureOf
  <2>5. CallAgrees(d)
    BY <1>2, <2>4 DEF Is, Good, CallAgrees
  <2>6. SessionAgrees(d)
    BY <1>2, <2>4 DEF Is, SessionOf, ClosureOf, Good, SessionAgrees, ClaimAgrees, CallAgrees
  <2>7. ClaimAgrees(d) /\ CleanAgrees(d)
    BY <1>2, <2>4 DEF Is, SessionOf, ClosureOf, Good, SessionAgrees, ClaimAgrees, CallAgrees, CleanAgrees
  <2>8. d \in Runs /\ d.call = r.call /\ d.phase = r.phase /\ d.claim = owner
    BY <2>4 DEF Is
  <2> QED
    BY <2>1, <2>5, <2>6, <2>7, <2>8 DEF Good, d
<1> QED
  BY <1>1, <1>2 DEF Good, Runs

(* A run that was claimed from outside or sealed may start closing.         *)
MayClose(r) ==
    /\ r \in Runs /\ CallAgrees(r) /\ r.phase = "closing" /\ ~r.verdict.clean
    /\ r.claim # "run"
    /\ r.claim # "none" => r.session # "open"
    /\ r.claim = "none" => r.sealed
    /\ r.session = "none" => r.closure = "none"
    /\ r.session = "disposed" => r.closure # "none"
    /\ r.session = "open" => r.closure \in {"none", "pending"}

LEMMA ClosingGood ==
    ASSUME NEW r, MayClose(r), NEW immediate \in BOOLEAN
    PROVE  /\ Good(Closed(r, immediate)) /\ Closed(r, immediate).phase = "closing"
           /\ Closed(r, immediate).call = r.call
<1> DEFINE d == Closed(r, immediate)
<1>1. Is(d, r.call, r.phase, r.claim, r.sealed, r.timers,
         SessionOf(r, immediate), ClosureOf(r), r.late, r.verdict)
  BY ClosedIs DEF MayClose
<1> HIDE DEF d
<1>2. CallAgrees(d)
  BY <1>1 DEF Is, MayClose, CallAgrees
<1>3. SessionAgrees(d)
  BY <1>1 DEF Is, MayClose, SessionAgrees, SessionOf, ClosureOf
<1>4. ClaimAgrees(d) /\ CleanAgrees(d)
  BY <1>1 DEF Is, MayClose, ClaimAgrees, CleanAgrees, SessionOf
<1> QED
  BY <1>1, <1>2, <1>3, <1>4 DEF Good, Is, MayClose, d

LEMMA FailedGood ==
    ASSUME NEW r, Good(r), r.phase \in {"creating", "created", "preflight", "running"}
    PROVE  Good(Failed(r)) /\ Failed(r).phase = "closing" /\ Failed(r).call = r.call
<1> DEFINE c == IF r.claim = "none" THEN Sealed(r) ELSE r
<1>1. Is(c, r.call, r.phase, r.claim, IF r.claim = "none" THEN TRUE ELSE r.sealed,
         IF r.claim = "none" THEN {} ELSE r.timers, r.session, r.closure, r.late, r.verdict)
  BY SealedIs DEF Good, Is
<1> HIDE DEF c
<1> DEFINE d == [c EXCEPT !.phase = "closing"]
<1>2. Is(d, c.call, "closing", c.claim, c.sealed, c.timers, c.session, c.closure, c.late, c.verdict)
  BY <1>1, PhaseIs DEF Is
<1>3. Failed(r) = Closed(d, TRUE)
  BY DEF Failed, c
<1> HIDE DEF d
<1>4. MayClose(d)
  BY <1>1, <1>2 DEF MayClose, Is, Good, CallAgrees, SessionAgrees, ClaimAgrees, CleanAgrees
<1> QED
  BY <1>1, <1>2, <1>3, <1>4, ClosingGood DEF Is

LEMMA ToolsRejectedGood ==
    ASSUME NEW r, Good(r), r.phase = "created"
    PROVE  LET d == Closed([Sealed(r) EXCEPT !.phase = "closing"], FALSE)
           IN  Good(d) /\ d.phase = "closing" /\ d.call = r.call
<1> DEFINE c == Sealed(r)
<1>1. Is(c, r.call, r.phase, r.claim, TRUE, {}, r.session, r.closure, r.late, r.verdict)
  BY SealedIs DEF Good
<1> HIDE DEF c
<1> DEFINE d == [c EXCEPT !.phase = "closing"]
<1>2. Is(d, c.call, "closing", c.claim, c.sealed, c.timers, c.session, c.closure, c.late, c.verdict)
  BY <1>1, PhaseIs DEF Is
<1>3. Closed([Sealed(r) EXCEPT !.phase = "closing"], FALSE) = Closed(d, FALSE)
  BY DEF c
<1> HIDE DEF d
<1>4. MayClose(d)
  BY <1>1, <1>2 DEF MayClose, Is, Good, CallAgrees, SessionAgrees, ClaimAgrees, CleanAgrees
<1> QED
  BY <1>1, <1>2, <1>3, <1>4, ClosingGood DEF Is

LEMMA BailGood ==
    ASSUME NEW r, Good(r), r.phase = "created", r.claim # "none"
    PROVE  LET d == Closed([r EXCEPT !.phase = "closing"], TRUE)
           IN  Good(d) /\ d.phase = "closing" /\ d.call = r.call
<1> DEFINE d == [r EXCEPT !.phase = "closing"]
<1>1. Is(d, r.call, "closing", r.claim, r.sealed, r.timers, r.session, r.closure, r.late, r.verdict)
  BY PhaseIs DEF Good
<1> HIDE DEF d
<1>2. MayClose(d)
  BY <1>1 DEF MayClose, Is, Good, CallAgrees, SessionAgrees, ClaimAgrees, CleanAgrees
<1> QED
  BY <1>1, <1>2, ClosingGood DEF d, Is

LEMMA PromptReturnsGood ==
    ASSUME NEW r, Good(r), r.phase \in {"preflight", "running"}
    PROVE  LET d == Closed(Progressed([Sealed(r) EXCEPT !.phase = "closing"]), FALSE)
           IN  Good(d) /\ d.phase = "closing" /\ d.call = r.call
<1> DEFINE c == Sealed(r)
<1>1. Is(c, r.call, r.phase, r.claim, TRUE, {}, r.session, r.closure, r.late, r.verdict)
  BY SealedIs DEF Good
<1> HIDE DEF c
<1> DEFINE d == [c EXCEPT !.phase = "closing"]
<1>2. Is(d, c.call, "closing", c.claim, c.sealed, c.timers, c.session, c.closure, c.late, c.verdict)
  BY <1>1, PhaseIs DEF Is
<1>3. Closed(Progressed([Sealed(r) EXCEPT !.phase = "closing"]), FALSE) = Closed(Progressed(d), FALSE)
  BY DEF c
<1> HIDE DEF d
<1>4. Is(Progressed(d), d.call, d.phase, d.claim, d.sealed, TimersOf(d),
         d.session, d.closure, d.late, d.verdict)
  BY <1>2, ProgressedIs DEF Is
<1>5. TimersOf(d) = {}
  BY <1>1, <1>2 DEF Is, TimersOf
<1>6. MayClose(Progressed(d))
  BY <1>1, <1>2, <1>4, <1>5
     DEF MayClose, Is, Good, CallAgrees, SessionAgrees, ClaimAgrees, CleanAgrees
<1> QED
  BY <1>1, <1>2, <1>3, <1>4, <1>6, ClosingGood DEF Is

LEMMA PromptGood ==
    ASSUME NEW r, Good(r), r.claim = "none",
           NEW x \in {"preflight", "running"},
           r.phase \in {"created", "preflight"}
    PROVE  LET d == Progressed([r EXCEPT !.phase = x])
           IN  Good(d) /\ d.phase = x /\ d.call = r.call
<1> DEFINE c == [r EXCEPT !.phase = x]
<1>1. Is(c, r.call, x, r.claim, r.sealed, r.timers, r.session, r.closure, r.late, r.verdict)
  BY PhaseIs DEF Good
<1> HIDE DEF c
<1> DEFINE d == Progressed(c)
<1>2. Is(d, c.call, c.phase, c.claim, c.sealed, TimersOf(c), c.session, c.closure, c.late, c.verdict)
  BY <1>1, ProgressedIs DEF Is
<1> HIDE DEF d
<1>a. r.call = "racing" /\ CallAgrees(r) /\ x # "none"
  BY DEF Good, CallAgrees, Runs
<1>b. TimersOf(c) # {} => ~c.sealed
  BY <1>1, <1>a DEF Is, TimersOf, CallAgrees
<1>3. CallAgrees(d)
  BY <1>1, <1>2, <1>a, <1>b DEF Is, CallAgrees
<1>4. SessionAgrees(d) /\ ClaimAgrees(d) /\ CleanAgrees(d)
  BY <1>1, <1>2 DEF Is, Good, CallAgrees, SessionAgrees, ClaimAgrees, CleanAgrees
<1> QED
  BY <1>1, <1>2, <1>3, <1>4 DEF Good, Is, c, d

LEMMA LateGood ==
    ASSUME NEW r, Good(r), r.phase = "running"
    PROVE  LET d == [r EXCEPT !.late = TRUE]
           IN  Good(d) /\ d.phase = r.phase /\ d.call = r.call
BY DEF Good, Runs, CallAgrees, SessionAgrees, ClaimAgrees, CleanAgrees

LEMMA SessionCreatedGood ==
    ASSUME NEW r, Good(r), r.phase = "creating"
    PROVE  LET c == [r EXCEPT !.session = "open", !.phase = "created"]
               d == Progressed(IF c.claim # "none" THEN Closed(c, TRUE) ELSE c)
           IN  Good(d) /\ d.phase = "created" /\ d.claim = r.claim /\ d.call = r.call
<1> DEFINE c == [r EXCEPT !.session = "open", !.phase = "created"]
<1>1. Is(c, r.call, "created", r.claim, r.sealed, r.timers, "open", r.closure, r.late, r.verdict)
  BY DEF Good, Is, Runs
<1> HIDE DEF c
<1> DEFINE e == IF c.claim # "none" THEN Closed(c, TRUE) ELSE c
<1>2. Is(e, c.call, c.phase, c.claim, c.sealed, c.timers,
         IF c.claim # "none" THEN SessionOf(c, TRUE) ELSE c.session,
         IF c.claim # "none" THEN ClosureOf(c) ELSE c.closure, c.late, c.verdict)
  BY <1>1, ClosedIs DEF Is
<1> HIDE DEF e
<1> DEFINE d == Progressed(e)
<1>3. Is(d, e.call, e.phase, e.claim, e.sealed, TimersOf(e), e.session, e.closure, e.late, e.verdict)
  BY <1>2, ProgressedIs DEF Is
<1> HIDE DEF d
<1>a. CallAgrees(r) /\ (r.claim = "none" => r.call = "racing") /\ r.call # "none"
  BY DEF Good, CallAgrees, Runs
<1>b. TimersOf(e) # {} => r.call = "racing" /\ ~r.sealed
  BY <1>1, <1>2, <1>a DEF Is, TimersOf, CallAgrees
<1>4. CallAgrees(d)
  BY <1>1, <1>2, <1>3, <1>a, <1>b DEF Is, CallAgrees
<1>5. SessionAgrees(d) /\ ClaimAgrees(d) /\ CleanAgrees(d)
  BY <1>1, <1>2, <1>3
     DEF Is, SessionOf, ClosureOf, Good, CallAgrees, SessionAgrees, ClaimAgrees, CleanAgrees
<1> QED
  BY <1>1, <1>2, <1>3, <1>4, <1>5 DEF Good, Is, c, d, e

LEMMA DisposedGood ==
    ASSUME NEW r, Good(r), r.closure = "pending", NEW x \in {"yes", "no"}
    PROVE  LET d == [r EXCEPT !.closure = x, !.session = "disposed"]
           IN  Good(d) /\ d.phase = r.phase /\ d.claim = r.claim /\ d.call = r.call
<1> DEFINE d == [r EXCEPT !.closure = x, !.session = "disposed"]
<1>1. Is(d, r.call, r.phase, r.claim, r.sealed, r.timers, "disposed", x, r.late, r.verdict)
  BY DEF Good, Is, Runs
<1> HIDE DEF d
<1>2. Good(d)
  BY <1>1 DEF Is, Good, CallAgrees, SessionAgrees, ClaimAgrees, CleanAgrees
<1> QED
  BY <1>1, <1>2 DEF Is, d

LEMMA SettledGood ==
    ASSUME NEW r, Good(r), r.phase = "closing", r.closure # "pending"
    PROVE  LET d == Claimed([r EXCEPT !.phase = "settled"], "run")
           IN  /\ Good(d) /\ d.phase = "settled" /\ d.call = r.call
               /\ r.claim = "none" => d.claim = "run"
<1> DEFINE c == [r EXCEPT !.phase = "settled"]
<1>1. Is(c, r.call, "settled", r.claim, r.sealed, r.timers, r.session, r.closure, r.late, r.verdict)
  BY PhaseIs DEF Good
<1> HIDE DEF c
<1>2. ~r.verdict.clean /\ r.call # "none" /\ r.session # "open"
  BY DEF Good, CallAgrees, CleanAgrees, SessionAgrees, Runs
<1>3. CASE r.claim # "none"
  <2>1. Claimed(c, "run") = c
    BY <1>1, <1>3 DEF Claimed, Is
  <2>2. Good(c)
    BY <1>1, <1>2, <1>3 DEF Is, Good, CallAgrees, SessionAgrees, ClaimAgrees, CleanAgrees
  <2> QED
    BY <1>1, <1>3, <2>1, <2>2 DEF Is, c
<1>4. CASE r.claim = "none"
  <2> DEFINE d == [c EXCEPT !.claim = "run"]
  <2>1. Claimed(c, "run") = d
    BY <1>1, <1>4 DEF Claimed, Is
  <2>2. Is(d, c.call, c.phase, "run", c.sealed, c.timers, c.session, c.closure, c.late, c.verdict)
    BY <1>1, ClaimIs DEF Is
  <2> HIDE DEF d
  <2>3. Good(d)
    BY <1>1, <1>2, <1>4, <2>2 DEF Is, Good, CallAgrees, SessionAgrees, ClaimAgrees, CleanAgrees
  <2> QED
    BY <1>1, <1>4, <2>1, <2>2, <2>3 DEF Is, c
<1> QED
  BY <1>3, <1>4

(* The answer of a call that was claimed.                                   *)
LEMMA ReturnedGood ==
    ASSUME NEW r, Good(r), r.call \in {"racing", "joining"}, r.claim # "none",
           r.timers = {}, NEW joined \in BOOLEAN,
           joined => r.phase = "settled" /\ r.closure # "pending"
    PROVE  Good(Returned(r, joined)) /\ Returned(r, joined).phase = r.phase
<1>1. PICK v \in Verdicts : v = Verdict(r, joined)
  BY DEF Verdict, Verdicts, ClosedWell, Good, Runs
<1> DEFINE d == [r EXCEPT !.call = "returned", !.verdict = v]
<1>2. Is(d, "returned", r.phase, r.claim, r.sealed, r.timers, r.session, r.closure, r.late, v)
  BY DEF Good, Is, Runs
<1> HIDE DEF d
<1>3. v.status # "unknown"
  BY <1>1 DEF Verdict, Good, SessionAgrees, Runs
<1>4. v.clean => r.phase = "settled" /\ ClosedWell(r) /\ ~r.late
  BY <1>1 DEF Verdict
<1>5. CallAgrees(d) /\ SessionAgrees(d) /\ ClaimAgrees(d)
  BY <1>2, <1>3 DEF Is, Good, CallAgrees, SessionAgrees, ClaimAgrees
<1>6. CleanAgrees(d)
  BY <1>2, <1>4 DEF Is, Good, CleanAgrees, ClosedWell, SessionAgrees
<1> QED
  BY <1>1, <1>2, <1>5, <1>6 DEF Good, Is, Returned, d

LEMMA JoiningGood ==
    ASSUME NEW r, Good(r), r.call = "racing", r.claim # "none"
    PROVE  LET c == [r EXCEPT !.timers = {}] IN
           /\ Is(c, r.call, r.phase, r.claim, r.sealed, {}, r.session, r.closure,
                 r.late, r.verdict)
           /\ Good(c) /\ Good([c EXCEPT !.call = "joining"])
BY DEF Is, Good, Runs, CallAgrees, SessionAgrees, ClaimAgrees, CleanAgrees

LEMMA TimerGood ==
    ASSUME NEW r, Good(r), NEW timer \in {"idle", "max_runtime"}, timer \in r.timers
    PROVE  /\ Good([r EXCEPT !.timers = @ \ {timer}])
           /\ [r EXCEPT !.timers = @ \ {timer}].call = "racing"
           /\ [r EXCEPT !.timers = @ \ {timer}].phase = r.phase
           /\ [r EXCEPT !.timers = @ \ {timer}].claim = r.claim
<1>1. PICK x \in SUBSET {"idle", "max_runtime"} : x = r.timers \ {timer}
  BY DEF Good, Runs
<1> DEFINE d == [r EXCEPT !.timers = x]
<1>2. Is(d, r.call, r.phase, r.claim, r.sealed, x, r.session, r.closure, r.late, r.verdict)
  BY DEF Good, Is, Runs
<1> HIDE DEF d
<1>3. Good(d) /\ d.call = "racing"
  BY <1>1, <1>2 DEF Is, Good, CallAgrees, SessionAgrees, ClaimAgrees, CleanAgrees
<1> QED
  BY <1>1, <1>2, <1>3 DEF d, Is

-----------------------------------------------------------------------------
(* The inductive invariant of the runs.  A run that saw the abort has a     *)
(* claim before its prompt could start.                                     *)
AbortSeen(r) == aborted /\ r.phase \in {"creating", "created"} => r.claim # "none"

RunsGood ==
    /\ run \in [Tasks -> Runs]
    /\ aborted \in BOOLEAN
    /\ \A t \in Tasks : Good(run[t]) /\ AbortSeen(run[t])

LEMMA BecomesGood ==
    ASSUME RunsGood, NEW t \in Tasks, NEW r, Good(r), AbortSeen(r), Becomes(t, r)
    PROVE  RunsGood' /\ run'[t] = r /\ \A u \in Tasks \ {t} : run'[u] = run[u]
<1>1. r \in Runs
  BY DEF Good
<1>2. run' = [run EXCEPT ![t] = r] /\ aborted' = aborted
  BY DEF Becomes
<1>3. /\ run' \in [Tasks -> Runs]
      /\ \A u \in Tasks : run'[u] = IF u = t THEN r ELSE run[u]
  BY <1>1, <1>2 DEF RunsGood
<1>4. \A u \in Tasks : Good(run'[u])
  BY <1>3 DEF RunsGood
<1>5. \A u \in Tasks : AbortSeen(run[u])'
  BY <1>2, <1>3 DEF RunsGood, AbortSeen
<1> QED
  BY <1>2, <1>3, <1>4, <1>5 DEF RunsGood, Good, CallAgrees, SessionAgrees, ClaimAgrees, CleanAgrees

LEMMA SessionStepGood ==
    ASSUME RunsGood, NEW t \in Tasks, SessionStep(t)
    PROVE  RunsGood' /\ run'[t].call = run[t].call
                     /\ \A u \in Tasks \ {t} : run'[u] = run[u]
<1> DEFINE r == run[t]
<1>0. Good(r) /\ AbortSeen(r)
  BY DEF RunsGood
<1>1. CASE SessionCreated(t)
  <2> DEFINE c == [r EXCEPT !.session = "open", !.phase = "created"]
             d == Progressed(IF c.claim # "none" THEN Closed(c, TRUE) ELSE c)
  <2>1. Good(d) /\ d.phase = "created" /\ d.claim = r.claim /\ d.call = r.call
    BY <1>0, <1>1, SessionCreatedGood DEF SessionCreated
  <2>2. Becomes(t, d)
    BY <1>1 DEF SessionCreated
  <2>3. r.phase = "creating"
    BY <1>1 DEF SessionCreated
  <2> HIDE DEF d
  <2> QED
    BY <1>0, <2>1, <2>2, <2>3, BecomesGood DEF AbortSeen
<1>2. CASE SessionFails(t)
  <2> DEFINE d == Failed(r)
  <2>1. Good(d) /\ d.phase = "closing" /\ d.call = r.call
    BY <1>0, <1>2, FailedGood DEF SessionFails
  <2>2. Becomes(t, d)
    BY <1>2 DEF SessionFails
  <2> HIDE DEF d
  <2> QED
    BY <2>1, <2>2, BecomesGood DEF AbortSeen
<1>3. CASE ToolsRejected(t)
  <2> DEFINE d == Closed([Sealed(r) EXCEPT !.phase = "closing"], FALSE)
  <2>1. Good(d) /\ d.phase = "closing" /\ d.call = r.call
    BY <1>0, <1>3, ToolsRejectedGood DEF ToolsRejected
  <2>2. Becomes(t, d)
    BY <1>3 DEF ToolsRejected
  <2> HIDE DEF d
  <2> QED
    BY <2>1, <2>2, BecomesGood DEF AbortSeen
<1>4. CASE Bail(t)
  <2>0. r.claim # "none" /\ r.phase = "created"
    BY <1>0, <1>4 DEF Bail, AbortSeen
  <2> DEFINE d == Closed([r EXCEPT !.phase = "closing"], TRUE)
  <2>1. Good(d) /\ d.phase = "closing" /\ d.call = r.call
    BY <1>0, <2>0, BailGood
  <2>2. Becomes(t, d)
    BY <1>4 DEF Bail
  <2> HIDE DEF d
  <2> QED
    BY <2>1, <2>2, BecomesGood DEF AbortSeen
<1>5. CASE PromptStarts(t)
  <2> DEFINE d == Progressed([r EXCEPT !.phase = "preflight"])
  <2>1. Good(d) /\ d.phase = "preflight" /\ d.call = r.call
    BY <1>0, <1>5, PromptGood DEF PromptStarts
  <2>2. Becomes(t, d)
    BY <1>5 DEF PromptStarts
  <2> HIDE DEF d
  <2> QED
    BY <2>1, <2>2, BecomesGood DEF AbortSeen
<1>6. CASE PromptAccepted(t)
  <2> DEFINE d == Progressed([r EXCEPT !.phase = "running"])
  <2>1. Good(d) /\ d.phase = "running" /\ d.call = r.call
    BY <1>0, <1>6, PromptGood DEF PromptAccepted
  <2>2. Becomes(t, d)
    BY <1>6 DEF PromptAccepted
  <2> HIDE DEF d
  <2> QED
    BY <2>1, <2>2, BecomesGood DEF AbortSeen
<1>7. CASE PromptFails(t)
  <2> DEFINE d == Failed(r)
  <2>1. Good(d) /\ d.phase = "closing" /\ d.call = r.call
    BY <1>0, <1>7, FailedGood DEF PromptFails
  <2>2. Becomes(t, d)
    BY <1>7 DEF PromptFails
  <2> HIDE DEF d
  <2> QED
    BY <2>1, <2>2, BecomesGood DEF AbortSeen
<1>8. CASE PromptReturns(t)
  <2> DEFINE d == Closed(Progressed([Sealed(r) EXCEPT !.phase = "closing"]), FALSE)
  <2>1. Good(d) /\ d.phase = "closing" /\ d.call = r.call
    BY <1>0, <1>8, PromptReturnsGood DEF PromptReturns
  <2>2. Becomes(t, d)
    BY <1>8 DEF PromptReturns
  <2> HIDE DEF d
  <2> QED
    BY <2>1, <2>2, BecomesGood DEF AbortSeen
<1>9. CASE LateStart(t)
  <2> DEFINE d == [r EXCEPT !.late = TRUE]
  <2>1. Good(d) /\ d.phase = "running" /\ d.call = r.call
    BY <1>0, <1>9, LateGood DEF LateStart
  <2>2. Becomes(t, d)
    BY <1>9 DEF LateStart
  <2> HIDE DEF d
  <2> QED
    BY <2>1, <2>2, BecomesGood DEF AbortSeen
<1>10. CASE SessionDisposed(t)
  <2>1. PICK x \in {"yes", "no"} : Becomes(t, [r EXCEPT !.closure = x, !.session = "disposed"])
    BY <1>10 DEF SessionDisposed
  <2> DEFINE d == [r EXCEPT !.closure = x, !.session = "disposed"]
  <2>2. Good(d) /\ d.phase = r.phase /\ d.claim = r.claim /\ d.call = r.call
    BY <1>0, <1>10, DisposedGood DEF SessionDisposed
  <2>3. Becomes(t, d)
    BY <2>1
  <2> HIDE DEF d
  <2> QED
    BY <1>0, <2>2, <2>3, BecomesGood DEF AbortSeen
<1>11. CASE RunSettles(t)
  <2> DEFINE d == Claimed([r EXCEPT !.phase = "settled"], "run")
  <2>1. Good(d) /\ d.phase = "settled" /\ d.call = r.call
    BY <1>0, <1>11, SettledGood DEF RunSettles
  <2>2. Becomes(t, d)
    BY <1>11 DEF RunSettles
  <2> HIDE DEF d
  <2> QED
    BY <2>1, <2>2, BecomesGood DEF AbortSeen
<1> QED
  BY <1>1, <1>2, <1>3, <1>4, <1>5, <1>6, <1>7, <1>8, <1>9, <1>10, <1>11 DEF SessionStep

LEMMA CallStepGood ==
    ASSUME RunsGood, NEW t \in Tasks, CallStep(t)
    PROVE  RunsGood' /\ run[t].call \in {"resources", "racing", "joining"}
                     /\ run'[t].call # "none"
                     /\ \A u \in Tasks \ {t} : run'[u] = run[u]
<1> DEFINE r == run[t]
<1>0. Good(r) /\ AbortSeen(r) /\ aborted \in BOOLEAN
  BY DEF RunsGood
<1> DEFINE Step(d) == Good(d) /\ AbortSeen(d) /\ d.call # "none" /\ Becomes(t, d)
<1>s. ASSUME NEW d, Step(d), r.call \in {"resources", "racing", "joining"}
      PROVE  /\ RunsGood' /\ r.call \in {"resources", "racing", "joining"}
             /\ run'[t].call # "none" /\ \A u \in Tasks \ {t} : run'[u] = run[u]
  BY <1>s, BecomesGood
<1>1. CASE ResourcesReady(t)
  <2>1. r.call = "resources"
    BY <1>1 DEF ResourcesReady
  <2>2. CASE aborted
    <3> DEFINE d == [r EXCEPT !.call = "returned", !.verdict = NothingStarted]
    <3>1. Good(d) /\ d.call = "returned" /\ d.phase = "none"
      BY <1>0, <2>1, ResourcesGood
    <3>2. Becomes(t, d)
      BY <1>1, <2>2 DEF ResourcesReady
    <3> HIDE DEF d
    <3>3. Step(d)
      BY <3>1, <3>2 DEF AbortSeen
    <3> QED
      BY <1>s, <2>1, <3>3
  <2>3. CASE ~aborted
    <3> DEFINE d == [r EXCEPT !.call = "racing", !.phase = "creating",
                              !.timers = {"idle", "max_runtime"}]
    <3>1. Good(d) /\ d.call = "racing"
      BY <1>0, <2>1, ResourcesGood
    <3>2. Becomes(t, d)
      BY <1>1, <2>3 DEF ResourcesReady
    <3> HIDE DEF d
    <3>3. Step(d)
      BY <2>3, <3>1, <3>2 DEF AbortSeen
    <3> QED
      BY <1>s, <2>1, <3>3
  <2> QED
    BY <1>0, <2>2, <2>3
<1>2. CASE ResourcesFail(t)
  <2>1. r.call = "resources"
    BY <1>2 DEF ResourcesFail
  <2> DEFINE d == [r EXCEPT !.call = "thrown"]
  <2>2. Good(d) /\ d.call = "thrown" /\ d.phase = "none"
    BY <1>0, <2>1, ResourcesGood
  <2>3. Becomes(t, d)
    BY <1>2 DEF ResourcesFail
  <2> HIDE DEF d
  <2>4. Step(d)
    BY <2>2, <2>3 DEF AbortSeen
  <2> QED
    BY <1>s, <2>1, <2>4
<1>3. CASE GovernorTrips(t)
  <2>1. r.call = "racing" /\ r.phase = "running"
    BY <1>0, <1>3 DEF GovernorTrips, Good, CallAgrees, Runs
  <2> DEFINE d == Claimed(r, "governor")
  <2>2. Good(d) /\ d.call = "racing" /\ d.phase = "running"
    BY <1>0, <2>1, ClaimedGood
  <2>3. Becomes(t, d)
    BY <1>3 DEF GovernorTrips
  <2> HIDE DEF d
  <2>4. Step(d)
    BY <2>2, <2>3 DEF AbortSeen
  <2> QED
    BY <1>s, <2>1, <2>4
<1>4. ASSUME NEW timer \in {"idle", "max_runtime"}, WatchdogFires(t, timer)
      PROVE  \E d : Step(d) /\ r.call = "racing"
  <2> DEFINE c == [r EXCEPT !.timers = @ \ {timer}]
             d == Claimed(c, "timeout")
  <2>1. Good(c) /\ c.call = "racing" /\ c.phase = r.phase /\ c.claim = r.claim
        /\ r.call = "racing"
    BY <1>0, <1>4, TimerGood DEF WatchdogFires, Good, CallAgrees
  <2>2. Becomes(t, Claimed(c, "timeout"))
    BY <1>4 DEF WatchdogFires
  <2> HIDE DEF c
  <2>3. Good(d) /\ d.call = "racing" /\ d.phase = c.phase /\ (c.sealed \/ d.claim # "none")
    BY <2>1, ClaimedGood
  <2> HIDE DEF d
  <2>4. AbortSeen(d)
    BY <1>0, <2>1, <2>3 DEF AbortSeen, Good, ClaimAgrees
  <2>5. Becomes(t, d)
    BY <2>2 DEF d
  <2>6. Step(d)
    BY <2>3, <2>4, <2>5
  <2> QED
    BY <2>1, <2>6
<1>5. CASE IdleTimeout(t) \/ MaxRuntime(t)
  <2>1. PICK d : Step(d) /\ r.call = "racing"
    BY <1>4, <1>5 DEF IdleTimeout, MaxRuntime
  <2> QED
    BY <1>s, <2>1
<1>6. CASE TerminationClaimed(t)
  <2> DEFINE c == [r EXCEPT !.timers = {}]
  <2>1. r.call = "racing" /\ r.claim # "none"
    BY <1>0, <1>6 DEF TerminationClaimed, Good, Runs
  <2>2. /\ Is(c, r.call, r.phase, r.claim, r.sealed, {}, r.session, r.closure, r.late, r.verdict)
        /\ Good(c) /\ Good([c EXCEPT !.call = "joining"])
    BY <1>0, <2>1, JoiningGood
  <2>3. Becomes(t, IF c.claim = "run" THEN Returned(c, TRUE) ELSE [c EXCEPT !.call = "joining"])
    BY <1>6 DEF TerminationClaimed
  <2> HIDE DEF c
  <2>4. CASE c.claim = "run"
    <3> DEFINE d == Returned(c, TRUE)
    <3>1. c.phase = "settled" /\ c.closure # "pending"
      BY <2>2, <2>4 DEF Good, ClaimAgrees, SessionAgrees
    <3>2. Good(d) /\ d.phase = c.phase /\ d.call = "returned"
      BY <2>1, <2>2, <3>1, ReturnedGood DEF Is, Returned, Runs
    <3>3. Becomes(t, d)
      BY <2>3, <2>4
    <3> HIDE DEF d
    <3>4. Step(d)
      BY <3>1, <3>2, <3>3 DEF AbortSeen
    <3> QED
      BY <1>s, <2>1, <3>4
  <2>5. CASE c.claim # "run"
    <3> DEFINE d == [c EXCEPT !.call = "joining"]
    <3>1. Good(d) /\ d.claim # "none" /\ d.call = "joining"
      BY <2>1, <2>2 DEF Is, Runs
    <3>2. Becomes(t, d)
      BY <2>3, <2>5
    <3> HIDE DEF d
    <3>3. Step(d)
      BY <3>1, <3>2 DEF AbortSeen
    <3> QED
      BY <1>s, <2>1, <3>3
  <2> QED
    BY <2>4, <2>5
<1>7. CASE Joined(t) \/ JoinExpires(t)
  <2>1. r.call = "joining" /\ r.claim # "none" /\ r.timers = {}
    BY <1>0, <1>7 DEF Joined, JoinExpires, Good, CallAgrees
  <2>2. PICK joined \in BOOLEAN :
           /\ joined => r.phase = "settled" /\ r.closure # "pending"
           /\ Becomes(t, Returned(r, joined))
    BY <1>7 DEF Joined, JoinExpires
  <2> DEFINE d == Returned(r, joined)
  <2>3. Good(d) /\ d.phase = r.phase
    BY <1>0, <2>1, <2>2, ReturnedGood
  <2>4. d.call = "returned" /\ d.claim = r.claim
    BY <1>0 DEF Returned, Good, Runs
  <2>5. Becomes(t, d)
    BY <2>2
  <2> HIDE DEF d
  <2>6. Step(d)
    BY <2>1, <2>3, <2>4, <2>5 DEF AbortSeen
  <2> QED
    BY <1>s, <2>1, <2>6
<1> QED
  BY <1>1, <1>2, <1>3, <1>5, <1>6, <1>7 DEF CallStep

LEMMA ParentAbortGood ==
    ASSUME RunsGood, ParentAbort
    PROVE  RunsGood' /\ \A t \in Tasks : run'[t].call = run[t].call
<1>1. /\ aborted' = TRUE
      /\ run' = [t \in Tasks |->
                   IF run[t].call = "racing" THEN Claimed(run[t], "parent") ELSE run[t]]
  BY DEF ParentAbort
<1>2. ASSUME NEW t \in Tasks
      PROVE  /\ Good(run'[t]) /\ run'[t].call = run[t].call
             /\ run'[t].phase \in {"creating", "created"} => run'[t].claim # "none"
  <2>1. Good(run[t])
    BY DEF RunsGood
  <2>2. CASE run[t].call = "racing"
    <3>1. run'[t] = Claimed(run[t], "parent")
      BY <1>1, <2>2
    <3> QED
      BY <2>1, <2>2, <3>1, ClaimedGood DEF Good, ClaimAgrees
  <2>3. CASE run[t].call # "racing"
    <3>1. run'[t] = run[t]
      BY <1>1, <2>3
    <3> QED
      BY <2>1, <2>3, <3>1 DEF Good, CallAgrees, Runs
  <2> QED
    BY <2>2, <2>3
<1>3. run' \in [Tasks -> Runs]
  <2>1. \A t \in Tasks : run'[t] \in Runs
    BY <1>2 DEF Good
  <2> QED
    BY <1>1, <2>1
<1>4. \A t \in Tasks : AbortSeen(run[t])'
  BY <1>1, <1>2 DEF AbortSeen
<1>5. \A t \in Tasks : Good(run[t])'
  BY <1>2 DEF Good, CallAgrees, SessionAgrees, ClaimAgrees, CleanAgrees
<1> QED
  BY <1>1, <1>2, <1>3, <1>4, <1>5 DEF RunsGood

-----------------------------------------------------------------------------
(* The inductive invariant of the pool.  EnoughWorkers is the reason why no *)
(* task is forgotten although a worker that finds nothing is gone: whatever *)
(* set of unclaimed tasks the caps have room for, there is a free worker    *)
(* for each of it.                                                          *)
Fits(S) ==
    \A p \in Providers :
        active[p] + Cardinality({i \in S : ProviderOf[i] = p}) <= MaxConcurrency

EnoughWorkers ==
    aborted \/ \A S \in SUBSET (Tasks \ claimed) : Fits(S) => Cardinality(S) <= free

UnderCap == \A p \in Providers : active[p] <= MaxConcurrency

CallsKnown ==
    \A i \in Tasks : /\ i \notin claimed => run[i].call = "none"
                     /\ i \in finished => Over(i)

PoolShape ==
    /\ claimed \subseteq Tasks
    /\ finished \subseteq claimed
    /\ free \in Nat
    /\ free + Cardinality(claimed \ finished) <= Total
    /\ active = [p \in Providers |-> Cardinality(Busy(p))]

PoolInv == PoolShape /\ CallsKnown /\ UnderCap /\ EnoughWorkers

IInv == RunsGood /\ PoolInv

LEMMA FiniteTasks ==
    /\ IsFiniteSet(Tasks) /\ Cardinality(Tasks) = Total
    /\ \A S \in SUBSET Tasks : IsFiniteSet(S) /\ Cardinality(S) \in Nat
<1>1. IsFiniteSet(Tasks) /\ Cardinality(Tasks) = Total
  <2>1. IsFiniteSet(1 .. Total) /\ Cardinality(1 .. Total) = IF 1 > Total THEN 0 ELSE Total - 1 + 1
    BY PoolAssumption, FS_Interval
  <2> QED
    BY <2>1, PoolAssumption
<1> QED
  BY <1>1, FS_Subset, FS_CardinalityType

(* The tasks in progress of a provider.                                     *)
LEMMA BusyFinite ==
    ASSUME PoolShape, NEW p \in Providers
    PROVE  /\ IsFiniteSet(Busy(p)) /\ Cardinality(Busy(p)) \in Nat
           /\ active[p] = Cardinality(Busy(p))
BY FiniteTasks DEF PoolShape, Busy

(* If some task can be claimed, the first one can.                          *)
LEMMA FirstCanBeClaimed ==
    ASSUME NEW i \in Tasks \ claimed, HasRoom(i)
    PROVE  \E j \in Tasks : NextTask(j)
<1> DEFINE T == {j \in Tasks \ claimed : HasRoom(j)}
<1>1. T \subseteq Nat /\ T # {}
  BY PoolAssumption
<1>2. PICK j \in T : \A k \in T : ~(<<k, j>> \in OpToRel(<, Nat))
  BY <1>1, NatLessThanWellFounded, WFMin
<1>3. \A k \in T : ~(k < j)
  BY <1>1, <1>2 DEF OpToRel
<1>4. \A k \in T : j <= k
  <2> TAKE k \in T
  <2>1. j \in Nat /\ k \in Nat /\ ~(k < j)
    BY <1>1, <1>2, <1>3
  <2> QED
    BY <2>1
<1> QED
  BY <1>4 DEF NextTask

(* One more unclaimed task and one less.                                    *)
LEMMA ShareOf ==
    ASSUME NEW S \in SUBSET Tasks, NEW i \in Tasks, NEW p \in Providers
    PROVE  LET Of(U) == {j \in U : ProviderOf[j] = p} IN
           /\ Cardinality(Of(S)) \in Nat
           /\ i \notin S => Cardinality(Of(S \cup {i})) =
                 IF ProviderOf[i] = p THEN Cardinality(Of(S)) + 1 ELSE Cardinality(Of(S))
           /\ i \in S => Cardinality(Of(S \ {i})) =
                 IF ProviderOf[i] = p THEN Cardinality(Of(S)) - 1 ELSE Cardinality(Of(S))
<1> DEFINE Of(U) == {j \in U : ProviderOf[j] = p}
<1>1. IsFiniteSet(Of(S)) /\ Cardinality(Of(S)) \in Nat
  BY FiniteTasks
<1>2. CASE ProviderOf[i] = p
  <2>1. Of(S \cup {i}) = Of(S) \cup {i} /\ Of(S \ {i}) = Of(S) \ {i}
    BY <1>2
  <2>2. (i \in Of(S)) <=> (i \in S)
    BY <1>2
  <2> HIDE DEF Of
  <2>3. /\ Cardinality(Of(S) \cup {i}) = IF i \in Of(S) THEN Cardinality(Of(S)) ELSE Cardinality(Of(S)) + 1
        /\ Cardinality(Of(S) \ {i}) = IF i \in Of(S) THEN Cardinality(Of(S)) - 1 ELSE Cardinality(Of(S))
    BY <1>1, FS_AddElement, FS_RemoveElement
  <2>4. /\ Cardinality(Of(S)) \in Nat
        /\ i \notin S => Cardinality(Of(S \cup {i})) = Cardinality(Of(S)) + 1
        /\ i \in S => Cardinality(Of(S \ {i})) = Cardinality(Of(S)) - 1
    BY <1>1, <2>1, <2>2, <2>3
  <2> QED
    BY <1>2, <2>4 DEF Of
<1>3. CASE ProviderOf[i] # p
  <2>1. Of(S \cup {i}) = Of(S) /\ Of(S \ {i}) = Of(S)
    BY <1>3
  <2> QED
    BY <1>1, <1>3, <2>1
<1> QED
  BY <1>2, <1>3

LEMMA ClaimKeepsPool ==
    ASSUME IInv, NEW i \in Tasks, Claim(i)
    PROVE  PoolInv'
<1> DEFINE Of(U, p) == {j \in U : ProviderOf[j] = p}
           InProgress == claimed \ finished
<1> USE DEF IInv, PoolInv
<1>1. /\ i \notin claimed /\ i \notin finished /\ free > 0 /\ ~aborted /\ HasRoom(i)
      /\ claimed' = claimed \cup {i} /\ finished' = finished
      /\ free' = free - 1 /\ aborted' = aborted
      /\ active' = [active EXCEPT ![ProviderOf[i]] = @ + 1]
      /\ ProviderOf[i] \in Providers
      /\ InProgress \in SUBSET Tasks /\ i \notin InProgress
      /\ claimed' \ finished' = InProgress \cup {i}
  BY PoolAssumption DEF Claim, NextTask, PoolShape
<1>2. ASSUME NEW p \in Providers
      PROVE  /\ active'[p] = IF ProviderOf[i] = p THEN active[p] + 1 ELSE active[p]
             /\ active'[p] = Cardinality(Busy(p)')
             /\ active[p] \in Nat
  <2>1. active'[p] = IF ProviderOf[i] = p THEN active[p] + 1 ELSE active[p]
    BY <1>1 DEF PoolShape
  <2>2. active[p] = Cardinality(Of(InProgress, p)) /\ active[p] \in Nat
    BY BusyFinite DEF Busy
  <2>3. Busy(p)' = Of(InProgress \cup {i}, p)
    BY <1>1 DEF Busy
  <2>4. Cardinality(Of(InProgress \cup {i}, p)) =
           IF ProviderOf[i] = p THEN Cardinality(Of(InProgress, p)) + 1
                                ELSE Cardinality(Of(InProgress, p))
    BY <1>1, ShareOf
  <2> QED
    BY <2>1, <2>2, <2>3, <2>4
<1>3. PoolShape'
  <2>1. Cardinality(claimed' \ finished') = Cardinality(InProgress) + 1
        /\ Cardinality(InProgress) \in Nat
    BY <1>1, FiniteTasks, FS_AddElement
  <2>2. free' \in Nat /\ free' + Cardinality(claimed' \ finished') <= Total
    BY <1>1, <2>1, PoolAssumption DEF PoolShape
  <2>3. active' = [p \in Providers |-> Cardinality(Busy(p)')]
    <3>1. active' = [p \in Providers |-> active'[p]]
      BY <1>1 DEF PoolShape
    <3> QED
      BY <1>2, <3>1
  <2> QED
    BY <1>1, <2>2, <2>3 DEF PoolShape
<1>4. CallsKnown'
  <2>1. \A j \in Tasks \ {i} : run'[j] = run[j]
    BY DEF Claim, RunsGood
  <2> QED
    BY <1>1, <2>1 DEF CallsKnown, Over, PoolShape
<1>5. UnderCap'
  BY <1>1, <1>2, PoolAssumption DEF UnderCap, HasRoom
<1>6. EnoughWorkers'
  <2> SUFFICES ASSUME NEW S \in SUBSET (Tasks \ claimed'), Fits(S)'
               PROVE  Cardinality(S) <= free'
    BY <1>1 DEF EnoughWorkers
  <2>1. S \in SUBSET Tasks /\ i \notin S /\ S \cup {i} \in SUBSET (Tasks \ claimed)
    BY <1>1
  <2>2. Fits(S \cup {i})
    <3>1. ASSUME NEW p \in Providers
          PROVE  active[p] + Cardinality(Of(S \cup {i}, p)) <= MaxConcurrency
      <4>1. active'[p] + Cardinality(Of(S, p)) <= MaxConcurrency
        BY DEF Fits
      <4>2. /\ Cardinality(Of(S, p)) \in Nat
            /\ Cardinality(Of(S \cup {i}, p)) =
                  IF ProviderOf[i] = p THEN Cardinality(Of(S, p)) + 1 ELSE Cardinality(Of(S, p))
        BY <2>1, ShareOf
      <4> HIDE DEF Of
      <4> QED
        BY <1>2, <4>1, <4>2, PoolAssumption
    <3> QED
      BY <3>1 DEF Fits
  <2>3. Cardinality(S \cup {i}) <= free
    BY <1>1, <2>1, <2>2 DEF EnoughWorkers
  <2>4. Cardinality(S \cup {i}) = Cardinality(S) + 1 /\ Cardinality(S) \in Nat
    BY <2>1, FiniteTasks, FS_AddElement
  <2> QED
    BY <1>1, <2>3, <2>4 DEF PoolShape
<1> QED
  BY <1>3, <1>4, <1>5, <1>6

LEMMA ExitKeepsPool ==
    ASSUME IInv, WorkerExits
    PROVE  PoolInv'
<1> USE DEF IInv, PoolInv
<1>1. /\ free > 0 /\ free' = free - 1
      /\ UNCHANGED <<run, aborted, claimed, finished, active>>
      /\ aborted \/ ~\E i \in Tasks : NextTask(i)
  BY DEF WorkerExits
<1>2. Cardinality(claimed \ finished) \in Nat
  BY FiniteTasks DEF PoolShape
<1>3. PoolShape' /\ CallsKnown' /\ UnderCap'
  <2>1. free \in Nat /\ free' \in Nat /\ free' + Cardinality(claimed \ finished) <= Total
    BY <1>1, <1>2, PoolAssumption DEF PoolShape
  <2>2. PoolShape'
    BY <1>1, <2>1 DEF PoolShape, Busy
  <2> QED
    BY <1>1, <2>2 DEF CallsKnown, Over, UnderCap
<1>4. EnoughWorkers'
  <2> SUFFICES ASSUME ~aborted, NEW S \in SUBSET (Tasks \ claimed), Fits(S)
               PROVE  Cardinality(S) <= free'
    BY <1>1 DEF EnoughWorkers, Fits
  <2>1. S = {}
    <3> SUFFICES ASSUME NEW i \in S PROVE FALSE
      OBVIOUS
    <3>1. ~HasRoom(i) /\ i \in Tasks /\ ProviderOf[i] \in Providers
      BY <1>1, FirstCanBeClaimed, PoolAssumption
    <3> DEFINE p == ProviderOf[i]
               T == {j \in S : ProviderOf[j] = p}
    <3>2. active[p] + Cardinality(T) <= MaxConcurrency
      BY <3>1 DEF Fits
    <3>3. active[p] \in Nat /\ active[p] >= MaxConcurrency
      BY <3>1, BusyFinite, PoolAssumption DEF HasRoom
    <3>4. IsFiniteSet(T) /\ Cardinality(T) \in Nat /\ T # {}
      BY FiniteTasks
    <3>5. Cardinality(T) # 0
      BY <3>4, FS_EmptySet
    <3> QED
      BY <3>2, <3>3, <3>4, <3>5, PoolAssumption
  <2> QED
    BY <1>1, <2>1, FS_EmptySet DEF PoolShape
<1> QED
  BY <1>3, <1>4

LEMMA FinishKeepsPool ==
    ASSUME IInv, NEW i \in Tasks, Finish(i)
    PROVE  PoolInv'
<1> DEFINE Of(U, p) == {j \in U : ProviderOf[j] = p}
           InProgress == claimed \ finished
<1> USE DEF IInv, PoolInv
<1>1. /\ free = 0 /\ free' = 1 /\ UNCHANGED <<run, aborted, claimed>>
      /\ i \in InProgress /\ Over(i)
      /\ finished' = finished \cup {i}
      /\ active' = Released(i)
      /\ ProviderOf[i] \in Providers
      /\ InProgress \in SUBSET Tasks
      /\ claimed' \ finished' = InProgress \ {i}
  BY PoolAssumption DEF Finish, PoolShape
<1> HIDE DEF InProgress
<1>2. ASSUME NEW p \in Providers
      PROVE  /\ active'[p] = IF ProviderOf[i] = p THEN active[p] - 1 ELSE active[p]
             /\ active'[p] = Cardinality(Busy(p)')
             /\ active[p] \in Nat /\ active'[p] \in Nat
  <2>1. active[p] = Cardinality(Of(InProgress, p)) /\ active[p] \in Nat
    BY BusyFinite DEF Busy, InProgress
  <2>2. Busy(p)' = Of(InProgress \ {i}, p)
    BY <1>1 DEF Busy
  <2>3. Cardinality(Of(InProgress \ {i}, p)) =
           IF ProviderOf[i] = p THEN Cardinality(Of(InProgress, p)) - 1
                                ELSE Cardinality(Of(InProgress, p))
    BY <1>1, ShareOf
  <2>4. IsFiniteSet(Of(InProgress \ {i}, p)) /\ Cardinality(Of(InProgress \ {i}, p)) \in Nat
    BY <1>1, FiniteTasks
  <2>5. active'[p] = IF ProviderOf[i] = p
                     THEN IF active[p] > 0 THEN active[p] - 1 ELSE 0
                     ELSE active[p]
    BY <1>1 DEF Released, PoolShape
  <2> QED
    BY <2>1, <2>2, <2>3, <2>4, <2>5
<1>3. PoolShape'
  <2>1. Cardinality(claimed' \ finished') = Cardinality(InProgress) - 1
        /\ Cardinality(InProgress) \in Nat
    BY <1>1, FiniteTasks, FS_RemoveElement
  <2>2. free' \in Nat /\ free' + Cardinality(claimed' \ finished') <= Total
    BY <1>1, <2>1, PoolAssumption DEF PoolShape, InProgress
  <2>3. active' = [p \in Providers |-> Cardinality(Busy(p)')]
    <3>1. active' = [p \in Providers |-> active'[p]]
      BY <1>1 DEF PoolShape, Released
    <3> QED
      BY <1>2, <3>1
  <2> QED
    BY <1>1, <2>2, <2>3 DEF PoolShape, InProgress
<1>4. CallsKnown'
  BY <1>1 DEF CallsKnown, Over
<1>5. UnderCap'
  BY <1>2, PoolAssumption DEF UnderCap
<1>6. EnoughWorkers'
  <2> SUFFICES ASSUME ~aborted, NEW S \in SUBSET (Tasks \ claimed), Fits(S)'
               PROVE  Cardinality(S) <= 1
    BY <1>1 DEF EnoughWorkers
  <2>1. ASSUME NEW p \in Providers
        PROVE  active'[p] + Cardinality(Of(S, p)) <= MaxConcurrency
               /\ Cardinality(Of(S, p)) \in Nat
    BY FiniteTasks DEF Fits
  <2>2. CASE Of(S, ProviderOf[i]) = {}
    <3>1. Fits(S)
      <4>1. ASSUME NEW p \in Providers
            PROVE  active[p] + Cardinality(Of(S, p)) <= MaxConcurrency
        <5>1. CASE p = ProviderOf[i]
          <6>1. Cardinality(Of(S, p)) = 0
            BY <2>2, <5>1, FS_EmptySet
          <6>2. active[p] \in Nat /\ active[p] <= MaxConcurrency
            BY <1>2 DEF UnderCap
          <6> QED
            BY <6>1, <6>2, PoolAssumption
        <5>2. CASE p # ProviderOf[i]
          BY <1>2, <2>1, <5>2
        <5> QED
          BY <5>1, <5>2
      <4> QED
        BY <4>1 DEF Fits
    <3>2. Cardinality(S) <= 0 /\ Cardinality(S) \in Nat
      BY <1>1, <3>1, FiniteTasks DEF EnoughWorkers
    <3> QED
      BY <3>2
  <2>3. CASE Of(S, ProviderOf[i]) # {}
    <3>1. PICK j \in S : ProviderOf[j] = ProviderOf[i]
      BY <2>3
    <3>2. S \in SUBSET Tasks /\ j \in Tasks /\ S \ {j} \in SUBSET (Tasks \ claimed)
      OBVIOUS
    <3>3. Fits(S \ {j})
      <4>1. ASSUME NEW p \in Providers
            PROVE  active[p] + Cardinality(Of(S \ {j}, p)) <= MaxConcurrency
        <5>1. Cardinality(Of(S \ {j}, p)) =
                 IF ProviderOf[j] = p THEN Cardinality(Of(S, p)) - 1 ELSE Cardinality(Of(S, p))
          BY <3>2, ShareOf
        <5>2. active'[p] + Cardinality(Of(S, p)) <= MaxConcurrency /\ Cardinality(Of(S, p)) \in Nat
          BY <2>1
        <5> HIDE DEF Of
        <5> QED
          BY <1>2, <3>1, <5>1, <5>2, PoolAssumption
      <4> QED
        BY <4>1 DEF Fits
    <3>4. Cardinality(S \ {j}) <= 0
      BY <1>1, <3>2, <3>3 DEF EnoughWorkers
    <3>5. Cardinality(S \ {j}) = Cardinality(S) - 1 /\ Cardinality(S) \in Nat
      BY <3>1, <3>2, FiniteTasks, FS_RemoveElement
    <3> QED
      BY <3>4, <3>5
  <2> QED
    BY <2>2, <2>3
<1> QED
  BY <1>3, <1>4, <1>5, <1>6

(* Steps that leave the pool alone.                                         *)
LEMMA RunsKeepPool ==
    ASSUME IInv, poolVars' = poolVars,
           aborted' = aborted \/ aborted' = TRUE,
           \A i \in Tasks : /\ run[i].call = "none" => run'[i].call = "none"
                            /\ Over(i) => run'[i].call = run[i].call
    PROVE  PoolInv'
<1> USE DEF IInv, PoolInv
<1>1. UNCHANGED <<claimed, finished, active, free>>
  BY DEF poolVars
<1>2. PoolShape' /\ UnderCap'
  BY <1>1 DEF PoolShape, Busy, UnderCap
<1>3. CallsKnown'
  BY <1>1 DEF CallsKnown, Over
<1>4. EnoughWorkers'
  BY <1>1 DEF EnoughWorkers, Fits
<1> QED
  BY <1>2, <1>3, <1>4

LEMMA InitIInv == Init => IInv
<1> SUFFICES ASSUME Init PROVE IInv
  OBVIOUS
<1> USE DEF Init, RunInit
<1>1. RunsGood
  <2>1. Good(NotStarted) /\ NotStarted.phase = "none" /\ NotStarted.call = "none"
    BY CalledGood DEF NotStarted
  <2> QED
    BY <2>1 DEF RunsGood, AbortSeen, Good
<1>2. PoolShape
  <2>1. \A p \in Providers : Busy(p) = {}
    BY DEF Busy
  <2>2. claimed \ finished = {} /\ Cardinality({}) = 0
    BY FS_EmptySet
  <2>3. active = [p \in Providers |-> Cardinality(Busy(p))]
    BY <2>1, <2>2
  <2>4. free \in Nat /\ free + Cardinality(claimed \ finished) <= Total
    BY <2>2, PoolAssumption
  <2> QED
    BY <2>3, <2>4 DEF PoolShape
<1>3. CallsKnown /\ UnderCap
  BY PoolAssumption DEF CallsKnown, UnderCap, NotStarted
<1>4. EnoughWorkers
  BY FiniteTasks, FS_Subset DEF EnoughWorkers
<1> QED
  BY <1>1, <1>2, <1>3, <1>4 DEF IInv, PoolInv

LEMMA NextIInv == IInv /\ [Next]_vars => IInv'
<1> SUFFICES ASSUME IInv, [Next]_vars PROVE IInv'
  OBVIOUS
<1>0. RunsGood
  BY DEF IInv
<1>1. CASE \E i \in Tasks : Claim(i)
  <2>1. PICK i \in Tasks : Claim(i)
    BY <1>1
  <2>2. PICK r : /\ Good(r) /\ r.phase = "none"
                 /\ run' = [run EXCEPT ![i] = r] /\ aborted' = aborted
    <3>1. /\ [Called EXCEPT !.call = "returned", !.verdict = NothingStarted].phase = "none"
          /\ Called.phase = "none"
      BY DEF Called, NotStarted
    <3> QED
      BY <2>1, <3>1, CalledGood DEF Claim
  <2>3. RunsGood'
    BY <1>0, <2>2, BecomesGood DEF Becomes, AbortSeen
  <2> QED
    BY <2>1, <2>3, ClaimKeepsPool DEF IInv
<1>2. CASE WorkerExits
  <2>1. RunsGood'
    BY <1>0, <1>2 DEF WorkerExits, RunsGood, AbortSeen,
       Good, CallAgrees, SessionAgrees, ClaimAgrees, CleanAgrees
  <2> QED
    BY <1>2, <2>1, ExitKeepsPool DEF IInv
<1>3. CASE \E i \in Tasks : Finish(i)
  <2>1. RunsGood'
    BY <1>0, <1>3 DEF Finish, RunsGood, AbortSeen,
       Good, CallAgrees, SessionAgrees, ClaimAgrees, CleanAgrees
  <2> QED
    BY <1>3, <2>1, FinishKeepsPool DEF IInv
<1>4. CASE \E i \in Tasks : RunStep(i) /\ WhileWorkersWait
  <2>1. PICK t \in Tasks : RunStep(t) /\ WhileWorkersWait
    BY <1>4
  <2>2. aborted' = aborted
    BY <2>1 DEF RunStep, SessionStep, CallStep, Becomes, SessionCreated, SessionFails,
       ToolsRejected, Bail, PromptStarts, PromptAccepted, PromptFails, PromptReturns,
       LateStart, SessionDisposed, RunSettles, ResourcesReady, ResourcesFail, GovernorTrips,
       IdleTimeout, MaxRuntime, WatchdogFires, TerminationClaimed, Joined, JoinExpires
  <2>3. /\ RunsGood'
        /\ \A u \in Tasks \ {t} : run'[u] = run[u]
        /\ run[t].call = "none" => run'[t].call = "none"
        /\ Over(t) => run'[t].call = run[t].call
    BY <1>0, <2>1, SessionStepGood, CallStepGood DEF RunStep, Over
  <2> QED
    BY <2>1, <2>2, <2>3, RunsKeepPool DEF IInv, WhileWorkersWait, Over
<1>5. CASE ParentAbort /\ WhileWorkersWait
  <2>1. RunsGood' /\ (\A t \in Tasks : run'[t].call = run[t].call) /\ aborted' = TRUE
    BY <1>0, <1>5, ParentAbortGood DEF ParentAbort
  <2> QED
    BY <1>5, <2>1, RunsKeepPool DEF IInv, WhileWorkersWait
<1>6. CASE UNCHANGED vars
  BY <1>6 DEF vars, IInv, PoolInv, RunsGood, AbortSeen, PoolShape, CallsKnown, UnderCap,
     EnoughWorkers, Fits, Busy, Over, Good, CallAgrees, SessionAgrees, ClaimAgrees, CleanAgrees
<1> QED
  BY <1>1, <1>2, <1>3, <1>4, <1>5, <1>6 DEF Next

THEOREM DispatchInvariant == Spec => []IInv
BY InitIInv, NextIInv, PTL DEF Spec

-----------------------------------------------------------------------------
(* The variables keep their shapes, and activeByProvider counts the tasks   *)
(* in progress of each provider exactly.                                    *)
THEOREM DispatchTypeCorrect == Spec => []TypeOK
<1>1. IInv => TypeOK
  <2> SUFFICES ASSUME IInv PROVE TypeOK
    OBVIOUS
  <2> USE DEF IInv, PoolInv
  <2>1. free \in 0 .. Total
    <3>1. Cardinality(claimed \ finished) \in Nat
      BY FiniteTasks DEF PoolShape
    <3> QED
      BY <3>1, PoolAssumption DEF PoolShape
  <2> QED
    BY <2>1 DEF TypeOK, PoolShape, RunsGood
<1> QED
  BY <1>1, DispatchInvariant, PTL

(* A run whose result says it was cleaned up is over, disposed and quiet    *)
(* (index.ts:3191).                                                         *)
THEOREM ResultsTellTheTruth == Spec => []CleanMeansQuiet
<1>1. IInv => CleanMeansQuiet
  BY DEF IInv, RunsGood, Good, CleanAgrees, CleanMeansQuiet
<1> QED
  BY <1>1, DispatchInvariant, PTL

(* No watchdog and no undisposed session outlives its call (index.ts:2702). *)
THEOREM CallsLeaveNothing == Spec => []NothingLeftBehind
<1>1. IInv => NothingLeftBehind
  <2> SUFFICES ASSUME IInv, NEW t \in Tasks, Over(t)
               PROVE  run[t].timers = {} /\ run[t].session # "open"
    BY DEF NothingLeftBehind
  <2>1. Good(run[t])
    BY DEF IInv, RunsGood
  <2> QED
    BY <2>1 DEF Over, Good, CallAgrees, SessionAgrees, ClaimAgrees, Runs
<1> QED
  BY <1>1, DispatchInvariant, PTL

(* The closure evidence of a result is never "unknown" (index.ts:3204).     *)
THEOREM ClosureIsKnown == Spec => []ClosureKnown
<1>1. IInv => ClosureKnown
  BY DEF IInv, RunsGood, Good, CallAgrees, ClosureKnown
<1> QED
  BY <1>1, DispatchInvariant, PTL

(* The outcome a run reached by itself is nobody else's (index.ts:2623).    *)
THEOREM OutcomesStand == Spec => RunOutcomeKept
<1> DEFINE Kept(t) == run[t].phase \in {"closing", "settled"} /\ run[t].claim = "none"
                         => run'[t].claim \in {"none", "run"}
<1>1. IInv /\ [Next]_vars => [\A t \in Tasks : Kept(t)]_runVars
  <2> SUFFICES ASSUME IInv, Next, NEW t \in Tasks,
                      run[t].phase \in {"closing", "settled"}, run[t].claim = "none"
               PROVE  run'[t].claim \in {"none", "run"}
    BY DEF vars, runVars
  <2>1. /\ run \in [Tasks -> Runs]
        /\ Good(run[t]) /\ run[t].phase = "closing" /\ run[t].sealed
        /\ run[t].call = "racing" /\ t \in claimed
    BY DEF IInv, PoolInv, CallsKnown, RunsGood, Good, CallAgrees, ClaimAgrees, Runs
  <2> DEFINE r == run[t]
  <2>2. ASSUME NEW i \in Tasks, Claim(i)
        PROVE  run'[t] = r
    BY <2>1, <2>2 DEF Claim, NextTask
  <2>3. ASSUME NEW i \in Tasks, RunStep(i), i # t
        PROVE  run'[t] = r
    BY <2>1, <2>3, SessionStepGood, CallStepGood DEF RunStep, IInv
  <2>4. ASSUME SessionDisposed(t)
        PROVE  run'[t].claim = "none"
    <3>1. PICK x \in {"yes", "no"} : Becomes(t, [r EXCEPT !.closure = x, !.session = "disposed"])
      BY <2>4 DEF SessionDisposed
    <3>2. run'[t] = [r EXCEPT !.closure = x, !.session = "disposed"]
      BY <2>1, <3>1 DEF Becomes
    <3>3. [r EXCEPT !.closure = x, !.session = "disposed"].claim = r.claim
      BY <2>1 DEF Good, Runs
    <3> QED
      BY <3>2, <3>3
  <2>5. ASSUME RunSettles(t)
        PROVE  run'[t].claim = "run"
    <3>1. run'[t] = Claimed([r EXCEPT !.phase = "settled"], "run")
      BY <2>1, <2>5 DEF RunSettles, Becomes
    <3> QED
      BY <2>1, <2>5, <3>1, SettledGood DEF RunSettles
  <2>6. ASSUME ParentAbort
        PROVE  run'[t].claim = "none"
    BY <2>1, <2>6 DEF ParentAbort, Claimed
  <2>7. ASSUME SessionStep(t)
        PROVE  run'[t].claim \in {"none", "run"}
    <3>1. SessionDisposed(t) \/ RunSettles(t)
      BY <2>1, <2>7 DEF SessionStep, SessionCreated, SessionFails, ToolsRejected, Bail,
         PromptStarts, PromptAccepted, PromptFails, PromptReturns, LateStart
    <3> QED
      BY <2>4, <2>5, <3>1
  <2>8. ASSUME CallStep(t)
        PROVE  FALSE
    <3>1. r.timers = {} /\ r.claim = "none"
      BY <2>1 DEF Good, CallAgrees
    <3>2. ~TerminationClaimed(t)
      <4>1. [r EXCEPT !.timers = {}].claim = r.claim
        BY <2>1 DEF Good, Runs
      <4> QED
        BY <3>1, <4>1 DEF TerminationClaimed
    <3> QED
      BY <2>1, <2>8, <3>1, <3>2 DEF CallStep, ResourcesReady, ResourcesFail, GovernorTrips,
         IdleTimeout, MaxRuntime, WatchdogFires, Joined, JoinExpires
  <2>9. ASSUME RunStep(t)
         PROVE  run'[t].claim \in {"none", "run"}
    BY <2>7, <2>8, <2>9 DEF RunStep
  <2> QED
    BY <2>2, <2>3, <2>6, <2>9 DEF Next, WorkerExits, Finish
<1> QED
  BY <1>1, DispatchInvariant, PTL DEF Spec, RunOutcomeKept

(* An unclaimed task fits on its own where its provider has room.           *)
LEMMA OneFits ==
    ASSUME IInv, NEW i \in Tasks \ claimed, HasRoom(i), ~aborted
    PROVE  free # 0
<1> USE DEF IInv, PoolInv
<1>1. Fits({i})
  <2>1. ASSUME NEW p \in Providers
        PROVE  active[p] + Cardinality({j \in {i} : ProviderOf[j] = p}) <= MaxConcurrency
    <3>1. active[p] \in Nat /\ active[p] <= MaxConcurrency
      BY BusyFinite DEF UnderCap
    <3>2. CASE ProviderOf[i] = p
      <4>1. {j \in {i} : ProviderOf[j] = p} = {i}
        BY <3>2
      <4>2. Cardinality({j \in {i} : ProviderOf[j] = p}) = 1
        BY <4>1, FS_Singleton
      <4> QED
        BY <3>1, <3>2, <4>2, PoolAssumption DEF HasRoom
    <3>3. CASE ProviderOf[i] # p
      <4>1. {j \in {i} : ProviderOf[j] = p} = {}
        BY <3>3
      <4>2. Cardinality({j \in {i} : ProviderOf[j] = p}) = 0
        BY <4>1, FS_EmptySet
      <4> QED
        BY <3>1, <4>2, PoolAssumption
    <3> QED
      BY <3>2, <3>3
  <2> QED
    BY <2>1 DEF Fits
<1>2. Cardinality({i}) <= free
  BY <1>1 DEF EnoughWorkers
<1> QED
  BY <1>2, FS_Singleton

(* No task waits while its provider has room (index.ts:4090).               *)
THEOREM WorkIsConserved == Spec => []WorkConserving
<1>1. IInv => WorkConserving
  BY OneFits DEF WorkConserving
<1> QED
  BY <1>1, DispatchInvariant, PTL

(* A call that is over with a task unclaimed was aborted.                   *)
LEMMA HolesAborted == IInv => HolesMeanAbort
<1> SUFFICES ASSUME IInv PROVE HolesMeanAbort
  OBVIOUS
<1> SUFFICES ASSUME Concluded, NEW i \in Tasks \ claimed, ~aborted
             PROVE  FALSE
  BY DEF HolesMeanAbort, IInv, PoolInv, PoolShape, RunsGood
<1>1. ProviderOf[i] \in Providers
  BY PoolAssumption
<1>2. Busy(ProviderOf[i]) = {}
  BY DEF Concluded, Busy
<1>3. active[ProviderOf[i]] = 0
  BY <1>1, <1>2, BusyFinite, FS_EmptySet DEF IInv, PoolInv
<1>4. HasRoom(i)
  BY <1>3, PoolAssumption DEF HasRoom
<1> QED
  BY <1>4, OneFits DEF Concluded

(* Only an abort leaves a task unstarted (index.ts:4335).                   *)
THEOREM HolesAreAborts == Spec => []HolesMeanAbort
BY HolesAborted, DispatchInvariant, PTL

(* A provider serves at most its cap of prompts (index.ts:3917).            *)
THEOREM LoadIsBounded == Spec => []LoadBounded
<1>1. IInv => LoadBounded
  <2> SUFFICES ASSUME IInv, NEW p \in Providers
               PROVE  Cardinality({i \in Tasks : /\ ProviderOf[i] = p
                                                /\ run[i].phase = "running"
                                                /\ ~Accounted(i)}) <= MaxConcurrency
    BY DEF LoadBounded
  <2> DEFINE Load == {i \in Tasks : /\ ProviderOf[i] = p
                                   /\ run[i].phase = "running"
                                   /\ ~Accounted(i)}
  <2>1. ASSUME NEW i \in Load
        PROVE  i \in Busy(p)
    <3>1. Good(run[i]) /\ run[i].phase = "running"
      BY DEF IInv, RunsGood
    <3>2. run[i].call # "none" /\ run[i].call # "thrown" /\ ~run[i].verdict.clean
      BY <3>1 DEF Good, CallAgrees, CleanAgrees
    <3> QED
      BY <3>2 DEF Busy, Accounted, IInv, PoolInv, CallsKnown
  <2> HIDE DEF Load
  <2>2. /\ IsFiniteSet(Busy(p)) /\ Cardinality(Busy(p)) \in Nat
        /\ Cardinality(Busy(p)) <= MaxConcurrency
    BY BusyFinite DEF IInv, PoolInv, UnderCap
  <2>3. IsFiniteSet(Load) /\ Cardinality(Load) <= Cardinality(Busy(p))
    BY <2>1, <2>2, FS_Subset
  <2>4. Cardinality(Load) \in Nat
    BY <2>3, FS_CardinalityType
  <2>5. Cardinality(Load) <= MaxConcurrency
    BY <2>2, <2>3, <2>4, PoolAssumption
  <2> QED
    BY <2>5 DEF Load
<1> QED
  BY <1>1, DispatchInvariant, PTL
-----------------------------------------------------------------------------
(* Who owns the outcome of a run.                                           *)
AllPhases == {"none", "creating", "created", "preflight", "running", "closing", "settled"}

LEMMA KeepsClaim ==
    ASSUME NEW r \in Runs
    PROVE  /\ \A x \in BOOLEAN : /\ Closed(r, x) \in Runs
                                 /\ Closed(r, x).phase = r.phase
                                 /\ Closed(r, x).claim = r.claim
           /\ Sealed(r) \in Runs /\ Sealed(r).phase = r.phase /\ Sealed(r).claim = r.claim
           /\ Progressed(r) \in Runs
           /\ Progressed(r).phase = r.phase /\ Progressed(r).claim = r.claim
           /\ \A x \in AllPhases : /\ [r EXCEPT !.phase = x] \in Runs
                                   /\ [r EXCEPT !.phase = x].phase = x
                                   /\ [r EXCEPT !.phase = x].claim = r.claim
<1>1. ASSUME NEW x \in BOOLEAN
      PROVE  /\ Closed(r, x) \in Runs
             /\ Closed(r, x).phase = r.phase
             /\ Closed(r, x).claim = r.claim
  BY ClosedIs DEF Is
<1>2. Sealed(r) \in Runs /\ Sealed(r).phase = r.phase /\ Sealed(r).claim = r.claim
  BY SealedIs DEF Is
<1>3. /\ Progressed(r) \in Runs
      /\ Progressed(r).phase = r.phase /\ Progressed(r).claim = r.claim
  BY ProgressedIs DEF Is
<1>4. ASSUME NEW x \in AllPhases
      PROVE  /\ [r EXCEPT !.phase = x] \in Runs
             /\ [r EXCEPT !.phase = x].phase = x
             /\ [r EXCEPT !.phase = x].claim = r.claim
  BY DEF Runs, AllPhases
<1> QED
  BY <1>1, <1>2, <1>3, <1>4

LEMMA ClaimedOwner ==
    ASSUME NEW r \in Runs, NEW o \in Owners
    PROVE  /\ Claimed(r, o).phase = r.phase
           /\ Claimed(r, o).claim =
                 IF r.claim # "none" \/ (r.sealed /\ o # "run") THEN r.claim ELSE o
<1>1. /\ [r EXCEPT !.claim = o] \in Runs
      /\ [r EXCEPT !.claim = o].phase = r.phase /\ [r EXCEPT !.claim = o].claim = o
  BY ClaimIs DEF Is
<1> QED
  BY <1>1, KeepsClaim DEF Claimed

(* A step either leaves the owner or decides who it is, while the call is   *)
(* in its race.                                                             *)
OwnerMoves(r, d) ==
    \/ OwnerOf(d) = OwnerOf(r)
    \/ OwnerOf(r) = "none" /\ OwnerOf(d) \in Owners /\ r.call = "racing"

LEMMA PhaseMoves ==
    ASSUME NEW r, NEW d, Good(r), d.claim = r.claim, r.phase # "closing",
           r.phase = "none" => d.phase # "closing"
    PROVE  OwnerMoves(r, d)
BY DEF Good, Runs, CallAgrees, OwnerMoves, OwnerOf

LEMMA ClaimMoves ==
    ASSUME NEW r, NEW d, Good(r), r.call = "racing", r.timers # {} \/ r.phase # "closing",
           d.phase = r.phase, d.claim = r.claim \/ (r.claim = "none" /\ d.claim \in Owners)
    PROVE  OwnerMoves(r, d)
BY DEF Good, Runs, CallAgrees, ClaimAgrees, OwnerMoves, OwnerOf

LEMMA RunStepMoves ==
    ASSUME RunsGood, NEW t \in Tasks, RunStep(t)
    PROVE  OwnerMoves(run[t], run'[t])
<1> DEFINE r == run[t]
<1>0. Good(r) /\ r \in Runs /\ run \in [Tasks -> Runs]
  BY DEF RunsGood, Good
<1>s. ASSUME NEW d, Becomes(t, d)
      PROVE  run'[t] = d
  BY <1>0, <1>s DEF Becomes
<1>k. ASSUME NEW d, Becomes(t, d), d.claim = r.claim, r.phase # "closing",
             r.phase = "none" => d.phase # "closing"
      PROVE  OwnerMoves(r, run'[t])
  BY <1>0, <1>s, <1>k, PhaseMoves
<1>e. ASSUME NEW d, Becomes(t, d), d.claim = r.claim, d.phase = r.phase
      PROVE  OwnerMoves(r, run'[t])
  BY <1>s, <1>e DEF OwnerMoves, OwnerOf
<1>1. CASE SessionCreated(t)
  <2> DEFINE c == [r EXCEPT !.session = "open", !.phase = "created"]
             d == Progressed(IF c.claim # "none" THEN Closed(c, TRUE) ELSE c)
  <2>1. r.phase = "creating" /\ Becomes(t, d)
    BY <1>1, Zenon DEF SessionCreated
  <2>3. d.phase = "created" /\ d.claim = r.claim
    BY <1>0, <2>1, SessionCreatedGood, Zenon
  <2> HIDE DEF d
  <2> QED
    BY <1>k, <2>1, <2>3
<1>2. CASE SessionFails(t) \/ PromptFails(t)
  <2> DEFINE c == IF r.claim = "none" THEN Sealed(r) ELSE r
             d == [c EXCEPT !.phase = "closing"]
  <2>1. r.phase \in {"creating", "created", "preflight", "running"} /\ Becomes(t, Failed(r))
    BY <1>2 DEF SessionFails, PromptFails
  <2>2. c \in Runs /\ c.claim = r.claim
    BY <1>0, KeepsClaim
  <2>3. Failed(r) = Closed(d, TRUE)
    BY DEF Failed
  <2> HIDE DEF c
  <2>4. d \in Runs /\ d.claim = c.claim
    BY <2>2, KeepsClaim DEF AllPhases
  <2> HIDE DEF d
  <2>5. Failed(r).claim = r.claim
    BY <2>2, <2>3, <2>4, KeepsClaim
  <2> QED
    BY <1>k, <2>1, <2>5
<1>3. CASE ToolsRejected(t)
  <2> DEFINE c == Sealed(r)
             d == [c EXCEPT !.phase = "closing"]
  <2>1. r.phase = "created" /\ Becomes(t, Closed(d, FALSE))
    BY <1>3 DEF ToolsRejected
  <2>2. c \in Runs /\ c.claim = r.claim
    BY <1>0, KeepsClaim
  <2> HIDE DEF c
  <2>3. d \in Runs /\ d.claim = c.claim
    BY <2>2, KeepsClaim DEF AllPhases
  <2> HIDE DEF d
  <2>4. Closed(d, FALSE).claim = r.claim
    BY <2>2, <2>3, KeepsClaim
  <2> QED
    BY <1>k, <2>1, <2>4
<1>4. CASE Bail(t)
  <2> DEFINE d == [r EXCEPT !.phase = "closing"]
  <2>1. r.phase = "created" /\ Becomes(t, Closed(d, TRUE))
    BY <1>4 DEF Bail
  <2>2. d \in Runs /\ d.claim = r.claim
    BY <1>0, KeepsClaim DEF AllPhases
  <2> HIDE DEF d
  <2>3. Closed(d, TRUE).claim = r.claim
    BY <2>2, KeepsClaim
  <2> QED
    BY <1>k, <2>1, <2>3
<1>5. CASE PromptStarts(t) \/ PromptAccepted(t)
  <2>1. PICK x \in {"preflight", "running"} :
           r.phase \in {"created", "preflight"} /\ Becomes(t, Progressed([r EXCEPT !.phase = x]))
    BY <1>5 DEF PromptStarts, PromptAccepted
  <2> DEFINE d == [r EXCEPT !.phase = x]
  <2>2. d \in Runs /\ d.claim = r.claim
    BY <1>0 DEF Runs
  <2>3. Becomes(t, Progressed(d))
    BY <2>1
  <2> HIDE DEF d
  <2>4. Progressed(d).claim = r.claim
    BY <2>2, KeepsClaim
  <2> QED
    BY <1>k, <2>1, <2>3, <2>4
<1>6. CASE PromptReturns(t)
  <2> DEFINE c == Sealed(r)
             d == [c EXCEPT !.phase = "closing"]
             e == Progressed(d)
  <2>1. r.phase \in {"preflight", "running"} /\ Becomes(t, Closed(e, FALSE))
    BY <1>6 DEF PromptReturns
  <2>2. c \in Runs /\ c.claim = r.claim
    BY <1>0, KeepsClaim
  <2> HIDE DEF c
  <2>3. d \in Runs /\ d.claim = c.claim
    BY <2>2, KeepsClaim DEF AllPhases
  <2> HIDE DEF d
  <2>4. e \in Runs /\ e.claim = d.claim
    BY <2>3, KeepsClaim
  <2> HIDE DEF e
  <2>5. Closed(e, FALSE).claim = r.claim
    BY <2>2, <2>3, <2>4, KeepsClaim
  <2> QED
    BY <1>k, <2>1, <2>5
<1>7. CASE LateStart(t)
  <2> DEFINE d == [r EXCEPT !.late = TRUE]
  <2>1. Becomes(t, d)
    BY <1>7 DEF LateStart
  <2>2. d.claim = r.claim /\ d.phase = r.phase
    BY <1>0 DEF Runs
  <2> HIDE DEF d
  <2> QED
    BY <1>e, <2>1, <2>2
<1>8. CASE SessionDisposed(t)
  <2>1. PICK x \in {"yes", "no"} : Becomes(t, [r EXCEPT !.closure = x, !.session = "disposed"])
    BY <1>8 DEF SessionDisposed
  <2> DEFINE d == [r EXCEPT !.closure = x, !.session = "disposed"]
  <2>2. d.claim = r.claim /\ d.phase = r.phase /\ Becomes(t, d)
    BY <1>0, <2>1 DEF Runs
  <2> HIDE DEF d
  <2> QED
    BY <1>e, <2>2
<1>9. CASE RunSettles(t)
  <2> DEFINE c == [r EXCEPT !.phase = "settled"]
             d == Claimed(c, "run")
  <2>1. r.phase = "closing" /\ Becomes(t, d)
    BY <1>9 DEF RunSettles
  <2>2. c \in Runs /\ c.claim = r.claim /\ c.phase = "settled"
    BY <1>0, KeepsClaim DEF AllPhases
  <2> HIDE DEF c
  <2>3. d.phase = "settled" /\ d.claim = IF r.claim # "none" THEN r.claim ELSE "run"
    BY <2>2, ClaimedOwner
  <2> HIDE DEF d
  <2>4. OwnerOf(d) = OwnerOf(r)
    BY <2>1, <2>3 DEF OwnerOf
  <2> QED
    BY <1>s, <2>1, <2>4 DEF OwnerMoves
<1>10. CASE ResourcesReady(t) \/ ResourcesFail(t)
  <2>1. r.call = "resources" /\ r.phase = "none"
    BY <1>0, <1>10 DEF ResourcesReady, ResourcesFail, Good, CallAgrees
  <2>2. ASSUME NEW d, Becomes(t, d), d.claim = r.claim, d.phase \in {"none", "creating"}
        PROVE  OwnerMoves(r, run'[t])
    BY <1>k, <2>1, <2>2
  <2>3. ASSUME NEW d,
               \/ d = [r EXCEPT !.call = "returned", !.verdict = NothingStarted]
               \/ d = [r EXCEPT !.call = "thrown"]
               \/ d = [r EXCEPT !.call = "racing", !.phase = "creating",
                                !.timers = {"idle", "max_runtime"}]
        PROVE  d.claim = r.claim /\ d.phase \in {"none", "creating"}
    BY <1>0, <2>1, <2>3 DEF Runs
  <2>4. PICK d : /\ Becomes(t, d)
                 /\ \/ d = [r EXCEPT !.call = "returned", !.verdict = NothingStarted]
                    \/ d = [r EXCEPT !.call = "thrown"]
                    \/ d = [r EXCEPT !.call = "racing", !.phase = "creating",
                                     !.timers = {"idle", "max_runtime"}]
    BY <1>10 DEF ResourcesReady, ResourcesFail
  <2> QED
    BY <2>2, <2>3, <2>4
<1>11. CASE GovernorTrips(t)
  <2> DEFINE d == Claimed(r, "governor")
  <2>1. r.phase = "running" /\ r.claim = "none" /\ r.call = "racing" /\ Becomes(t, d)
    BY <1>0, <1>11 DEF GovernorTrips, Good, CallAgrees, Runs
  <2>2. d.phase = r.phase /\ (d.claim = r.claim \/ d.claim = "governor")
    BY <1>0, ClaimedOwner
  <2> HIDE DEF d
  <2> QED
    BY <1>0, <1>s, <2>1, <2>2, ClaimMoves
<1>12. ASSUME NEW timer \in {"idle", "max_runtime"}, WatchdogFires(t, timer)
       PROVE  OwnerMoves(r, run'[t])
  <2> DEFINE c == [r EXCEPT !.timers = @ \ {timer}]
             d == Claimed(c, "timeout")
  <2>1. timer \in r.timers /\ r.call = "racing" /\ Becomes(t, d)
    BY <1>0, <1>12 DEF WatchdogFires, Good, CallAgrees
  <2>2. c \in Runs /\ c.phase = r.phase /\ c.claim = r.claim
    BY <1>0, <2>1, TimerGood DEF Good
  <2> HIDE DEF c
  <2>3. d.phase = r.phase /\ (d.claim = r.claim \/ (r.claim = "none" /\ d.claim = "timeout"))
    BY <2>2, ClaimedOwner
  <2> HIDE DEF d
  <2> QED
    BY <1>0, <1>s, <2>1, <2>3, ClaimMoves
<1>13. CASE IdleTimeout(t) \/ MaxRuntime(t)
  BY <1>12, <1>13 DEF IdleTimeout, MaxRuntime
<1>14. CASE TerminationClaimed(t)
  <2> DEFINE c == [r EXCEPT !.timers = {}]
  <2>1. c \in Runs /\ c.phase = r.phase /\ c.claim = r.claim
    BY <1>0 DEF Runs
  <2>2. \E d : Becomes(t, d) /\ (d = Returned(c, TRUE) \/ d = [c EXCEPT !.call = "joining"])
    BY <1>14 DEF TerminationClaimed
  <2> HIDE DEF c
  <2>3. PICK d : Becomes(t, d) /\ (d = Returned(c, TRUE) \/ d = [c EXCEPT !.call = "joining"])
    BY <2>2
  <2>4. d.phase = r.phase /\ d.claim = r.claim
    BY <2>1, <2>3 DEF Returned, Runs
  <2> QED
    BY <1>e, <2>3, <2>4
<1>15. CASE Joined(t) \/ JoinExpires(t)
  <2>1. PICK joined \in BOOLEAN : Becomes(t, Returned(r, joined))
    BY <1>15 DEF Joined, JoinExpires
  <2>2. Returned(r, joined).phase = r.phase /\ Returned(r, joined).claim = r.claim
    BY <1>0 DEF Returned, Runs
  <2> QED
    BY <1>e, <2>1, <2>2
<1> QED
  BY <1>1, <1>2, <1>3, <1>4, <1>5, <1>6, <1>7, <1>8, <1>9, <1>10, <1>11, <1>13, <1>14, <1>15
     DEF RunStep, SessionStep, CallStep

-----------------------------------------------------------------------------
(* dispatch_parallel is the service.                                        *)
OwnerMap == [i \in Tasks |-> OwnerOf(run[i])]
SameOwners == OwnerMap' = OwnerMap
PoolStill == claimed' = claimed /\ finished' = finished /\ Concluded' = Concluded

LEMMA ClaimBegins ==
    ASSUME IInv, NEW i \in Tasks, Claim(i)
    PROVE  Service!Begin(i)
<1> USE DEF IInv, PoolInv
<1>1. /\ i \notin claimed /\ i \notin finished /\ free > 0 /\ ~aborted /\ HasRoom(i)
      /\ claimed' = claimed \cup {i} /\ finished' = finished /\ aborted' = aborted
      /\ ProviderOf[i] \in Providers
  BY PoolAssumption DEF Claim, NextTask, PoolShape
<1>2. Concluded = FALSE /\ Concluded' = FALSE
  BY <1>1 DEF Concluded, PoolShape
<1>3. Service!Served(ProviderOf[i]) = Busy(ProviderOf[i])
  BY DEF Service!Served, Busy
<1>4. Service!Cardinality(Service!Served(ProviderOf[i])) < MaxConcurrency
  <2>1. \A S : Service!Cardinality(S) = Cardinality(S)
    BY DEF Service!Cardinality, Cardinality
  <2> QED
    BY <1>1, <1>3, <2>1, BusyFinite DEF HasRoom
<1>5. SameOwners
  <2>1. ASSUME NEW j \in Tasks
        PROVE  OwnerOf(run'[j]) = OwnerOf(run[j])
    <3>1. CASE j = i
      <4>1. run[i].claim = "none" /\ run[i].phase = "none"
        BY <1>1 DEF CallsKnown, RunsGood, Good, CallAgrees, SessionAgrees
      <4>2. \/ run'[i] = Called
            \/ run'[i] = [Called EXCEPT !.call = "returned", !.verdict = NothingStarted]
        BY DEF Claim, RunsGood
      <4>3. run'[i].claim = "none" /\ run'[i].phase = "none"
        BY <4>2 DEF Called, NotStarted
      <4> QED
        BY <3>1, <4>1, <4>3 DEF OwnerOf
    <3>2. CASE j # i
      <4>1. run'[j] = run[j]
        BY <3>2 DEF Claim, RunsGood
      <4> QED
        BY <4>1
    <3> QED
      BY <3>1, <3>2
  <2> QED
    BY <2>1 DEF SameOwners, OwnerMap
<1>6. /\ Tasks \ claimed' = (Tasks \ claimed) \ {i}
      /\ claimed' \ finished' = (claimed \ finished) \cup {i}
      /\ i \in Tasks \ claimed
  BY <1>1 DEF PoolShape
<1>7. OwnerMap' = OwnerMap /\ aborted' = aborted /\ Concluded' = Concluded
  BY <1>1, <1>2, <1>5, Zenon DEF SameOwners
<1> QED
  BY <1>1, <1>2, <1>4, <1>6, <1>7, Zenon DEF Service!Begin, OwnerMap

LEMMA ExitConcludes ==
    ASSUME IInv, HolesMeanAbort', WorkerExits
    PROVE  Service!Conclude \/ UNCHANGED Service!serviceVars
<1>1. /\ free > 0 /\ UNCHANGED <<run, aborted, claimed, finished>>
      /\ claimed \subseteq Tasks
  BY DEF WorkerExits, IInv, PoolInv, PoolShape
<1>2. Concluded = FALSE /\ Concluded' \in BOOLEAN
  BY <1>1 DEF Concluded, IInv, PoolInv, PoolShape
<1>3. SameOwners
  BY <1>1 DEF SameOwners, OwnerMap
<1>4. CASE Concluded'
  <2>1. claimed \ finished = {} /\ (Tasks \ claimed = {} \/ aborted)
    BY <1>1, <1>4 DEF Concluded, HolesMeanAbort
  <2>2. /\ Tasks \ claimed' = Tasks \ claimed
        /\ claimed' \ finished' = claimed \ finished
        /\ OwnerMap' = OwnerMap /\ aborted' = aborted /\ Concluded' = TRUE
    BY <1>1, <1>3, <1>4, Zenon DEF SameOwners
  <2> QED
    BY <1>2, <2>1, <2>2, Zenon DEF Service!Conclude, OwnerMap
<1>5. CASE ~Concluded'
  <2>1. /\ Tasks \ claimed' = Tasks \ claimed
        /\ claimed' \ finished' = claimed \ finished
        /\ OwnerMap' = OwnerMap /\ aborted' = aborted /\ Concluded' = Concluded
    BY <1>1, <1>2, <1>3, <1>5, Zenon DEF SameOwners
  <2> QED
    BY <2>1, Zenon DEF Service!serviceVars, OwnerMap
<1> QED
  BY <1>4, <1>5

LEMMA FinishAnswers ==
    ASSUME IInv, NEW i \in Tasks, Finish(i)
    PROVE  Service!Answer(i)
<1>1. /\ free = 0 /\ free' = 1 /\ UNCHANGED <<run, aborted, claimed>>
      /\ i \in claimed /\ i \notin finished /\ finished' = finished \cup {i}
  BY DEF Finish
<1>2. Concluded = FALSE /\ Concluded' = FALSE
  BY <1>1 DEF Concluded
<1>3. /\ claimed' \ finished' = (claimed \ finished) \ {i}
      /\ i \in claimed \ finished
  BY <1>1
<1>4. /\ Tasks \ claimed' = Tasks \ claimed
      /\ OwnerMap' = OwnerMap /\ aborted' = aborted /\ Concluded' = Concluded
  BY <1>1, <1>2, Zenon DEF OwnerMap
<1> QED
  BY <1>3, <1>4, Zenon DEF Service!Answer, OwnerMap

LEMMA RunStepDecides ==
    ASSUME IInv, NEW t \in Tasks, RunStep(t), WhileWorkersWait
    PROVE  Service!Decide(t) \/ UNCHANGED Service!serviceVars
<1>1. PoolStill
  BY DEF PoolStill, WhileWorkersWait, poolVars, Concluded
<1>2. aborted' = aborted
  BY DEF RunStep, SessionStep, CallStep, Becomes, SessionCreated, SessionFails,
     ToolsRejected, Bail, PromptStarts, PromptAccepted, PromptFails, PromptReturns,
     LateStart, SessionDisposed, RunSettles, ResourcesReady, ResourcesFail, GovernorTrips,
     IdleTimeout, MaxRuntime, WatchdogFires, TerminationClaimed, Joined, JoinExpires
<1>3. \A u \in Tasks \ {t} : run'[u] = run[u]
  BY SessionStepGood, CallStepGood DEF RunStep, IInv
<1>4. CASE OwnerOf(run'[t]) = OwnerOf(run[t])
  <2>1. SameOwners
    BY <1>3, <1>4 DEF SameOwners, OwnerMap
  <2> QED
    BY <1>1, <1>2, <2>1 DEF Service!serviceVars, SameOwners, OwnerMap, PoolStill
<1>5. CASE OwnerOf(run'[t]) # OwnerOf(run[t])
  <2>1. OwnerOf(run[t]) = "none" /\ OwnerOf(run'[t]) \in Owners /\ run[t].call = "racing"
    BY <1>5, RunStepMoves DEF OwnerMoves, IInv
  <2>2. t \in claimed \ finished
    BY <2>1 DEF IInv, PoolInv, CallsKnown, Over
  <2>3. OwnerMap' = [OwnerMap EXCEPT ![t] = OwnerOf(run'[t])]
    BY <1>3 DEF OwnerMap
  <2>4. t \in Service!Undecided
    BY <2>1, <2>2 DEF Service!Undecided
  <2> QED
    BY <1>1, <1>2, <2>1, <2>3, <2>4 DEF Service!Decide, OwnerMap, PoolStill
<1> QED
  BY <1>4, <1>5

LEMMA AbortCancels ==
    ASSUME IInv, ParentAbort, WhileWorkersWait
    PROVE  Service!Cancel
<1>1. PoolStill
  BY DEF PoolStill, WhileWorkersWait, poolVars, Concluded
<1>2. /\ ~aborted /\ aborted' = TRUE
      /\ run' = [t \in Tasks |->
                   IF run[t].call = "racing" THEN Claimed(run[t], "parent") ELSE run[t]]
  BY DEF ParentAbort
<1>3. ASSUME NEW t \in Tasks
      PROVE  \/ OwnerOf(run'[t]) = OwnerOf(run[t])
             \/ /\ OwnerOf(run[t]) = "none" /\ OwnerOf(run'[t]) = "parent"
                /\ t \in claimed \ finished
  <2> DEFINE r == run[t]
  <2>1. Good(r) /\ r \in Runs
    BY DEF IInv, RunsGood, Good
  <2>2. CASE r.call = "racing"
    <3>1. run'[t] = Claimed(r, "parent")
      BY <1>2, <2>2
    <3>2. /\ Claimed(r, "parent").phase = r.phase
          /\ Claimed(r, "parent").claim = IF r.claim # "none" \/ r.sealed THEN r.claim ELSE "parent"
      BY <2>1, ClaimedOwner
    <3>3. t \in claimed \ finished
      BY <2>2 DEF IInv, PoolInv, CallsKnown, Over
    <3>4. r.claim = "none" /\ ~r.sealed => r.phase # "closing"
      BY <2>1 DEF Good, ClaimAgrees
    <3> QED
      BY <3>1, <3>2, <3>3, <3>4 DEF OwnerOf
  <2>3. CASE r.call # "racing"
    BY <1>2, <2>3
  <2> QED
    BY <2>2, <2>3
<1> DEFINE stopped == {t \in Service!Undecided : OwnerOf(run'[t]) = "parent"}
<1>4. stopped \in SUBSET Service!Undecided
  OBVIOUS
<1>5. OwnerMap' = [t \in Tasks |-> IF t \in stopped THEN "parent" ELSE OwnerMap[t]]
  <2>1. ASSUME NEW t \in Tasks
        PROVE  OwnerOf(run'[t]) = IF t \in stopped THEN "parent" ELSE OwnerOf(run[t])
    <3>1. t \in Service!Undecided <=> t \in claimed \ finished /\ OwnerOf(run[t]) = "none"
      BY DEF Service!Undecided
    <3> QED
      BY <1>3, <3>1
  <2> HIDE DEF stopped
  <2> QED
    BY <2>1 DEF OwnerMap
<1> HIDE DEF stopped
<1> QED
  BY <1>1, <1>2, <1>4, <1>5 DEF Service!Cancel, OwnerMap, PoolStill

(* Every step of the pool and of its runs is one of the service, or none.   *)
LEMMA NextServes ==
    ASSUME IInv, HolesMeanAbort', [Next]_vars
    PROVE  [Service!Next]_(Service!serviceVars)
<1>1. CASE \E i \in Tasks : Claim(i)
  BY <1>1, ClaimBegins DEF Service!Next
<1>2. CASE WorkerExits
  BY <1>2, ExitConcludes DEF Service!Next
<1>3. CASE \E i \in Tasks : Finish(i)
  BY <1>3, FinishAnswers DEF Service!Next
<1>4. CASE \E i \in Tasks : RunStep(i) /\ WhileWorkersWait
  BY <1>4, RunStepDecides DEF Service!Next
<1>5. CASE ParentAbort /\ WhileWorkersWait
  BY <1>5, AbortCancels DEF Service!Next
<1>6. CASE UNCHANGED vars
  BY <1>6 DEF vars, Service!serviceVars, Concluded
<1> QED
  BY <1>1, <1>2, <1>3, <1>4, <1>5, <1>6 DEF Next

LEMMA InitServes == Init => Service!Init
<1> SUFFICES ASSUME Init PROVE Service!Init
  OBVIOUS
<1>1. /\ claimed = {} /\ finished = {} /\ free = Total /\ aborted \in BOOLEAN
      /\ run = [t \in Tasks |-> NotStarted]
  BY DEF Init, RunInit
<1>2. OwnerMap = [t \in Tasks |-> "none"]
  <2>1. NotStarted.claim = "none" /\ NotStarted.phase = "none"
    BY DEF NotStarted
  <2> QED
    BY <1>1, <2>1 DEF OwnerMap, OwnerOf
<1>3. Concluded <=> Tasks = {}
  <2>1. Concluded <=> Total = 0
    BY <1>1 DEF Concluded
  <2>2. Total = 0 => Tasks = {}
    BY PoolAssumption
  <2>3. Tasks = {} => Total = 0
    <3> SUFFICES ASSUME Total # 0 PROVE 1 \in Tasks
      OBVIOUS
    <3> QED
      BY PoolAssumption
  <2> QED
    BY <2>1, <2>2, <2>3
<1> QED
  BY <1>1, <1>2, <1>3 DEF Service!Init, OwnerMap

(* The pool with its watchdogs, governor and late sessions gives what a     *)
(* caller relies on: a task at most once, an owner for good, and an end     *)
(* that leaves nothing waiting unless the parent aborted (index.ts:4090).   *)
THEOREM DispatchImplementsService == Spec => ImplementsService
<1>1. (IInv => HolesMeanAbort)'
  BY HolesAborted, PTL
<1>2. IInv /\ IInv' /\ [Next]_vars => [Service!Next]_(Service!serviceVars)
  BY <1>1, NextServes
<1> QED
  BY <1>2, InitServes, DispatchInvariant, PTL DEF Spec, ImplementsService, Service!Spec
=============================================================================
