------------------------------ MODULE WorkerRun ------------------------------
(***************************************************************************)
(* One sub-agent run of the dispatch extension (runInProcess in            *)
(* extensions/dispatch/index.ts) for each task.  The call starts an inner  *)
(* promise that creates a session, prompts it and closes it, and then      *)
(* waits for the first of four writers to claim the termination: the inner *)
(* promise itself, the parent's abort signal, a watchdog, the run          *)
(* governor.  A claim from outside closes the session at once and joins    *)
(* the inner promise for a bounded time.  Nothing makes the promises of    *)
(* the session settle: its creation and its prompt may stay pending for    *)
(* ever, and go on after the call has returned.                            *)
(***************************************************************************)
EXTENDS Naturals

CONSTANT Tasks

VARIABLES
    run,      \* [Tasks -> Runs], the state of runInProcess for each task
    aborted   \* the parent's abort signal

runVars == <<run, aborted>>

Owners == {"run", "parent", "timeout", "governor"}
NoVerdict == [clean |-> FALSE, status |-> "none"]

(* What a call returns that started no session.                             *)
NothingStarted == [clean |-> TRUE, status |-> "not_applicable"]

NotStarted ==
    [call |-> "none", phase |-> "none", claim |-> "none", sealed |-> FALSE,
     timers |-> {}, session |-> "none", closure |-> "none", late |-> FALSE,
     verdict |-> NoVerdict]

Called == [NotStarted EXCEPT !.call = "resources"]

RunInit ==
    /\ run = [t \in Tasks |-> NotStarted]
    /\ aborted \in BOOLEAN

-----------------------------------------------------------------------------
(* startSessionClosure: the session's shutdown handlers are emitted once;   *)
(* an immediate close disposes the session without waiting for them.        *)
Closed(r, immediate) ==
    IF r.session = "none" THEN r
    ELSE [r EXCEPT !.closure = IF @ = "none" THEN "pending" ELSE @,
                   !.session = IF immediate THEN "disposed" ELSE @]

(* FirstWriterTermination.tryClaim with its onClaim callback.               *)
Claimed(r, owner) ==
    IF r.claim # "none" \/ (r.sealed /\ owner # "run") THEN r
    ELSE IF owner = "run" THEN [r EXCEPT !.claim = owner]
    ELSE Closed([r EXCEPT !.claim = owner], TRUE)

(* sealRunTerminal.                                                         *)
Sealed(r) == [r EXCEPT !.sealed = TRUE, !.timers = {}]

(* recordProgress re-arms the idle watchdog.                                *)
Progressed(r) ==
    IF r.claim # "none" \/ r.sealed THEN r
    ELSE [r EXCEPT !.timers = @ \cup {"idle"}]

(* The inner promise's catch block, up to its await.                        *)
FailedUnsealed(r) == Closed([r EXCEPT !.phase = "closing"], TRUE)
Failed(r) ==
    Closed([IF r.claim = "none" THEN Sealed(r) ELSE r
               EXCEPT !.phase = "closing"], TRUE)

(* cleanupDone and closure_status of the result.                            *)
ClosedWell(r) == r.closure = "yes" \/ r.session = "none"
VerdictOfSession(r, joined) ==
    [clean |-> ClosedWell(r),
     status |-> IF r.session = "none" THEN "not_applicable" ELSE "complete"]
Verdict(r, joined) ==
    [clean |-> r.phase = "settled" /\ joined /\ ClosedWell(r) /\ ~r.late,
     status |-> CASE r.session = "none" -> "not_applicable"
                  [] r.session # "none" /\ r.closure = "yes" -> "complete"
                  [] r.session # "none" /\ r.closure # "yes"
                     /\ (r.closure = "no" \/ ~joined) -> "incomplete"
                  [] OTHER -> "unknown"]

Becomes(t, r) == run' = [run EXCEPT ![t] = r] /\ UNCHANGED aborted

-----------------------------------------------------------------------------
(* The settings and the resource loader of the child session are made; only *)
(* then is the signal looked at, and the watchdogs armed.                   *)
ResourcesReady(t) ==
    /\ run[t].call = "resources"
    /\ Becomes(t, IF aborted
                  THEN [run[t] EXCEPT !.call = "returned", !.verdict = NothingStarted]
                  ELSE [run[t] EXCEPT !.call = "racing", !.phase = "creating",
                                      !.timers = {"idle", "max_runtime"}])

ResourcesFail(t) ==
    /\ run[t].call = "resources"
    /\ Becomes(t, [run[t] EXCEPT !.call = "thrown"])

(* createAgentSession resolves.  A session that comes after a claim is      *)
(* closed at once.                                                          *)
SessionCreatedKept(t) ==
    /\ run[t].phase = "creating"
    /\ Becomes(t, Progressed([run[t] EXCEPT !.session = "open", !.phase = "created"]))

SessionCreated(t) ==
    LET r == [run[t] EXCEPT !.session = "open", !.phase = "created"] IN
    /\ run[t].phase = "creating"
    /\ Becomes(t, Progressed(IF r.claim # "none" THEN Closed(r, TRUE) ELSE r))

(* Creating the session fails, or something between there and the prompt.   *)
SessionFails(t) ==
    /\ run[t].phase \in {"creating", "created"}
    /\ Becomes(t, Failed(run[t]))

(* The stretch to the prompt is synchronous; a progress callback may abort. *)
ToolsRejected(t) ==
    /\ run[t].phase = "created"
    /\ Becomes(t, Closed([Sealed(run[t]) EXCEPT !.phase = "closing"], FALSE))

Bail(t) ==
    /\ run[t].phase = "created"
    /\ aborted \/ run[t].claim # "none"
    /\ Becomes(t, Closed([run[t] EXCEPT !.phase = "closing"], TRUE))

PromptStarts(t) ==
    /\ run[t].phase = "created"
    /\ ~aborted /\ run[t].claim = "none"
    /\ Becomes(t, Progressed([run[t] EXCEPT !.phase = "preflight"]))

(* preflightResult: the SDK is about to call the provider.  After a claim   *)
(* it throws instead, and the prompt fails.                                 *)
PromptAccepted(t) ==
    /\ run[t].phase = "preflight"
    /\ run[t].claim = "none"
    /\ Becomes(t, Progressed([run[t] EXCEPT !.phase = "running"]))

PromptFails(t) ==
    /\ run[t].phase \in {"preflight", "running"}
    /\ Becomes(t, Failed(run[t]))

(* A prompt may resolve although it was never accepted.                     *)
PromptReturns(t) ==
    /\ run[t].phase \in {"preflight", "running"}
    /\ Becomes(t, Closed(Progressed([Sealed(run[t]) EXCEPT !.phase = "closing"]), FALSE))

(* A provider request or a tool call starts although the run was claimed.   *)
LateStart(t) ==
    /\ run[t].phase = "running"
    /\ run[t].claim # "none"
    /\ Becomes(t, [run[t] EXCEPT !.late = TRUE])

-----------------------------------------------------------------------------
(* An event of the session exceeds a budget.  The session is closed in the  *)
(* microtask that follows the listener.                                     *)
GovernorTrips(t) ==
    /\ run[t].phase = "running"
    /\ run[t].claim = "none"
    /\ Becomes(t, Claimed(run[t], "governor"))

WatchdogFires(t, timer) ==
    /\ timer \in run[t].timers
    /\ run[t].phase # "created"
    /\ Becomes(t, Claimed([run[t] EXCEPT !.timers = @ \ {timer}], "timeout"))

IdleTimeout(t) == WatchdogFires(t, "idle")
MaxRuntimeNever(t) == FALSE /\ UNCHANGED runVars
MaxRuntime(t) == WatchdogFires(t, "max_runtime")

(* The signal aborts: every run that listens claims at once.                *)
ParentAbort ==
    /\ ~aborted
    /\ aborted' = TRUE
    /\ run' = [t \in Tasks |->
                 IF run[t].call = "racing" THEN Claimed(run[t], "parent") ELSE run[t]]

-----------------------------------------------------------------------------
(* disposeSubAgentSession: the shutdown handlers end, fail or are given up  *)
(* after three seconds, and the session is disposed if it is not yet.       *)
SessionDisposed(t) ==
    /\ run[t].closure = "pending"
    /\ \E outcome \in {"yes", "no"} :
          Becomes(t, [run[t] EXCEPT !.closure = outcome, !.session = "disposed"])

(* The inner promise settles and claims the termination for itself.         *)
RunSettles(t) ==
    /\ run[t].phase = "closing"
    /\ run[t].closure # "pending"
    /\ Becomes(t, Claimed([run[t] EXCEPT !.phase = "settled"], "run"))

(* The call goes on after the first claim; it joins what it did not win.    *)
Returned(r, joined) ==
    [r EXCEPT !.call = "returned", !.verdict = Verdict(r, joined)]

TerminationClaimed(t) ==
    LET r == [run[t] EXCEPT !.timers = {}] IN
    /\ r.call = "racing"
    /\ r.claim # "none"
    /\ Becomes(t, IF r.claim = "run" THEN Returned(r, TRUE)
                  ELSE [r EXCEPT !.call = "joining"])

Joined(t) ==
    /\ run[t].call = "joining"
    /\ run[t].phase = "settled" /\ run[t].closure # "pending"
    /\ Becomes(t, Returned(run[t], TRUE))

JoinExpires(t) ==
    /\ run[t].call = "joining"
    /\ Becomes(t, Returned(run[t], FALSE))

SessionStep(t) ==
    \/ SessionCreated(t) \/ SessionFails(t) \/ ToolsRejected(t) \/ Bail(t)
    \/ PromptStarts(t) \/ PromptAccepted(t) \/ PromptFails(t) \/ PromptReturns(t)
    \/ LateStart(t) \/ SessionDisposed(t) \/ RunSettles(t)

CallStep(t) ==
    \/ ResourcesReady(t) \/ ResourcesFail(t)
    \/ GovernorTrips(t) \/ IdleTimeout(t) \/ MaxRuntime(t)
    \/ TerminationClaimed(t) \/ Joined(t) \/ JoinExpires(t)

RunStep(t) == SessionStep(t) \/ CallStep(t)

(* What does not wait for the session: the watchdog, the bounded waits, and *)
(* the code between two awaits.  That the resources come or fail is assumed *)
(* as well: nothing bounds their loading (index.ts:2395).                   *)
OwnStep(t) ==
    \/ ResourcesReady(t) \/ ResourcesFail(t)
    \/ ToolsRejected(t) \/ Bail(t) \/ PromptStarts(t)
    \/ MaxRuntime(t) \/ SessionDisposed(t) \/ RunSettles(t)
    \/ TerminationClaimed(t) \/ Joined(t) \/ JoinExpires(t)

-----------------------------------------------------------------------------
Verdicts ==
    [clean : BOOLEAN,
     status : {"none", "not_applicable", "complete", "incomplete", "unknown"}]

Runs ==
    [call : {"none", "resources", "racing", "joining", "returned", "thrown"},
     phase : {"none", "creating", "created", "preflight", "running", "closing", "settled"},
     claim : {"none"} \cup Owners, sealed : BOOLEAN,
     timers : SUBSET {"idle", "max_runtime"}, session : {"none", "open", "disposed"},
     closure : {"none", "pending", "yes", "no"}, late : BOOLEAN, verdict : Verdicts]

Over(t) == run[t].call \in {"returned", "thrown"}

(* An outcome the run reached by itself stands: once it is closing without  *)
(* a claim, neither abort nor timeout nor governor can become the owner of  *)
(* the result (index.ts:2623).                                              *)
RunOutcomeKept ==
    [][\A t \in Tasks :
          run[t].phase \in {"closing", "settled"} /\ run[t].claim = "none"
            => run'[t].claim \in {"none", "run"}]_runVars

(* cleanupDone is only said of a run that is over and stays over: the inner *)
(* promise has settled, its session is disposed with its shutdown ended,    *)
(* and no provider request or tool call started behind the claim            *)
(* (index.ts:3191).                                                         *)
CleanMeansQuiet ==
    \A t \in Tasks : run[t].verdict.clean =>
        /\ run[t].phase \in {"none", "settled"}
        /\ run[t].session # "open" /\ run[t].closure \notin {"pending", "no"}
        /\ ~run[t].late

(* A call that is over leaves no watchdog armed and no session undisposed,  *)
(* also when the session is created only afterwards (index.ts:2702).        *)
NothingLeftBehind ==
    \A t \in Tasks : Over(t) => run[t].timers = {} /\ run[t].session # "open"

(* The closure evidence of a result is never "unknown" (index.ts:3204).     *)
ClosureKnown == \A t \in Tasks : run[t].verdict.status # "unknown"
=============================================================================
