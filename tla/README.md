# Verification of pi-astack

TLA+ models, TLC runs and TLAPS proofs for the parts of pi-astack in which
several asynchronous actors, processes and crashes decide what survives: the path
of a turn through the sediment extension into the canonical knowledge branch, the
drains and the recovery of that branch, the rotating logs, and the run of
sub-agents by the dispatch extension. All paths below are relative to
the repository's root (`extensions/...` is `src/extensions/...` of this project's
`PROJECT.json`).

1. [What the system is](#1-what-the-system-is)
2. [Inventory](#2-inventory)
3. [The modules and the code](#3-the-modules-and-the-code)
4. [The runs](#4-the-runs)
5. [Fairness](#5-fairness)
6. [What is proved](#6-what-is-proved)
7. [What the code does and the comments do not say](#7-what-the-code-does-and-the-comments-do-not-say)
8. [What is not modelled](#8-what-is-not-modelled)
9. [Plan](#9-plan)
10. [Running everything](#10-running-everything)

## 1. What the system is

pi-astack is a set of extensions for the `pi` coding agent. Each extension
registers handlers for the host's events (`session_start`, `agent_end`,
`session_shutdown`, ...), tools and slash commands. Everything runs in one
JavaScript process per `pi` session; several processes (other sessions, other
windows, a daemon) share the files under `~/.abrain` and the project.

Three properties of that setting shape every model here:

* *One event loop per process.* Code between two `await`s is atomic with respect to
  the same process. An action of a model is therefore the stretch from one `await`
  (or callback) to the next that touches shared state.
* *Shared files.* Two processes interleave at every file operation. Exclusion between
  them exists only where the code takes a lock: an OFD lock on the repository, or a lock
  file in front of maps and logs.
* *Death at any point.* A session is killed between any two steps; a file written by
  write-and-rename survives whole, everything in memory is lost, and the kernel
  releases the locks.

The memory path, in the order a turn takes it:

```
 agent_end --capture--> intake/pending --+
                                         | job           per-session slot, process cap
 session_start --recovery scan-----------+------------>  agent-end queue
                                                             |
       checkpoint <---- pass: windows, lanes, drafts <-------+   (claim per window)
           |                        |
           | acknowledge            | accept: receipt, then L1 event
           v                        v          (under the canonical mutation barrier)
      intake/acked            outbox/pending --drain--> branch (compare-and-swap)
                                                        --> L2 projection --> outbox/done
```

Content that reaches the repository by another way than the outbox (or that a publisher left
behind) becomes a commit by a *drain* of the canonical git runtime: a frozen operation,
a recovery journal, a compare-and-swap of the same branch and the convergence of the
shared index, resumed by the next session's startup.

## 2. Inventory

`PROJECT.json` lists all 37 components with their sources and status. Those that keep
state which more than one actor changes:

| component | state | operations | hard behaviour | what makes it correct |
|---|---|---|---|---|
| agent-end queue (`sediment/agent-end-queue.ts`) | slots per key, wake order, active workers, idle waiters | enqueue, pump, run a key, wait for idle | enqueue while running, settling or pumping; deferred pumps | one run per key, the cap, no lost wake-up, latest job kept, every key served |
| session checkpoint (`sediment/checkpoint.ts`) | per session: watermark, spine of entry ids, processed keys | load, classify lineage, build window, save | branch switches, compaction, upgraded slots, read outside and write inside the lock | windows join without gaps; a replay is recognised as one |
| intake and pass (`sediment/intake.ts`, `sediment/index.ts`) | pending and acknowledged turn records, claims, queue slots, running pass | capture, recover, claim, evaluate, save, drain, acknowledge | crash between any two files, second process, partial failure of drafts, continuation | a turn leaves `pending` only when evaluated; every turn leaves it |
| knowledge writer and outbox (`sediment/writer.ts`, `sediment/publication-outbox.ts`) | receipts in pending, done, failed; L1 events; branch; projection | accept, freeze, publish, materialise, acknowledge, fail | crash between receipt and event, lost compare-and-swap, late acknowledgement, merges | accepted work is published once and together with its merge, or visibly failed |
| canonical mutation barrier (`_shared/canonical-mutation-barrier.ts`, `_shared/git-singleflight.ts`) | promise chain per process, lease in the asynchronous context, OFD lock | ordinary, bounded and one-shot entry, nested and detached calls | deadline against turn, nesting, work that outlives its lease | operations exclude each other; BUSY is final; nobody waits for ever |
| dispatch (`dispatch/index.ts`, `dispatch/worker-run-governor.ts`) | call, session, claim, timers, worker pool | run a sub-agent, run a list in parallel | abort, timeout, budget and result racing each other; late provider or tool starts | one verdict, nothing left running that is reported as finished, slots bounded |
| canonical git runtime (`_shared/canonical-git-runtime.ts`, `canonical-ref-move.ts`, `git-exact-cohort.ts`) | branch, shared index, operation of a drain, readiness of the process | startup recovery, backlog, drain, publish, converge the index | crash or error between any two steps, a branch moved by hand, a caller told what happened | nothing published is lost, the answer is true, content becomes durable |
| convergence recovery (`_shared/convergence-recovery.ts`) | journal rows per episode and slot | claim, prepare, publish, converge, abort, end, fold | rows of two attempts, a stale fold, a spent budget | the journal is never contradictory |
| device join (`_shared/device-join-coordinator.ts`) | journal of a merge of two devices' histories | plan, apply, recover | crash between journal steps | recovery reaches the planned result or the start |
| workflow engine (`workflow/`) | interpreter position, run records | step, call, resume | cancel, failed steps | a step runs once, results in order |
| worker RPC, canonical control (`sediment/worker-rpc.ts`, `sediment/canonical-control.ts`, `sediment/local-executor-authority.ts`) | leadership, sessions, copy store | hello, lease, forward | daemon death, stale leader | one leader writes |
| edge protocol shadow (`sediment/edge-protocol-shadow.ts`) | append-only journal, cursor | append, recover | torn append | prefix survives |
| vault, bind intent, prompts (`abrain/`) | intent outbox, dialog promises | bind, authorise, ask | restart between intent and effect, dialog closed | an intent is applied once; each promise settles |
| rotating logs, file lock (`_shared/rotating-jsonl.ts`, `_shared/runtime.ts`) | log segments, lock files | append, rotate, steal a stale lock | rotation by two processes, two stealers | no row lost, one holder |
| stable-view publisher (`_shared/proposition-policy-stable-view-publisher.ts`, `-recovery.ts`) | published view, pointer | publish, recover | crash between view and pointer | readers see a complete view |

The remaining components are sequential transformations of one event, language-model
calls, read-side code and operator scripts; each has its reason in `PROJECT.json`.

`PROJECT.json` also lists the hazards: at which line what can go wrong that a test would
hardly reach, and the properties that would notice. The properties below were chosen
from that list.

How the modelled components meet:

* `sediment/index.ts` enqueues a job per session into the **agent-end queue**
  (call); the queue runs it and takes its `{more: true}` as a request to run it
  again (return value).
* The job is an **intake pass**. It reads and writes the **checkpoint** and the
  intake directory (shared files, also with the passes of other processes) and hands
  each draft to the **knowledge writer** (call, awaited).
* The writer accepts a draft as a receipt in the **outbox** and an L1 event, and starts
  a drain (call). Acceptance and publication run inside the **canonical mutation
  barrier**, which is shared with every other writer of the repository (lock file).
* A **canonical drain** moves the same branch under the same barrier. It and the outbox's
  publication see of each other only that the branch has moved: for the outbox
  that is a foreign commit and a lost compare-and-swap, for the drain a branch
  that is no longer the base of its operation.
* The **rotating logs** and the checkpoint's save go through the **file lock** of `runtime.ts`;
  they meet in nothing else.
* **Dispatch** shares only the process with the above. It talks to the SDK's session
  (calls, promises, event callbacks) and to the host's abort signal.

The components are not composed state by state where a contract is enough, and each contract is a
module of its own:

* `CoalescingQueue` between the queue and the pass. `AgentEndQueue` implements it for any set of keys;
  `SedimentIntake`, which has one session, uses it with one key: its `queued`/`pass` pair implements it too
  (`QueuesAsCoalescing`).
* `ExclusiveSection` between the barrier and its users. `CanonicalBarrier` implements it (`ImplementsSection`),
  and that is where exclusion is checked and proved. `PublicationOutbox` and `CanonicalDrain` take it for granted:
  `barrier` names its owner, `Free` says that there is none, and an owner leaves or dies.

`RotatingJsonl` does contain `FileLock` step by step: that lock is not
exclusive under all interleavings, and the log's properties are about the time in which it is.

## 3. The modules and the code

| module | role | models |
|---|---|---|
| `CoalescingQueue` | abstract specification | what the agent-end queue promises |
| `AgentEndQueue` | component, implements `CoalescingQueue` | `sediment/agent-end-queue.ts`, all of it |
| `SedimentCheckpoint` | pure operators | `sediment/checkpoint.ts`: lineage, windows, what a save writes |
| `SedimentIntake` | composition of capture, queue slot, pass, checkpoint and intake directory; its queue implements `CoalescingQueue` | `sediment/intake.ts`, the pass of `sediment/index.ts` |
| `ExclusiveSection` | abstract specification | what the canonical mutation barrier promises |
| `KnowledgeDelivery` | abstract specification | what acceptance and publication promise |
| `PublicationOutbox` | component, implements `KnowledgeDelivery` | `sediment/publication-outbox.ts`, `writer.ts` |
| `CanonicalBarrier` | component, implements `ExclusiveSection` | `_shared/canonical-mutation-barrier.ts`, `git-singleflight.ts` |
| `WorkerRun` | component | `runInProcess` of `dispatch/index.ts` |
| `DispatchService` | abstract specification | what a caller of `dispatch_parallel` relies on |
| `DispatchParallel` | composition of the runs with the worker pool, implements `DispatchService` | `dispatch_parallel` of `dispatch/index.ts` |
| `FileLock` | component | the lock file of `_shared/runtime.ts` |
| `RotatingJsonl` | composition of the log's rotation with `FileLock` | `_shared/rotating-jsonl.ts` |
| `CanonicalDrain` | component | the drain and startup recovery of `_shared/canonical-git-runtime.ts`, the journal of `convergence-recovery.ts`, the branch and index steps of `canonical-ref-move.ts` and `git-exact-cohort.ts` |
| `AgentEndQueueProofs`, `PublicationOutboxProofs`, `CanonicalBarrierProofs`, `DispatchParallelProofs`, `FileLockProofs`, `RotatingJsonlProofs`, `CanonicalDrainProofs`, `SedimentIntakeProofs` | theorems | the module each is named after |
| `MC...` | instances for TLC | |

`PROJECT.json` maps every definition to its lines. What follows is how state and steps
correspond. In all modules a name ending in a telling suffix (`...Never`,
`...OffByOne`, `...KeepingLease`), placed directly before the definition it resembles
and used by nothing, is a deliberately wrong variant: `PROJECT.json` "mutants" says
which property notices when the definition is exchanged for it. (One has a second role:
`BeginAlways` of `CanonicalDrain` is also the last case of `Begin`.)

### AgentEndQueue

`slots` is the Map from session key to slot (`latest`, `version`, `active`); `wakeOrder` is
the FIFO whose range is `wakeSet`; `workers` are the `runKey` activations between claim
and `finally`; `activeWorkers` is the counter the cap is enforced with;
`immediates` counts scheduled `setImmediate` pumps; `idleWaiters` are the promises of
`waitForIdle`. `submitted` and `served` are history. Each action is one event-loop
stretch: an enqueue, a fired immediate, the settlement of a job, the `finally` of
`runKey`, the report of an error. The pump's loop is unrolled into `PumpTake` and `PumpEnd` under the
flag `pumping`: `runKey` is called from inside the loop and runs synchronously to its
first await, so the job it starts may enqueue or wait while the pump is still in its
loop.

`CoalescingQueue` knows per key the job that waits and the job that runs. A request replaces the job that waits, a
job starts when its key runs none, and one that ends may ask to go on, which counts only if nothing newer waits.
`AgentEndQueue` maps a slot to a waiting job until a worker has claimed its latest one (`Waiting`), and the worker's
job to the running one (`Running`); wake order, cap, deferred pumps and idle waiters are stutters.
`SedimentIntake` maps `queued` and `pass`. There a pass may end in the step that starts it (a record that
is claimed elsewhere, `Brief`), and a process dies with its jobs (`Mortal`); the scheduler on its own has neither.

### SedimentCheckpoint and SedimentIntake

Entry ids are numbers (0 is `undefined`). A checkpoint is
its watermark, the recorded spine of branch ids (bounded, `BoundedSpine`), whether it
was written with lineage, and the processed keys. `ClassifyCheckpointLineage` is
the verdict of `classifyCheckpointLineage`; `OrderKept` is its scanning loop. A
candidate's key is the pair of its window and the draft, which is what the hash in
`index.ts:3443-3471` identifies.

`SedimentIntake` has one session: `session[e]` is the branch from the root to entry `e`, so
forks and compaction are trees of prefixes. `intake[e]` is the durable record of
the turn with tip `e`. Each process has a `scan` (the record a recovery scan selected
but has not enqueued), a `queued` job and a `pass`. The phases of a pass follow the
awaits of the code:

| phase | code | then |
|---|---|---|
| `start` | `StartPass`: the checkpoint at the start of the pass is noted (`StartJob` has claimed the record and restored the frozen branch); `Unbound`: the settings are off or the project is not bound | `open`, or the job is over |
| `open` | `OpenWindow`, `NoWindow`: load the checkpoint again, build the window; `SkipUnhealthy`: the main window of a turn that ended in an error or an abort is left; `SkipWindow`: a drain finds a turn in progress or too little text | `evaluate` or `end` |
| `evaluate` | `EvaluateWindow`, `HoldWindow`: the LLM lanes, terminal or retryable; `WriteDrafts`: each explicit draft goes to the writer, any subset settles | `save`; a held window: `drain` or `end` |
| `save` | `LoadPrevious`: the slot is read, before the file lock | `write` |
| `write` | `SaveCheckpoint`, `SaveFails`: under the lock, every field from what was read before | `drain`, `end`, or the job is over |
| `drain` | `DrainAgain`, `DrainStops`: another window, up to `MaxDrains` | `open` or `end` |
| `end`, `backlog` | `LoadEnd`, `Continue`, `NoBacklog`: is anything left for `{more: true}` | `list` or requeue |
| `list`, `ack` | `ListCovered`, `AckOne`: move the records the checkpoint covers, one file at a time | idle |

What decides about a window is in the record and the checkpoint, so a retry decides the same. `unhealthy` are the turns
whose receipt carries an error or abort as its stop reason; their entries wait for a healthy turn above them
(`index.ts:4345`). The size of a window follows from the branch and the watermark: it is cut at `MaxWindowEntries`, or by
the character limit, which each entry of the constant `LongEntries` uses up on its own (`Fits`). Windows with little text but a
signal for the classifier that is switched off are held. Two filters of the acknowledgement (`index.ts:1846-1848`) select
nothing here: a turn with an untrusted boundary to sub-agents has no receipt, because `agent_end` returns before it captures
(`index.ts:7219-7240`), and the receipts of one session id name one session file.

`evaluated` and `written` are history. The answer of a language model is an arbitrary
outcome, its drafts an arbitrary subset of the window's explicit blocks.

### KnowledgeDelivery and PublicationOutbox

`KnowledgeDelivery` has four variables: the windows still `open` for acceptance, and the items
`accepted`, `delivered` and `refused`. Items are delivered by whole merge, only when accepted, and never
both delivered and refused.

`PublicationOutbox` has, on disk, the receipts in `pending`, `done` and `failed`, the
`events`, the branch `head` (events and foreign commits), the `projection`
and the closed windows; per process a pass (probe, create the receipt, append the
event) and a drain (freeze a batch, move the branch by compare-and-swap, materialise, release
the barrier, acknowledge or fail item by item). The refinement maps `accepted <- events`,
`delivered <- head.events`, `refused <- failed`, the last because a receipt only
enters `failed/` when its work will not be published.

Modelled choices: the foreground lane, in which the acknowledgements run after the
barrier is released (the worker lane holds it through them, so its behaviours are among
these); publication and projector switched on; the freeze order of the code is by
file name, the model allows any choice of whole groups that leaves out only what is too large for the rest, which
contains it. As in the code a group that is too large is skipped before anything is asked of its rows (`TooLarge`), so a
contradiction in it is found later. Not modelled: the hold of legacy receipts by session, and the repair of
receipts that carry the world stamp (`publication-outbox.ts:686-752`), both for files written by
earlier versions.

### CanonicalBarrier

A call's `node` is its place in the process's promise chain, `answer` what its caller
was told, `context` the lease its asynchronous context carries, `awaitedBy` the
operation that awaits it. `lock` is the holder of the OFD lock, `leases` the set of
active leases. Ordinary, bounded (thirty seconds for queue and lock together) and
one-shot entries are separate actions; `CallInside` and `CallDetached` are calls made by
an operation in progress, awaited and not awaited. Release of the lock and advance
of the chain are one step, since no other code of the process runs between them and a
second process sees only the lock. Errors of an operation are the same as its value
here: the answer is "value" or "busy". Users of `gitSingleFlight` that take no lock
(`requestBacklogPreflight`, the workflow executor with a key of its own) are left out.

`ExclusiveSection` has the set of owners inside: an owner enters an empty section, and it is left. The barrier maps
everything in progress in any process, nested and detached operations too, to the lease it runs under
(`InProgress`), so an operation that outlives its lease would be a second owner. Release, time-out, lost race and crash are all `Leave`.

### WorkerRun and DispatchParallel

For each task `run[t]` holds the `call` (what the caller of `runInProcess` sees), the `phase`
of the inner promise, the `claim` (`FirstWriterTermination`), `sealed`, the armed
`timers`, the `session`, its `closure`, whether the provider or a tool started `late`,
and the `verdict` (the two facts of the result about what still runs).

`DispatchParallel` adds the claimed and finished tasks, `activeByProvider` and the
number of workers at the top of their loop. `WhileWorkersWait` is
the event loop: from the top of its loop to its first await a worker is synchronous, so nothing else
moves while one is there.

`DispatchService` has the tasks nobody serves yet, the tasks being served, the owner of each task's outcome, the
parent's cancellation and whether the call is over. The pool maps `waiting <- Tasks \ claimed`,
`serving <- claimed \ finished`. The owner is the claim, except that a run which ends by itself owns its outcome from
the moment it starts closing (`OwnerOf`): no claim from outside succeeds any more, although
`FirstWriterTermination` is told only when the inner promise settles. Sessions, timers, verdicts and the workers'
rounds are stutters; that the last worker to leave leaves no task behind is what makes `Conclude` a step.

Approximations, all towards more behaviour: a governor budget may trip at any event;
the hard close in the governor's microtask is folded into the claim; the synchronous
stretch from `createAgentSession` to `prompt` is several steps, so a parent's abort can
fall into it. Anything that throws between the creation of the session and the acceptance of the prompt, or before
it, is `SessionFails`; a prompt may also return without having been accepted (`PromptReturns` from `preflight`). A closure that ends as "no" is a shutdown handler that failed or timed out, or a
`dispose` that threw. A refusal before the session exists (unknown tool, unknown model,
also after the registry refresh) is `Malformed`. The `ctx.signal` and the tool
call's signal are one signal. Assumed: after `prompt()` has settled the SDK
emits no further event. Left out: audits, traces, heartbeat and storm shadow,
which only observe, and a rejection of the inner promise outside its own `catch`, which
the code cannot produce.

### FileLock and RotatingJsonl

`lock` is the owner named by the file at the lock's path (`Nobody` when its owner is dead or
its record was never written), `stage` where a process is in `acquireFileLock`, `fresh` the
thieves whose examined file is still at the path. The code unlinks by *path*: `UnlinkPath` removes whatever
is there, and `overtaken` records that it was another file than the one examined. The comment at
`runtime.ts:751-753` says that the second look prevents the deletion of a successor's lock; between
that look and the unlink at `:767` a window of one file operation remains. With `overtaken`
two processes may hold the lock at once, and then `RowsKept`, `NeverWedged`, `RotationResumes` and the last
part of `TypeOK` claim nothing (nor does `HoldersExclusive`): the check of a file's identity and its rename, one step of the model, are several
file operations in the code, and only the lock keeps another holder from coming between them.

Failures at the lock differ in what they leave. A creator that cannot write its record removes its file (`FillFails`). Strict
maintenance does not: before the record is written its file is nobody's, after that it names a living process (`FillFault`). So
does the file of a release that can neither be read nor removed, which the code swallows (`runtime.ts:724-732`). Such a file (`LeaveBehind`)
is in the way of everybody until its process dies; `Stranded` is that state.

`RotatingJsonl` numbers the files ever created. `active` and `archived` are names for files, so a
rename moves a name and leaves an opened handle (`fd`) with its file. `txn` is the
transaction file and `copy` what the process in the lock has loaded of it. `pc` follows the awaits:
`lock`, `generation` (`recoverGenerationLocked`), `decide` (`rotateLocked`), `phase` and `record` (the work of
a phase and its record), `release`, `open`, `opening` and `write` (the append itself, without the lock). The append looks at
the path, opens it, and gives up when it has opened another file than it saw. A rotation in between needs no failure for that:
the row is not reported, and the file that the open has created stays (`OpenRaced`). An
interrupted rotation is repeated from its recorded phase, and every phase finds its own work done or not
done. A `strict` call (`rotateJsonlGenerationStrict`) carries the file it wants archived.

Modelled choices: the creator of a lock file writes its record within the staleness bound; the read and
the unlink of a release, and the check and the rename of a phase, are one step each (only a second holder could
come between them); archive name and generation id, both unique by construction, are one number; the calls of
one process are serial (`serializeForPath`); `OtherRow` is any row whose fate is not asked for.

### CanonicalDrain

`commits` are the commit objects (ancestors and tree), `head` the branch, `index` and `work` the shared
index and the working tree, `rows` the journal, whose rows are files of the repository as well and ride along in
later cohorts. `ops[e]` is the frozen operation of episode `e`: base, cohort, what the index held of it and the
candidate commit. `at[p]` is the await the process stands at, with its episode, slot and the
way it came (`via`: a caller's drain, startup, backlog, or a join). Files are
written once, so `git status` is set arithmetic (`Dirty`, `Staged`).

| step | code |
|---|---|
| `Startup`, `ResumeEpisode`, `Join`, `RefuseJoin`, `Backlog` | `recoverStartupEpisodesUnlocked`, `runCsjInBarrier`, `requestBacklogPreflightUnlocked` |
| `RequestDrain`, `Claim`, `Prepare` | `requestDrainUnlocked`, `claimNextRecoverySlotV3`, `prepareExactCohortCommit` and its row |
| `Recover`, `Cas`, `RecordPublished` | `recoverDrainSlotV3`, `canonicalRefMovePrimitive` |
| `ReadTarget`, `ConvergeIndex`, `RecordConverged` | `convergeExactCohortIndex` and its row |
| `AnswerDurable` | the look at the branch after the converged row, which may throw; then the answer |
| `Throw`, `Dispose` | a failure on the way; the fault handler's own questions to git (`resolvePublishedPendingAfterRecoverFault`), which may fail too, and its answer |
| `Abort`, `EndEpisode` | `abortRecoverySlotV3AfterRefold`, the terminal row |
| `Write`, `ForeignCommit`, `Fault`, `Crash`, `Restart` | writers of content, `git commit` by hand, a failed operation, the process |

The fold of the journal (`Last`, `Prepared`, `Aborted`, `Terminal`, `Open`, `Pending`) is a set of predicates over
`rows`, as the code's fold is a function of the files it lists; nothing of it is kept between two steps.

Modelled choices: an attempt of startup whose inputs drifted starts over and leaves nothing, so only attempts that
go on are steps; the branch is only extended (no reset, no force push); `HistoryAccepted` stands for
`assertReachableRecoveryRetention`; whether a join is eligible is an open choice between `Join` and
`RefuseJoin`; the number of rounds the loop makes after a join is not counted, giving up is always possible. Not
modelled: the last-known-ready shortcut, the metadata checkpoint and the join of two devices before the episodes,
the scan mutex and the deferral of a scan over budget, files that a person staged besides, ownership and provenance
checks (each refuses or passes). Quarantine, a claim on a complete episode and the liveness error of the journal are
throws that `JournalSound` shows to be unreachable.

## 4. The runs

| run | configuration | bounds | what it shows |
|---|---|---|---|
| `queue` | `AgentEndQueue.cfg` | three keys, cap 2, one key submitted twice, at most 2 pending immediates, one idle waiter | exclusion, cap, no lost wake-up, no dropped latest job, and the whole as a `CoalescingQueue`; every key is served, every waiter released |
| `intake_shared` | `SedimentIntakeShared.cfg` | 2 processes, 2 entries, each turn healthy or not, window of 1, spine of 1, 1 explicit draft, 1 crash | neither an acknowledgement nor the watermark outruns the evaluation; a draft behind the watermark was written; an unhealthy turn is acknowledged only behind a healthy one; passes are queued as a `CoalescingQueue` |
| `intake_live` | `SedimentIntakeLive.cfg` | 1 process, 2 entries, each turn healthy or not, window of 1, 1 drain, 1 crash | every captured turn is acknowledged unless the newest pending receipt is an unhealthy one for good; without scans the process comes to rest; the lineage loop decides "ordered subsequence" (all pairs of sequences over 3 ids up to length 4) |
| `outbox` | `PublicationOutbox.cfg` | 2 processes, a merge of two and a single contradictory item, batch limit 1, 1 foreign commit, 1 crash | safety of the outbox, and its refinement of `KnowledgeDelivery` |
| `outbox_live` | `PublicationOutboxLive.cfg` | the same with 1 process | every accepted item of a closed window is published or visibly failed |
| `barrier` | `CanonicalBarrier.cfg` | 2 processes, five calls (ordinary, two bounded, one-shot, and one in the other process), 1 crash | refinement of `ExclusiveSection`, BUSY is final, every call answered |
| `dispatch` | `DispatchParallel.cfg` | 3 tasks, two of one provider with room for one, one malformed of another | refinement of `DispatchService`, results tell the truth, slots are exact, no task waits beside a free slot, the call returns once the resources have come or failed |
| `git_drain` | `CanonicalDrain.cfg` | 2 processes, 2 content files, 2 slots per episode, 2 crashes or failed operations, 1 commit by hand | the journal never contradicts itself, nothing published or committed by hand leaves the branch, index and branch agree, callers are told the truth (an error hides a landed commit only after two failures, or one after convergence), content becomes durable |
| `rotation` | `RotatingJsonl.cfg` | 2 processes, one that rotates and one that does not, 1 row followed and any number besides, 2 generations, 1 crash or failed operation, and any number of failed releases | one holder of the lock, no reported row is lost or doubled; an interrupted rotation can be finished, and is unless a lock file of a living process stays behind |
| `intake_stale` | `SedimentIntakeStale.cfg` | 1 process, 3 entries, window of 2 | section 7 |
| `intake_retry` | `SedimentIntakeRetry.cfg` | 1 process, 3 entries, window of 3, drafts in the first two | section 7 |
| `outbox_split` | `PublicationOutboxSplit.cfg` | smallest instance that reaches the divergence | section 7 |

Why the bounds are enough for what they claim:

* **queue.** Three keys for two places is the least in which a key waits behind a
  full cap while another one is released and re-enqueued. The second submission of `k1` meets
  each state of its slot. Two outstanding immediates show what more
  of them do: a pump that finds the work already taken by the one before.
* **intake.** Two entries give an extension and a fork. The spine of one in `intake_shared`
  makes the bounded record forget the watermark's ancestors, the worst case of lineage. A second
  process gives every order of two read-modify-write sequences on the checkpoint; one crash gives
  every point of death, the restart and the recovery. Windows are smaller than
  branches in `intake_shared` and `intake_live` (window of 1, two entries): the windows of two processes and of
  consecutive passes have to join, and continuation is exercised. `LongEntries` is empty in the runs: with
  two or three entries the count cuts the windows in the same places. In `intake_retry` the window is large enough
  for a retry to see the turn captured in between.
* **outbox.** A merge larger than `BatchLimit` and a single item that fits are the two sides
  of the freeze; the contradictory item reaches `failed/`. The foreign commit makes the
  compare-and-swap lose and retry. A crash falls between any two files.
* **barrier.** The bounded calls can wait behind an ordinary one in the chain and behind
  the remote one at the lock, separately and one after the other; any of them can
  be made inside any other.
* **dispatch.** Two tasks of a full provider and a third behind them distinguish the order of claiming from
  first-come-first-served; the malformed one ends without a session.
* **git_drain.** A budget of two slots (five in the code, `RECOVERY_LANE_BUDGETS.drain`) is the least with a retry
  and with exhaustion. Two faults reach an interrupted recovery of an interrupted drain. The hand-made commit
  makes each compare-and-swap lose, each candidate a sibling of the branch, and the index disagree with a
  convergence in progress. Two faults are also a failure and a failing fault handler. With two files one drain leaves content behind for the backlog.
* **rotation.** One crash leaves a transaction in each of its phases, or a lock file without an owner; the two
  processes are then two thieves, one of which may be overtaken. Two generation ids are one rotation: what a second
  would add is a name that the code makes unique. The process that does not rotate still must finish what it finds.

`MaxEnqueues`, `MaxImmediates`, `MaxEntries`, `MaxCrashes`, `MaxForeignMoves`, `MaxFaults`, `MaxForeign` and
`MaxGens` are bounds
of the models and not of the code; `MaxGlobalConcurrent`, `MaxWindowEntries`,
`MaxBranchEntryIds`, `MaxDrains`, `BatchLimit`, `MaxConcurrency` and `Budget` are settings of the code, with small values. `CHECK_DEADLOCK FALSE` is
set where the system stops because its bounded input is used up: the last job is
served, the last turn acknowledged, the last item settled, the last task returned. In
`CanonicalBarrier` each call is made at most once, and when all are answered there is no step; that
nobody is stuck before is what `EveryCallAnswered` says. `CanonicalDrain` stops when every process is cold and
the history is refused: a hand-made commit that drops journal rows blocks each startup until the owner
acts, which is intended (`OwnerAsked`).

## 5. Fairness

* **AgentEndQueue**: weak fairness of a scheduled immediate and of the pump's loop (the
  event loop turns), strong fairness of the settlement of each running job (a
  job is bounded by its own timeouts). `WaitersReleased` also needs `BacklogsAreFinite`: a key
  whose job asks for more on each run never becomes idle, in the code as in the model.
* **SedimentIntake**: weak fairness of starting a queued job and of a running pass. `RecoveryRecurs` is
  a hypothesis in the property and not part of the specification: sessions keep
  being started (weak fairness of `Restart`, strong of scan and enqueue), and a step that can fail because of
  something outside the record does not fail for ever (strong fairness of `StartJob`, `StartPass`, `EvaluateWindow`,
  `SaveCheckpoint`, `ListCovered` and `AckOne`). Nothing is assumed of the opening of a window, which the record decides.
  That needs the second hypothesis of `EveryTurnAcked`: a scan enqueues the newest pending receipt of a session only
  (`index.ts:901`), so if that one is unhealthy for good, it and the older ones wait until a healthy turn is captured
  (`NewestUnhealthy`; without the hypothesis the run fails). `Quiesces` is stated without both, and with scans ended instead.
* **PublicationOutbox**: weak fairness of the writer, strong fairness of each drain step. A lost
  compare-and-swap or a failed append is possible each time, but not each time
  for ever; the triggers of a drain recur (each acceptance, each `session_start`).
* **CanonicalBarrier**: weak fairness of the advance of each call. Nothing is assumed of
  the lock's fairness; it is the bounded wait that gives the caller its answer, and an ordinary
  call waits only for operations that end.
* **DispatchParallel**: weak fairness of what does not depend on the SDK: the maximum-runtime watchdog,
  the bounded waits, the code between two awaits, the workers. Session creation and prompt may hang for ever, the
  loading of the resources before them may not.
  `ResourcesReady`/`ResourcesFail` are in that set although nothing in the code bounds those awaits
  (`index.ts:2228`, `:2395`): listed as a hazard, and without the assumption `CallReturns` is false.
* **CanonicalDrain**: weak fairness of what has entered the barrier (the code between two awaits goes on),
  strong fairness of a startup (the barrier is free again and again, and a process that asks gets its turn), weak
  fairness of the end of a session: without a further startup nobody looks for the backlog. No drain is assumed.
* **RotatingJsonl**: strong fairness of appends (sessions go on writing rows) and of the steps at the lock
  (it is polled, and found free or abandoned again and again), weak fairness of a call in progress,
  including its time-out. `RotationResumes` says that a transaction is finished unless a thief was overtaken or the lock
  is `Stranded`: while the process that left its file lives, nobody may take the lock, and the code has no other way.

## 6. What is proved

TLC decides the instances of section 4. TLAPS proves the following for every value of the
constants that satisfies the named assumption of the module. The assumptions are the
shape of the parameters and nothing more (finite set of keys, a positive cap, a merge is an
equivalence class within one window, tasks are `1..Total`). They are evaluated on each
run.

| theorem | statement |
|---|---|
| `AgentEndQueueProofs!TypeCorrect` | `Spec => []TypeOK` |
| `AgentEndQueueProofs!RunsSerialUnderCap` | one run per key, and the cap is kept |
| `AgentEndQueueProofs!NothingForgotten` | no lost wake-up, no slot without work, no latest job dropped |
| `AgentEndQueueProofs!LatestJobKept` | `[]LatestNeverDropped` by itself, as the run checks it |
| `AgentEndQueueProofs!QueueImplementsCoalescing` | `Spec => ImplementsCoalescing`, the refinement |
| `AgentEndQueueProofs!WaitersReleasedOnlyIdle` | action property: a waiter is released only when the queue is idle |
| `PublicationOutboxProofs!OutboxTypeCorrect` | types, and the holder of the barrier is inside its section |
| `PublicationOutboxProofs!ReceiptsPrecedeEvents` | an event has a receipt |
| `PublicationOutboxProofs!DoneIsPublished` | a receipt in `done/` is on the branch and in the projection |
| `PublicationOutboxProofs!ForeignCommitsSurvive` | no foreign commit is dropped |
| `PublicationOutboxProofs!MergesNeverSplit` | under `SoundMerges`: all or none of a merge |
| `PublicationOutboxProofs!OutboxImplementsDelivery` | under `SoundMerges`: `Spec => ImplementsDelivery`, the refinement |
| `CanonicalBarrierProofs!BarrierTypeCorrect` | types, and the active lease is the lock holder's |
| `CanonicalBarrierProofs!OperationsExclusive` | operations exclude each other, nested ones run under the holder's lease |
| `CanonicalBarrierProofs!BarrierImplementsSection` | `Spec => ImplementsSection`, the refinement |
| `CanonicalBarrierProofs!BusyIsFinal` | after BUSY the operation never runs |
| `CanonicalBarrierProofs!TurnsNeverOverlap` | one chained call per process |
| `DispatchParallelProofs!DispatchTypeCorrect` | types, and `activeByProvider` counts exactly |
| `DispatchParallelProofs!ResultsTellTheTruth` | `[]CleanMeansQuiet` |
| `DispatchParallelProofs!CallsLeaveNothing` | `[]NothingLeftBehind` |
| `DispatchParallelProofs!ClosureIsKnown` | `[]ClosureKnown` |
| `DispatchParallelProofs!OutcomesStand` | action property `RunOutcomeKept` |
| `DispatchParallelProofs!LoadIsBounded` | `[]LoadBounded` |
| `DispatchParallelProofs!WorkIsConserved`, `HolesAreAborts` | no task waits while there is room; a missing result is an abort |
| `DispatchParallelProofs!DispatchImplementsService` | `Spec => ImplementsService`, the refinement |
| `FileLockProofs!LockExclusive` | `LockSpec => []HoldersExclusive`: one holder, unless a thief was overtaken |
| `RotatingJsonlProofs!RotationTypeCorrect` | types, and with one holder the transaction in memory is the one on disk |
| `RotatingJsonlProofs!RowsAreKept` | a reported row is in exactly one file, which has a name |
| `RotatingJsonlProofs!RotationNeverWedged` | every transaction that is left behind can be taken up |
| `RotatingJsonlProofs!RotationsExclusive` | the lock excludes inside the log's specification as it does alone |
| `CanonicalDrainProofs!DrainTypeCorrect` | types, known files, acyclic ancestry, one process behind the barrier |
| `CanonicalDrainProofs!JournalIsSound` | the fold meets no contradiction; at most one unresolved operation |
| `CanonicalDrainProofs!PublishedIsKept` | published operations and commits by hand stay on the branch |
| `CanonicalDrainProofs!IndexIsTheBranch` | index and branch agree when nothing is unresolved and nobody commits by hand |
| `CanonicalDrainProofs!ReportsAreTruthful` | action property: a drain's answer agrees with the branch, and an error hides a landed commit only if another failure hit the fault handler or the last look at the branch |
| `SedimentIntakeProofs!IntakeTypeCorrect` | types, and the recorded spine within its bound |
| `SedimentIntakeProofs!AckedIsEvaluated` | an acknowledged record has its whole branch evaluated |
| `SedimentIntakeProofs!WatermarkIsEvaluated` | nothing unevaluated behind the watermark |
| `SedimentIntakeProofs!CoveredIsWritten` | no unwritten draft behind the watermark |
| `SedimentIntakeProofs!UnhealthyWaits` | an unhealthy receipt is acknowledged only behind a healthy turn |
| `SedimentIntakeProofs!PassesQueueAsCoalescing` | `Spec => QueuesAsCoalescing`: the passes of each process as a `CoalescingQueue` |
| `SedimentIntakeProofs!LineageLoopDecides` | for all sequences: `OrderKept(branch, spine) <=> OrderedSubsequence(branch, spine)` |
| `SedimentIntakeProofs!LineageLoopDecidesInRun` | the same in the form the run checks |

The argument of each module is an inductive invariant. None of the properties above is
inductive on its own:

* **AgentEndQueue.** `IInv` is the conjunction of the properties with `WakeDistinct` (a key
  is at most once in the wake order) and `ClaimsKnown` (a claimed job was submitted). The
  properties need each other: that the counter counts exactly needs the serial runs, the
  serial runs need `EverySlotOwed` (an active slot is not in the wake order), and this needs
  `WakeDistinct`. `NoLostWakeup` is kept by `Retire`, which schedules a pump
  exactly when it frees a place. The refinement of `CoalescingQueue` adds `JobsKnown` (what a worker claimed is what its
  key was served last) and then compares, step by step, the slot of one key and nothing else (`Elsewhere`). The
  settlement of a job is `Finish` or `Continue`: which one depends on `NewerJob`, and that the version in the slot
  tells a newer job from the claimed one is `LatestNeverDropped`.
* **PublicationOutbox.** The history of a drain is in its phases: `DrainsSound` says for each
  phase what the batch it carries already has (a closed window, events on
  disk, whole merges, on the branch, projected). It survives other processes because `events`,
  `head.events` and `projected` only grow and windows only close (`Monotone`), and the
  compare-and-swap because `CarriesWhole` compares with the branch *at the freeze*, which the swap
  then finds unchanged. `ReceiptFirst` and `OneAtATime` are the same for the writer.
  `FailedApart` and `MergesWhole` need `SoundMerges`; run `outbox_split` shows that they fail without
  it. The refinement follows: a compare-and-swap that succeeds is one `Deliver` of whole groups from
  closed windows, an append is `Accept`, a move to `failed/` is `Refuse`, and all else stutters.
* **CanonicalBarrier.** `LockInv` ties the lock to the one call in `run` and
  each nested call to it; `ChainInv` says that a chain has distinct nodes and only its first has started.
  `BusyNeverRuns` follows from `Unanswered`: before it settles a call that could still run has no answer.
  For the refinement of `ExclusiveSection` the set of owners inside is the holder of the lock or empty (`SectionsAreLock`),
  and a step takes a free lock, gives it back or leaves it alone (`LockMoves`).
* **DispatchParallel.** `RunsGood` says of one run's record that its call, phase,
  claim, session, closure and verdict agree; each step is proved as a lemma on records
  (`...Good`), so that the proof over tasks is a case split. `PoolInv` contains the fact that makes
  exiting workers safe: `EnoughWorkers`, for every set of unclaimed tasks the caps have room for there is a
  worker at the top of its loop for each. It is quantified over sets because the tasks
  that fit change with each claim; a count of unclaimed tasks would not be inductive.
  For the refinement of `DispatchService` each step of a run leaves the owner of its outcome alone or
  decides it while the call is in its race (`OwnerMoves`, lemma by lemma over the same helpers), and the race is
  over for a task that is not being served (`CallsKnown`). A worker's exit is `Conclude` or a stutter; that it is never an
  end with a task forgotten is `HolesAborted`, which is `EnoughWorkers` for a single task.

* **FileLock.** `OwnersHold`: without an overtaken thief, whoever is between the creation of its file and its release
  finds that file at the path. It needs `FreshIsDead`: a thief whose examined file is still there looks at a
  file that is nobody's, so its unlink takes nothing from an owner.
* **RotatingJsonl.** `RowsInv` follows each row: it was written to one file, and no file loses its last name. That part needs
  no exclusion in the model. `LogInv` does: `TxnSound` says for each phase what of it is already done (metadata
  renamed, active file archived), `HolderSound` that the transaction a holder carries is the one on disk, and
  both are claimed only while nobody was overtaken. `Recoverable` follows from the phase.
* **CanonicalDrain.** Four parts. `EpisodeSound` makes the rows of an episode a protocol: slots are claimed in order, all but
  the last are burned, only the last can be prepared and then published and converged, and a terminal row is on
  a burned last slot. `CommitsSound`: ancestry is a transitive order, a candidate is its base and
  itself, and a commit that is no candidate is on the branch. `OneOpen` and `IndexFollows`: at most one operation is
  unresolved, and without commits by hand the branch is its base or its candidate, and the index the tree of one of
  them. `PlaceSound` says for each await what the process there still knows, in particular that a process at the
  compare-and-swap has a prepared row and one at the index a published one. It holds across crashes because
  a place outside the barrier claims nothing and everything inside is read again from the rows. `Join` preserves
  `IndexFollows` because a candidate is a sibling of the branch only after a commit by hand.
* **SedimentIntake.** Everything a file or a pass carries must be *settled*: evaluated, written if it is a draft, and on the branch of a healthy captured turn.
  (The last holds because a pass opens windows only when its own turn is healthy, and is all that `UnhealthyWaits` needs.)
  `TreeSound` says that the branch of an entry on a branch is the prefix that ends there, so that "the branch of the
  watermark is settled" says the same on each branch that shows it. `WindowAt` is what joins the windows: a window
  continues the branch right behind settled entries, because it was built behind a watermark (or from the root).
  Settled entries, the session tree and written drafts only grow (`Grows`), so a pass may hold an old checkpoint for as long
  as it likes: a save that overwrites a newer one moves the watermark back, never past something unsettled.
  `KeysSound` is the same for the candidate keys that let a retry skip a draft. The argument never uses that a
  window has one claim: the claim saves work, safety does not depend on it.

  The refinement of `CoalescingQueue` needs of all this only that a pass has the tip of a captured turn; the
  comparison is with the places where `queued` and `pass` change.
* **The lineage loop.** `OrderKept` is the loop with its cursor as a recursive function over the branch. `CursorSound` says what the
  cursor means after `n` ids: it stands behind the earliest positions of the spine that show them in order, or is 0 and there
  are none; `Cursor_Steps` is one turn of the loop. The library's induction theorems take an operator
  and cannot be cited here, so the induction over the branch, and that the recursive definition defines a function
  at all (`CursorsExist`), are made from the least element of a set of numbers (`LeastNumber`), which follows from the
  well-foundedness of the strict order on the finite sets `0 .. n`.

`WaiterReleasedOnlyIdle`, `EverySlotOwed`, `EventHasReceipt`, `TurnsSerial`, `MutationsExclusive`, `ClosureKnown`,
`HolesMeanAbort` and the `TypeOK` of `AgentEndQueue`, `PublicationOutbox`, `CanonicalBarrier`, `CanonicalDrain` and `DispatchParallel`
are proved and not part of a run of their own; what they say is used in the refinements or weaker than them. All other
theorems state what a run of section 4 checks as well.

What the prover does not reach and stays with TLC: every liveness property and `ENABLED`. Those are `EveryKeyServed`,
`WaitersReleased`, `EveryTurnAcked`, `Quiesces`, `EventuallyDelivered`, `EveryCallAnswered`, `CallReturns`,
`EventuallyDurable` and `RotationResumes`. The refinements are of the safety part: the abstract specifications state no
fairness.

## 7. What the code does and the comments do not say

Three runs are expected to fail. Each checks what a comment says and finds a behaviour of the
code that contradicts it. They are differences between text and program; which of them is to be
changed is for the maintainers.

1. `intake_stale`, `CompactionRetainsSuffix` (`checkpoint.ts:163-167` against `:204-211`). The comment:
   a branch without the watermark is the same lineage if compaction kept "a contiguous suffix of
   the recorded spine". The loop accepts any ordered subsequence, so also a
   prefix: the frozen branch of a receipt older than the watermark. Its window is evaluated again and the save moves the
   watermark back. It takes one process: a recovery scan selects the older record, a newer
   turn is captured and processed, then the scan enqueues.
2. `intake_retry`, `RetriesSkipApplied` (`index.ts:6831-6834` against `:3443-3471`). The comment: keys
   are saved without the watermark "so retries skip already-applied candidates". The key hashes the
   ids of the whole window; if a turn is added before the retry, the window has
   grown, the keys differ and a settled draft goes to the writer again. In the trace the drafts of the window
   `<<1, 2>>` settle in part, entry 3 is captured, and the retry has the window `<<1, 2, 3>>`.
3. `outbox_split`, `MergesWhole` (`publication-outbox.ts:990-1006`, `:1116-1123` against `:1023`). The
   comment: groups are selected "without splitting any merge batch". The rows of an invalid merge are
   moved to `failed/` one at a time; if the flight ends in between, the failed receipt counts towards the merge
   in the next freeze, and the rest is published alone.

Six more observations have no run of their own:

* *Upgraded slots.* `checkpoint.ts:188-191` says that recovery of a watermark without lineage "is a new session/branch
  checkpoint key, not permanent silent skip of the same slot forever". The slot is keyed by session only and nothing resets
  it: on a fork of a session upgraded from an older schema all passes are skipped, and its receipts stay pending.
* *One crash spends a drain's budget.* A crash between the claim of a slot and its prepared row leaves a startup with
  nothing to prepare a commit from; it claims and burns the remaining slots, and the episode ends for the owner.
  `scripts/smoke-canonical-git-runtime.mjs:714` pins this, so it is intended; `EventuallyDurable` has the case in
  `OwnerAsked`.
* *Commits by hand during a convergence.* `git commit` takes the index as it is. Between the compare-and-swap and the
  convergence of the index it reverts what the drain has just published, and if journal rows are among it the
  next startups are blocked (`git-exact-cohort.ts:454`). `IndexAgrees` claims nothing there.
* *An error after publication.* `canonical-git-runtime.ts:1420-1422` says that faults after the compare-and-swap are answered as
  published and blocked, and that only true faults before the publication are rethrown. Git may fail again in the fault handler (`:1396-1397`),
  or at the look at the branch after the converged row (`:2850`, `:2875`); then a landed commit is answered with an error, and
  a retry of the caller finds its content in the branch. `ReportTruthful` states exactly this exception.
* *An unhealthy turn holds up older ones.* Recovery enqueues the newest pending receipt of a session (`index.ts:901`). If that
  turn ended in an error, older healthy receipts wait with it until the session has another healthy turn.
* *The window of the file lock* (`runtime.ts:767`), described under `FileLock` in section 3.

## 8. What is not modelled

`PROJECT.json` gives the reason for each component. In groups:

* *Planned* (section 9): the device-join coordinator, workflow, worker RPC, edge
  protocol, bind intent, prompts, stable views, model fallback and turn progress.
* *Pure functions and data formats*: L1 schemas and scans, evidence bodies, canonical JSON, checksums,
  text heuristics, the constraint compiler, read-side memory search.
* *External*: the host program and the SDK, language models, git itself, kernel locks, the Windows
  addon. The models take of them: a promise that may never settle, an arbitrary answer,
  an atomic compare-and-swap, mutual exclusion that a crash releases.
* *Single-event adapters, telemetry, web tools*: no state that two actors share.

Hazards with an empty list of properties are the ones no module reaches yet; each has a note.

## 9. Plan

In this order, the most consequential first.

1. **Device join** (`device-join-coordinator.ts`) on top of `CanonicalDrain`:
   the journal of a merge of two devices' histories, with a crash between any two entries. Abstract specification: the merge
   happens once or not at all. It uses `CanonicalBarrier`'s exclusion.
2. **Workflow executor**, which calls dispatch sequentially with cancellation: of dispatch it needs
   `DispatchService` and no more. Then the governor's retry budgets.
3. **Worker RPC, canonical control, executor authority**: hello, lease and forward between a daemon and the
   foreground; a stale leader; and the **edge protocol** journal with a torn append.
4. **Small protocols**: bind-intent outbox, prompt manager (each promise settles once), stable-view
   publication and recovery.
5. **Event-order handlers**: model fallback, turn progress.

Theorems for 1, 2 and 4 follow the pattern of section 6: phases that remember what has been done,
monotone durable state, and a refinement where there is an abstract promise.

## 10. Running everything

Each run, in this directory: `tlc -workers 2 -config <cfg> <module>`, with module and cfg as in
`PROJECT.json` "runs"; for instance

```
tlc -workers 2 -config AgentEndQueue.cfg MCAgentEndQueue
tlc -workers 2 -config SedimentIntakeShared.cfg MCSedimentIntake
```

The proofs, with tlapm 1.4.5 (SMT by Z3, Zenon, LS4 for the temporal steps):

```
tlapm AgentEndQueueProofs.tla
tlapm CanonicalBarrierProofs.tla
tlapm PublicationOutboxProofs.tla
tlapm DispatchParallelProofs.tla
tlapm FileLockProofs.tla
tlapm RotatingJsonlProofs.tla
tlapm CanonicalDrainProofs.tla
tlapm SedimentIntakeProofs.tla
```

A mutant is run by exchanging, in a copy, the body of the definition "of" for a use of the
definition "as"; the property must then be violated under the run's own configuration.
