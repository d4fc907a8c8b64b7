---------------------------- MODULE RotatingJsonl ----------------------------
(***************************************************************************)
(* An append-only JSONL log that several processes write and rotate        *)
(* (extensions/_shared/rotating-jsonl.ts).  Rows are appended to the       *)
(* active file without a lock, by path, to whatever file that path names   *)
(* when it is opened.  A rotation runs under the lock file and moves the   *)
(* generation's metadata and the active file into the archive in phases,   *)
(* each of which is written to a transaction file, so that whoever comes   *)
(* next can finish what a crash has left.  Rotation never stands in the    *)
(* way of a row: when the lock or a phase fails, the row is appended       *)
(* nevertheless.                                                           *)
(***************************************************************************)
EXTENDS FileLock

CONSTANTS
    Rows,         \* audit rows, each appended once
    OtherRow,     \* any further row, of no interest
    Rotating,     \* processes whose settings enable rotation
    MaxGens,      \* bound: generation ids
    MaxFaults     \* bound: crashes and failed file operations, releases apart

ASSUME RotatingAssumption ==
    /\ OtherRow \notin Rows
    /\ Rotating \subseteq Procs
    /\ MaxGens \in Nat
    /\ MaxFaults \in Nat

VARIABLES
    files,       \* number of log files ever created; a file is its number
    active,      \* the file at the active path; 0: none
    content,     \* set of <<file, row>>
    gens,        \* number of generation ids ever made
    meta,        \* generation id in the metadata file; 0: none
    archived,    \* set of <<name, file>>: log files in the archive directory
    archMetas,   \* set of <<name, generation>>: their metadata files
    txn,         \* the rotation transaction file
    pc,          \* [Procs -> what the call does next]
    job,         \* [Procs -> the call: its kind, row and expected file]
    copy,        \* [Procs -> the transaction the call works on]
    fd,          \* [Procs -> the file opened for append; 0: none]
    unsent,      \* rows not handed over yet
    reported,    \* history: rows whose append was reported
    faults       \* history

logVars == <<files, active, content, gens, meta, archived, archMetas, txn>>
callVars == <<pc, job, copy, fd, unsent, reported, faults>>
vars == <<lockVars, logVars, callVars>>

Phases == {"prepared", "meta_archived", "active_archived", "active_created", "meta_created"}
NoTxn == [phase |-> "none", name |-> 0, old |-> 0, file |-> 0]
NoJob == [kind |-> "none", row |-> OtherRow, expect |-> 0]

Init ==
    /\ LockInit
    /\ files = 0 /\ active = 0 /\ content = {}
    /\ gens = 0 /\ meta = 0
    /\ archived = {} /\ archMetas = {}
    /\ txn = NoTxn
    /\ pc = [p \in Procs |-> "idle"]
    /\ job = [p \in Procs |-> NoJob]
    /\ copy = [p \in Procs |-> NoTxn]
    /\ fd = [p \in Procs |-> 0]
    /\ unsent = Rows /\ reported = {}
    /\ faults = 0

At(p, l) == pc' = [pc EXCEPT ![p] = l]
Empty(f) == \A r \in Rows \cup {OtherRow} : <<f, r>> \notin content

-----------------------------------------------------------------------------
(* The call and its unlocked reads.                                         *)
RecoveryNeededByFiles == active = 0 \/ meta = 0
RecoveryNeeded == active = 0 \/ meta = 0 \/ txn # NoTxn

Start(p, kind, row, l) ==
    /\ pc[p] = "idle"
    /\ job' = [job EXCEPT ![p] = [kind |-> kind, row |-> row,
                                  expect |-> IF kind = "strict" THEN active ELSE 0]]
    /\ At(p, l)
    /\ IF l = "lock" THEN Want(p) ELSE UNCHANGED lockVars
    /\ UNCHANGED <<logVars, copy, fd, reported, faults>>

(* The active file may be due by size or by age when it holds anything.     *)
AppendCall(p) ==
    \E row \in unsent \cup {OtherRow}, l \in {"lock", "open"} :
        /\ l = "open" => ~RecoveryNeeded
        /\ l = "lock" => \/ RecoveryNeeded
                         \/ p \in Rotating /\ ~Empty(active)
        /\ Start(p, "append", row, l)
        /\ unsent' = unsent \ {row}

(* rotateJsonlGeneration                                                    *)
RotateCall(p) ==
    /\ Start(p, "force", OtherRow, "lock")
    /\ UNCHANGED unsent

(* rotateJsonlGenerationStrict: the caller has seen the file that it wants  *)
(* archived, and takes the lock only if it is free.                         *)
StrictCall(p) ==
    /\ active # 0
    /\ Start(p, "strict", OtherRow, "lock")
    /\ UNCHANGED unsent

(* The call returns, or its process dies.                                   *)
Return(p) ==
    /\ At(p, "idle")
    /\ job' = [job EXCEPT ![p] = NoJob]
    /\ copy' = [copy EXCEPT ![p] = NoTxn]
    /\ fd' = [fd EXCEPT ![p] = 0]

(* After the rotation, however it went, a row is appended.                  *)
AfterRotation(p) ==
    IF job[p].kind = "append"
    THEN /\ At(p, "open")
         /\ copy' = [copy EXCEPT ![p] = NoTxn]
         /\ UNCHANGED <<job, fd>>
    ELSE Return(p)

-----------------------------------------------------------------------------
(* The lock.                                                                *)
LockStep(p) ==
    /\ pc[p] = "lock"
    /\ \/ Create(p)
       \/ job[p].kind # "strict" /\ Examine(p)
       \/ Fill(p)
       \/ Steal(p)
    /\ UNCHANGED <<logVars, callVars>>

LockTimeOut(p) ==
    /\ pc[p] = "lock"
    /\ TimeOut(p)
    /\ AfterRotation(p)
    /\ UNCHANGED <<logVars, unsent, reported, faults>>

Fault == faults < MaxFaults /\ faults' = faults + 1

(* acquireStrictRotationLock does not remove its file when it fails: before *)
(* the record is written the file is nobody's, afterwards it names a living *)
(* process.                                                                 *)
FillFault(p) ==
    /\ pc[p] = "lock"
    /\ IF job[p].kind = "strict"
       THEN stage[p] = "filling" /\ (LockCrash(p) \/ LeaveBehind(p))
       ELSE FillFails(p)
    /\ Fault
    /\ AfterRotation(p)
    /\ UNCHANGED <<logVars, unsent, reported>>

(* Under the lock: what a crash has left comes first; strict maintenance    *)
(* looks at the active file again before that.                              *)
EnterWithoutRecovery(p) ==
    /\ pc[p] = "lock" /\ stage[p] = "held"
    /\ copy' = [copy EXCEPT ![p] = txn]
    /\ At(p, "generation")
    /\ UNCHANGED <<lockVars, logVars, job, fd, unsent, reported, faults>>

Enter(p) ==
    /\ pc[p] = "lock" /\ stage[p] = "held"
    /\ IF job[p].kind = "strict" /\ job[p].expect # active
       THEN At(p, "release") /\ UNCHANGED copy
       ELSE /\ copy' = [copy EXCEPT ![p] = txn]
            /\ At(p, IF txn = NoTxn THEN "generation" ELSE "phase")
    /\ UNCHANGED <<lockVars, logVars, job, fd, unsent, reported, faults>>

-----------------------------------------------------------------------------
(* ensureActive opens with O_CREAT: the file may have come by an append     *)
(* meanwhile.                                                               *)
EnsureActive ==
    IF active = 0
    THEN files' = files + 1 /\ active' = files + 1
    ELSE UNCHANGED <<files, active>>

(* recoverGenerationLocked                                                  *)
Generation(p) ==
    /\ pc[p] = "generation"
    /\ EnsureActive
    /\ IF meta = 0
       THEN gens' = gens + 1 /\ meta' = gens + 1
       ELSE UNCHANGED <<gens, meta>>
    /\ At(p, IF p \in Rotating \/ job[p].kind # "append" THEN "decide" ELSE "release")
    /\ UNCHANGED <<lockVars, content, archived, archMetas, txn,
                   job, copy, fd, unsent, reported, faults>>

(* rotateLocked up to the transaction file.  The archive's name is as       *)
(* unique as the next generation's id, and stands for both.  An active file *)
(* that has gone meanwhile makes it throw.                                  *)
Decide(p) ==
    /\ pc[p] = "decide"
    /\ \/ /\ \/ job[p].kind = "append"
             \/ job[p].kind = "strict" /\ job[p].expect # active
             \/ active = 0
             \/ gens >= MaxGens
          /\ At(p, "release")
          /\ UNCHANGED <<gens, txn, copy>>
       \/ /\ active # 0
          /\ job[p].kind = "append" => ~Empty(active)
          /\ job[p].kind = "strict" => job[p].expect = active
          /\ gens < MaxGens
          /\ gens' = gens + 1
          /\ txn' = [phase |-> "prepared", name |-> gens + 1, old |-> meta, file |-> active]
          /\ copy' = [copy EXCEPT ![p] = txn']
          /\ At(p, "phase")
    /\ UNCHANGED <<lockVars, files, active, content, meta, archived, archMetas,
                   job, fd, unsent, reported, faults>>

-----------------------------------------------------------------------------
(* recoverRotationTransactionLocked: in each phase the work, unless a crash *)
(* fell between the work and its record, and then the record.  A state that *)
(* the work does not expect throws.  Check and rename are one step: only    *)
(* another holder of the lock could come between them.                      *)
Phase(p, phase) == pc[p] = "phase" /\ copy[p].phase = phase

InPhase(p) ==
    UNCHANGED <<lockVars, gens, txn, job, copy, fd, unsent, reported, faults>>

ArchivedFiles(t) == {a \in archived : a[1] = t.name}
MetaArchived(t) == \E m \in archMetas : m[1] = t.name

ArchiveMeta(p) ==
    /\ Phase(p, "prepared")
    /\ LET t == copy[p] IN
       IF MetaArchived(t)
       THEN At(p, "record") /\ UNCHANGED <<meta, archMetas>>
       ELSE IF meta = t.old /\ meta # 0
       THEN /\ At(p, "record")
            /\ meta' = 0
            /\ archMetas' = archMetas \cup {<<t.name, meta>>}
       ELSE At(p, "release") /\ UNCHANGED <<meta, archMetas>>
    /\ InPhase(p)
    /\ UNCHANGED <<files, active, content, archived>>

RenameActive(t) ==
    /\ archived' = {a \in archived : a[1] # t.name} \cup {<<t.name, active>>}
    /\ active' = 0

ArchiveActiveAgain(p) ==
    /\ Phase(p, "meta_archived")
    /\ IF active # 0
       THEN RenameActive(copy[p]) /\ At(p, "record")
       ELSE At(p, "release") /\ UNCHANGED <<active, archived>>
    /\ InPhase(p)
    /\ UNCHANGED <<files, content, meta, archMetas>>

(* Strict maintenance looks once more before the rename.                    *)
ArchiveActive(p) ==
    /\ Phase(p, "meta_archived")
    /\ LET t == copy[p] IN
       IF ArchivedFiles(t) # {}
       THEN /\ At(p, IF \A a \in ArchivedFiles(t) : a[2] = t.file THEN "record" ELSE "release")
            /\ UNCHANGED <<active, archived>>
       ELSE IF active = t.file /\ (job[p].kind = "strict" => job[p].expect = t.file)
       THEN RenameActive(t) /\ At(p, "record")
       ELSE At(p, "release") /\ UNCHANGED <<active, archived>>
    /\ InPhase(p)
    /\ UNCHANGED <<files, content, meta, archMetas>>

(* An append may have created the next active file already.                 *)
CreateActive(p) ==
    /\ Phase(p, "active_archived")
    /\ IF active = copy[p].file
       THEN At(p, "release") /\ UNCHANGED <<files, active>>
       ELSE EnsureActive /\ At(p, "record")
    /\ InPhase(p)
    /\ UNCHANGED <<content, meta, archived, archMetas>>

CreateMeta(p) ==
    /\ Phase(p, "active_created")
    /\ LET t == copy[p] IN
       IF meta \in {0, t.name}
       THEN meta' = t.name /\ At(p, "record")
       ELSE At(p, "release") /\ UNCHANGED meta
    /\ InPhase(p)
    /\ UNCHANGED <<files, active, content, archived, archMetas>>

NextPhase(phase) ==
    CASE phase = "prepared" -> "meta_archived"
      [] phase = "meta_archived" -> "active_archived"
      [] phase = "active_archived" -> "active_created"
      [] phase = "active_created" -> "meta_created"

(* advancePhase                                                             *)
Record(p) ==
    /\ pc[p] = "record"
    /\ copy' = [copy EXCEPT ![p].phase = NextPhase(@)]
    /\ txn' = copy'[p]
    /\ At(p, "phase")
    /\ UNCHANGED <<lockVars, files, active, content, gens, meta, archived, archMetas,
                   job, fd, unsent, reported, faults>>

RemoveTransaction(p) ==
    /\ Phase(p, "meta_created")
    /\ txn' = NoTxn
    /\ copy' = [copy EXCEPT ![p] = NoTxn]
    /\ At(p, "release")
    /\ UNCHANGED <<lockVars, files, active, content, gens, meta, archived, archMetas,
                   job, fd, unsent, reported, faults>>

Work(p) ==
    ArchiveMeta(p) \/ ArchiveActive(p) \/ CreateActive(p) \/ CreateMeta(p)

(* A file operation fails: the rotation throws, its finally releases.       *)
RotationFault(p) ==
    /\ pc[p] \in {"generation", "decide", "phase", "record"}
    /\ Fault
    /\ At(p, "release")
    /\ UNCHANGED <<lockVars, logVars, job, copy, fd, unsent, reported>>

ReleaseLock(p) ==
    /\ pc[p] = "release"
    /\ Release(p)
    /\ AfterRotation(p)
    /\ UNCHANGED <<logVars, unsent, reported, faults>>

(* The lock file cannot be read or removed; an ordinary release says so to  *)
(* nobody.  Not counted as a fault: with the file in the way it does not    *)
(* happen again before the process has died.                                *)
ReleaseFault(p) ==
    /\ pc[p] = "release"
    /\ LeaveBehind(p)
    /\ AfterRotation(p)
    /\ UNCHANGED <<logVars, unsent, reported, faults>>

-----------------------------------------------------------------------------
(* appendInternal.  openRegularNoFollow looks at the path, opens it, and    *)
(* throws when it has opened another file than the one it saw: by then the  *)
(* open may have created the file, which stays.                             *)
OpenLook(p) ==
    /\ pc[p] = "open"
    /\ fd' = [fd EXCEPT ![p] = active]
    /\ At(p, "opening")
    /\ UNCHANGED <<lockVars, logVars, job, copy, unsent, reported, faults>>

Open(p) ==
    /\ pc[p] = "opening"
    /\ EnsureActive
    /\ IF fd[p] \in {0, active'}
       THEN /\ fd' = [fd EXCEPT ![p] = active']
            /\ At(p, "write")
            /\ UNCHANGED <<job, copy>>
       ELSE Return(p)
    /\ UNCHANGED <<lockVars, content, gens, meta, archived, archMetas, txn,
                   unsent, reported, faults>>

(* It looks at the path once more: a rotation has taken the file away.      *)
OpenRaced(p) ==
    /\ pc[p] = "write" /\ active # fd[p]
    /\ Return(p)
    /\ UNCHANGED <<lockVars, logVars, unsent, reported, faults>>

(* To the open handle, wherever its file is by now.                         *)
Write(p) ==
    /\ pc[p] = "write"
    /\ content' = content \cup {<<fd[p], job[p].row>>}
    /\ reported' = reported \cup ({job[p].row} \ {OtherRow})
    /\ Return(p)
    /\ UNCHANGED <<lockVars, files, active, gens, meta, archived, archMetas, txn,
                   unsent, faults>>

(* The open or the write fails: business_append, and appended stays false.  *)
AppendFault(p) ==
    /\ pc[p] \in {"open", "opening", "write"}
    /\ Fault
    /\ Return(p)
    /\ UNCHANGED <<lockVars, logVars, unsent, reported>>

(* A process that has left its lock file behind may die when it is idle.    *)
Crash(p) ==
    /\ pc[p] # "idle" \/ lock = p
    /\ Fault
    /\ LockCrash(p)
    /\ Return(p)
    /\ UNCHANGED <<logVars, unsent, reported>>

Proceed(p) ==
    \/ Enter(p) \/ Generation(p) \/ Decide(p) \/ Work(p) \/ Record(p)
    \/ RemoveTransaction(p) \/ ReleaseLock(p)
    \/ OpenLook(p) \/ Open(p) \/ OpenRaced(p) \/ Write(p)

Next ==
    \E p \in Procs :
        \/ AppendCall(p) \/ RotateCall(p) \/ StrictCall(p)
        \/ LockStep(p) \/ LockTimeOut(p) \/ Proceed(p)
        \/ FillFault(p) \/ RotationFault(p) \/ ReleaseFault(p) \/ AppendFault(p)
        \/ Crash(p)

Spec == Init /\ [][Next]_vars

(* Sessions go on writing rows, and a call that was begun goes on.  Lock    *)
(* and abandoned file are found again and again by those who poll for them. *)
FairSpec ==
    /\ Spec
    /\ \A p \in Procs :
          /\ SF_vars(AppendCall(p))
          /\ SF_vars(LockStep(p))
          /\ WF_vars(Proceed(p) \/ LockTimeOut(p))

-----------------------------------------------------------------------------
InRotation == {"generation", "decide", "phase", "record"}
Outside == {"idle", "lock", "release", "open", "opening", "write"}

TypeOK ==
    /\ LockTypeOK
    /\ files \in Nat /\ active \in 0 .. files
    /\ content \subseteq (1 .. files) \X (Rows \cup {OtherRow})
    /\ gens \in Nat /\ meta \in 0 .. gens
    /\ archived \subseteq (1 .. gens) \X (1 .. files)
    /\ archMetas \subseteq (1 .. gens) \X (1 .. gens)
    /\ pc \in [Procs -> Outside \cup InRotation]
    /\ faults \in 0 .. MaxFaults
    /\ overtaken \/ \A p \in Procs : pc[p] \in {"phase", "record"} => copy[p] = txn

(* A row whose append was reported is in exactly one file that has a name:  *)
(* a writer may hold the file through its archiving, and the next rotation  *)
(* never moves another file onto it (rotating-jsonl.ts:548).                *)
Named(f) == active = f \/ \E a \in archived : a[2] = f
RowsKept ==
    overtaken \/ \A r \in reported : \E f \in 1 .. files :
        /\ Named(f) /\ <<f, r>> \in content
        /\ \A g \in 1 .. files : <<g, r>> \in content => g = f

(* Whatever a crash has left, whoever comes next can go on from it; and     *)
(* when nothing is left, each archived generation is complete: the recovery *)
(* never throws for a state it does not expect, which would end rotation    *)
(* for good (rotating-jsonl.ts:536).                                        *)
Recoverable(t) ==
    CASE t.phase = "prepared" -> (meta = t.old \/ MetaArchived(t)) /\ active = t.file
      [] t.phase = "meta_archived" ->
            /\ meta = 0 /\ MetaArchived(t)
            /\ \/ ArchivedFiles(t) = {<<t.name, t.file>>} /\ active # t.file
               \/ ArchivedFiles(t) = {} /\ active = t.file
      [] t.phase = "active_archived" -> active # t.file /\ meta = 0
      [] t.phase = "active_created" -> active # 0 /\ meta \in {0, t.name}
      [] t.phase = "meta_created" -> active # 0 /\ meta = t.name
      [] t.phase = "none" -> \A m \in archMetas : \E a \in archived : a[1] = m[1]
NeverWedged == overtaken \/ Recoverable(txn)

(* A rotation that a crash or an error interrupted is finished by the       *)
(* appends that follow, also by those of sessions that do not rotate        *)
(* (rotating-jsonl.ts:701), unless a living process has left a lock file    *)
(* that it will never remove.                                               *)
Stranded == \E p \in Procs : lock = p /\ stage[p] \notin {"filling", "held"}
RotationResumes == txn # NoTxn ~> (txn = NoTxn \/ overtaken \/ Stranded)
=============================================================================
