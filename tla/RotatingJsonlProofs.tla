------------------------- MODULE RotatingJsonlProofs -------------------------
(***************************************************************************)
(* Theorems about RotatingJsonl, for any number of processes and rows and  *)
(* any bounds.                                                             *)
(***************************************************************************)
EXTENDS RotatingJsonl, FileLockProofs

(* A transaction carries the name of a generation that was made and the     *)
(* number of a file that was created.                                       *)
GoodTxn(t) ==
    \/ t = NoTxn
    \/ /\ t \in [phase : Phases, name : Nat, old : Nat, file : Nat]
       /\ t.name \in 1 .. gens /\ t.old \in 0 .. gens /\ t.file \in 1 .. files

Jobs == [kind : {"none", "append", "force", "strict"}, row : Rows \cup {OtherRow}, expect : Nat]

LogTypes ==
    /\ files \in Nat /\ active \in 0 .. files
    /\ content \subseteq (1 .. files) \X (Rows \cup {OtherRow})
    /\ gens \in Nat /\ meta \in 0 .. gens
    /\ archived \subseteq (1 .. gens) \X (1 .. files)
    /\ archMetas \subseteq (1 .. gens) \X (1 .. gens)
    /\ GoodTxn(txn)

CallTypes ==
    /\ pc \in [Procs -> Outside \cup InRotation]
    /\ job \in [Procs -> Jobs]
    /\ DOMAIN copy = Procs /\ \A p \in Procs : GoodTxn(copy[p])
    /\ fd \in [Procs -> 0 .. files]
    /\ unsent \subseteq Rows /\ reported \subseteq Rows
    /\ faults \in 0 .. MaxFaults

(* Where a call stands tells what it has of the lock, and in a phase it has *)
(* a transaction whose phase has work to do.                                *)
Working == {"prepared", "meta_archived", "active_archived", "active_created"}
PcSound ==
    \A p \in Procs :
        /\ pc[p] \in {"idle", "open", "opening", "write"} => stage[p] = "out"
        /\ pc[p] = "lock" => stage[p] # "out"
        /\ pc[p] \in InRotation \cup {"release"} => stage[p] = "held"
        /\ pc[p] = "phase" => copy[p].phase \in Phases
        /\ pc[p] = "record" => copy[p].phase \in Working
        /\ pc[p] = "write" => fd[p] \in 1 .. files

TypeInv == LockInv /\ LogTypes /\ CallTypes /\ PcSound

LEMMA Init_TypeInv ==
    Init => TypeInv
<1> SUFFICES ASSUME Init PROVE TypeInv
    OBVIOUS
<1>1. LockInv
    BY LockInit_Inv DEF Init
<1>2. LogTypes
    BY DEF Init, LogTypes, GoodTxn
<1>3. CallTypes
    BY RotatingAssumption DEF Init, CallTypes, GoodTxn, Jobs, NoJob, Outside
<1>4. PcSound
    BY DEF Init, PcSound, LockInit, InRotation
<1> QED
    BY <1>1, <1>2, <1>3, <1>4 DEF TypeInv

(* Each step is a step of the lock, or leaves it alone.                     *)
LEMMA Next_LockStep ==
    Next => [LockNext]_lockVars
<1> SUFFICES ASSUME NEW p \in Procs,
                    \/ AppendCall(p) \/ RotateCall(p) \/ StrictCall(p)
                    \/ LockStep(p) \/ LockTimeOut(p) \/ Proceed(p)
                    \/ FillFault(p) \/ RotationFault(p) \/ ReleaseFault(p) \/ AppendFault(p)
                    \/ Crash(p)
             PROVE  LockNext \/ UNCHANGED lockVars
    BY DEF Next
<1>1. CASE AppendCall(p) \/ RotateCall(p) \/ StrictCall(p)
    BY <1>1 DEF AppendCall, RotateCall, StrictCall, Start, LockNext
<1>2. CASE LockStep(p)
    BY <1>2 DEF LockStep, LockNext
<1>3. CASE LockTimeOut(p) \/ FillFault(p) \/ ReleaseFault(p) \/ Crash(p)
    BY <1>3 DEF LockTimeOut, FillFault, ReleaseFault, Crash, LockNext
<1>4. CASE RotationFault(p) \/ AppendFault(p)
    BY <1>4 DEF RotationFault, AppendFault
<1>5. CASE Proceed(p)
    <2>1. CASE ReleaseLock(p)
        BY <2>1 DEF ReleaseLock, LockNext
    <2>2. CASE \/ Enter(p) \/ Generation(p) \/ Decide(p) \/ Record(p)
               \/ RemoveTransaction(p) \/ OpenLook(p) \/ Open(p) \/ OpenRaced(p) \/ Write(p)
        BY <2>2 DEF Enter, Generation, Decide, Record, RemoveTransaction,
                    OpenLook, Open, OpenRaced, Write
    <2>3. CASE Work(p)
        BY <2>3 DEF Work, ArchiveMeta, ArchiveActive, CreateActive, CreateMeta, InPhase
    <2> QED
        BY <1>5, <2>1, <2>2, <2>3 DEF Proceed
<1> QED
    BY <1>1, <1>2, <1>3, <1>4, <1>5

LEMMA Next_LockInv ==
    ASSUME TypeInv, [Next]_vars
    PROVE  LockInv'
BY LockStep_Inv, Next_LockStep DEF TypeInv, vars, lockVars

(* Numbers of files and generations only grow, so a good transaction stays  *)
(* good.                                                                    *)
LEMMA GoodTxn_Grows ==
    ASSUME NEW t, GoodTxn(t), gens \in Nat, files \in Nat, gens' \in Nat, files' \in Nat,
           gens <= gens', files <= files'
    PROVE  GoodTxn(t)'
BY DEF GoodTxn

LEMMA GoodTxn_Phase ==
    ASSUME NEW t, GoodTxn(t)
    PROVE  /\ t.phase \in Phases \cup {"none"}
           /\ t.phase = "none" <=> t = NoTxn
           /\ t # NoTxn => /\ t \in [phase : Phases, name : Nat, old : Nat, file : Nat]
                           /\ t.name \in 1 .. gens /\ t.old \in 0 .. gens
                           /\ t.file \in 1 .. files
BY DEF GoodTxn, NoTxn, Phases

LEMMA Call_Types ==
    ASSUME TypeInv, LockInv', NEW p \in Procs, AppendCall(p) \/ RotateCall(p) \/ StrictCall(p)
    PROVE  LogTypes' /\ CallTypes' /\ PcSound'
<1> USE DEF TypeInv, Outside
<1>1. PICK kind \in {"append", "force", "strict"}, row \in Rows \cup {OtherRow},
           l \in {"lock", "open"} :
        Start(p, kind, row, l) /\ unsent' \subseteq unsent
    BY DEF AppendCall, RotateCall, StrictCall, CallTypes
<1>2. LogTypes'
    BY <1>1 DEF Start, LogTypes, logVars, GoodTxn
<1>3. CallTypes'
    BY <1>1 DEF Start, At, LogTypes, CallTypes, logVars, Jobs, GoodTxn
<1>4. PcSound'
    BY <1>1 DEF Start, At, CallTypes, PcSound, InRotation, Want, GoTo, lockVars, logVars,
                LockInv, LockTypeOK
<1> QED
    BY <1>2, <1>3, <1>4

(* A call that returns, or goes on to its append.                           *)
LEMMA AfterRotation_Types ==
    ASSUME TypeInv, NEW p \in Procs, AfterRotation(p) \/ Return(p), UNCHANGED <<logVars, unsent>>,
           reported' \subseteq Rows, faults' \in 0 .. MaxFaults,
           stage' = [stage EXCEPT ![p] = "out"], LockTypeOK
    PROVE  LogTypes' /\ CallTypes' /\ PcSound'
<1> USE DEF TypeInv, Outside
<1>1. LogTypes'
    BY DEF LogTypes, logVars, GoodTxn
<1>2. /\ pc' \in [Procs -> Outside \cup InRotation]
      /\ pc'[p] \in {"idle", "open"} /\ \A q \in Procs \ {p} : pc'[q] = pc[q]
      /\ job' \in [Procs -> Jobs]
      /\ DOMAIN copy' = Procs
      /\ copy'[p] = NoTxn /\ \A q \in Procs \ {p} : copy'[q] = copy[q]
      /\ fd' \in [Procs -> 0 .. files] /\ \A q \in Procs \ {p} : fd'[q] = fd[q]
    <2>1. CASE Return(p)
        BY <2>1 DEF Return, At, CallTypes, Jobs, NoJob, LogTypes
    <2>2. CASE ~Return(p)
        BY <2>2 DEF AfterRotation, At, CallTypes
    <2> QED
        BY <2>1, <2>2
<1>3. CallTypes'
    BY <1>2 DEF CallTypes, logVars, GoodTxn
<1>4. PcSound'
    BY <1>2 DEF PcSound, CallTypes, InRotation, LockTypeOK, logVars
<1> QED
    BY <1>1, <1>3, <1>4

LEMMA Lock_Types ==
    ASSUME TypeInv, LockInv', NEW p \in Procs,
           \/ LockStep(p) \/ LockTimeOut(p) \/ FillFault(p) \/ Crash(p)
           \/ ReleaseLock(p) \/ ReleaseFault(p) \/ AppendFault(p) \/ OpenRaced(p)
    PROVE  LogTypes' /\ CallTypes' /\ PcSound'
<1> USE DEF TypeInv, Outside
<1>0. LockTypeOK
    BY DEF LockInv
<1>1. CASE LockStep(p)
    <2>1. LogTypes'
        BY <1>1 DEF LockStep, LogTypes, logVars, GoodTxn
    <2>2. CallTypes'
        BY <1>1 DEF LockStep, CallTypes, callVars, logVars, GoodTxn
    <2>3. PcSound'
        BY <1>0, <1>1 DEF LockStep, PcSound, Create, Examine, Fill, Steal, GoTo, LockTypeOK,
                          callVars, logVars, CallTypes, InRotation
    <2> QED
        BY <2>1, <2>2, <2>3
<1>2. CASE LockTimeOut(p)
    BY <1>0, <1>2, AfterRotation_Types DEF LockTimeOut, TimeOut, GoTo, CallTypes
<1>3. CASE FillFault(p)
    <2>1. faults' \in 0 .. MaxFaults
        BY <1>3, RotatingAssumption DEF FillFault, Fault, CallTypes
    <2> QED
        BY <1>0, <1>3, <2>1, AfterRotation_Types
        DEF FillFault, FillFails, LockCrash, LeaveBehind, GoTo, CallTypes
<1>4. CASE Crash(p)
    <2>1. faults' \in 0 .. MaxFaults
        BY <1>4, RotatingAssumption DEF Crash, Fault, CallTypes
    <2> QED
        BY <1>0, <1>4, <2>1, AfterRotation_Types DEF Crash, LockCrash, GoTo, CallTypes
<1>5. CASE ReleaseLock(p) \/ ReleaseFault(p)
    BY <1>0, <1>5, AfterRotation_Types
    DEF ReleaseLock, Release, ReleaseFault, LeaveBehind, GoTo, CallTypes
<1>6. CASE AppendFault(p)
    <2>1. faults' \in 0 .. MaxFaults
        BY <1>6, RotatingAssumption DEF AppendFault, Fault, CallTypes
    <2>2. stage' = [stage EXCEPT ![p] = "out"]
        BY <1>0, <1>6 DEF AppendFault, PcSound, LockTypeOK, lockVars
    <2> QED
        BY <1>0, <1>6, <2>1, <2>2, AfterRotation_Types DEF AppendFault, CallTypes
<1>7. CASE OpenRaced(p)
    <2>1. stage' = [stage EXCEPT ![p] = "out"]
        BY <1>0, <1>7 DEF OpenRaced, PcSound, LockTypeOK, lockVars
    <2> QED
        BY <1>0, <1>7, <2>1, AfterRotation_Types DEF OpenRaced, CallTypes
<1> QED
    BY <1>1, <1>2, <1>3, <1>4, <1>5, <1>6, <1>7

(* What happens under the lock, and the append.                             *)
LEMMA Inside_Types ==
    ASSUME TypeInv, NEW p \in Procs,
           \/ Enter(p) \/ Generation(p) \/ Decide(p) \/ Work(p) \/ Record(p)
           \/ RemoveTransaction(p) \/ RotationFault(p)
           \/ OpenLook(p) \/ Open(p) \/ Write(p)
    PROVE  LogTypes' /\ CallTypes' /\ PcSound'
<1> USE DEF TypeInv, Outside
<1>1. CASE Enter(p)
    <2>1. LogTypes'
        BY <1>1 DEF Enter, LogTypes, logVars, GoodTxn
    <2>2. CallTypes'
        BY <1>1 DEF Enter, At, LogTypes, CallTypes, logVars, GoodTxn, InRotation
    <2>3. PcSound'
        BY <1>1, GoodTxn_Phase DEF Enter, At, LogTypes, CallTypes, PcSound, InRotation,
                                   lockVars, logVars
    <2> QED
        BY <2>1, <2>2, <2>3
<1>2. CASE Generation(p)
    <2>1. /\ files' \in Nat /\ files <= files' /\ gens' \in Nat /\ gens <= gens'
          /\ active' \in 0 .. files' /\ meta' \in 0 .. gens'
        BY <1>2 DEF Generation, EnsureActive, LogTypes
    <2>2. LogTypes'
        BY <1>2, <2>1, GoodTxn_Grows DEF Generation, LogTypes
    <2>3. CallTypes'
        BY <1>2, <2>1, GoodTxn_Grows DEF Generation, At, LogTypes, CallTypes, InRotation
    <2>4. PcSound'
        BY <1>2, <2>1 DEF Generation, At, LogTypes, CallTypes, PcSound, InRotation, lockVars
    <2> QED
        BY <2>2, <2>3, <2>4
<1>3. CASE Decide(p)
    <2>1. /\ files' = files /\ gens' \in Nat /\ gens <= gens'
        BY <1>3 DEF Decide, LogTypes
    <2>2. /\ GoodTxn(txn)' /\ (copy' = copy \/ copy' = [copy EXCEPT ![p] = txn'])
          /\ pc'[p] \in {"release", "phase"}
          /\ pc'[p] = "phase" => copy'[p] = txn' /\ txn'.phase = "prepared"
        BY <1>3, <2>1, GoodTxn_Grows DEF Decide, At, LogTypes, CallTypes, GoodTxn, Phases
    <2>3. LogTypes'
        BY <1>3, <2>1, <2>2 DEF Decide, LogTypes
    <2>4. CallTypes'
        BY <1>3, <2>1, <2>2, GoodTxn_Grows DEF Decide, At, LogTypes, CallTypes, InRotation
    <2>5. PcSound'
        BY <1>3, <2>1, <2>2 DEF Decide, At, CallTypes, PcSound, InRotation, lockVars, Phases
    <2> QED
        BY <2>3, <2>4, <2>5
<1>4. CASE Work(p)
    <2>1. /\ pc[p] = "phase" /\ copy[p].phase \in Working
          /\ \E l \in {"record", "release"} : At(p, l)
          /\ InPhase(p)
        BY <1>4 DEF Work, ArchiveMeta, ArchiveActive, CreateActive, CreateMeta, Phase, Working
    <2>2. /\ copy[p].name \in 1 .. gens /\ copy[p].file \in 1 .. files
          /\ files \in Nat /\ gens \in Nat
        BY <2>1, GoodTxn_Phase DEF CallTypes, LogTypes, Working, NoTxn
    <2>3. /\ files' \in Nat /\ files <= files' /\ active' \in 0 .. files'
          /\ meta' \in 0 .. gens /\ content' = content
        BY <1>4, <2>2 DEF Work, ArchiveMeta, ArchiveActive, CreateActive, CreateMeta,
                          RenameActive, EnsureActive, LogTypes
    <2>4. archMetas' \subseteq (1 .. gens) \X (1 .. gens)
        BY <1>4, <2>2 DEF Work, ArchiveMeta, ArchiveActive, CreateActive, CreateMeta, LogTypes
    <2>5. archived' \subseteq (1 .. gens) \X (1 .. files)
        BY <1>4, <2>2 DEF Work, ArchiveMeta, ArchiveActive, CreateActive, CreateMeta,
                          RenameActive, LogTypes
    <2>6. LogTypes'
        BY <2>1, <2>2, <2>3, <2>4, <2>5, GoodTxn_Grows DEF LogTypes, InPhase
    <2>7. CallTypes'
        BY <2>1, <2>2, <2>3, GoodTxn_Grows DEF CallTypes, InPhase, At, InRotation
    <2>8. PcSound'
        BY <2>1, <2>2, <2>3 DEF CallTypes, PcSound, InPhase, At, InRotation, lockVars
    <2> QED
        BY <2>6, <2>7, <2>8
<1>5. CASE Record(p)
    <2>1. /\ copy[p].phase \in Working /\ GoodTxn(copy[p])
        BY <1>5 DEF Record, PcSound, CallTypes
    <2>2. copy[p] # NoTxn
        BY <2>1 DEF NoTxn, Working
    <2>3. NextPhase(copy[p].phase) \in Phases
        BY <2>1 DEF NextPhase, Working, Phases
    <2> DEFINE t == [copy[p] EXCEPT !.phase = NextPhase(copy[p].phase)]
    <2>4. /\ copy' = [copy EXCEPT ![p] = t] /\ txn' = t
        BY <1>5 DEF Record, CallTypes
    <2>5. GoodTxn(t) /\ t.phase \in Phases
        <3> HIDE DEF NextPhase
        <3>1. copy[p] \in [phase : Phases, name : Nat, old : Nat, file : Nat]
            BY <2>1, <2>2, GoodTxn_Phase
        <3>2. /\ t \in [phase : Phases, name : Nat, old : Nat, file : Nat]
              /\ t.phase \in Phases
              /\ t.name = copy[p].name /\ t.old = copy[p].old /\ t.file = copy[p].file
            BY <2>3, <3>1
        <3> QED
            BY <2>1, <2>2, <3>2, GoodTxn_Phase DEF GoodTxn
    <2> HIDE DEF t
    <2>6. LogTypes'
        BY <1>5, <2>4, <2>5 DEF Record, LogTypes, GoodTxn
    <2>7. CallTypes'
        BY <1>5, <2>4, <2>5 DEF Record, At, CallTypes, GoodTxn, InRotation
    <2>8. PcSound'
        BY <1>5, <2>4, <2>5 DEF Record, At, CallTypes, PcSound, InRotation, lockVars
    <2> QED
        BY <2>6, <2>7, <2>8
<1>6. CASE RemoveTransaction(p)
    <2>1. LogTypes'
        BY <1>6 DEF RemoveTransaction, LogTypes, GoodTxn
    <2>2. CallTypes'
        BY <1>6 DEF RemoveTransaction, At, CallTypes, GoodTxn
    <2>3. PcSound'
        BY <1>6 DEF RemoveTransaction, Phase, At, CallTypes, PcSound, InRotation, lockVars
    <2> QED
        BY <2>1, <2>2, <2>3
<1>7. CASE RotationFault(p)
    <2>1. faults' \in 0 .. MaxFaults
        BY <1>7, RotatingAssumption DEF RotationFault, Fault, CallTypes
    <2>2. LogTypes'
        BY <1>7 DEF RotationFault, LogTypes, logVars, GoodTxn
    <2>3. CallTypes'
        BY <1>7, <2>1 DEF RotationFault, At, CallTypes, logVars, GoodTxn
    <2>4. PcSound'
        BY <1>7 DEF RotationFault, At, CallTypes, PcSound, InRotation, lockVars, logVars
    <2> QED
        BY <2>2, <2>3, <2>4
<1>8. CASE Open(p)
    <2>1. /\ files' \in Nat /\ files <= files' /\ active' \in 1 .. files' /\ gens' = gens
        BY <1>8 DEF Open, EnsureActive, LogTypes
    <2>2. LogTypes'
        BY <1>8, <2>1, GoodTxn_Grows DEF Open, LogTypes
    <2>3. CallTypes'
        <3>1. \A q \in Procs : GoodTxn(copy[q])'
            BY <1>8, <2>1, GoodTxn_Grows DEF Open, Return, LogTypes, CallTypes, GoodTxn
        <3> QED
            BY <1>8, <2>1, <3>1 DEF Open, Return, At, LogTypes, CallTypes, Jobs, NoJob
    <2>4. PcSound'
        BY <1>8, <2>1 DEF Open, Return, At, LogTypes, CallTypes, PcSound, InRotation, lockVars,
                          LockInv, LockTypeOK
    <2> QED
        BY <2>2, <2>3, <2>4
<1>9. CASE Write(p)
    <2>1. /\ fd[p] \in 1 .. files /\ job[p].row \in Rows \cup {OtherRow}
        BY <1>9 DEF Write, PcSound, CallTypes, Jobs
    <2>2. LogTypes'
        BY <1>9, <2>1 DEF Write, LogTypes, GoodTxn
    <2>3. CallTypes'
        BY <1>9, <2>1 DEF Write, Return, At, CallTypes, GoodTxn, Jobs, NoJob, LogTypes
    <2>4. PcSound'
        BY <1>9 DEF Write, Return, At, CallTypes, PcSound, InRotation, lockVars, LockInv, LockTypeOK
    <2> QED
        BY <2>2, <2>3, <2>4
<1>10. CASE OpenLook(p)
    <2>1. LogTypes'
        BY <1>10 DEF OpenLook, LogTypes, logVars, GoodTxn
    <2>2. CallTypes'
        BY <1>10 DEF OpenLook, At, LogTypes, CallTypes, logVars, GoodTxn
    <2>3. PcSound'
        BY <1>10 DEF OpenLook, At, CallTypes, PcSound, InRotation, lockVars, logVars
    <2> QED
        BY <2>1, <2>2, <2>3
<1> QED
    BY <1>1, <1>2, <1>3, <1>4, <1>5, <1>6, <1>7, <1>8, <1>9, <1>10

LEMMA Next_TypeInv ==
    ASSUME TypeInv, [Next]_vars
    PROVE  TypeInv'
<1>1. LockInv'
    BY Next_LockInv
<1>2. CASE UNCHANGED vars
    BY <1>1, <1>2 DEF vars, TypeInv, LogTypes, CallTypes, PcSound, GoodTxn, logVars, callVars,
                      lockVars
<1>3. ASSUME NEW p \in Procs,
             \/ AppendCall(p) \/ RotateCall(p) \/ StrictCall(p)
             \/ LockStep(p) \/ LockTimeOut(p) \/ Proceed(p)
             \/ FillFault(p) \/ RotationFault(p) \/ ReleaseFault(p) \/ AppendFault(p)
             \/ Crash(p)
      PROVE  TypeInv'
    BY <1>1, <1>3, Call_Types, Lock_Types, Inside_Types DEF Proceed, TypeInv
<1> QED
    BY <1>2, <1>3 DEF Next

-----------------------------------------------------------------------------
(* Rows: a row is unsent, in the hands of one call, in one file, or given   *)
(* up; and a file that was created keeps a name.                            *)
HandedOnce ==
    \A r \in Rows :
        /\ r \in unsent => \A p \in Procs : job[p].row # r
        /\ \A p, q \in Procs : job[p].row = r /\ job[q].row = r => p = q
WrittenOnce ==
    \A r \in Rows :
        /\ \A f \in 1 .. files :
              <<f, r>> \in content => r \notin unsent /\ \A p \in Procs : job[p].row # r
        /\ \A f, g \in 1 .. files : <<f, r>> \in content /\ <<g, r>> \in content => f = g
        /\ r \in reported => \E f \in 1 .. files : <<f, r>> \in content
AllNamed == \A f \in 1 .. files : Named(f)

RowsInv == HandedOnce /\ WrittenOnce /\ AllNamed

(* The transaction file, sharpened: what each phase has done, and which of  *)
(* it the holder of the lock has done already.                              *)
OthersComplete(t) ==
    \A m \in archMetas : m[1] # t.name => \E a \in archived : a[1] = m[1]
MetaDone(t) == meta = 0 /\ MetaArchived(t)
ActiveDone(t) == ArchivedFiles(t) = {<<t.name, t.file>>} /\ active # t.file

TxnSound(t) ==
    /\ t # NoTxn => OthersComplete(t)
    /\ t = NoTxn => \A m \in archMetas : \E a \in archived : a[1] = m[1]
    /\ t.phase = "prepared" =>
          /\ active = t.file /\ ArchivedFiles(t) = {}
          /\ (meta = t.old /\ meta # 0 /\ ~MetaArchived(t)) \/ MetaDone(t)
    /\ t.phase = "meta_archived" =>
          /\ MetaDone(t)
          /\ (active = t.file /\ ArchivedFiles(t) = {}) \/ ActiveDone(t)
    /\ t.phase = "active_archived" => meta = 0 /\ ActiveDone(t)
    /\ t.phase = "active_created" => active # 0 /\ meta \in {0, t.name} /\ ActiveDone(t)
    /\ t.phase = "meta_created" => active # 0 /\ meta = t.name /\ ActiveDone(t)

WorkDone(t) ==
    /\ t.phase = "prepared" => MetaDone(t)
    /\ t.phase = "meta_archived" => ActiveDone(t)
    /\ t.phase = "active_archived" => active # 0
    /\ t.phase = "active_created" => meta = t.name

HolderSound(p) ==
    /\ pc[p] \in {"phase", "record"} => copy[p] = txn
    /\ pc[p] \in {"generation", "decide"} => txn = NoTxn
    /\ pc[p] = "decide" => meta # 0
    /\ pc[p] = "record" => WorkDone(copy[p])

LogInv == overtaken \/ (TxnSound(txn) /\ \A p \in Procs : HolderSound(p))

LEMMA Init_LogInv ==
    Init => RowsInv /\ LogInv
BY RotatingAssumption
DEF Init, RowsInv, HandedOnce, WrittenOnce, AllNamed, LogInv, TxnSound, NoTxn, HolderSound, NoJob

-----------------------------------------------------------------------------
(* Rows.                                                                    *)
LEMMA Rows_Unwritten ==
    ASSUME TypeInv, RowsInv, UNCHANGED <<content, unsent, reported>>,
           files' \in Nat, files <= files',
           \A q \in Procs : job'[q].row \in {job[q].row, OtherRow}
    PROVE  HandedOnce' /\ WrittenOnce'
<1> USE RotatingAssumption DEF TypeInv, RowsInv, LogTypes
<1>1. HandedOnce'
    BY DEF HandedOnce
<1>2. \A r \in Rows, f \in 1 .. files' : <<f, r>> \in content' => f \in 1 .. files
    OBVIOUS
<1>3. WrittenOnce'
    BY <1>2 DEF WrittenOnce
<1> QED
    BY <1>1, <1>3

LEMMA Ensure_Named ==
    ASSUME TypeInv, AllNamed, EnsureActive, UNCHANGED archived
    PROVE  AllNamed' /\ files' \in Nat /\ files <= files'
BY DEF TypeInv, LogTypes, AllNamed, Named, EnsureActive

LEMMA Next_RowsInv ==
    ASSUME TypeInv, RowsInv, [Next]_vars
    PROVE  RowsInv'
<1> USE DEF RowsInv
<1>0. files \in Nat /\ files <= files
    BY DEF TypeInv, LogTypes
<1>1. CASE UNCHANGED vars
    BY <1>1 DEF vars, logVars, callVars, HandedOnce, WrittenOnce, AllNamed, Named
<1>2. ASSUME NEW p \in Procs, AppendCall(p)
      PROVE  RowsInv'
    <2>1. AllNamed'
        BY <1>2 DEF AppendCall, Start, logVars, AllNamed, Named
    <2>2. PICK row \in unsent \cup {OtherRow} :
            /\ unsent' = unsent \ {row}
            /\ job'[p].row = row /\ \A q \in Procs \ {p} : job'[q] = job[q]
            /\ UNCHANGED <<logVars, reported>>
        BY <1>2 DEF AppendCall, Start, TypeInv, CallTypes
    <2>3. HandedOnce'
        BY <2>2, RotatingAssumption DEF HandedOnce
    <2>4. WrittenOnce'
        <3>1. UNCHANGED <<files, content>> /\ unsent' \subseteq unsent
            BY <2>2 DEF logVars
        <3>2. ASSUME NEW r \in Rows, NEW f \in 1 .. files, <<f, r>> \in content
              PROVE  r \notin unsent' /\ \A q \in Procs : job'[q].row # r
            BY <2>2, <3>1, <3>2, RotatingAssumption DEF WrittenOnce
        <3> QED
            BY <2>2, <3>1, <3>2 DEF WrittenOnce
    <2> QED
        BY <2>1, <2>3, <2>4
<1>3. ASSUME NEW p \in Procs, RotateCall(p) \/ StrictCall(p)
      PROVE  RowsInv'
    <2>1. AllNamed'
        BY <1>3 DEF RotateCall, StrictCall, Start, logVars, AllNamed, Named
    <2>2. \A q \in Procs : job'[q].row \in {job[q].row, OtherRow}
        BY <1>3 DEF RotateCall, StrictCall, Start, TypeInv, CallTypes
    <2> QED
        BY <1>0, <1>3, <2>1, <2>2, Rows_Unwritten DEF RotateCall, StrictCall, Start, logVars
<1>4. ASSUME NEW p \in Procs,
             \/ LockStep(p) \/ LockTimeOut(p) \/ FillFault(p) \/ Crash(p)
             \/ ReleaseLock(p) \/ ReleaseFault(p) \/ AppendFault(p) \/ OpenRaced(p)
      PROVE  RowsInv'
    <2>1. UNCHANGED <<logVars, unsent, reported>>
        BY <1>4 DEF LockStep, LockTimeOut, FillFault, Crash, ReleaseLock, ReleaseFault,
                    AppendFault, OpenRaced, callVars
    <2>2. AllNamed'
        BY <2>1 DEF logVars, AllNamed, Named
    <2>3. job' = job \/ AfterRotation(p) \/ Return(p)
        BY <1>4 DEF LockStep, LockTimeOut, FillFault, Crash, ReleaseLock, ReleaseFault,
                    AppendFault, OpenRaced, callVars
    <2>4. \A q \in Procs : job'[q].row \in {job[q].row, OtherRow}
        BY <2>3 DEF AfterRotation, Return, NoJob, TypeInv, CallTypes
    <2> QED
        BY <1>0, <2>1, <2>2, <2>4, Rows_Unwritten DEF logVars
<1>5. ASSUME NEW p \in Procs,
             \/ Enter(p) \/ Decide(p) \/ Record(p) \/ RemoveTransaction(p)
             \/ RotationFault(p) \/ OpenLook(p)
      PROVE  RowsInv'
    <2>1. UNCHANGED <<files, active, content, archived, job, unsent, reported>>
        BY <1>5 DEF Enter, Decide, Record, RemoveTransaction, RotationFault, OpenLook, logVars
    <2>2. AllNamed'
        BY <2>1 DEF AllNamed, Named
    <2> QED
        BY <1>0, <2>1, <2>2, Rows_Unwritten
<1>6. ASSUME NEW p \in Procs, Generation(p) \/ Open(p)
      PROVE  RowsInv'
    <2>1. AllNamed' /\ files' \in Nat /\ files <= files'
        BY <1>6, Ensure_Named DEF Generation, Open
    <2>2. \A q \in Procs : job'[q].row \in {job[q].row, OtherRow}
        BY <1>6 DEF Generation, Open, Return, NoJob, TypeInv, CallTypes
    <2> QED
        BY <1>6, <2>1, <2>2, Rows_Unwritten DEF Generation, Open
<1>7. ASSUME NEW p \in Procs, Work(p)
      PROVE  RowsInv'
    <2>1. UNCHANGED <<content, job, unsent, reported>>
        BY <1>7 DEF Work, ArchiveMeta, ArchiveActive, CreateActive, CreateMeta, InPhase
    <2>2. CASE CreateActive(p) /\ EnsureActive
        <3>1. AllNamed' /\ files' \in Nat /\ files <= files'
            BY <2>2, Ensure_Named DEF CreateActive
        <3> QED
            BY <2>1, <3>1, Rows_Unwritten
    <2>3. CASE ArchiveActive(p) /\ ArchivedFiles(copy[p]) = {} /\ RenameActive(copy[p])
        <3>1. files' = files
            BY <2>3 DEF ArchiveActive
        <3>2. archived' = archived \cup {<<copy[p].name, active>>}
            BY <2>3 DEF RenameActive, ArchivedFiles
        <3>3. ASSUME NEW f \in 1 .. files
              PROVE  \E a \in archived' : a[2] = f
            <4>1. CASE active = f
                <5>1. <<copy[p].name, f>> \in archived' /\ <<copy[p].name, f>>[2] = f
                    BY <3>2, <4>1
                <5> QED
                    BY <5>1
            <4>2. CASE active # f
                BY <3>2, <4>2 DEF AllNamed, Named
            <4> QED
                BY <4>1, <4>2
        <3>4. AllNamed'
            BY <3>1, <3>3 DEF AllNamed, Named
        <3> QED
            BY <1>0, <2>1, <3>1, <3>4, Rows_Unwritten
    <2>4. CASE UNCHANGED <<files, active, archived>>
        <3>1. AllNamed'
            BY <2>4 DEF AllNamed, Named
        <3> QED
            BY <1>0, <2>1, <2>4, <3>1, Rows_Unwritten
    <2> QED
        BY <1>7, <2>2, <2>3, <2>4
        DEF Work, ArchiveMeta, ArchiveActive, CreateActive, CreateMeta
<1>8. ASSUME NEW p \in Procs, Write(p)
      PROVE  RowsInv'
    <2> DEFINE row == job[p].row
    <2>1. /\ fd[p] \in 1 .. files
          /\ content' = content \cup {<<fd[p], row>>}
          /\ reported' = reported \cup ({row} \ {OtherRow})
          /\ UNCHANGED <<files, active, archived, unsent>>
          /\ job'[p].row = OtherRow /\ \A q \in Procs \ {p} : job'[q] = job[q]
        BY <1>8 DEF Write, Return, NoJob, TypeInv, PcSound, CallTypes
    <2>2. AllNamed'
        BY <2>1 DEF AllNamed, Named
    <2>3. HandedOnce'
        BY <2>1, RotatingAssumption DEF HandedOnce
    <2>4. WrittenOnce'
        BY <2>1, RotatingAssumption DEF WrittenOnce, HandedOnce
    <2> QED
        BY <2>2, <2>3, <2>4
<1> QED
    BY <1>1, <1>2, <1>3, <1>4, <1>5, <1>6, <1>7, <1>8 DEF Next, Proceed

-----------------------------------------------------------------------------
(* The transaction.                                                         *)
LEMMA One_Holder ==
    ASSUME TypeInv, ~overtaken, NEW p \in Procs, NEW q \in Procs,
           pc[p] \in InRotation \cup {"release"}, pc[q] \in InRotation \cup {"release"}
    PROVE  p = q
<1>1. stage[p] = "held" /\ stage[q] = "held"
    BY DEF TypeInv, PcSound
<1> QED
    BY <1>1 DEF TypeInv, LockInv, OwnersHold

LEMMA Log_Quiet ==
    ASSUME LogInv, overtaken => overtaken',
           UNCHANGED <<active, meta, archived, archMetas, txn>>,
           \A q \in Procs :
               \/ pc'[q] = pc[q] /\ copy'[q] = copy[q]
               \/ pc'[q] \notin InRotation
    PROVE  LogInv'
<1>1. TxnSound(txn) => TxnSound(txn)'
    BY DEF TxnSound, OthersComplete, MetaDone, ActiveDone, MetaArchived, ArchivedFiles
<1>2. ASSUME NEW q \in Procs, HolderSound(q)
      PROVE  HolderSound(q)'
    BY <1>2 DEF HolderSound, WorkDone, MetaDone, ActiveDone, MetaArchived, ArchivedFiles,
                InRotation
<1> QED
    BY <1>1, <1>2 DEF LogInv

(* A step of the holder: the others are not in a rotation.                  *)
LEMMA Log_Holder ==
    ASSUME TypeInv, TypeInv', ~overtaken, ~overtaken', NEW p \in Procs,
           pc[p] \in InRotation \cup {"release"}, \A q \in Procs \ {p} : pc'[q] = pc[q],
           TxnSound(txn)', HolderSound(p)'
    PROVE  LogInv'
<1>1. ASSUME NEW q \in Procs \ {p}
      PROVE  HolderSound(q)'
    <2>1. pc'[q] \notin InRotation
        BY One_Holder
    <2> QED
        BY <2>1 DEF HolderSound, InRotation
<1> QED
    BY <1>1 DEF LogInv

(* An append may create the active file at any time.                        *)
LEMMA Log_Ensure ==
    ASSUME TypeInv, TxnSound(txn), EnsureActive,
           UNCHANGED <<content, gens, meta, archived, archMetas, txn>>
    PROVE  /\ TxnSound(txn)'
           /\ active' # 0
           /\ \A t : GoodTxn(t) /\ t # NoTxn /\ WorkDone(t) => WorkDone(t)'
<1>1. GoodTxn(txn) /\ files \in Nat /\ active \in 0 .. files
    BY DEF TypeInv, LogTypes
<1>2. active' # 0
    BY <1>1 DEF EnsureActive
<1>3. ASSUME NEW t, GoodTxn(t), t # NoTxn
      PROVE  /\ active = t.file => active' = t.file
             /\ active # t.file => active' # t.file
    <2>1. t.file \in 1 .. files
        BY <1>3, GoodTxn_Phase
    <2> QED
        BY <1>1, <2>1 DEF EnsureActive
<1>4. \A t : /\ MetaDone(t) <=> MetaDone(t)'
             /\ OthersComplete(t) <=> OthersComplete(t)'
             /\ ArchivedFiles(t) = ArchivedFiles(t)'
             /\ MetaArchived(t) <=> MetaArchived(t)'
    BY DEF MetaDone, OthersComplete, ArchivedFiles, MetaArchived
<1>5. ASSUME NEW t, GoodTxn(t), t # NoTxn, ActiveDone(t)
      PROVE  ActiveDone(t)'
    BY <1>3, <1>4, <1>5 DEF ActiveDone
<1>6. TxnSound(txn)'
    <2>1. CASE txn = NoTxn
        BY <2>1 DEF TxnSound, NoTxn
    <2>2. CASE txn # NoTxn
        BY <1>1, <1>2, <1>3, <1>4, <1>5, <2>2 DEF TxnSound
    <2> QED
        BY <2>1, <2>2
<1>7. \A t : GoodTxn(t) /\ t # NoTxn /\ WorkDone(t) => WorkDone(t)'
    BY <1>2, <1>4, <1>5 DEF WorkDone
<1> QED
    BY <1>2, <1>6, <1>7

LEMMA Outside_LogInv ==
    ASSUME TypeInv, LogInv, NEW p \in Procs,
           \/ AppendCall(p) \/ RotateCall(p) \/ StrictCall(p)
           \/ LockStep(p) \/ LockTimeOut(p) \/ FillFault(p) \/ Crash(p)
           \/ ReleaseLock(p) \/ ReleaseFault(p) \/ RotationFault(p)
           \/ AppendFault(p) \/ OpenLook(p) \/ OpenRaced(p)
    PROVE  LogInv'
<1>1. UNCHANGED logVars
    BY DEF AppendCall, RotateCall, StrictCall, Start, LockStep, LockTimeOut, FillFault, Crash,
           ReleaseLock, ReleaseFault, AppendFault, RotationFault, OpenLook, OpenRaced
<1>2. overtaken => overtaken'
    BY DEF AppendCall, RotateCall, StrictCall, Start, LockStep, LockTimeOut, FillFault, Crash,
           ReleaseLock, ReleaseFault, AppendFault, RotationFault, OpenLook, OpenRaced, Want,
           Create, Examine, Fill, Steal, TimeOut, FillFails, LockCrash, LeaveBehind, Release,
           lockVars
<1>3. ASSUME NEW q \in Procs
      PROVE  \/ pc'[q] = pc[q] /\ copy'[q] = copy[q]
             \/ pc'[q] \notin InRotation
    <2>1. CASE AppendCall(p) \/ RotateCall(p) \/ StrictCall(p)
        BY <2>1 DEF AppendCall, RotateCall, StrictCall, Start, At, TypeInv, CallTypes, InRotation
    <2>2. CASE LockStep(p)
        BY <2>2 DEF LockStep, callVars
    <2>3. CASE AfterRotation(p) \/ Return(p)
        BY <2>3 DEF AfterRotation, Return, At, TypeInv, CallTypes, InRotation
    <2>4. CASE RotationFault(p)
        BY <2>4 DEF RotationFault, At, TypeInv, CallTypes, InRotation
    <2>5. CASE OpenLook(p)
        BY <2>5 DEF OpenLook, At, TypeInv, CallTypes, InRotation
    <2> QED
        BY <2>1, <2>2, <2>3, <2>4, <2>5
        DEF LockTimeOut, FillFault, Crash, ReleaseLock, ReleaseFault, AppendFault, OpenRaced
<1> QED
    BY <1>1, <1>2, <1>3, Log_Quiet DEF logVars

LEMMA Inside_LogInv ==
    ASSUME TypeInv, TypeInv', LogInv, NEW p \in Procs,
           \/ Enter(p) \/ Generation(p) \/ Decide(p) \/ Record(p)
           \/ RemoveTransaction(p) \/ Open(p) \/ Write(p)
    PROVE  LogInv'
<1>0. overtaken' = overtaken
    BY DEF Enter, Generation, Decide, Record, RemoveTransaction, Open, Write, lockVars
<1>1. CASE overtaken
    BY <1>0, <1>1 DEF LogInv
<1> SUFFICES ASSUME ~overtaken, ~overtaken', TxnSound(txn), \A q \in Procs : HolderSound(q)
             PROVE  LogInv'
    BY <1>0, <1>1 DEF LogInv
<1>2. /\ GoodTxn(txn) /\ files \in Nat /\ gens \in Nat
      /\ active \in 0 .. files /\ meta \in 0 .. gens
      /\ archived \subseteq (1 .. gens) \X (1 .. files)
      /\ archMetas \subseteq (1 .. gens) \X (1 .. gens)
      /\ pc \in [Procs -> Outside \cup InRotation]
      /\ DOMAIN copy = Procs
    BY DEF TypeInv, LogTypes, CallTypes
<1>3. CASE Enter(p)
    <2>1. /\ UNCHANGED <<active, meta, archived, archMetas, txn>>
          /\ \A q \in Procs \ {p} : pc'[q] = pc[q] /\ copy'[q] = copy[q]
          /\ \/ pc'[p] = "release"
             \/ /\ copy'[p] = txn
                /\ (pc'[p] = "generation" /\ txn = NoTxn) \/ pc'[p] = "phase"
        BY <1>2, <1>3 DEF Enter, At, logVars
    <2>2. TxnSound(txn)'
        BY <2>1 DEF TxnSound, OthersComplete, MetaDone, ActiveDone, MetaArchived, ArchivedFiles
    <2>3. HolderSound(p)'
        BY <2>1 DEF HolderSound
    <2>4. ASSUME NEW q \in Procs \ {p}
          PROVE  HolderSound(q)'
        BY <2>1 DEF HolderSound, WorkDone, MetaDone, ActiveDone, MetaArchived, ArchivedFiles
    <2> QED
        BY <2>2, <2>3, <2>4 DEF LogInv
<1>4. CASE Generation(p)
    <2>1. /\ txn' = NoTxn /\ UNCHANGED <<archived, archMetas>> /\ meta' # 0
          /\ pc'[p] \in {"decide", "release"} /\ \A q \in Procs \ {p} : pc'[q] = pc[q]
          /\ txn = NoTxn
        BY <1>2, <1>4 DEF Generation, At, HolderSound
    <2>2. TxnSound(txn)'
        BY <2>1 DEF TxnSound, NoTxn
    <2>3. HolderSound(p)'
        BY <2>1 DEF HolderSound
    <2> QED
        BY <1>4, <2>1, <2>2, <2>3, Log_Holder DEF Generation, InRotation
<1>5. CASE Decide(p)
    <2>1. txn = NoTxn /\ meta # 0
        BY <1>5 DEF Decide, HolderSound
    <2>2. CASE pc'[p] = "release"
        <3>1. UNCHANGED <<active, meta, archived, archMetas, txn>>
            BY <1>2, <1>5, <2>2 DEF Decide, At
        <3> QED
            BY <1>2, <1>5, <2>2, <3>1, Log_Quiet DEF Decide, At, InRotation, LogInv
    <2>3. CASE pc'[p] # "release"
        <3>1. /\ txn' = [phase |-> "prepared", name |-> gens + 1, old |-> meta, file |-> active]
              /\ copy'[p] = txn' /\ pc'[p] = "phase"
              /\ UNCHANGED <<active, meta, archived, archMetas>>
              /\ \A q \in Procs \ {p} : pc'[q] = pc[q]
            BY <1>2, <1>5, <2>3 DEF Decide, At
        <3>2. /\ ArchivedFiles(txn') = {} /\ ~MetaArchived(txn')
            BY <1>2, <3>1 DEF ArchivedFiles, MetaArchived
        <3>3. TxnSound(txn)'
            BY <2>1, <3>1, <3>2 DEF TxnSound, NoTxn, OthersComplete, ArchivedFiles, MetaArchived
        <3>4. HolderSound(p)'
            BY <3>1 DEF HolderSound
        <3> QED
            BY <1>5, <3>1, <3>3, <3>4, Log_Holder DEF Decide, InRotation
    <2> QED
        BY <2>2, <2>3
<1>6. CASE Record(p)
    <2>1. /\ copy[p] = txn /\ WorkDone(txn) /\ txn.phase \in Working
        BY <1>6 DEF Record, HolderSound, TypeInv, PcSound
    <2>2. /\ txn # NoTxn
          /\ txn \in [phase : Phases, name : Nat, old : Nat, file : Nat]
          /\ txn.file \in 1 .. files
        BY <1>2, <2>1, GoodTxn_Phase DEF NoTxn, Working
    <2>3. NextPhase(txn.phase) \in Phases
        BY <2>1 DEF NextPhase, Working, Phases
    <2>4. txn' = [txn EXCEPT !.phase = NextPhase(txn.phase)]
        BY <1>2, <1>6, <2>1 DEF Record
    <2>5. /\ txn'.phase = NextPhase(txn.phase)
          /\ txn'.name = txn.name /\ txn'.old = txn.old /\ txn'.file = txn.file
          /\ txn' # NoTxn
        BY <2>2, <2>3, <2>4 DEF NoTxn, Phases
    <2>6. /\ copy'[p] = txn' /\ pc'[p] = "phase"
          /\ \A q \in Procs \ {p} : pc'[q] = pc[q]
          /\ UNCHANGED <<active, meta, archived, archMetas>>
        BY <1>2, <1>6 DEF Record, At
    <2>7. /\ OthersComplete(txn) => OthersComplete(txn)'
          /\ MetaDone(txn) <=> MetaDone(txn)'
          /\ ActiveDone(txn) <=> ActiveDone(txn)'
          /\ ArchivedFiles(txn) = ArchivedFiles(txn)'
        BY <2>5, <2>6 DEF OthersComplete, MetaDone, ActiveDone, ArchivedFiles, MetaArchived
    <2>8. TxnSound(txn)'
        <3>1. CASE txn.phase = "prepared"
            BY <2>1, <2>2, <2>5, <2>6, <2>7, <3>1 DEF TxnSound, WorkDone, NextPhase
        <3>2. CASE txn.phase = "meta_archived"
            BY <2>1, <2>2, <2>5, <2>6, <2>7, <3>2 DEF TxnSound, WorkDone, NextPhase, MetaDone
        <3>3. CASE txn.phase = "active_archived"
            BY <2>1, <2>2, <2>5, <2>6, <2>7, <3>3 DEF TxnSound, WorkDone, NextPhase
        <3>4. CASE txn.phase = "active_created"
            BY <2>1, <2>2, <2>5, <2>6, <2>7, <3>4 DEF TxnSound, WorkDone, NextPhase
        <3> QED
            BY <2>1, <3>1, <3>2, <3>3, <3>4 DEF Working
    <2>9. HolderSound(p)'
        BY <2>6 DEF HolderSound
    <2> QED
        BY <1>6, <2>6, <2>8, <2>9, Log_Holder DEF Record, InRotation
<1>7. CASE RemoveTransaction(p)
    <2>1. /\ copy[p] = txn /\ txn.phase = "meta_created"
          /\ txn' = NoTxn /\ UNCHANGED <<archived, archMetas>>
          /\ pc'[p] = "release" /\ \A q \in Procs \ {p} : pc'[q] = pc[q]
        BY <1>2, <1>7 DEF RemoveTransaction, Phase, At, HolderSound
    <2>2. txn # NoTxn /\ <<txn.name, txn.file>> \in archived
        BY <2>1 DEF TxnSound, NoTxn, ActiveDone, ArchivedFiles
    <2>3. ASSUME NEW m \in archMetas
          PROVE  \E a \in archived : a[1] = m[1]
        BY <2>2 DEF TxnSound, OthersComplete
    <2>4. TxnSound(txn)'
        BY <2>1, <2>3 DEF TxnSound, NoTxn
    <2>5. HolderSound(p)'
        BY <2>1 DEF HolderSound
    <2> QED
        BY <1>7, <2>1, <2>4, <2>5, Log_Holder DEF RemoveTransaction, Phase, InRotation
<1>8. CASE Open(p)
    <2>1. /\ TxnSound(txn)'
          /\ \A t : GoodTxn(t) /\ t # NoTxn /\ WorkDone(t) => WorkDone(t)'
        BY <1>8, Log_Ensure DEF Open
    <2>2. ASSUME NEW q \in Procs
          PROVE  HolderSound(q)'
        <3>0. /\ txn' = txn /\ meta' = meta
              /\ pc'[q] \in {"idle", "write"} \/ (pc'[q] = pc[q] /\ copy'[q] = copy[q])
            BY <1>2, <1>8 DEF Open, Return, At
        <3>1. CASE pc[q] = "record" /\ pc'[q] \notin {"idle", "write"}
            <4>1. GoodTxn(copy[q]) /\ copy[q] # NoTxn /\ copy'[q] = copy[q]
                BY <3>0, <3>1 DEF TypeInv, CallTypes, PcSound, NoTxn, Working
            <4>2. WorkDone(copy[q]) => WorkDone(copy[q])'
                BY <2>1, <4>1 DEF Open, WorkDone, MetaDone, ActiveDone, MetaArchived,
                                  ArchivedFiles
            <4> QED
                BY <3>0, <3>1, <4>1, <4>2 DEF HolderSound
        <3>2. CASE pc[q] # "record" \/ pc'[q] \in {"idle", "write"}
            BY <3>0, <3>2 DEF HolderSound
        <3> QED
            BY <3>1, <3>2
    <2> QED
        BY <2>1, <2>2 DEF LogInv
<1>9. CASE Write(p)
    <2>1. /\ UNCHANGED <<active, meta, archived, archMetas, txn>>
          /\ pc'[p] \notin InRotation
          /\ \A q \in Procs \ {p} : pc'[q] = pc[q] /\ copy'[q] = copy[q]
        BY <1>2, <1>9 DEF Write, Return, At, InRotation
    <2> QED
        BY <1>0, <2>1, Log_Quiet DEF LogInv
<1> QED
    BY <1>3, <1>4, <1>5, <1>6, <1>7, <1>8, <1>9

LEMMA Work_LogInv ==
    ASSUME TypeInv, TypeInv', LogInv, NEW p \in Procs, Work(p)
    PROVE  LogInv'
<1>0. /\ overtaken' = overtaken /\ pc[p] = "phase"
      /\ UNCHANGED <<content, gens, txn, copy>>
      /\ pc'[p] \in {"record", "release"} /\ \A q \in Procs \ {p} : pc'[q] = pc[q]
    BY DEF Work, ArchiveMeta, ArchiveActive, CreateActive, CreateMeta, Phase, InPhase, At,
           lockVars, TypeInv, CallTypes
<1>1. CASE overtaken
    BY <1>0, <1>1 DEF LogInv
<1> SUFFICES ASSUME ~overtaken, ~overtaken', TxnSound(txn), copy[p] = txn, txn # NoTxn
             PROVE  TxnSound(txn)' /\ (pc'[p] = "record" => WorkDone(txn)')
    <2>1. CASE overtaken
        BY <1>1, <2>1
    <2>2. CASE ~overtaken
        <3>1. TxnSound(txn) /\ copy[p] = txn
            BY <1>0, <2>2 DEF LogInv, HolderSound
        <3>2. txn # NoTxn
            BY <1>0, <3>1 DEF TypeInv, PcSound, NoTxn, Phases
        <3>3. TxnSound(txn)' /\ (pc'[p] = "record" => WorkDone(txn)')
            BY <1>0, <2>2, <3>1, <3>2
        <3>4. HolderSound(p)'
            BY <1>0, <3>1, <3>3 DEF HolderSound, WorkDone, MetaDone, ActiveDone, MetaArchived,
                                    ArchivedFiles
        <3> QED
            BY <1>0, <2>2, <3>3, <3>4, Log_Holder DEF InRotation
    <2> QED
        BY <2>1, <2>2
<1>2. /\ GoodTxn(txn) /\ files \in Nat /\ active \in 0 .. files
      /\ txn.name \in 1 .. gens /\ txn.file \in 1 .. files /\ txn.phase \in Phases
    BY GoodTxn_Phase, <1>0 DEF TypeInv, LogTypes, PcSound
<1>3. CASE ArchiveMeta(p)
    <2>1. txn.phase = "prepared" /\ UNCHANGED <<active, archived>>
        BY <1>3 DEF ArchiveMeta, Phase
    <2>2. active = txn.file /\ ArchivedFiles(txn) = {} /\ OthersComplete(txn)
        BY <2>1 DEF TxnSound
    <2>3. CASE MetaArchived(txn)
        <3>1. MetaDone(txn) /\ UNCHANGED <<meta, archMetas>>
            BY <1>3, <2>1, <2>3 DEF ArchiveMeta, TxnSound
        <3>2. MetaDone(txn)' /\ OthersComplete(txn)' /\ ArchivedFiles(txn)' = {}
            BY <1>0, <2>1, <2>2, <3>1 DEF MetaDone, MetaArchived, OthersComplete, ArchivedFiles
        <3> QED
            BY <1>0, <2>1, <2>2, <3>2 DEF TxnSound, WorkDone
    <2>4. CASE ~MetaArchived(txn)
        <3>1. meta = txn.old /\ meta # 0
            BY <2>1, <2>4 DEF TxnSound, MetaDone
        <3>2. meta' = 0 /\ archMetas' = archMetas \cup {<<txn.name, meta>>}
            BY <1>3, <2>4, <3>1 DEF ArchiveMeta
        <3>3. <<txn.name, meta>> \in archMetas' /\ <<txn.name, meta>>[1] = txn.name
            BY <3>2
        <3>4. MetaDone(txn)'
            BY <1>0, <3>2, <3>3 DEF MetaDone, MetaArchived
        <3>5. OthersComplete(txn)' /\ ArchivedFiles(txn)' = {}
            BY <1>0, <2>1, <2>2, <3>2 DEF OthersComplete, ArchivedFiles
        <3> QED
            BY <1>0, <2>1, <2>2, <3>4, <3>5 DEF TxnSound, WorkDone
    <2> QED
        BY <2>3, <2>4
<1>4. CASE ArchiveActive(p)
    <2>1. /\ txn.phase = "meta_archived" /\ UNCHANGED <<files, meta, archMetas>>
          /\ MetaDone(txn) /\ OthersComplete(txn)
        BY <1>4 DEF ArchiveActive, Phase, TxnSound
    <2>2. MetaDone(txn)'
        BY <1>0, <2>1 DEF MetaDone, MetaArchived
    <2>3. CASE ArchivedFiles(txn) = {} /\ RenameActive(txn)
        <3>1. active = txn.file
            BY <2>1, <2>3 DEF TxnSound, ActiveDone
        <3>2. archived' = archived \cup {<<txn.name, txn.file>>} /\ active' = 0
            BY <2>3, <3>1 DEF RenameActive, ArchivedFiles
        <3>3. ActiveDone(txn)'
            BY <1>0, <1>2, <2>3, <3>2 DEF ActiveDone, ArchivedFiles
        <3>4. OthersComplete(txn)'
            BY <1>0, <2>1, <3>2 DEF OthersComplete
        <3> QED
            BY <1>0, <2>1, <2>2, <3>3, <3>4 DEF TxnSound, WorkDone
    <2>4. CASE UNCHANGED <<active, archived>>
        <3>1. /\ OthersComplete(txn)' /\ ArchivedFiles(txn)' = ArchivedFiles(txn)
              /\ ActiveDone(txn)' = ActiveDone(txn)
            BY <1>0, <2>1, <2>4 DEF OthersComplete, ArchivedFiles, ActiveDone
        <3>2. TxnSound(txn)'
            BY <1>0, <2>1, <2>2, <2>4, <3>1 DEF TxnSound
        <3>3. pc'[p] = "record" => ArchivedFiles(txn) # {} \/ RenameActive(txn)
            BY <1>4 DEF ArchiveActive, At, TypeInv, CallTypes
        <3>4. pc'[p] = "record" => ActiveDone(txn)
            BY <1>2, <2>1, <2>4, <3>3 DEF TxnSound, RenameActive
        <3> QED
            BY <1>0, <2>1, <3>1, <3>2, <3>4 DEF WorkDone
    <2> QED
        BY <1>4, <2>3, <2>4 DEF ArchiveActive
<1>5. CASE CreateActive(p)
    <2>1. /\ txn.phase = "active_archived" /\ UNCHANGED <<meta, archived, archMetas>>
          /\ EnsureActive \/ UNCHANGED <<files, active>>
          /\ pc'[p] = "record" => EnsureActive
        BY <1>5 DEF CreateActive, Phase, At, TypeInv, CallTypes
    <2>2. CASE EnsureActive
        BY <1>0, <2>1, <2>2, Log_Ensure DEF WorkDone
    <2>3. CASE UNCHANGED <<files, active>> /\ pc'[p] # "record"
        BY <1>0, <2>1, <2>3 DEF TxnSound, OthersComplete, MetaDone, ActiveDone, MetaArchived,
                                ArchivedFiles
    <2> QED
        BY <2>1, <2>2, <2>3
<1>6. CASE CreateMeta(p)
    <2>1. /\ txn.phase = "active_created" /\ UNCHANGED <<active, archived, archMetas>>
          /\ meta' \in {meta, txn.name}
          /\ pc'[p] = "record" => meta' = txn.name
        BY <1>6 DEF CreateMeta, Phase, At, TypeInv, CallTypes
    <2>2. /\ OthersComplete(txn)' = OthersComplete(txn)
          /\ ActiveDone(txn)' = ActiveDone(txn)
        BY <1>0, <2>1 DEF OthersComplete, ActiveDone, ArchivedFiles
    <2> QED
        BY <1>0, <2>1, <2>2 DEF TxnSound, WorkDone
<1> QED
    BY <1>3, <1>4, <1>5, <1>6 DEF Work

-----------------------------------------------------------------------------
IInv == TypeInv /\ RowsInv /\ LogInv

LEMMA Next_IInv ==
    ASSUME IInv, [Next]_vars
    PROVE  IInv'
<1> USE DEF IInv
<1>1. TypeInv' /\ RowsInv'
    BY Next_TypeInv, Next_RowsInv
<1>2. CASE UNCHANGED vars
    BY <1>2, Log_Quiet, <1>1 DEF vars, lockVars, logVars, callVars
<1>3. ASSUME NEW p \in Procs,
             \/ AppendCall(p) \/ RotateCall(p) \/ StrictCall(p)
             \/ LockStep(p) \/ LockTimeOut(p) \/ Proceed(p)
             \/ FillFault(p) \/ RotationFault(p) \/ ReleaseFault(p) \/ AppendFault(p)
             \/ Crash(p)
      PROVE  LogInv'
    BY <1>1, <1>3, Outside_LogInv, Inside_LogInv, Work_LogInv DEF Proceed
<1> QED
    BY <1>1, <1>2, <1>3 DEF Next

LEMMA Spec_IInv ==
    Spec => []IInv
BY Init_TypeInv, Init_LogInv, Next_IInv, PTL DEF Spec, IInv

(* Types, and with one holder the transaction that a rotation works on is   *)
(* the one on disk (rotating-jsonl.ts:527).                                 *)
THEOREM RotationTypeCorrect ==
    Spec => []TypeOK
<1>1. IInv => TypeOK
    BY DEF IInv, TypeInv, LockInv, LogTypes, CallTypes, LogInv, HolderSound, TypeOK
<1> QED
    BY <1>1, Spec_IInv, PTL

(* No reported row is lost or doubled by any number of rotations.           *)
THEOREM RowsAreKept ==
    Spec => []RowsKept
<1>1. IInv => RowsKept
    <2> SUFFICES ASSUME IInv, NEW r \in reported
                 PROVE  \E f \in 1 .. files :
                            /\ Named(f) /\ <<f, r>> \in content
                            /\ \A g \in 1 .. files : <<g, r>> \in content => g = f
        BY DEF RowsKept
    <2>1. r \in Rows
        BY DEF IInv, TypeInv, CallTypes
    <2>2. PICK f \in 1 .. files : <<f, r>> \in content
        BY <2>1 DEF IInv, RowsInv, WrittenOnce
    <2> QED
        BY <2>1, <2>2 DEF IInv, RowsInv, WrittenOnce, AllNamed
<1> QED
    BY <1>1, Spec_IInv, PTL

(* A rotation can be taken up wherever a crash has left it.                 *)
THEOREM RotationNeverWedged ==
    Spec => []NeverWedged
<1>1. ASSUME IInv
      PROVE  NeverWedged
    <2>1. GoodTxn(txn)
        BY <1>1 DEF IInv, TypeInv, LogTypes
    <2>2. CASE overtaken
        BY <2>2 DEF NeverWedged
    <2>3. CASE ~overtaken
        <3>1. TxnSound(txn)
            BY <1>1, <2>3 DEF IInv, LogInv
        <3>2. CASE txn = NoTxn
            BY <3>1, <3>2 DEF TxnSound, Recoverable, NoTxn, NeverWedged
        <3>3. CASE txn # NoTxn
            <4>1. txn.phase \in Phases
                BY <2>1, <3>3, GoodTxn_Phase
            <4> QED
                BY <3>1, <3>3, <4>1
                DEF TxnSound, Recoverable, MetaDone, ActiveDone, Phases, NeverWedged
        <3> QED
            BY <3>2, <3>3
    <2> QED
        BY <2>2, <2>3
<1> QED
    BY <1>1, Spec_IInv, PTL

(* The log's lock excludes as the lock alone does.                          *)
THEOREM RotationsExclusive ==
    Spec => []HoldersExclusive
<1>1. IInv => HoldersExclusive
    BY LockInv_Exclusive DEF IInv, TypeInv
<1> QED
    BY <1>1, Spec_IInv, PTL
=============================================================================
