------------------------------- MODULE FileLock -------------------------------
(***************************************************************************)
(* The lock file of extensions/_shared/runtime.ts (acquireFileLock), which *)
(* the checkpoint, the audit logs and the local maps use between           *)
(* processes.  A file created with O_EXCL is the lock; its record names    *)
(* the pid of its owner and a token.  A waiter removes a file whose owner  *)
(* is dead; it looks at the file twice and unlinks the path afterwards, so *)
(* that another file may be there by then.                                 *)
(*                                                                         *)
(* A process writes its record in less than the staleness bound (30 s or   *)
(* more): a file without a pid that has become stale is one whose creator  *)
(* died or gave up.                                                        *)
(***************************************************************************)
EXTENDS Naturals, FiniteSets

CONSTANTS
    Procs,       \* one waiter or holder per process
    Nobody,      \* the owner of an abandoned file: dead, or never to be known
    NoFile

ASSUME FileLockAssumption == Nobody \notin Procs /\ NoFile \notin Procs /\ Nobody # NoFile

VARIABLES
    lock,        \* owner of the file at the path, or NoFile
    stage,       \* [Procs -> Stages]
    fresh,       \* thieves whose examined file is still the one at the path
    overtaken    \* history: a file other than the examined one was removed

lockVars == <<lock, stage, fresh, overtaken>>

Stages == {"out", "want", "filling", "held", "stealing"}

LockInit ==
    /\ lock = NoFile
    /\ stage = [p \in Procs |-> "out"]
    /\ fresh = {}
    /\ overtaken = FALSE

GoTo(p, s) == stage' = [stage EXCEPT ![p] = s]

-----------------------------------------------------------------------------
Want(p) ==
    /\ stage[p] = "out"
    /\ GoTo(p, "want")
    /\ UNCHANGED <<lock, fresh, overtaken>>

(* O_EXCL, by an ordinary waiter as by strict maintenance                   *)
Create(p) ==
    /\ stage[p] = "want"
    /\ lock = NoFile
    /\ lock' = p
    /\ GoTo(p, "filling")
    /\ UNCHANGED <<fresh, overtaken>>

(* A file that is removed while its record is written stays with its        *)
(* creator: it writes to the open handle.                                   *)
Fill(p) ==
    /\ stage[p] = "filling"
    /\ GoTo(p, "held")
    /\ UNCHANGED <<lock, fresh, overtaken>>

(* unlink by path removes whatever is there; the files that other thieves   *)
(* have examined are no longer at the path.                                 *)
UnlinkPath == lock' = NoFile /\ fresh' = {}

(* The record cannot be written: the creator removes its file and throws.   *)
FillFails(p) ==
    /\ stage[p] = "filling"
    /\ UnlinkPath
    /\ overtaken' = (overtaken \/ lock \notin {p, NoFile})
    /\ GoTo(p, "out")

(* tryStealAbandonedFileLock up to its last look, which sees what the first *)
(* one saw: the same file, its owner dead or without a pid and stale.       *)
ExamineLiving(p) ==
    /\ stage[p] = "want"
    /\ lock # NoFile
    /\ fresh' = fresh \cup {p}
    /\ GoTo(p, "stealing")
    /\ UNCHANGED <<lock, overtaken>>

Examine(p) ==
    /\ stage[p] = "want"
    /\ lock = Nobody
    /\ fresh' = fresh \cup {p}
    /\ GoTo(p, "stealing")
    /\ UNCHANGED <<lock, overtaken>>

Steal(p) ==
    /\ stage[p] = "stealing"
    /\ UnlinkPath
    /\ overtaken' = (overtaken \/ (p \notin fresh /\ lock # NoFile))
    /\ GoTo(p, "want")

(* The file stays for as long as the caller waits; strict maintenance does  *)
(* not wait at all.                                                         *)
TimeOut(p) ==
    /\ stage[p] = "want"
    /\ lock # NoFile
    /\ GoTo(p, "out")
    /\ UNCHANGED <<lock, fresh, overtaken>>

(* The token is read and the path unlinked.  One step: as long as nothing   *)
(* was overtaken nobody else removes the file of a living owner.            *)
Release(p) ==
    /\ stage[p] = "held"
    /\ IF lock = p THEN UnlinkPath ELSE UNCHANGED <<lock, fresh>>
    /\ GoTo(p, "out")
    /\ UNCHANGED overtaken

(* The file stays and names a living process, so that nobody may remove it  *)
(* before that process is gone: its release could not read or unlink it     *)
(* (runtime.ts:724), or strict maintenance failed after it had written its  *)
(* record (rotating-jsonl.ts:761).                                          *)
LeaveBehind(p) ==
    /\ stage[p] \in {"filling", "held"}
    /\ GoTo(p, "out")
    /\ UNCHANGED <<lock, fresh, overtaken>>

(* The process dies, and a new one may come: its pid is another one.        *)
LockCrash(p) ==
    /\ lock' = IF lock = p THEN Nobody ELSE lock
    /\ fresh' = fresh \ {p}
    /\ GoTo(p, "out")
    /\ UNCHANGED overtaken

LockNext ==
    \E p \in Procs :
        \/ Want(p) \/ Create(p) \/ Fill(p) \/ FillFails(p)
        \/ Examine(p) \/ Steal(p) \/ TimeOut(p)
        \/ Release(p) \/ LeaveBehind(p) \/ LockCrash(p)

LockSpec == LockInit /\ [][LockNext]_lockVars

-----------------------------------------------------------------------------
LockTypeOK ==
    /\ lock \in Procs \cup {Nobody, NoFile}
    /\ stage \in [Procs -> Stages]
    /\ fresh \subseteq Procs
    /\ overtaken \in BOOLEAN

(* Two processes never hold the lock at once, unless a thief was overtaken  *)
(* between its last look and its unlink (runtime.ts:767).                   *)
HoldersExclusive ==
    overtaken \/ \A p, q \in Procs : stage[p] = "held" /\ stage[q] = "held" => p = q
=============================================================================
