---------------------------- MODULE FileLockProofs ----------------------------
(***************************************************************************)
(* Exclusion of the lock file for any number of processes.                 *)
(***************************************************************************)
EXTENDS FileLock, TLAPS

(* An examined file that is still there is nobody's, and whoever is between *)
(* the creation and the release of a file finds its own at the path.        *)
FreshIsDead == \A p \in fresh : stage[p] = "stealing" /\ lock = Nobody
OwnersHold ==
    overtaken \/ \A p \in Procs : stage[p] \in {"filling", "held"} => lock = p

LockInv == LockTypeOK /\ FreshIsDead /\ OwnersHold

LEMMA LockInit_Inv ==
    LockInit => LockInv
BY FileLockAssumption DEF LockInit, LockInv, LockTypeOK, FreshIsDead, OwnersHold, Stages

LEMMA LockStep_Inv ==
    ASSUME LockInv, [LockNext]_lockVars
    PROVE  LockInv'
<1> USE FileLockAssumption DEF LockInv, LockTypeOK, FreshIsDead, OwnersHold, Stages, GoTo, UnlinkPath
<1>1. CASE UNCHANGED lockVars
    BY <1>1 DEF lockVars
<1>2. ASSUME NEW p \in Procs, Want(p)
      PROVE  LockInv'
    BY <1>2 DEF Want
<1>3. ASSUME NEW p \in Procs, Create(p)
      PROVE  LockInv'
    BY <1>3 DEF Create
<1>4. ASSUME NEW p \in Procs, Fill(p)
      PROVE  LockInv'
    BY <1>4 DEF Fill
<1>5. ASSUME NEW p \in Procs, FillFails(p)
      PROVE  LockInv'
    BY <1>5 DEF FillFails
<1>6. ASSUME NEW p \in Procs, Examine(p)
      PROVE  LockInv'
    BY <1>6 DEF Examine
<1>7. ASSUME NEW p \in Procs, Steal(p)
      PROVE  LockInv'
    BY <1>7 DEF Steal
<1>8. ASSUME NEW p \in Procs, TimeOut(p)
      PROVE  LockInv'
    BY <1>8 DEF TimeOut
<1>9. ASSUME NEW p \in Procs, Release(p)
      PROVE  LockInv'
    BY <1>9 DEF Release
<1>10. ASSUME NEW p \in Procs, LockCrash(p)
       PROVE  LockInv'
    BY <1>10 DEF LockCrash
<1>11. ASSUME NEW p \in Procs, LeaveBehind(p)
       PROVE  LockInv'
    BY <1>11 DEF LeaveBehind
<1> QED
    BY <1>1, <1>2, <1>3, <1>4, <1>5, <1>6, <1>7, <1>8, <1>9, <1>10, <1>11 DEF LockNext

LEMMA LockInv_Exclusive ==
    LockInv => HoldersExclusive
BY FileLockAssumption DEF LockInv, LockTypeOK, OwnersHold, HoldersExclusive

(* However many processes wait, steal, fail and die: as long as no thief    *)
(* was overtaken before its unlink, at most one of them holds the lock.     *)
THEOREM LockExclusive ==
    LockSpec => []HoldersExclusive
<1>1. LockSpec => []LockInv
    BY LockInit_Inv, LockStep_Inv, PTL DEF LockSpec
<1> QED
    BY <1>1, LockInv_Exclusive, PTL
=============================================================================
