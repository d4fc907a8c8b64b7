-------------------------- MODULE MCSedimentIntake --------------------------
(***************************************************************************)
(* Instances of SedimentIntake for TLC.                                    *)
(***************************************************************************)
EXTENDS SedimentIntake, TLC

ProcessSymmetry == Permutations(Processes)
=============================================================================
