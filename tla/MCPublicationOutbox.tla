------------------------- MODULE MCPublicationOutbox -------------------------
(* A merge of two events in one window and a single event in another.       *)
EXTENDS PublicationOutbox, TLC

CONSTANTS merged, source, single, w1, w2

MCItems == {merged, source, single}
MCWindows == {w1, w2}
MCWindowOf == [i \in MCItems |-> IF i = single THEN w2 ELSE w1]
MCGroupOf == [i \in MCItems |-> IF i = single THEN {single} ELSE {merged, source}]

ProcessSymmetry == Permutations(Processes)
=============================================================================
