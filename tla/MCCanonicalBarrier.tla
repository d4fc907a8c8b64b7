------------------------- MODULE MCCanonicalBarrier -------------------------
(* Two processes: one with an ordinary, two bounded and a one-shot call,   *)
(* the other with an ordinary one.                                         *)
EXTENDS CanonicalBarrier

CONSTANTS p1, p2, plain, bounded1, bounded2, oneShot, remote

MCProcesses == {p1, p2}
MCCalls == {plain, bounded1, bounded2, oneShot, remote}
MCHomeOf == [c \in MCCalls |-> IF c = remote THEN p2 ELSE p1]
MCBounded == {bounded1, bounded2}
MCTrying == {oneShot}
=============================================================================
