--------------------------- MODULE MCRotatingJsonl ---------------------------
(* Two processes, one with rotation enabled and one without.               *)
EXTENDS RotatingJsonl

CONSTANTS p1, p2, r1

MCProcs == {p1, p2}
MCRows == {r1}
MCRotating == {p1}
=============================================================================
