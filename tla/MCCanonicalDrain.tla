--------------------------- MODULE MCCanonicalDrain ---------------------------
(* Two processes and two content files.                                     *)
EXTENDS CanonicalDrain

CONSTANTS p1, p2, c1, c2

MCProcs == {p1, p2}
MCContents == {c1, c2}
=============================================================================
