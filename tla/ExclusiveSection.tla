--------------------------- MODULE ExclusiveSection ---------------------------
(***************************************************************************)
(* What the canonical mutation barrier promises the sections that run      *)
(* behind it, and what each user of it relies on: a section begins only    *)
(* while no other is in progress, in any process; it ends when its         *)
(* operation does or when its process dies, and nobody is handed the       *)
(* barrier by the one who leaves.                                          *)
(***************************************************************************)
CONSTANT Owners

VARIABLE inside    \* owners whose section is in progress

Init == inside = {}

Enter(o) ==
    /\ inside = {}
    /\ inside' = {o}

Leave == inside' = {}

Next == (\E o \in Owners : Enter(o)) \/ Leave

Spec == Init /\ [][Next]_inside
=============================================================================
