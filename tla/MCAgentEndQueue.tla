-------------------------- MODULE MCAgentEndQueue --------------------------
(***************************************************************************)
(* Model-checking instance of AgentEndQueue: two workers for three keys,   *)
(* one of which coalesces a second job.                                    *)
(***************************************************************************)
EXTENDS AgentEndQueue

CONSTANTS k1, k2, k3

MCKeys == {k1, k2, k3}
MCMaxEnqueues == [k \in MCKeys |-> IF k = k1 THEN 2 ELSE 1]
=============================================================================
