--------------------------- MODULE DispatchService ---------------------------
(***************************************************************************)
(* What a caller of dispatch_parallel relies on, with sessions, watchdogs  *)
(* and workers left out: each task is served at most once and each         *)
(* provider at most so many at a time, the first who decides how a task    *)
(* ends stays its owner, and the call is over when no task is being served *)
(* and none is left waiting, unless the parent has cancelled.              *)
(***************************************************************************)
EXTENDS Naturals, FiniteSets

CONSTANTS
    Tasks,
    ProviderOf,
    Cap,         \* tasks of one provider served at a time
    Deciders     \* who may decide how a task ends

VARIABLES
    waiting,     \* tasks nobody serves yet
    serving,
    owner,       \* [Tasks -> Deciders \cup {"none"}]
    cancelled,
    over

serviceVars == <<waiting, serving, owner, cancelled, over>>

Init ==
    /\ waiting = Tasks
    /\ serving = {}
    /\ owner = [t \in Tasks |-> "none"]
    /\ cancelled \in BOOLEAN
    /\ over = (Tasks = {})

Served(p) == {t \in serving : ProviderOf[t] = p}

Begin(t) ==
    /\ ~over /\ ~cancelled
    /\ t \in waiting
    /\ Cardinality(Served(ProviderOf[t])) < Cap
    /\ waiting' = waiting \ {t}
    /\ serving' = serving \cup {t}
    /\ UNCHANGED <<owner, cancelled, over>>

Undecided == {t \in serving : owner[t] = "none"}

Decide(t) ==
    /\ t \in Undecided
    /\ \E o \in Deciders : owner' = [owner EXCEPT ![t] = o]
    /\ UNCHANGED <<waiting, serving, cancelled, over>>

(* The parent decides for every task that is not decided or about to be.    *)
Cancel ==
    /\ ~cancelled
    /\ cancelled' = TRUE
    /\ \E stopped \in SUBSET Undecided :
          owner' = [t \in Tasks |-> IF t \in stopped THEN "parent" ELSE owner[t]]
    /\ UNCHANGED <<waiting, serving, over>>

Answer(t) ==
    /\ t \in serving
    /\ serving' = serving \ {t}
    /\ UNCHANGED <<waiting, owner, cancelled, over>>

Conclude ==
    /\ ~over
    /\ serving = {}
    /\ waiting = {} \/ cancelled
    /\ over' = TRUE
    /\ UNCHANGED <<waiting, serving, owner, cancelled>>

Next ==
    \/ \E t \in Tasks : Begin(t) \/ Decide(t) \/ Answer(t)
    \/ Cancel \/ Conclude

Spec == Init /\ [][Next]_serviceVars
=============================================================================
