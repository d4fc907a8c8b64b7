--------------------------- MODULE CoalescingQueue ---------------------------
(***************************************************************************)
(* What the agent-end queue promises about the work of one key, and what   *)
(* the intake pass relies on: a key has at most one job waiting, a newer   *)
(* one replaces it, and at most one running; a waiting job is given up     *)
(* only by being run; a job that asks for a continuation waits again, but  *)
(* never in place of a newer one.                                          *)
(***************************************************************************)
CONSTANTS
    Keys,
    Jobs,
    None,      \* no job
    Brief,     \* keys whose job may end in the step that starts it
    Mortal     \* keys whose process may die with all its jobs

VARIABLES
    waiting,   \* [Keys -> Jobs \cup {None}], the job that runs next
    running    \* [Keys -> Jobs \cup {None}]

queueVars == <<waiting, running>>

NoJobs == [k \in Keys |-> None]

Init == waiting = NoJobs /\ running = NoJobs

Enqueue(k) ==
    /\ \E j \in Jobs : waiting' = [waiting EXCEPT ![k] = j]
    /\ UNCHANGED running

Runnable(k) == running[k] = None /\ waiting[k] # None

Start(k) ==
    /\ Runnable(k)
    /\ running' = [running EXCEPT ![k] = waiting[k]]
    /\ waiting' = [waiting EXCEPT ![k] = None]

StartAndFinish(k) ==
    /\ k \in Brief /\ Runnable(k)
    /\ waiting' = [waiting EXCEPT ![k] = None]
    /\ UNCHANGED running

Finish(k) ==
    /\ running[k] # None
    /\ running' = [running EXCEPT ![k] = None]
    /\ UNCHANGED waiting

(* The job ends with {more: true}.                                          *)
Continue(k) ==
    /\ running[k] # None
    /\ running' = [running EXCEPT ![k] = None]
    /\ waiting' = [waiting EXCEPT ![k] = IF @ = None THEN running[k] ELSE @]

Lose(k) ==
    /\ k \in Mortal
    /\ waiting' = [waiting EXCEPT ![k] = None]
    /\ running' = [running EXCEPT ![k] = None]

Next ==
    \E k \in Keys :
        Enqueue(k) \/ Start(k) \/ StartAndFinish(k) \/ Finish(k) \/ Continue(k) \/ Lose(k)

Spec == Init /\ [][Next]_queueVars
=============================================================================
