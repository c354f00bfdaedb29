------------------------------- MODULE Executor -------------------------------
(***************************************************************************)
(* What a user of Abstractions/ThreadPool relies on, and nothing of how    *)
(* its threads sleep and wake: tasks submitted while the pool is open are  *)
(* started in the order of their submission, at most Width at a time, all  *)
(* of them are finished, and only then is the pool closed.                 *)
(***************************************************************************)
EXTENDS Naturals, FiniteSets, SequencesExt

CONSTANTS
    Task,
    Width       \* how many tasks may run at the same time

VARIABLES
    pending,    \* the tasks submitted and not started, oldest first
    running,
    finished,
    state       \* open, closing, closed

vars == <<pending, running, finished, state>>

Init ==
    /\ pending = <<>>
    /\ running = {}
    /\ finished = {}
    /\ state = "open"

Submit(t) ==
    /\ state = "open"
    /\ t \in Task \ (ToSet(pending) \union running \union finished)
    /\ pending' = Append(pending, t)
    /\ UNCHANGED <<running, finished, state>>

Start ==
    /\ pending # <<>>
    /\ Cardinality(running) < Width
    /\ running' = running \union {Head(pending)}
    /\ pending' = Tail(pending)
    /\ UNCHANGED <<finished, state>>

Finish(t) ==
    /\ t \in running
    /\ running' = running \ {t}
    /\ finished' = finished \union {t}
    /\ UNCHANGED <<pending, state>>

Close ==
    /\ state = "open"
    /\ state' = "closing"
    /\ UNCHANGED <<pending, running, finished>>

Closed ==
    /\ state = "closing"
    /\ pending = <<>>
    /\ running = {}
    /\ state' = "closed"
    /\ UNCHANGED <<pending, running, finished>>

Next ==
    \/ \E t \in Task : Submit(t) \/ Finish(t)
    \/ Start
    \/ Close
    \/ Closed

Spec == Init /\ [][Next]_vars

(***************************************************************************)
(* A pool that closes does so, a task that can be started is, and one that *)
(* runs is finished.                                                       *)
(***************************************************************************)
FairSpec ==
    /\ Spec
    /\ WF_vars(Start)
    /\ WF_vars(Closed)
    /\ \A t \in Task : WF_vars(Finish(t))
===============================================================================
