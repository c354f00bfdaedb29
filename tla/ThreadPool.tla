------------------------------ MODULE ThreadPool ------------------------------
(***************************************************************************)
(* Abstractions/ThreadPool.hpp: workers that sleep on a condition variable *)
(* until there is a task or the pool stops.                                *)
(*                                                                         *)
(* tasks and stop are only touched under queue_mutex, so each critical     *)
(* section is one action; waiting releases the mutex and falls asleep in   *)
(* one, as condition_variable::wait does.  The notifications are outside   *)
(* the mutex, and so are actions of their own.                             *)
(*                                                                         *)
(* Tasks may call enqueue.  Other threads do so only before the destructor *)
(* is called, and it is called by none of the workers: C++ forbids calls   *)
(* of an object that may be gone, and a thread cannot join itself.         *)
(***************************************************************************)
EXTENDS Integers, FiniteSets, SequencesExt

CONSTANTS
    Worker,     \* the threads of the pool
    External,   \* the other threads that use it
    Task,       \* the callables; each is enqueued at most once
    NoTask

ASSUME ThreadPoolAssumption ==
    /\ IsFiniteSet(Worker) /\ Worker # {}
    /\ IsFiniteSet(External)
    /\ Worker \cap External = {}
    /\ NoTask \notin Task

VARIABLES
    tasks,      \* the queue
    stop,
    worker,     \* each worker is ready (to lock), waiting, running or returned
    job,        \* the task each worker runs
    future,     \* of each task: none, pending, ready, or refused by a throw
    notifying,  \* the threads between enqueue's unlock and its notify_one
    destructor  \* none, stopped, joining, returned

vars == <<tasks, stop, worker, job, future, notifying, destructor>>

Init ==
    /\ tasks = <<>>
    /\ stop = FALSE
    /\ worker = [w \in Worker |-> "ready"]
    /\ job = [w \in Worker |-> NoTask]
    /\ future = [t \in Task |-> "none"]
    /\ notifying = {}
    /\ destructor = "none"

-----------------------------------------------------------------------------
(***************************************************************************)
(* enqueue, called by a running task or from outside.                      *)
(***************************************************************************)
MayCall(th) ==
    /\ th \notin notifying
    /\ \/ th \in Worker /\ worker[th] = "running"
       \/ th \in External /\ destructor = "none"

EnqueueQuietly(th, t) ==    \* mutant: notifies only if the queue was empty
    /\ MayCall(th)
    /\ future[t] = "none"
    /\ ~stop
    /\ tasks' = Append(tasks, t)
    /\ future' = [future EXCEPT ![t] = "pending"]
    /\ notifying' = IF tasks = <<>> THEN notifying \union {th} ELSE notifying
    /\ UNCHANGED <<stop, worker, job, destructor>>

Enqueue(th, t) ==
    /\ MayCall(th)
    /\ future[t] = "none"
    /\ ~stop
    /\ tasks' = Append(tasks, t)
    /\ future' = [future EXCEPT ![t] = "pending"]
    /\ notifying' = notifying \union {th}
    /\ UNCHANGED <<stop, worker, job, destructor>>

EnqueueThrows(th, t) ==
    /\ MayCall(th)
    /\ future[t] = "none"
    /\ stop
    /\ future' = [future EXCEPT ![t] = "refused"]
    /\ UNCHANGED <<tasks, stop, worker, job, notifying, destructor>>

Waiting == {w \in Worker : worker[w] = "waiting"}

NotifyOne(th) ==
    /\ th \in notifying
    /\ notifying' = notifying \ {th}
    /\ \/ \E w \in Waiting : worker' = [worker EXCEPT ![w] = "ready"]
       \/ Waiting = {} /\ UNCHANGED worker
    /\ UNCHANGED <<tasks, stop, job, future, destructor>>

-----------------------------------------------------------------------------
(***************************************************************************)
(* The worker's loop.                                                      *)
(***************************************************************************)
WorkerWait(w) ==
    /\ worker[w] = "ready"
    /\ ~stop
    /\ tasks = <<>>
    /\ worker' = [worker EXCEPT ![w] = "waiting"]
    /\ UNCHANGED <<tasks, stop, job, future, notifying, destructor>>

SpuriousWakeup(w) ==
    /\ worker[w] = "waiting"
    /\ worker' = [worker EXCEPT ![w] = "ready"]
    /\ UNCHANGED <<tasks, stop, job, future, notifying, destructor>>

WorkerReturnAtOnce(w) ==    \* mutant: what is queued is not run after a stop
    /\ worker[w] = "ready"
    /\ stop
    /\ worker' = [worker EXCEPT ![w] = "returned"]
    /\ UNCHANGED <<tasks, stop, job, future, notifying, destructor>>

WorkerReturn(w) ==
    /\ worker[w] = "ready"
    /\ stop
    /\ tasks = <<>>
    /\ worker' = [worker EXCEPT ![w] = "returned"]
    /\ UNCHANGED <<tasks, stop, job, future, notifying, destructor>>

WorkerTakeNewest(w) ==      \* mutant: the queue is a stack
    /\ worker[w] = "ready"
    /\ tasks # <<>>
    /\ worker' = [worker EXCEPT ![w] = "running"]
    /\ job' = [job EXCEPT ![w] = Last(tasks)]
    /\ tasks' = Front(tasks)
    /\ UNCHANGED <<stop, future, notifying, destructor>>

WorkerTake(w) ==
    /\ worker[w] = "ready"
    /\ tasks # <<>>
    /\ worker' = [worker EXCEPT ![w] = "running"]
    /\ job' = [job EXCEPT ![w] = Head(tasks)]
    /\ tasks' = Tail(tasks)
    /\ UNCHANGED <<stop, future, notifying, destructor>>

(***************************************************************************)
(* The task has run, and the packaged_task has stored what it returned or  *)
(* threw.                                                                  *)
(***************************************************************************)
WorkerFinishKeepsTask(w) ==     \* mutant: the task is not destroyed after it ran
    /\ worker[w] = "running"
    /\ w \notin notifying
    /\ worker' = [worker EXCEPT ![w] = "ready"]
    /\ future' = [future EXCEPT ![job[w]] = "ready"]
    /\ UNCHANGED <<tasks, stop, job, notifying, destructor>>

WorkerFinish(w) ==
    /\ worker[w] = "running"
    /\ w \notin notifying
    /\ worker' = [worker EXCEPT ![w] = "ready"]
    /\ future' = [future EXCEPT ![job[w]] = "ready"]
    /\ job' = [job EXCEPT ![w] = NoTask]
    /\ UNCHANGED <<tasks, stop, notifying, destructor>>

-----------------------------------------------------------------------------
(***************************************************************************)
(* The destructor: stop, wake everybody, join.                             *)
(***************************************************************************)
DestructorStop ==
    /\ destructor = "none"
    /\ notifying \cap External = {}
    /\ stop' = TRUE
    /\ destructor' = "stopped"
    /\ UNCHANGED <<tasks, worker, job, future, notifying>>

DestructorNotifyOne ==      \* mutant: notify_one for notify_all
    /\ destructor = "stopped"
    /\ destructor' = "joining"
    /\ \/ \E w \in Waiting : worker' = [worker EXCEPT ![w] = "ready"]
       \/ Waiting = {} /\ UNCHANGED worker
    /\ UNCHANGED <<tasks, stop, job, future, notifying>>

DestructorNotifyAll ==
    /\ destructor = "stopped"
    /\ destructor' = "joining"
    /\ worker' = [w \in Worker |-> IF w \in Waiting THEN "ready" ELSE worker[w]]
    /\ UNCHANGED <<tasks, stop, job, future, notifying>>

DestructorJoined ==
    /\ destructor = "joining"
    /\ \A w \in Worker : worker[w] = "returned"
    /\ destructor' = "returned"
    /\ UNCHANGED <<tasks, stop, worker, job, future, notifying>>

-----------------------------------------------------------------------------
WorkerStep(w) ==
    WorkerWait(w) \/ WorkerReturn(w) \/ WorkerTake(w) \/ WorkerFinish(w)

Destructor == DestructorStop \/ DestructorNotifyAll \/ DestructorJoined

Next ==
    \/ \E w \in Worker : WorkerStep(w) \/ SpuriousWakeup(w)
    \/ \E th \in Worker \union External :
          NotifyOne(th) \/ \E t \in Task : Enqueue(th, t) \/ EnqueueThrows(th, t)
    \/ Destructor

Spec == Init /\ [][Next]_vars

(***************************************************************************)
(* Threads are scheduled, tasks return, and the destructor goes on once it *)
(* is called.  Nobody has to enqueue or to call it.                        *)
(***************************************************************************)
FairSpec ==
    /\ Spec
    /\ \A w \in Worker : WF_vars(WorkerStep(w))
    /\ \A th \in Worker \union External : WF_vars(NotifyOne(th))
    /\ WF_vars(DestructorNotifyAll \/ DestructorJoined)

-----------------------------------------------------------------------------
(***************************************************************************)
(* Properties.                                                             *)
(***************************************************************************)
TypeOK ==
    /\ tasks \in Seq(Task)
    /\ stop \in BOOLEAN
    /\ worker \in [Worker -> {"ready", "waiting", "running", "returned"}]
    /\ job \in [Worker -> Task \union {NoTask}]
    /\ \A w \in Worker : job[w] = NoTask <=> worker[w] # "running"
    /\ future \in [Task -> {"none", "pending", "ready", "refused"}]
    /\ notifying \subseteq Worker \union External
    /\ destructor \in {"none", "stopped", "joining", "returned"}
    /\ stop <=> destructor # "none"

(***************************************************************************)
(* No wake-up is lost: while a worker sleeps, each queued task has another *)
(* worker that is about to look at the queue, or a thread that is about to *)
(* wake one up.                                                            *)
(***************************************************************************)
Ready == {w \in Worker : worker[w] = "ready"}

NoLostWakeup ==
    Waiting # {} => Len(tasks) <= Cardinality(Ready) + Cardinality(notifying)

(***************************************************************************)
(* Nobody sleeps through the stop: once the destructor has notified the    *)
(* workers it joins, none of them waits, or will wait again.               *)
(***************************************************************************)
NobodySleepsThroughStop == destructor \in {"joining", "returned"} => Waiting = {}

(***************************************************************************)
(* When the destructor returns, every task that enqueue accepted has been  *)
(* run, including those enqueued by other tasks.                           *)
(***************************************************************************)
DestructorDrains ==
    destructor = "returned" => \A t \in Task : future[t] # "pending"

(***************************************************************************)
(* The pool implements Executor, fairness included.                        *)
(***************************************************************************)
TheExecutor ==
    INSTANCE Executor WITH
        Width <- Cardinality(Worker),
        pending <- tasks,
        running <- {job[w] : w \in Worker} \ {NoTask},
        finished <- {t \in Task : future[t] = "ready"},
        state <- CASE destructor = "none" -> "open"
                   [] destructor \in {"stopped", "joining"} -> "closing"
                   [] destructor = "returned" -> "closed"

ImplementsExecutor == TheExecutor!FairSpec
===============================================================================
