--------------------------- MODULE ThreadPoolProofs ---------------------------
(***************************************************************************)
(* Proofs about ThreadPool, for every number of workers, of other threads  *)
(* and of tasks.                                                           *)
(*                                                                         *)
(* ThreadPoolInv is inductive.  DestructorDrains needs Accounted (an       *)
(* unfinished task is in the queue or with a worker) and Drained (a worker *)
(* returns only when the queue is empty for good).                         *)
(***************************************************************************)
EXTENDS ThreadPool, SequenceLemmas

HasJob(t) == \E w \in Worker : job[w] = t

Accounted ==
    /\ IsInjective(tasks)
    /\ \A t \in Task : future[t] = "pending" <=> t \in ToSet(tasks) \/ HasJob(t)
    /\ \A w \in Worker : job[w] \notin ToSet(tasks)
    /\ \A v, w \in Worker : job[v] = job[w] /\ job[v] # NoTask => v = w

Drained ==
    /\ \A w \in Worker : worker[w] = "returned" => stop /\ tasks = <<>>
    /\ destructor = "returned" => \A w \in Worker : worker[w] = "returned"

ThreadPoolInv ==
    /\ TypeOK
    /\ Accounted
    /\ Drained
    /\ NoLostWakeup
    /\ NobodySleepsThroughStop

-----------------------------------------------------------------------------
(***************************************************************************)
(* Adding one thread to a finite set of threads, or taking one away.       *)
(***************************************************************************)
LEMMA Counting ==
    ASSUME NEW S, IsFiniteSet(S), NEW e
    PROVE  /\ Cardinality(S) \in Nat
           /\ e \notin S => Cardinality(S \union {e}) = Cardinality(S) + 1
           /\ e \in S => Cardinality(S \ {e}) = Cardinality(S) - 1
BY FS_CardinalityType, FS_AddElement, FS_RemoveElement

(***************************************************************************)
(* The threads that are ready or about to notify are finitely many.        *)
(***************************************************************************)
LEMMA FinitelyMany ==
    ASSUME TypeOK
    PROVE  IsFiniteSet(Ready) /\ IsFiniteSet(notifying)
<1>1. IsFiniteSet(Worker \union External)
    BY ThreadPoolAssumption, FS_Union
<1>2. Ready \subseteq Worker
    BY DEF Ready
<1> QED BY <1>1, <1>2, ThreadPoolAssumption, FS_Subset DEF TypeOK

-----------------------------------------------------------------------------
(***************************************************************************)
(* Every step keeps the types.                                             *)
(***************************************************************************)
LEMMA StepKeepsTypes ==
    ASSUME TypeOK, [Next]_vars
    PROVE  TypeOK'
<1> USE DEF TypeOK
<1>1. ASSUME NEW w \in Worker, WorkerStep(w) \/ SpuriousWakeup(w) PROVE TypeOK'
  <2>1. CASE WorkerWait(w) \/ WorkerReturn(w) \/ SpuriousWakeup(w)
      BY <2>1 DEF WorkerWait, WorkerReturn, SpuriousWakeup
  <2>2. CASE WorkerTake(w)
    <3>1. Head(tasks) \in Task /\ Tail(tasks) \in Seq(Task)
        BY <2>2, HeadTailProperties DEF WorkerTake
    <3> QED BY <2>2, <3>1, ThreadPoolAssumption DEF WorkerTake
  <2>3. CASE WorkerFinish(w)
      BY <2>3 DEF WorkerFinish
  <2> QED BY <1>1, <2>1, <2>2, <2>3 DEF WorkerStep
<1>2. ASSUME NEW th \in Worker \union External, NotifyOne(th) PROVE TypeOK'
    BY <1>2 DEF NotifyOne, Waiting
<1>3. ASSUME NEW th \in Worker \union External, NEW t \in Task,
             Enqueue(th, t) \/ EnqueueThrows(th, t)
      PROVE  TypeOK'
    BY <1>3, AppendProperties DEF Enqueue, EnqueueThrows
<1>4. CASE Destructor
    BY <1>4 DEF Destructor, DestructorStop, DestructorNotifyAll, DestructorJoined, Waiting
<1>5. CASE UNCHANGED vars
    BY <1>5 DEF vars
<1> QED BY <1>1, <1>2, <1>3, <1>4, <1>5 DEF Next

(***************************************************************************)
(* A task goes from the queue to one worker, and from there is ready.      *)
(***************************************************************************)
LEMMA StepKeepsAccounts ==
    ASSUME TypeOK, Accounted, [Next]_vars
    PROVE  Accounted'
<1>1. ASSUME NEW w \in Worker, WorkerStep(w) \/ SpuriousWakeup(w) PROVE Accounted'
  <2>1. CASE WorkerWait(w) \/ WorkerReturn(w) \/ SpuriousWakeup(w)
      BY <2>1 DEF WorkerWait, WorkerReturn, SpuriousWakeup, Accounted, HasJob
  <2>2. CASE WorkerTake(w)
    <3>1. /\ Head(tasks) \in Task /\ Head(tasks) \in ToSet(tasks)
          /\ ToSet(tasks') = ToSet(tasks) \ {Head(tasks)} /\ IsInjective(tasks')
        BY <2>2, DequeueProperties DEF WorkerTake, TypeOK, Accounted
    <3>2. /\ job[w] = NoTask /\ job'[w] = Head(tasks)
          /\ \A v \in Worker \ {w} : job'[v] = job[v]
        BY <2>2 DEF WorkerTake, TypeOK
    <3>3. \A t \in Task : future'[t] = "pending" <=> t \in ToSet(tasks') \/ HasJob(t)'
        BY <2>2, <3>1, <3>2, ThreadPoolAssumption DEF WorkerTake, Accounted, HasJob
    <3> QED BY <3>1, <3>2, <3>3 DEF Accounted
  <2>3. CASE WorkerFinish(w)
    <3>1. /\ job[w] \in Task /\ job'[w] = NoTask
          /\ \A v \in Worker \ {w} : job'[v] = job[v]
        BY <2>3 DEF WorkerFinish, TypeOK
    <3>2. \A t \in Task : future'[t] = IF t = job[w] THEN "ready" ELSE future[t]
        BY <2>3 DEF WorkerFinish, TypeOK
    <3>3. NoTask \notin ToSet(tasks)
        BY ThreadPoolAssumption DEF TypeOK, ToSet
    <3> QED BY <2>3, <3>1, <3>2, <3>3, ThreadPoolAssumption DEF WorkerFinish, Accounted, HasJob
  <2> QED BY <1>1, <2>1, <2>2, <2>3 DEF WorkerStep
<1>2. ASSUME NEW th \in Worker \union External, NotifyOne(th) PROVE Accounted'
    BY <1>2 DEF NotifyOne, Accounted, HasJob
<1>3. ASSUME NEW th \in Worker \union External, NEW t \in Task, Enqueue(th, t)
      PROVE  Accounted'
  <2>1. /\ t \notin ToSet(tasks) /\ ~HasJob(t)
        /\ ToSet(tasks') = ToSet(tasks) \union {t} /\ IsInjective(tasks')
      BY <1>3, PushProperties DEF Enqueue, TypeOK, Accounted
  <2>2. \A u \in Task : future'[u] = IF u = t THEN "pending" ELSE future[u]
      BY <1>3 DEF Enqueue, TypeOK
  <2> QED BY <1>3, <2>1, <2>2 DEF Enqueue, Accounted, HasJob
<1>4. ASSUME NEW th \in Worker \union External, NEW t \in Task, EnqueueThrows(th, t)
      PROVE  Accounted'
    BY <1>4 DEF EnqueueThrows, TypeOK, Accounted, HasJob
<1>5. CASE Destructor \/ UNCHANGED vars
    BY <1>5 DEF Destructor, DestructorStop, DestructorNotifyAll, DestructorJoined, vars,
                Accounted, HasJob
<1> QED BY <1>1, <1>2, <1>3, <1>4, <1>5 DEF Next

(***************************************************************************)
(* A worker returns, and the destructor joins it, only when nothing can be *)
(* queued any more; and after the stop nobody falls asleep again.          *)
(***************************************************************************)
LEMMA StepKeepsDrained ==
    ASSUME TypeOK, Drained, NobodySleepsThroughStop, [Next]_vars
    PROVE  Drained' /\ NobodySleepsThroughStop'
<1> USE DEF TypeOK, Drained, NobodySleepsThroughStop, Waiting
<1>1. ASSUME NEW w \in Worker, WorkerStep(w) \/ SpuriousWakeup(w)
      PROVE  Drained' /\ NobodySleepsThroughStop'
    BY <1>1 DEF WorkerStep, SpuriousWakeup, WorkerWait, WorkerReturn, WorkerTake, WorkerFinish
<1>2. ASSUME NEW th \in Worker \union External, NotifyOne(th)
      PROVE  Drained' /\ NobodySleepsThroughStop'
    BY <1>2 DEF NotifyOne
<1>3. ASSUME NEW th \in Worker \union External, NEW t \in Task,
             Enqueue(th, t) \/ EnqueueThrows(th, t)
      PROVE  Drained' /\ NobodySleepsThroughStop'
    BY <1>3 DEF Enqueue, EnqueueThrows
<1>4. CASE Destructor
    BY <1>4 DEF Destructor, DestructorStop, DestructorNotifyAll, DestructorJoined
<1>5. CASE UNCHANGED vars
    BY <1>5 DEF vars
<1> QED BY <1>1, <1>2, <1>3, <1>4, <1>5 DEF Next

(***************************************************************************)
(* What a step adds to the queue it adds to the threads about to notify,   *)
(* and what it takes off the threads about to look it takes off the queue. *)
(***************************************************************************)
LEMMA StepLosesNoWakeup ==
    ASSUME TypeOK, NoLostWakeup, [Next]_vars
    PROVE  NoLostWakeup'
<1>1. /\ IsFiniteSet(Ready) /\ IsFiniteSet(notifying)
      /\ Cardinality(Ready) \in Nat /\ Cardinality(notifying) \in Nat
      /\ tasks \in Seq(Task) /\ Len(tasks) \in Nat
    BY FinitelyMany, FS_CardinalityType DEF TypeOK
<1>2. ASSUME NEW w \in Worker, WorkerStep(w) \/ SpuriousWakeup(w) PROVE NoLostWakeup'
  <2>1. IsFiniteSet(Ready') /\ IsFiniteSet(notifying')
        /\ Cardinality(Ready') \in Nat /\ Cardinality(notifying') \in Nat
    <3>1. TypeOK'
        BY StepKeepsTypes
    <3>2. Ready' \subseteq Worker
        BY DEF Ready
    <3>3. IsFiniteSet(Worker \union External)
        BY ThreadPoolAssumption, FS_Union
    <3> QED BY <3>1, <3>2, <3>3, ThreadPoolAssumption, FS_Subset, FS_CardinalityType DEF TypeOK
  <2>2. CASE WorkerWait(w) \/ WorkerReturn(w)
    <3>1. Len(tasks') = 0
        BY <2>2 DEF WorkerWait, WorkerReturn
    <3> QED BY <2>1, <3>1 DEF NoLostWakeup
  <2>3. CASE SpuriousWakeup(w) \/ WorkerFinish(w)
    <3>1. w \notin Ready /\ Ready' = Ready \union {w} /\ UNCHANGED <<tasks, notifying>>
        BY <2>3 DEF SpuriousWakeup, WorkerFinish, Ready, TypeOK
    <3>2. Waiting' # {} => Waiting # {}
        BY <2>3 DEF SpuriousWakeup, WorkerFinish, Waiting, TypeOK
    <3> QED BY <1>1, <3>1, <3>2, Counting DEF NoLostWakeup
  <2>4. CASE WorkerTake(w)
    <3>1. w \in Ready /\ Ready' = Ready \ {w} /\ UNCHANGED notifying
        BY <2>4 DEF WorkerTake, Ready, TypeOK
    <3>2. Waiting' = Waiting
        BY <2>4 DEF WorkerTake, Waiting, TypeOK
    <3>3. Len(tasks') = Len(tasks) - 1
        BY <1>1, <2>4, HeadTailProperties DEF WorkerTake
    <3> QED BY <1>1, <3>1, <3>2, <3>3, Counting DEF NoLostWakeup
  <2> QED BY <1>2, <2>2, <2>3, <2>4 DEF WorkerStep
<1>3. ASSUME NEW th \in Worker \union External, NotifyOne(th) PROVE NoLostWakeup'
  <2>1. Cardinality(notifying') = Cardinality(notifying) - 1
      BY <1>1, <1>3, Counting DEF NotifyOne
  <2>2. CASE Waiting = {} /\ UNCHANGED worker
    <3>1. Waiting' = {}
        BY <2>2 DEF Waiting
    <3> QED BY <3>1 DEF NoLostWakeup
  <2>3. CASE \E w \in Waiting : worker' = [worker EXCEPT ![w] = "ready"]
    <3>1. PICK w \in Waiting : worker' = [worker EXCEPT ![w] = "ready"]
        BY <2>3
    <3>2. w \notin Ready /\ Ready' = Ready \union {w}
        BY <3>1 DEF Ready, Waiting, TypeOK
    <3>3. Cardinality(Ready') = Cardinality(Ready) + 1
        BY <1>1, <3>2, Counting
    <3> QED BY <1>1, <1>3, <2>1, <3>1, <3>3 DEF NotifyOne, NoLostWakeup
  <2> QED BY <1>3, <2>2, <2>3 DEF NotifyOne
<1>4. ASSUME NEW th \in Worker \union External, NEW t \in Task, Enqueue(th, t)
      PROVE  NoLostWakeup'
  <2>1. Cardinality(notifying') = Cardinality(notifying) + 1
      BY <1>1, <1>4, Counting DEF Enqueue, MayCall
  <2>2. Len(tasks') = Len(tasks) + 1
      BY <1>1, <1>4, AppendProperties DEF Enqueue
  <2>3. Ready' = Ready /\ Waiting' = Waiting
      BY <1>4 DEF Enqueue, Ready, Waiting
  <2> QED BY <1>1, <2>1, <2>2, <2>3 DEF NoLostWakeup
<1>5. ASSUME NEW th \in Worker \union External, NEW t \in Task, EnqueueThrows(th, t)
      PROVE  NoLostWakeup'
    BY <1>5 DEF EnqueueThrows, NoLostWakeup, Ready, Waiting
<1>6. CASE DestructorNotifyAll
  <2>1. Waiting' = {}
      BY <1>6 DEF DestructorNotifyAll, Waiting, TypeOK
  <2> QED BY <2>1 DEF NoLostWakeup
<1>7. CASE DestructorStop \/ DestructorJoined \/ UNCHANGED vars
    BY <1>7 DEF DestructorStop, DestructorJoined, vars, NoLostWakeup, Ready, Waiting
<1> QED BY <1>2, <1>3, <1>4, <1>5, <1>6, <1>7 DEF Next, Destructor

-----------------------------------------------------------------------------
(***************************************************************************)
(* ThreadPoolInv holds in every reachable state.                           *)
(***************************************************************************)
THEOREM ThreadPoolInvariance == Spec => []ThreadPoolInv
<1>1. Init => ThreadPoolInv
  <2> SUFFICES ASSUME Init PROVE ThreadPoolInv
      OBVIOUS
  <2>1. tasks \in Seq(Task) /\ ToSet(tasks) = {} /\ IsInjective(tasks) /\ Waiting = {}
      BY DEF Init, ToSet, IsInjective, Waiting
  <2> QED BY <2>1, ThreadPoolAssumption
          DEF Init, ThreadPoolInv, TypeOK, Accounted, HasJob, Drained, NoLostWakeup,
              NobodySleepsThroughStop
<1>2. ThreadPoolInv /\ [Next]_vars => ThreadPoolInv'
    BY StepKeepsTypes, StepKeepsAccounts, StepKeepsDrained, StepLosesNoWakeup
       DEF ThreadPoolInv
<1> QED BY <1>1, <1>2, PTL DEF Spec

(***************************************************************************)
(* The variables keep their types.                                         *)
(***************************************************************************)
THEOREM ThreadPoolTypeCorrect == Spec => []TypeOK
<1>1. ThreadPoolInv => TypeOK
    BY DEF ThreadPoolInv
<1> QED BY ThreadPoolInvariance, <1>1, PTL

(***************************************************************************)
(* No task waits in the queue for a worker that sleeps, with nobody about  *)
(* to look or to notify.                                                   *)
(***************************************************************************)
THEOREM WakeupsNeverLost == Spec => []NoLostWakeup
<1>1. ThreadPoolInv => NoLostWakeup
    BY DEF ThreadPoolInv
<1> QED BY ThreadPoolInvariance, <1>1, PTL

(***************************************************************************)
(* The destructor never joins a sleeping worker.                           *)
(***************************************************************************)
THEOREM StopWakesEverybody == Spec => []NobodySleepsThroughStop
<1>1. ThreadPoolInv => NobodySleepsThroughStop
    BY DEF ThreadPoolInv
<1> QED BY ThreadPoolInvariance, <1>1, PTL

(***************************************************************************)
(* When the destructor has returned, no accepted task is left unfinished.  *)
(***************************************************************************)
THEOREM DestructorAlwaysDrains == Spec => []DestructorDrains
<1>1. ASSUME ThreadPoolInv PROVE DestructorDrains
  <2> SUFFICES ASSUME destructor = "returned", NEW t \in Task PROVE future[t] # "pending"
      BY DEF DestructorDrains
  <2>1. \A w \in Worker : worker[w] = "returned" /\ job[w] = NoTask
      BY <1>1 DEF ThreadPoolInv, Drained, TypeOK
  <2>2. tasks = <<>>
      BY <1>1, <2>1, ThreadPoolAssumption DEF ThreadPoolInv, Drained
  <2>3. t \notin ToSet(tasks)
      BY <2>2 DEF ToSet
  <2> QED BY <1>1, <2>1, <2>3, ThreadPoolAssumption DEF ThreadPoolInv, Accounted, HasJob
<1> QED BY ThreadPoolInvariance, <1>1, PTL

-----------------------------------------------------------------------------
Jobs == {job[w] : w \in Worker} \ {NoTask}

(***************************************************************************)
(* A worker that is ready has no job, so a job more is still at most one   *)
(* for each worker.                                                        *)
(***************************************************************************)
LEMMA RoomForAJob ==
    ASSUME TypeOK, NEW w \in Worker, worker[w] = "ready"
    PROVE  Cardinality(Jobs) < Cardinality(Worker)
<1> DEFINE Busy == Worker \ {w}
           f == [v \in Busy |-> job[v]]
<1>1. IsFiniteSet(Busy) /\ Cardinality(Busy) = Cardinality(Worker) - 1
    BY ThreadPoolAssumption, FS_RemoveElement
<1>2. job[w] = NoTask
    BY DEF TypeOK
<1>3. Jobs \subseteq {f[v] : v \in Busy}
    BY <1>2 DEF Jobs
<1>4. /\ IsFiniteSet({f[v] : v \in Busy})
      /\ Cardinality({f[v] : v \in Busy}) <= Cardinality(Busy)
  <2>1. f \in Surjection(Busy, {f[v] : v \in Busy})
      BY DEF Surjection
  <2> QED BY <1>1, <2>1, FS_Surjection
<1>5. IsFiniteSet(Jobs) /\ Cardinality(Jobs) <= Cardinality({f[v] : v \in Busy})
    BY <1>3, <1>4, FS_Subset
<1>6. /\ Cardinality(Jobs) \in Nat /\ Cardinality(Busy) \in Nat
      /\ Cardinality({f[v] : v \in Busy}) \in Nat /\ Cardinality(Worker) \in Nat
    BY <1>1, <1>4, <1>5, ThreadPoolAssumption, FS_CardinalityType
<1> QED BY <1>1, <1>4, <1>5, <1>6

(***************************************************************************)
(* Every step of the pool is a step of the executor, or a stutter.         *)
(***************************************************************************)
LEMMA StepIsExecutorStep ==
    ASSUME ThreadPoolInv, [Next]_vars
    PROVE  [TheExecutor!Next]_(TheExecutor!vars)
<1> USE DEF TheExecutor!vars
<1>1. TypeOK /\ Accounted /\ Drained
    BY DEF ThreadPoolInv
<1>2. ASSUME NEW w \in Worker, WorkerWait(w) \/ WorkerReturn(w) \/ SpuriousWakeup(w)
      PROVE  UNCHANGED TheExecutor!vars
    BY <1>2 DEF WorkerWait, WorkerReturn, SpuriousWakeup
<1>3. ASSUME NEW w \in Worker, WorkerTake(w) PROVE TheExecutor!Start
  <2>1. TheExecutor!Cardinality(Jobs) < Cardinality(Worker)
      BY <1>1, <1>3, RoomForAJob DEF WorkerTake, TheExecutor!Cardinality, Cardinality
  <2>2. Head(tasks) \in Task /\ job[w] = NoTask
      BY <1>1, <1>3, HeadTailProperties DEF WorkerTake, TypeOK
  <2>3. Jobs' = Jobs \union {Head(tasks)}
      BY <1>1, <1>3, <2>2, ThreadPoolAssumption DEF WorkerTake, TypeOK, Jobs
  <2> QED BY <1>3, <2>1, <2>3 DEF WorkerTake, TheExecutor!Start, Jobs
<1>4. ASSUME NEW w \in Worker, WorkerFinish(w), NEW t \in Task, t = job[w]
      PROVE  TheExecutor!Finish(t)
  <2>1. t \in Jobs
      BY <1>4, ThreadPoolAssumption DEF Jobs
  <2>2. Jobs' = Jobs \ {t}
      BY <1>1, <1>4, <2>1 DEF WorkerFinish, TypeOK, Jobs, Accounted
  <2>3. {u \in Task : future'[u] = "ready"} = {u \in Task : future[u] = "ready"} \union {t}
      BY <1>1, <1>4 DEF WorkerFinish, TypeOK
  <2> QED BY <1>4, <2>1, <2>2, <2>3 DEF WorkerFinish, TheExecutor!Finish, Jobs
<1>5. ASSUME NEW th \in Worker \union External, NEW t \in Task, Enqueue(th, t)
      PROVE  TheExecutor!Submit(t)
  <2>1. t \notin ToSet(tasks) /\ t \notin Jobs
      BY <1>1, <1>5 DEF Enqueue, Accounted, HasJob, Jobs
  <2>2. TheExecutor!ToSet(tasks) = ToSet(tasks)
      BY DEF TheExecutor!ToSet, ToSet
  <2>3. {u \in Task : future'[u] = "ready"} = {u \in Task : future[u] = "ready"}
      BY <1>1, <1>5 DEF Enqueue, TypeOK
  <2>4. destructor = "none" /\ future[t] # "ready"
      BY <1>1, <1>5 DEF Enqueue, TypeOK
  <2> QED BY <1>5, <2>1, <2>2, <2>3, <2>4 DEF Enqueue, TheExecutor!Submit, Jobs
<1>6. ASSUME NEW th \in Worker \union External, NEW t \in Task, EnqueueThrows(th, t)
      PROVE  UNCHANGED TheExecutor!vars
  <2>1. {u \in Task : future'[u] = "ready"} = {u \in Task : future[u] = "ready"}
      BY <1>1, <1>6 DEF EnqueueThrows, TypeOK
  <2> QED BY <1>6, <2>1 DEF EnqueueThrows
<1>7. ASSUME NEW th \in Worker \union External, NotifyOne(th)
      PROVE  UNCHANGED TheExecutor!vars
    BY <1>7 DEF NotifyOne
<1>8. CASE DestructorStop
    BY <1>8 DEF DestructorStop, TheExecutor!Next, TheExecutor!Close
<1>9. CASE DestructorNotifyAll
    BY <1>9 DEF DestructorNotifyAll
<1>10. CASE DestructorJoined
  <2>1. tasks = <<>> /\ Jobs = {}
      BY <1>1, <1>10, ThreadPoolAssumption DEF DestructorJoined, Drained, TypeOK, Jobs
  <2> QED BY <1>10, <2>1 DEF DestructorJoined, TheExecutor!Next, TheExecutor!Closed, Jobs
<1>11. CASE UNCHANGED vars
    BY <1>11 DEF vars
<1>12. CASE \E w \in Worker : WorkerStep(w) \/ SpuriousWakeup(w)
  <2>1. PICK w \in Worker : WorkerStep(w) \/ SpuriousWakeup(w)
      BY <1>12
  <2>2. CASE WorkerWait(w) \/ WorkerReturn(w) \/ SpuriousWakeup(w)
      BY <1>2, <2>2
  <2>3. CASE WorkerTake(w)
      BY <1>3, <2>3 DEF TheExecutor!Next
  <2>4. CASE WorkerFinish(w)
    <3>1. PICK t \in Task : t = job[w]
        BY <1>1, <2>4 DEF WorkerFinish, TypeOK
    <3> QED BY <1>4, <2>4, <3>1 DEF TheExecutor!Next
  <2> QED BY <2>1, <2>2, <2>3, <2>4 DEF WorkerStep
<1>13. CASE \E th \in Worker \union External :
              NotifyOne(th) \/ \E t \in Task : Enqueue(th, t) \/ EnqueueThrows(th, t)
    BY <1>5, <1>6, <1>7, <1>13 DEF TheExecutor!Next
<1> QED BY <1>8, <1>9, <1>10, <1>11, <1>12, <1>13 DEF Next, Destructor

(***************************************************************************)
(* But for fairness the pool implements Executor: tasks start in the order *)
(* they were enqueued, each once, no more than one for each worker, and    *)
(* the pool is closed when all of them are finished.                       *)
(***************************************************************************)
THEOREM RefinesExecutor == Spec => TheExecutor!Spec
<1>1. Init => TheExecutor!Init
    BY ThreadPoolAssumption DEF Init, TheExecutor!Init
<1> QED BY <1>1, StepIsExecutorStep, ThreadPoolInvariance, PTL DEF Spec, TheExecutor!Spec
===============================================================================
