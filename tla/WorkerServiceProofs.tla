------------------------- MODULE WorkerServiceProofs -------------------------
(***************************************************************************)
(* What the worker service (src/worker_service.cpp) keeps for any number   *)
(* of threads, tasks, jobs and batches: its assign pool loses no wakeup    *)
(* and no task (AssignPool), the counts of its jobs come back              *)
(* (JobService), and a batch of them answers for what it ran               *)
(* (BatchRunner).                                                          *)
(***************************************************************************)
EXTENDS AssignPool, JobService, BatchRunner, DataLemmas, FiniteSetTheorems

-----------------------------------------------------------------------------
(* The assign pool, for every finite set of worker slots and every set of  *)
(* tasks.  PoolInv is its inductive invariant: the types, the meaning of   *)
(* idle_, the absence of lost wakeups, and what becomes of each accepted   *)
(* task.                                                                   *)

Live == {"entering", "parked", "woken", "running"}

\* A slot holds a task exactly while its thread runs it.
JobsMatchWorkers == \A w \in Workers : worker[w] = "running" <=> job[w] # <<>>

\* Where the owner is says what the shutdown has reached; a notification
\* still to be sent has a thread to reach.
OwnerMatchesPool ==
    /\ owner \in {"closing", "joining", "joined"} => draining
    /\ owner = "posting" => ~draining /\ \E w \in Workers : worker[w] \in Live
    /\ owner = "joined" => \A w \in Workers : worker[w] \in {"absent", "gone"}
    /\ \A w \in Workers : worker[w] = "gone" => draining

\* An accepted task is queued, running or finished.
TasksConserved == Accepted = Queued \cup Running \cup finished

\* Only what was posted can be refused.
RefusedWerePosted == refused \subseteq posted

PoolInv ==
    /\ TypeOK
    /\ IdleCountsWaiters
    /\ NoLostWakeup
    /\ JobsMatchWorkers
    /\ OwnerMatchesPool
    /\ TasksConserved
    /\ RefusedWerePosted

-----------------------------------------------------------------------------
(* The set of waiting threads, and the elements of the queue.              *)

\* The set of queued tasks is the set of elements of queue_.
LEMMA QueuedElements == Queued = Elements(queue) /\ Queued' = Elements(queue')
BY DEF Queued, Elements

\* The threads inside cv_.wait are finite in number.
LEMMA WaitersFinite == IsFiniteSet(Waiters) /\ Cardinality(Waiters) \in Nat
<1>1. Waiters \subseteq Workers
  BY DEF Waiters, In
<1> QED
  BY <1>1, WorkersAssumption, FS_Subset, FS_CardinalityType
-----------------------------------------------------------------------------
(* The initial states.                                                     *)

\* A new pool has no thread and no task.
LEMMA PoolInvInit == Init => PoolInv
<1> SUFFICES ASSUME Init PROVE PoolInv
  OBVIOUS
<1>1. TypeOK
  <2>1. job \in [Workers -> {<<>>} \cup {<<t>> : t \in Tasks}]
    <3>1. <<>> \in {<<>>} \cup {<<t>> : t \in Tasks}
      OBVIOUS
    <3> QED BY <3>1, Zenon DEF Init
  <2>2. worker \in [Workers -> WorkerStates]
    BY DEF Init, WorkerStates
  <2>3. queue \in Seq(Tasks)
    BY DEF Init
  <2> QED
    BY <2>1, <2>2, <2>3 DEF Init, TypeOK, OwnerStates
<1>2. Waiters = {}
  BY DEF Init, Waiters, In
<1>3. IdleCountsWaiters
  BY <1>2, FS_EmptySet DEF IdleCountsWaiters, Init
<1>4. NoLostWakeup
  BY DEF NoLostWakeup, Parked, In, Init
<1>5. JobsMatchWorkers /\ OwnerMatchesPool
  BY DEF JobsMatchWorkers, OwnerMatchesPool, Init
<1>6. TasksConserved
  BY DEF TasksConserved, Accepted, Queued, Running, In, Init
<1> QED
  BY <1>1, <1>3, <1>4, <1>5, <1>6 DEF PoolInv, RefusedWerePosted, Init

-----------------------------------------------------------------------------
(* Each action keeps the types.                                            *)

\* Each step keeps the types; idle_ stays a natural number because a thread
\* that decrements it is one of those it counts.
LEMMA TypeStep == TypeOK /\ JobsMatchWorkers /\ idle = Cardinality(Waiters) /\ [Next]_vars => TypeOK'
<1> SUFFICES ASSUME TypeOK, JobsMatchWorkers, idle = Cardinality(Waiters), [Next]_vars
             PROVE  TypeOK'
  OBVIOUS
<1> USE DEF TypeOK, WorkerStates, OwnerStates
<1>1. ASSUME NEW t \in Tasks, Post(t) PROVE TypeOK'
  <2>1. worker' \in [Workers -> WorkerStates]
    BY <1>1 DEF Post, SpawnIfNoneIdle
  <2>2. queue' \in Seq(Tasks)
    BY <1>1 DEF Post
  <2> QED BY <1>1, <2>1, <2>2 DEF Post
<1>2. CASE NotifyOne
  <2>1. worker' \in [Workers -> WorkerStates]
    BY <1>2 DEF NotifyOne
  <2> QED BY <1>2, <2>1 DEF NotifyOne
<1>3. CASE BeginShutdown BY <1>3 DEF BeginShutdown
<1>4. CASE NotifyAll
  <2>1. worker' \in [Workers -> WorkerStates]
    BY <1>4 DEF NotifyAll
  <2> QED BY <1>4, <2>1 DEF NotifyAll
<1>5. CASE Join BY <1>5 DEF Join
<1>6. ASSUME NEW w \in Workers, TakeOrLeave(w),
             UNCHANGED <<draining, owner, posted, refused, finished>>, idle' \in Nat
      PROVE  TypeOK'
  <2>1. CASE queue = <<>> BY <1>6, <2>1 DEF TakeOrLeave
  <2>2. CASE queue # <<>>
    <3>1. Head(queue) \in Tasks /\ Tail(queue) \in Seq(Tasks)
      BY <2>2, HeadTailElements
    <3>2. job' \in [Workers -> {<<>>} \cup {<<t>> : t \in Tasks}]
      BY <1>6, <2>2, <3>1 DEF TakeOrLeave
    <3> QED BY <1>6, <2>2, <3>1, <3>2 DEF TakeOrLeave
  <2> QED BY <2>1, <2>2
<1>7. ASSUME NEW w \in Workers, EnterAndProceed(w) PROVE TypeOK'
  BY <1>6, <1>7 DEF EnterAndProceed
<1>8. ASSUME NEW w \in Workers, EnterAndPark(w) PROVE TypeOK'
  BY <1>8 DEF EnterAndPark
<1>9. ASSUME NEW w \in Workers, SpuriousWakeup(w) PROVE TypeOK'
  BY <1>9 DEF SpuriousWakeup
<1>10. ASSUME NEW w \in Workers, Resume(w) PROVE TypeOK'
  <2>1. w \in Waiters BY <1>10 DEF Resume, Waiters, In
  <2>2. idle # 0 BY <2>1, WaitersFinite, FS_EmptySet
  <2>3. idle' \in Nat BY <1>10, <2>2 DEF Resume
  <2> QED BY <1>6, <1>10, <2>3 DEF Resume
<1>11. ASSUME NEW w \in Workers, Repark(w) PROVE TypeOK'
  BY <1>11 DEF Repark
<1>12. ASSUME NEW w \in Workers, Finish(w) PROVE TypeOK'
  <2>1. \E t \in Tasks : job[w] = <<t>>
    BY <1>12 DEF Finish, JobsMatchWorkers
  <2>2. job[w][1] \in Tasks BY <2>1
  <2> QED BY <1>12, <2>2 DEF Finish
<1>13. CASE UNCHANGED vars BY <1>13 DEF vars
<1> QED
  BY <1>1, <1>2, <1>3, <1>4, <1>5, <1>7, <1>8, <1>9, <1>10, <1>11, <1>12, <1>13
     DEF Next, WorkerStep
-----------------------------------------------------------------------------
(* Each action keeps the rest of the invariant.                            *)

\* Each step keeps idle_ equal to the number of threads inside cv_.wait.
LEMMA IdleStep == PoolInv /\ [Next]_vars => IdleCountsWaiters'
<1> SUFFICES ASSUME PoolInv, [Next]_vars PROVE IdleCountsWaiters'
  OBVIOUS
<1> USE DEF PoolInv, TypeOK, IdleCountsWaiters, Waiters, In
<1>0. \A w : w \in Waiters => w \in Workers
  OBVIOUS
<1>1. ASSUME Waiters' = Waiters, UNCHANGED idle PROVE IdleCountsWaiters'
  BY <1>1, Zenon DEF IdleCountsWaiters
<1>2. ASSUME NEW w \in Workers, worker[w] = "woken", idle' = idle - 1,
             worker' = [worker EXCEPT ![w] = "gone"] \/ worker' = [worker EXCEPT ![w] = "running"]
      PROVE  IdleCountsWaiters'
  <2>1. Waiters' = Waiters \ {w} /\ w \in Waiters
    BY <1>2
  <2>2. Cardinality(Waiters \ {w}) = Cardinality(Waiters) - 1
    BY <2>1, WaitersFinite, FS_RemoveElement
  <2> QED BY <1>2, <2>1, <2>2
<1>3. ASSUME NEW t \in Tasks, Post(t) PROVE IdleCountsWaiters'
  <2>1. Waiters' = Waiters
    BY <1>3 DEF Post, SpawnIfNoneIdle, Absent
  <2> QED BY <1>1, <1>3, <2>1 DEF Post
<1>4. CASE NotifyOne
  <2>1. Waiters' = Waiters BY <1>4 DEF NotifyOne, Parked
  <2> QED BY <1>1, <1>4, <2>1 DEF NotifyOne
<1>5. CASE BeginShutdown
  <2>1. Waiters' = Waiters BY <1>5 DEF BeginShutdown
  <2> QED BY <1>1, <1>5, <2>1 DEF BeginShutdown
<1>6. CASE NotifyAll
  <2>1. Waiters' = Waiters BY <1>6 DEF NotifyAll, Parked
  <2> QED BY <1>1, <1>6, <2>1 DEF NotifyAll
<1>7. CASE Join
  <2>1. Waiters' = Waiters BY <1>7 DEF Join
  <2> QED BY <1>1, <1>7, <2>1 DEF Join
<1>8. ASSUME NEW w \in Workers, EnterAndProceed(w) PROVE IdleCountsWaiters'
  <2>1. Waiters' = Waiters BY <1>8 DEF EnterAndProceed, TakeOrLeave
  <2> QED BY <1>1, <1>8, <2>1 DEF EnterAndProceed
<1>9. ASSUME NEW w \in Workers, EnterAndPark(w) PROVE IdleCountsWaiters'
  <2>1. Waiters' = Waiters \cup {w} /\ w \notin Waiters
    BY <1>9 DEF EnterAndPark
  <2>2. Cardinality(Waiters \cup {w}) = Cardinality(Waiters) + 1
    BY <2>1, WaitersFinite, FS_AddElement
  <2> QED BY <1>9, <2>1, <2>2 DEF EnterAndPark
<1>10. ASSUME NEW w \in Workers, SpuriousWakeup(w) PROVE IdleCountsWaiters'
  <2>1. Waiters' = Waiters BY <1>10 DEF SpuriousWakeup
  <2> QED BY <1>1, <1>10, <2>1 DEF SpuriousWakeup
<1>11. ASSUME NEW w \in Workers, Resume(w) PROVE IdleCountsWaiters'
  BY <1>2, <1>11 DEF Resume, TakeOrLeave
<1>12. ASSUME NEW w \in Workers, Repark(w) PROVE IdleCountsWaiters'
  <2>1. Waiters' = Waiters BY <1>12 DEF Repark
  <2> QED BY <1>1, <1>12, <2>1 DEF Repark
<1>13. ASSUME NEW w \in Workers, Finish(w) PROVE IdleCountsWaiters'
  <2>1. Waiters' = Waiters BY <1>13 DEF Finish
  <2> QED BY <1>1, <1>13, <2>1 DEF Finish
<1>14. CASE UNCHANGED vars
  <2>1. Waiters' = Waiters BY <1>14 DEF vars
  <2> QED BY <1>1, <1>14, <2>1 DEF vars
<1> QED
  BY <1>3, <1>4, <1>5, <1>6, <1>7, <1>8, <1>9, <1>10, <1>11, <1>12, <1>13, <1>14
     DEF Next, WorkerStep

\* Each step leaves a queued task a thread, or a notification, to come.
LEMMA WakeupStep == PoolInv /\ [Next]_vars => NoLostWakeup' /\ OwnerMatchesPool'
<1> SUFFICES ASSUME PoolInv, [Next]_vars PROVE NoLostWakeup' /\ OwnerMatchesPool'
  OBVIOUS
<1> USE DEF PoolInv, TypeOK, WorkerStates, OwnerStates, NoLostWakeup, OwnerMatchesPool,
            Live, Parked, In
<1>1. ASSUME NEW t \in Tasks, Post(t) PROVE NoLostWakeup' /\ OwnerMatchesPool'
  <2>1. CASE draining BY <1>1, <2>1 DEF Post
  <2>2. CASE ~draining
    <3>1. \A w \in Workers : worker[w] # "gone" BY <2>2
    <3>2. worker' \in [Workers -> WorkerStates]
      BY <1>1 DEF Post, SpawnIfNoneIdle
    <3>3. \A w \in Workers : worker'[w] # "gone"
      BY <1>1, <2>2, <3>1 DEF Post, SpawnIfNoneIdle, Absent
    <3>4. \E w \in Workers : worker'[w] \in Live
      <4>1. CASE idle = 0 /\ Absent # {}
        BY <1>1, <2>2, <4>1 DEF Post, SpawnIfNoneIdle, Absent
      <4>2. CASE idle = 0 /\ Absent = {}
        <5>1. PICK w \in Workers : TRUE BY WorkersAssumption
        <5> QED BY <1>1, <2>2, <3>1, <4>2, <5>1 DEF Post, SpawnIfNoneIdle, Absent
      <4>3. CASE idle # 0
        <5>1. Waiters # {} BY <4>3, FS_EmptySet DEF IdleCountsWaiters
        <5>2. PICK w \in Workers : worker[w] \in {"parked", "woken"}
          BY <5>1 DEF Waiters
        <5> QED BY <1>1, <2>2, <4>3, <5>2 DEF Post, SpawnIfNoneIdle
      <4> QED BY <4>1, <4>2, <4>3
    <3> QED BY <1>1, <2>2, <3>3, <3>4 DEF Post
  <2> QED BY <2>1, <2>2
<1>2. CASE NotifyOne
  <2>1. PICK v \in Workers : worker[v] \in Live BY <1>2 DEF NotifyOne
  <2>2. CASE Parked = {} BY <1>2, <2>1, <2>2 DEF NotifyOne
  <2>3. CASE Parked # {}
    <3>1. PICK w \in Parked : worker' = [worker EXCEPT ![w] = "woken"]
      BY <1>2, <2>3 DEF NotifyOne
    <3> QED BY <1>2, <3>1 DEF NotifyOne
  <2> QED BY <2>2, <2>3
<1>3. CASE BeginShutdown BY <1>3 DEF BeginShutdown
<1>4. CASE NotifyAll BY <1>4 DEF NotifyAll
<1>5. CASE Join BY <1>5 DEF Join
<1>6. ASSUME NEW w \in Workers, EnterAndProceed(w) PROVE NoLostWakeup' /\ OwnerMatchesPool'
  BY <1>6 DEF EnterAndProceed, TakeOrLeave, MayProceed
<1>7. ASSUME NEW w \in Workers, EnterAndPark(w) PROVE NoLostWakeup' /\ OwnerMatchesPool'
  BY <1>7 DEF EnterAndPark, MayProceed
<1>8. ASSUME NEW w \in Workers, SpuriousWakeup(w) PROVE NoLostWakeup' /\ OwnerMatchesPool'
  BY <1>8 DEF SpuriousWakeup
<1>9. ASSUME NEW w \in Workers, Resume(w) PROVE NoLostWakeup' /\ OwnerMatchesPool'
  BY <1>9 DEF Resume, TakeOrLeave, MayProceed
<1>10. ASSUME NEW w \in Workers, Repark(w) PROVE NoLostWakeup' /\ OwnerMatchesPool'
  BY <1>10 DEF Repark, MayProceed
<1>11. ASSUME NEW w \in Workers, Finish(w) PROVE NoLostWakeup' /\ OwnerMatchesPool'
  BY <1>11 DEF Finish
<1>12. CASE UNCHANGED vars BY <1>12 DEF vars
<1> QED
  BY <1>1, <1>2, <1>3, <1>4, <1>5, <1>6, <1>7, <1>8, <1>9, <1>10, <1>11, <1>12
     DEF Next, WorkerStep

\* The tasks of the workers other than w are the same before and after a
\* step that moves only w.
LEMMA RunningStep ==
    ASSUME TypeOK, JobsMatchWorkers, NEW w \in Workers, NEW s \in WorkerStates,
           NEW j \in {<<>>} \cup {<<t>> : t \in Tasks},
           worker' = [worker EXCEPT ![w] = s], job' = [job EXCEPT ![w] = j],
           s = "running" <=> j # <<>>
    PROVE  /\ JobsMatchWorkers'
           /\ j # <<>> /\ worker[w] # "running" => Running' = Running \cup {j[1]}
           /\ j = <<>> /\ worker[w] # "running" => Running' = Running
           /\ j = <<>> /\ worker[w] = "running" => Running' \cup {job[w][1]} = Running
<1> USE DEF TypeOK, JobsMatchWorkers, Running, In
<1>1. JobsMatchWorkers'
  OBVIOUS
<1>2. /\ worker'[w] = s /\ job'[w] = j
      /\ \A v \in Workers \ {w} : worker'[v] = worker[v] /\ job'[v] = job[v]
  OBVIOUS
<1>3. ASSUME j # <<>>, worker[w] # "running" PROVE Running' = Running \cup {j[1]}
  <2>1. In("running")' = In("running") \cup {w} /\ w \notin In("running")
    BY <1>2, <1>3
  <2>2. \A v \in In("running") : job'[v] = job[v]
    BY <1>2, <2>1
  <2> DEFINE old == In("running")
             now == In("running")'
  <2>3. now = old \cup {w} BY <2>1
  <2>4. job'[w] = j BY <1>2
  <2> HIDE DEF old, now, In
  <2>5. {job'[v][1] : v \in now} = {job[v][1] : v \in old} \cup {j[1]}
    <3>1. \A v \in old : job'[v][1] = job[v][1] BY <2>2 DEF old
    <3>2. job'[w][1] = j[1] BY <2>4
    <3> QED BY <2>3, <3>1, <3>2
  <2> QED BY <2>5 DEF old, now
<1>4. ASSUME j = <<>>, worker[w] # "running" PROVE Running' = Running
  BY <1>2, <1>4, Zenon
<1>5. ASSUME j = <<>>, worker[w] = "running" PROVE Running' \cup {job[w][1]} = Running
  BY <1>2, <1>5, Zenon
<1> QED BY <1>1, <1>3, <1>4, <1>5

\* A worker that takes the oldest task moves it from the queue to its hands.
LEMMA TakeOrLeaveStep ==
    ASSUME PoolInv, NEW w \in Workers, worker[w] # "running", TakeOrLeave(w),
           UNCHANGED <<posted, refused, finished>>
    PROVE  JobsMatchWorkers' /\ TasksConserved'
<1> USE DEF PoolInv
<1>1. CASE queue = <<>>
  <2>1. job' = [job EXCEPT ![w] = <<>>]
    BY <1>1 DEF TakeOrLeave, TypeOK, JobsMatchWorkers
  <2>2. Running' = Running /\ JobsMatchWorkers'
    BY <1>1, <2>1, RunningStep DEF TakeOrLeave, WorkerStates
  <2>3. Queued' = Queued BY <1>1 DEF TakeOrLeave, Queued
  <2> QED BY <2>2, <2>3 DEF TasksConserved, Accepted
<1>2. CASE queue # <<>>
  <2>1. Head(queue) \in Tasks /\ Queued = {Head(queue)} \cup Queued'
    <3>1. queue \in Seq(Tasks) /\ queue' = Tail(queue)
      BY <1>2 DEF TakeOrLeave, TypeOK
    <3> QED BY <1>2, <3>1, HeadTailElements, QueuedElements
  <2>2. <<Head(queue)>> \in {<<>>} \cup {<<t>> : t \in Tasks} /\ <<Head(queue)>> # <<>>
        /\ <<Head(queue)>>[1] = Head(queue)
    BY <2>1
  <2>3. Running' = Running \cup {Head(queue)} /\ JobsMatchWorkers'
    <3> DEFINE j == <<Head(queue)>>
    <3>1. job' = [job EXCEPT ![w] = j] /\ worker' = [worker EXCEPT ![w] = "running"]
      BY <1>2 DEF TakeOrLeave
    <3>2. j \in {<<>>} \cup {<<t>> : t \in Tasks} /\ j # <<>> /\ j[1] = Head(queue)
      BY <2>2
    <3> HIDE DEF j
    <3> QED BY <3>1, <3>2, RunningStep DEF WorkerStates
  <2> QED BY <2>1, <2>3 DEF TasksConserved, Accepted
<1> QED BY <1>1, <1>2

\* Each step keeps every accepted task in one place: queued, running or done.
LEMMA ConservationStep == PoolInv /\ [Next]_vars => JobsMatchWorkers' /\ TasksConserved'
<1> SUFFICES ASSUME PoolInv, [Next]_vars PROVE JobsMatchWorkers' /\ TasksConserved'
  OBVIOUS
<1>0. ASSUME UNCHANGED <<queue, job, posted, refused, finished>>,
             \A w \in Workers : worker'[w] = "running" <=> worker[w] = "running"
      PROVE  JobsMatchWorkers' /\ TasksConserved'
  <2>1. Running' = Running BY <1>0, Zenon DEF Running, In
  <2>2. Queued' = Queued BY <1>0 DEF Queued
  <2>3. JobsMatchWorkers' BY <1>0 DEF PoolInv, JobsMatchWorkers
  <2> QED BY <1>0, <2>1, <2>2, <2>3 DEF PoolInv, TasksConserved, Accepted
<1>1. ASSUME NEW t \in Tasks, Post(t) PROVE JobsMatchWorkers' /\ TasksConserved'
  <2>1. \A w \in Workers : worker'[w] = "running" <=> worker[w] = "running"
    BY <1>1 DEF Post, SpawnIfNoneIdle, Absent, In, PoolInv, TypeOK
  <2>2. Running' = Running BY <1>1, <2>1, Zenon DEF Running, In, Post
  <2>3. JobsMatchWorkers' BY <1>1, <2>1 DEF Post, PoolInv, JobsMatchWorkers
  <2>5. CASE draining
    <3>1. Queued' = Queued BY <1>1, <2>5 DEF Post, Queued
    <3>2. Accepted' = Accepted BY <1>1, <2>5 DEF Post, Accepted
    <3> QED BY <1>1, <2>2, <2>3, <3>1, <3>2 DEF Post, PoolInv, TasksConserved
  <2>6. CASE ~draining
    <3>1. Queued' = Queued \cup {t}
      BY <1>1, <2>6, AppendElements, QueuedElements DEF Post, PoolInv, TypeOK
    <3>2. t \notin refused
      BY <1>1 DEF PoolInv, Post, RefusedWerePosted
    <3>3. Accepted' = Accepted \cup {t}
      BY <1>1, <2>6, <3>2 DEF Post, Accepted
    <3> QED BY <1>1, <2>2, <2>3, <3>1, <3>3 DEF Post, PoolInv, TasksConserved
  <2> QED BY <2>5, <2>6
<1>2. CASE NotifyOne
  BY <1>0, <1>2 DEF NotifyOne, Parked, In, PoolInv, TypeOK
<1>3. CASE BeginShutdown
  BY <1>0, <1>3 DEF BeginShutdown
<1>4. CASE NotifyAll
  BY <1>0, <1>4 DEF NotifyAll, Parked, In, PoolInv, TypeOK
<1>5. CASE Join
  BY <1>0, <1>5 DEF Join
<1>6. ASSUME NEW w \in Workers, EnterAndProceed(w) PROVE JobsMatchWorkers' /\ TasksConserved'
  BY <1>6, TakeOrLeaveStep DEF EnterAndProceed
<1>7. ASSUME NEW w \in Workers, EnterAndPark(w) PROVE JobsMatchWorkers' /\ TasksConserved'
  BY <1>0, <1>7 DEF EnterAndPark, PoolInv, TypeOK
<1>8. ASSUME NEW w \in Workers, SpuriousWakeup(w) PROVE JobsMatchWorkers' /\ TasksConserved'
  BY <1>0, <1>8 DEF SpuriousWakeup, PoolInv, TypeOK
<1>9. ASSUME NEW w \in Workers, Resume(w) PROVE JobsMatchWorkers' /\ TasksConserved'
  BY <1>9, TakeOrLeaveStep DEF Resume
<1>10. ASSUME NEW w \in Workers, Repark(w) PROVE JobsMatchWorkers' /\ TasksConserved'
  BY <1>0, <1>10 DEF Repark, PoolInv, TypeOK
<1>11. ASSUME NEW w \in Workers, Finish(w) PROVE JobsMatchWorkers' /\ TasksConserved'
  <2>1. Running' \cup {job[w][1]} = Running /\ JobsMatchWorkers'
    BY <1>11, RunningStep DEF Finish, PoolInv, WorkerStates
  <2>2. Queued' = Queued /\ Accepted' = Accepted /\ finished' = finished \cup {job[w][1]}
    BY <1>11 DEF Finish, Queued, Accepted
  <2> QED BY <2>1, <2>2 DEF PoolInv, TasksConserved
<1>12. CASE UNCHANGED vars
  BY <1>0, <1>12 DEF vars
<1> QED
  BY <1>1, <1>2, <1>3, <1>4, <1>5, <1>6, <1>7, <1>8, <1>9, <1>10, <1>11, <1>12
     DEF Next, WorkerStep

\* A task post dropped was handed to post.
LEMMA RefusedStep == PoolInv /\ [Next]_vars => RefusedWerePosted'
  BY DEF PoolInv, RefusedWerePosted, Next, vars, Post, NotifyOne, BeginShutdown, NotifyAll, Join,
         WorkerStep, EnterAndProceed, EnterAndPark, SpuriousWakeup, Resume, Repark, Finish

-----------------------------------------------------------------------------
(* The theorems.                                                           *)

\* Every reachable state of the pool satisfies the inductive invariant.
THEOREM PoolInvariant == Spec => []PoolInv
<1>1. Init => PoolInv
  BY PoolInvInit
<1>2. PoolInv /\ [Next]_vars => PoolInv'
  BY TypeStep, IdleStep, WakeupStep, ConservationStep, RefusedStep DEF PoolInv, IdleCountsWaiters
<1> QED BY <1>1, <1>2, PTL DEF Spec

\* Every variable of the pool keeps its type, for any threads and tasks.
THEOREM PoolTypeOK == Spec => []TypeOK
<1>1. PoolInv => TypeOK BY DEF PoolInv
<1> QED BY <1>1, PoolInvariant, PTL

\* idle_ always equals the number of threads inside cv_.wait, so post's
\* decision to spawn is made from a true count -- one that includes the
\* threads already notified (worker_loop and post in src/assign_pool.cpp).
THEOREM IdleCount == Spec => []IdleCountsWaiters
<1>1. PoolInv => IdleCountsWaiters
  BY DEF PoolInv
<1> QED BY <1>1, PoolInvariant, PTL

\* No wakeup is lost although post and begin_shutdown notify after releasing
\* mu_: a queued task always has a thread that will look at the queue.
THEOREM NoWakeupIsLost == Spec => []NoLostWakeup
<1>1. PoolInv => NoLostWakeup
  BY DEF PoolInv
<1> QED BY <1>1, PoolInvariant, PTL

\* When the destructor has joined the workers, every task post accepted has
\* returned: the backlog is never thrown away.
THEOREM BacklogFinished == Spec => []BacklogFinishedBeforeJoin
<1>1. PoolInv => BacklogFinishedBeforeJoin
  <2> SUFFICES ASSUME PoolInv, owner = "joined" PROVE Accepted = finished
    BY DEF BacklogFinishedBeforeJoin
  <2>1. \A w \in Workers : worker[w] \in {"absent", "gone"}
    BY DEF PoolInv, OwnerMatchesPool
  <2>2. queue = <<>>
    BY <2>1 DEF PoolInv, NoLostWakeup
  <2>3. Queued = {}
    BY <2>2 DEF Queued
  <2>4. Running = {}
    BY <2>1, Zenon DEF Running, In
  <2> QED BY <2>3, <2>4 DEF PoolInv, TasksConserved
<1> QED BY <1>1, PoolInvariant, PTL

-----------------------------------------------------------------------------
(* The pool implements TaskPool.  The abstract pool forgets a task that    *)
(* starts or finishes, so each task must be in one place only: queued      *)
(* once, with one thread, or finished.                                     *)

\* The task a running thread holds.
TaskOf(w) == job[w][1]

\* No task is in two places, or twice in the queue.
OncePerTask ==
    /\ Distinct(queue)
    /\ Queued \cap Running = {}
    /\ finished \cap (Queued \cup Running) = {}
    /\ \A v, w \in In("running") : v # w => TaskOf(v) # TaskOf(w)

\* What is known to the abstract pool is what was posted.
LEMMA KnownWerePosted == PoolInv => Pool!Known = posted /\ Pool!Pending = Queued
BY DEF Pool!Known, Pool!Pending, PoolInv, TasksConserved, Accepted, RefusedWerePosted, Queued

\* A worker that takes the oldest task is a start of the abstract pool; one that
\* leaves is nothing to it.
LEMMA TakeStarts ==
    ASSUME PoolInv, OncePerTask, NEW w \in Workers, worker[w] # "running", TakeOrLeave(w),
           UNCHANGED <<draining, owner, refused, finished>>
    PROVE  OncePerTask' /\ [Pool!Next]_(Pool!vars)
<1> USE DEF PoolInv
<1>1. CASE queue = <<>>
  <2>1. job' = job /\ worker' = [worker EXCEPT ![w] = "gone"] /\ queue' = queue
    BY <1>1 DEF TakeOrLeave
  <2>2. In("running")' = In("running")
    BY <2>1 DEF In, TypeOK
  <2>3. Running' = Running /\ Queued' = Queued
    BY <2>1, <2>2 DEF Running, Queued
  <2> QED BY <2>1, <2>2, <2>3 DEF OncePerTask, TaskOf, Pool!vars
<1>2. CASE queue # <<>>
  <2> DEFINE t == Head(queue)
             j == <<t>>
  <2>1. queue' = Tail(queue) /\ worker' = [worker EXCEPT ![w] = "running"] /\ job' = [job EXCEPT ![w] = j]
    BY <1>2 DEF TakeOrLeave
  <2>2. /\ t \in Tasks /\ queue \in Seq(Tasks) /\ Queued = {t} \cup Queued'
        /\ Distinct(queue') /\ t \notin Queued'
    BY <1>2, <2>1, HeadTailElements, TailDistinct, QueuedElements DEF TypeOK, OncePerTask
  <2>3. j \in {<<>>} \cup {<<u>> : u \in Tasks} /\ j # <<>> /\ j[1] = t
    BY <2>2
  <2> HIDE DEF j
  <2>4. Running' = Running \cup {t}
    BY <2>1, <2>3, RunningStep DEF WorkerStates
  <2>5. /\ In("running")' = In("running") \cup {w} /\ w \notin In("running")
        /\ \A v \in Workers \ {w} : job'[v] = job[v]
        /\ job'[w] = j
    BY <2>1 DEF In, TypeOK
  <2>6. /\ \A v \in In("running") : TaskOf(v)' = TaskOf(v) /\ TaskOf(v) \in Running
        /\ TaskOf(w)' = t
    BY <2>3, <2>5 DEF TaskOf, Running, In
  <2>7. t \in Queued /\ t \notin Running /\ t \notin finished
    BY <2>2 DEF OncePerTask
  <2>8. \A v, u \in In("running")' : v # u => TaskOf(v)' # TaskOf(u)'
    BY <2>5, <2>6, <2>7 DEF OncePerTask
  <2>9. OncePerTask'
    BY <2>2, <2>4, <2>7, <2>8 DEF OncePerTask
  <2>10. Cardinality(Running) < Cardinality(Workers)
    <3> DEFINE busy == In("running")
               f == [v \in busy |-> TaskOf(v)]
    <3>1. busy \subseteq Workers \ {w}
      BY DEF In
    <3>2. /\ IsFiniteSet(Workers \ {w}) /\ Cardinality(Workers \ {w}) = Cardinality(Workers) - 1
          /\ Cardinality(Workers) \in Nat
      BY WorkersAssumption, FS_RemoveElement, FS_CardinalityType
    <3>3. IsFiniteSet(busy) /\ Cardinality(busy) <= Cardinality(Workers \ {w})
      BY <3>1, <3>2, FS_Subset
    <3>4. f \in Surjection(busy, Running)
      BY DEF Surjection, Running, TaskOf
    <3>5. IsFiniteSet(Running) /\ Cardinality(Running) <= Cardinality(busy)
      BY <3>3, <3>4, FS_Surjection
    <3>6. Cardinality(Running) \in Nat /\ Cardinality(busy) \in Nat
      BY <3>3, <3>5, FS_CardinalityType
    <3> QED BY <3>2, <3>3, <3>5, <3>6
  <2>11. Running' = Running \cup {Head(queue)} /\ queue' = Tail(queue)
    BY <2>1, <2>4
  <2>12. UNCHANGED <<finished, refused, draining, owner = "joined">>
    OBVIOUS
  <2> HIDE DEF t
  <2>13. Pool!Start
    BY <1>2, <2>10, <2>11, <2>12, Zenon DEF Pool!Start, Cardinality, Pool!Cardinality, IsFiniteSet, Pool!IsFiniteSet
  <2> QED BY <2>9, <2>13 DEF Pool!Next
<1> QED BY <1>1, <1>2

\* Each step of the pool is a step of the abstract one, or nothing to it.
LEMMA SimulationStep ==
    ASSUME PoolInv, OncePerTask, [Next]_vars
    PROVE  OncePerTask' /\ [Pool!Next]_(Pool!vars)
<1> USE DEF PoolInv
<1>1. ASSUME UNCHANGED <<queue, job, refused, finished, draining>>,
             \A w \in Workers : worker'[w] = "running" <=> worker[w] = "running",
             (owner = "joined") <=> (owner' = "joined")
      PROVE  OncePerTask' /\ [Pool!Next]_(Pool!vars)
  <2>1. In("running")' = In("running")
    BY <1>1 DEF In
  <2>2. Running' = Running /\ Queued' = Queued
    BY <1>1, <2>1 DEF Running, Queued
  <2> QED BY <1>1, <2>1, <2>2 DEF OncePerTask, TaskOf, Pool!vars
<1>2. ASSUME NEW t \in Tasks, Post(t) PROVE OncePerTask' /\ [Pool!Next]_(Pool!vars)
  <2>1. \A w \in Workers : worker'[w] = "running" <=> worker[w] = "running"
    BY <1>2 DEF Post, SpawnIfNoneIdle, Absent, In, TypeOK
  <2>2. In("running")' = In("running") /\ job' = job
    BY <1>2, <2>1 DEF In, Post
  <2>3. Running' = Running
    BY <2>2 DEF Running
  <2>4. t \notin Pool!Known /\ t \notin Queued \cup Running \cup finished
    BY <1>2, KnownWerePosted DEF Post, TasksConserved, Accepted
  <2>5. CASE draining
    <3>1. queue' = queue /\ refused' = refused \cup {t} /\ owner' = owner /\ owner = "idle" /\ UNCHANGED <<draining, finished>>
      BY <1>2, <2>5 DEF Post
    <3>2. Queued' = Queued
      BY <3>1 DEF Queued
    <3>3. Pool!Refuse(t)
      BY <2>3, <2>4, <2>5, <3>1 DEF Pool!Refuse
    <3> QED BY <2>2, <2>3, <3>1, <3>2, <3>3 DEF OncePerTask, TaskOf, Pool!Next
  <2>6. CASE ~draining
    <3>1. /\ queue' = Append(queue, t) /\ owner = "idle" /\ owner' = "posting"
          /\ UNCHANGED <<refused, draining, finished>>
      BY <1>2, <2>6 DEF Post
    <3>2. Queued' = Queued \cup {t} /\ Distinct(queue')
      BY <2>4, <3>1, AppendElements, AppendDistinct, QueuedElements DEF TypeOK, OncePerTask
    <3>3. Pool!Accept(t)
      BY <2>3, <2>4, <2>6, <3>1 DEF Pool!Accept
    <3> QED BY <2>2, <2>3, <2>4, <3>1, <3>2, <3>3 DEF OncePerTask, TaskOf, Pool!Next
  <2> QED BY <2>5, <2>6
<1>3. CASE NotifyOne
  BY <1>1, <1>3 DEF NotifyOne, Parked, In, TypeOK
<1>4. CASE BeginShutdown
  <2>1. /\ UNCHANGED <<queue, worker, job, refused, finished>> /\ draining' = TRUE
        /\ owner = "idle" /\ owner' = "closing"
    BY <1>4 DEF BeginShutdown
  <2>2. Running' = Running /\ Queued' = Queued /\ In("running")' = In("running")
    BY <2>1 DEF Running, Queued, In
  <2>3. [Pool!Next]_(Pool!vars)
    <3>1. CASE draining
      BY <2>1, <2>2, <3>1 DEF Pool!vars
    <3>2. CASE ~draining
      BY <2>1, <2>2, <3>2 DEF Pool!Close, Pool!Next
    <3> QED BY <3>1, <3>2 DEF TypeOK
  <2> QED BY <2>1, <2>2, <2>3 DEF OncePerTask, TaskOf
<1>5. CASE NotifyAll
  BY <1>1, <1>5 DEF NotifyAll, Parked, In, TypeOK
<1>6. CASE Join
  <2>1. /\ \A w \in Workers : worker[w] \in {"absent", "gone"}
        /\ owner = "joining" /\ owner' = "joined"
        /\ UNCHANGED <<queue, draining, worker, job, refused, finished>>
    BY <1>6 DEF Join
  <2>2. Running' = Running /\ Queued' = Queued /\ In("running")' = In("running")
    BY <2>1 DEF Running, Queued, In
  <2>3. queue = <<>> /\ In("running") = {} /\ draining
    BY <2>1 DEF NoLostWakeup, OwnerMatchesPool, In
  <2>4. Running = {}
    BY <2>3 DEF Running
  <2>5. Pool!Join
    BY <2>1, <2>2, <2>3, <2>4 DEF Pool!Join
  <2> QED BY <2>1, <2>2, <2>5 DEF OncePerTask, TaskOf, Pool!Next
<1>7. ASSUME NEW w \in Workers, EnterAndProceed(w) PROVE OncePerTask' /\ [Pool!Next]_(Pool!vars)
  BY <1>7, TakeStarts DEF EnterAndProceed
<1>8. ASSUME NEW w \in Workers, Resume(w) PROVE OncePerTask' /\ [Pool!Next]_(Pool!vars)
  BY <1>8, TakeStarts DEF Resume
<1>9. ASSUME NEW w \in Workers, EnterAndPark(w) \/ SpuriousWakeup(w) \/ Repark(w)
      PROVE  OncePerTask' /\ [Pool!Next]_(Pool!vars)
  BY <1>1, <1>9 DEF EnterAndPark, SpuriousWakeup, Repark, TypeOK
<1>10. ASSUME NEW w \in Workers, Finish(w) PROVE OncePerTask' /\ [Pool!Next]_(Pool!vars)
  <2> DEFINE t == TaskOf(w)
  <2>1. /\ w \in In("running") /\ finished' = finished \cup {t} /\ job' = [job EXCEPT ![w] = <<>>]
        /\ worker' = [worker EXCEPT ![w] = "entering"] /\ UNCHANGED <<queue, draining, owner, refused>>
    BY <1>10 DEF Finish, In, TaskOf
  <2>2. In("running")' = In("running") \ {w} /\ \A v \in Workers \ {w} : job'[v] = job[v]
    BY <2>1 DEF In, TypeOK
  <2>3. \A v \in In("running") \ {w} : TaskOf(v)' = TaskOf(v) /\ TaskOf(v) # t
    BY <2>1, <2>2 DEF TaskOf, OncePerTask, In
  <2>4. Running = {TaskOf(v) : v \in In("running")} /\ Running' = {TaskOf(v)' : v \in In("running")'}
    BY DEF Running, TaskOf
  <2>5. t \in Running /\ Running' = Running \ {t}
    BY <2>1, <2>2, <2>3, <2>4
  <2>6. \E u \in Tasks : job[w] = <<u>>
    BY <2>1 DEF JobsMatchWorkers, TypeOK, In
  <2>7. t \in Tasks /\ Queued' = Queued
    BY <2>1, <2>6 DEF TaskOf, Queued
  <2>8. Pool!Complete(t)
    BY <2>1, <2>5 DEF Pool!Complete
  <2>9. OncePerTask'
    BY <2>1, <2>2, <2>3, <2>5, <2>7 DEF OncePerTask
  <2> QED BY <2>7, <2>8, <2>9 DEF Pool!Next
<1>11. CASE UNCHANGED vars
  BY <1>1, <1>11 DEF vars
<1> QED
  BY <1>2, <1>3, <1>4, <1>5, <1>6, <1>7, <1>8, <1>9, <1>10, <1>11 DEF Next, WorkerStep

\* To its client the pool is the one TaskPool describes, for any number of threads
\* and tasks: first in first out, never more tasks at once than threads, no task
\* lost or run twice, and a join that comes last.
THEOREM PoolImplementsTaskPool == Spec => ImplementsTaskPool
<1>1. Init => OncePerTask /\ Pool!Init
  <2> SUFFICES ASSUME Init PROVE OncePerTask /\ Pool!Init
    OBVIOUS
  <2>1. In("running") = {} /\ Queued = {} /\ Distinct(queue)
    BY DEF Init, In, Queued, Distinct
  <2>2. Running = {}
    BY <2>1 DEF Running
  <2> QED BY <2>1, <2>2 DEF Init, OncePerTask, Pool!Init
<1>2. PoolInv /\ OncePerTask /\ [Next]_vars => OncePerTask' /\ [Pool!Next]_(Pool!vars)
  BY SimulationStep
<1> QED BY <1>1, <1>2, PoolInvariant, PTL DEF Spec, ImplementsTaskPool, Pool!Spec

-----------------------------------------------------------------------------
(* The counts of the jobs (JobService), for any finite set of jobs, pool   *)
(* and batches.                                                            *)

\* What a job holds is in its place: nothing before its work starts, no context
\* after it ends, and never more contexts than guards.
SharesFollowPlaces ==
    /\ at \in [Jobs -> JobPlaces]
    /\ guards \in [Jobs -> 0 .. PoolSize] /\ slots \in [Jobs -> 0 .. PoolSize]
    /\ \A j \in Jobs : slots[j] <= guards[j]
    /\ \A j \in Jobs : at[j] \in {"out", "queued"} => guards[j] = 0
    /\ \A j \in Jobs : at[j] \in {"ended", "cleared"} => slots[j] = 0

\* active_per_model_ is the number of guards the jobs hold.
Counted == active = Guards

JobInv == SharesFollowPlaces /\ Counted

\* The count is a number.
LEMMA ActiveIsInt == JobInv => active \in Int
<1> SUFFICES ASSUME JobInv PROVE active \in Int
  OBVIOUS
<1>1. guards \in [Jobs -> Int]
  BY DEF JobInv, SharesFollowPlaces
<1> QED BY <1>1, JobsAssumption, SumType DEF JobInv, Counted, Guards, InUse

\* A step that changes the guards of one job changes the count by as much.
LEMMA OneJobCounts ==
    ASSUME SharesFollowPlaces, SharesFollowPlaces', Counted, NEW j \in Jobs,
           \A k \in Jobs \ {j} : guards'[k] = guards[k],
           active' = (active - guards[j]) + guards'[j]
    PROVE  Counted'
<1>1. guards \in [Jobs -> Int] /\ guards' \in [Jobs -> Int]
  BY DEF SharesFollowPlaces
<1>2. SumFunctionOnSet(guards', Jobs) = (SumFunctionOnSet(guards, Jobs) - guards[j]) + guards'[j]
  BY <1>1, JobsAssumption, SumChange
<1> QED BY <1>2 DEF Counted, Guards

\* A step that leaves the guards and the count alone keeps them equal.
LEMMA SameGuards ==
    ASSUME Counted, UNCHANGED <<guards, active>>
    PROVE  Counted'
BY DEF Counted, Guards

LEMMA JobStart == JobInit => JobInv
<1> SUFFICES ASSUME JobInit PROVE JobInv
  OBVIOUS
<1>1. SharesFollowPlaces
  BY SizesAssumption DEF JobInit, SharesFollowPlaces, JobPlaces
<1>2. SumFunctionOnSet(guards, Jobs) = 0
  <2>1. guards \in [Jobs -> Int] /\ \A j \in Jobs : guards[j] = 0
    BY DEF JobInit
  <2> QED BY <2>1, JobsAssumption, SumNothing
<1> QED BY <1>1, <1>2 DEF JobInit, JobInv, Counted, Guards

\* Every step keeps the invariant, action by action.
LEMMA JobStep == ASSUME JobInv, [JobNext]_serviceVars PROVE JobInv'
<1> USE DEF JobInv
<1>0. PoolSize \in Nat \ {0}
  BY SizesAssumption
<1>1. CASE UNCHANGED serviceVars
  BY <1>1, SameGuards DEF serviceVars, jobVars, SharesFollowPlaces
<1>2. CASE EndSession \/ BeginSession \/ EntryAges
  BY <1>2, SameGuards DEF EndSession, BeginSession, EntryAges, jobVars, SharesFollowPlaces
<1>3. ASSUME NEW j \in Jobs, Dispatch(j) PROVE JobInv'
  BY <1>3, SameGuards DEF Dispatch, SharesFollowPlaces, JobPlaces
<1>4. ASSUME NEW j \in Jobs, RequestCancel(j) PROVE JobInv'
  BY <1>4, SameGuards DEF RequestCancel, jobVars, SharesFollowPlaces
<1>5. ASSUME NEW j \in Jobs, ReturnEarly(j) PROVE JobInv'
  BY <1>5, SameGuards DEF ReturnEarly, SharesFollowPlaces, JobPlaces
<1>6. ASSUME NEW j \in Jobs, Begin(j) PROVE JobInv'
  <2>1. CASE Kind[j] = "single"
    <3>1. SharesFollowPlaces'
      BY <1>0, <1>6, <2>1 DEF Begin, SharesFollowPlaces, JobPlaces
    <3>2. guards[j] = 0 /\ guards'[j] = 1 /\ active' = active + 1
      BY <1>6, <2>1 DEF Begin, SharesFollowPlaces
    <3>3. \A k \in Jobs \ {j} : guards'[k] = guards[k]
      BY <1>6, <2>1 DEF Begin, SharesFollowPlaces
    <3>4. active' = (active - guards[j]) + guards'[j]
      BY <3>2, ActiveIsInt
    <3> QED BY <3>1, <3>3, <3>4, OneJobCounts
  <2>2. CASE Kind[j] # "single"
    BY <1>6, <2>2, SameGuards DEF Begin, SharesFollowPlaces, JobPlaces
  <2> QED BY <2>1, <2>2
<1>7. ASSUME NEW j \in Jobs, StartItem(j) PROVE JobInv'
  <2>1. SharesFollowPlaces'
    BY <1>0, <1>7 DEF StartItem, SharesFollowPlaces, JobPlaces
  <2>2. guards[j] \in Int /\ guards'[j] = guards[j] + 1 /\ active' = active + 1
    BY <1>7 DEF StartItem, SharesFollowPlaces
  <2>3. \A k \in Jobs \ {j} : guards'[k] = guards[k]
    BY <1>7 DEF StartItem, SharesFollowPlaces
  <2>4. active' = (active - guards[j]) + guards'[j]
    BY <2>2, ActiveIsInt
  <2> QED BY <2>1, <2>3, <2>4, OneJobCounts
<1>8. ASSUME NEW j \in Jobs, Acquire(j) PROVE JobInv'
  BY <1>0, <1>8, SameGuards DEF Acquire, SharesFollowPlaces, JobPlaces
<1>9. ASSUME NEW j \in Jobs, NEW held \in 0 .. 1, NEW failed \in BOOLEAN,
             ItemEnds(j, held, failed)
      PROVE  JobInv'
  <2>1. SharesFollowPlaces'
    BY <1>0, <1>9 DEF ItemEnds, SharesFollowPlaces, JobPlaces
  <2>2. guards[j] \in Int /\ guards'[j] = guards[j] - 1 /\ active' = active - 1
    BY <1>9 DEF ItemEnds, SharesFollowPlaces
  <2>3. \A k \in Jobs \ {j} : guards'[k] = guards[k]
    BY <1>9 DEF ItemEnds, SharesFollowPlaces
  <2>4. active' = (active - guards[j]) + guards'[j]
    BY <2>2, ActiveIsInt
  <2> QED BY <2>1, <2>3, <2>4, OneJobCounts
<1>10. ASSUME NEW j \in Jobs, BatchEnds(j) PROVE JobInv'
  BY <1>10, SameGuards DEF BatchEnds, SharesFollowPlaces, JobPlaces
<1>11. ASSUME NEW j \in Jobs, WorkEnds(j) PROVE JobInv'
  BY <1>0, <1>11, SameGuards DEF WorkEnds, SharesFollowPlaces, JobPlaces
<1>12. ASSUME NEW j \in Jobs, ClearCancel(j) PROVE JobInv'
  BY <1>12, SameGuards DEF ClearCancel, SharesFollowPlaces, JobPlaces
<1>13. ASSUME NEW j \in Jobs, Return(j) \/ Throws(j) PROVE JobInv'
  <2>1. SharesFollowPlaces'
    BY <1>0, <1>13 DEF Return, Throws, SharesFollowPlaces, JobPlaces
  <2>2. guards[j] \in Int /\ guards'[j] = 0 /\ active' = active - guards[j]
    BY <1>13 DEF Return, Throws, SharesFollowPlaces
  <2>3. \A k \in Jobs \ {j} : guards'[k] = guards[k]
    BY <1>13 DEF Return, Throws, SharesFollowPlaces
  <2>4. active' = (active - guards[j]) + guards'[j]
    BY <2>2, ActiveIsInt
  <2> QED BY <2>1, <2>3, <2>4, OneJobCounts
<1>14. ASSUME NEW j \in Jobs, Execute(j) PROVE JobInv'
  BY <1>5, <1>6, <1>7, <1>8, <1>9, <1>10, <1>11, <1>12, <1>13, <1>14
  DEF Execute, ItemReturns, ItemPolls, WorkPolls
<1> QED BY <1>1, <1>2, <1>3, <1>4, <1>14 DEF JobNext

\* The inductive invariant, of every behaviour of the jobs.
THEOREM JobInvariant == JobSpec => []JobInv
<1>1. JobInv /\ [JobNext]_serviceVars => JobInv'
  BY JobStep
<1> QED BY <1>1, JobStart, PTL DEF JobSpec

\* However jobs, items, cancels and throws interleave, the capacity a heartbeat
\* derives is never more than the contexts that are free (ActiveGuard, run_job).
THEOREM HonestCapacity == JobSpec => []CapacityIsHonest
<1>1. ASSUME JobInv PROVE CapacityIsHonest
  <2>1. guards \in [Jobs -> Int] /\ slots \in [Jobs -> Int]
        /\ \A j \in Jobs : slots[j] <= guards[j]
    BY <1>1 DEF JobInv, SharesFollowPlaces
  <2>2. SumFunctionOnSet(slots, Jobs) <= SumFunctionOnSet(guards, Jobs)
    BY <2>1, JobsAssumption, SumMonotone
  <2>3. SumFunctionOnSet(slots, Jobs) \in Int /\ SumFunctionOnSet(guards, Jobs) \in Int
    BY <2>1, JobsAssumption, SumType
  <2>4. PoolSize \in Int
    BY SizesAssumption
  <2>5. active = SumFunctionOnSet(guards, Jobs) /\ InUse = SumFunctionOnSet(slots, Jobs)
    BY <1>1 DEF JobInv, Counted, Guards, InUse
  <2> QED BY <2>2, <2>3, <2>4, <2>5 DEF CapacityIsHonest
<1> QED BY <1>1, JobInvariant, PTL

\* When no job executes none is counted, whichever way each of them left.
THEOREM CountsComeBack == JobSpec => []CountsReturnToZero
<1>1. ASSUME JobInv PROVE CountsReturnToZero
  <2> SUFFICES ASSUME \A j \in Jobs : at[j] \in {"out", "queued"} PROVE active = 0
    BY DEF CountsReturnToZero
  <2>1. guards \in [Jobs -> Int] /\ \A j \in Jobs : guards[j] = 0
    BY <1>1 DEF JobInv, SharesFollowPlaces
  <2>2. SumFunctionOnSet(guards, Jobs) = 0
    BY <2>1, JobsAssumption, SumNothing
  <2> QED BY <1>1, <2>2 DEF JobInv, Counted, Guards, InUse
<1> QED BY <1>1, JobInvariant, PTL

-----------------------------------------------------------------------------
(* The items of a batch (BatchRunner), for any number of items and threads. *)

Holding == {"working", "failed", "recorded"}

\* A thread with an item in hand took it from the index, alone, and has not
\* stored its result.
ItemsHeld ==
    /\ \A t \in Threads : pc[t] \in Holding =>
          item[t] \in Indexes /\ item[t] < next /\ item[t] \notin filled
    /\ \A t, u \in Threads : pc[t] \in Holding /\ pc[u] \in Holding /\ item[t] = item[u]
          => t = u
    /\ \A i \in filled : i < next

\* A stop is requested only behind a recorded error, so the first failure that
\* saw a stop is recorded behind another; what failed before that failed by
\* itself or saw the job's cancel.
RootCause ==
    /\ aborting => first # NoError
    /\ \A t \in Threads : pc[t] = "recorded" => first # NoError
    /\ \A t \in Threads : pc[t] = "failed" /\ ~own[t] => aborting \/ cancelled
    /\ FirstErrorIsRootCause

\* While there is no error, an index that was taken is done or in hand.
Covered ==
    first = NoError => \A i \in Indexes : i < next =>
        i \in filled \/ \E t \in Threads : pc[t] \in {"working", "failed"} /\ item[t] = i

\* Threads leave at the end of the items or after a stop.
Leaving ==
    /\ \A t \in Threads : pc[t] = "gone" => aborting \/ next >= N
    /\ joined => \A t \in Threads : pc[t] = "gone"

BatchInv == BatchTypeOK /\ ItemsHeld /\ RootCause /\ Covered /\ Leaving

\* Initially nothing is taken, failed or stored.
LEMMA BatchStart == BatchInit => BatchInv
<1> SUFFICES ASSUME BatchInit PROVE BatchInv OBVIOUS
<1> USE DEF BatchInit
<1>1. BatchTypeOK BY BatchAssumption DEF BatchTypeOK, BatchPlaces, Indexes
<1>2. ItemsHeld BY DEF ItemsHeld, Holding
<1>3. RootCause BY DEF RootCause, FirstErrorIsRootCause
<1>4. Covered BY DEF Covered, Indexes
<1>5. Leaving BY DEF Leaving
<1> QED BY <1>1, <1>2, <1>3, <1>4, <1>5 DEF BatchInv

\* Every step keeps the invariant, action by action.
LEMMA BatchStep == ASSUME BatchInv, [BatchNext]_batchVars PROVE BatchInv'
<1> USE BatchAssumption
<1>1. CASE UNCHANGED batchVars
  BY <1>1 DEF batchVars, BatchInv, BatchTypeOK, ItemsHeld, RootCause, Covered, Leaving, FirstErrorIsRootCause
<1>2. CASE Cancel
  <2> USE DEF Cancel, BatchInv
  <2>1. BatchTypeOK' BY <1>2 DEF BatchTypeOK
  <2>2. ItemsHeld' BY <1>2 DEF ItemsHeld
  <2>3. RootCause' BY <1>2 DEF RootCause, FirstErrorIsRootCause
  <2>4. Covered' BY <1>2 DEF Covered
  <2>5. Leaving' BY <1>2 DEF Leaving
  <2> QED BY <2>1, <2>2, <2>3, <2>4, <2>5
<1>3. CASE JoinThreads
  <2> USE DEF JoinThreads, BatchInv
  <2>1. BatchTypeOK' BY <1>3 DEF BatchTypeOK
  <2>2. ItemsHeld' BY <1>3 DEF ItemsHeld
  <2>3. RootCause' BY <1>3 DEF RootCause, FirstErrorIsRootCause
  <2>4. Covered' BY <1>3 DEF Covered
  <2>5. Leaving' BY <1>3 DEF Leaving
  <2> QED BY <2>1, <2>2, <2>3, <2>4, <2>5
<1>4. ASSUME NEW t \in Threads, Look(t) PROVE BatchInv'
  BY <1>4 DEF Look, Moves, BatchInv, BatchTypeOK, ItemsHeld, RootCause, Covered, Leaving,
     FirstErrorIsRootCause, BatchPlaces, Holding
<1>5. ASSUME NEW t \in Threads, Take(t) PROVE BatchInv'
  <2> USE DEF Take, Moves, BatchInv
  <2>1. BatchTypeOK' BY <1>5 DEF BatchTypeOK, BatchPlaces, Indexes
  <2>2. ItemsHeld' BY <1>5 DEF BatchTypeOK, ItemsHeld, Holding, Indexes
  <2>3. RootCause' BY <1>5 DEF BatchTypeOK, RootCause, FirstErrorIsRootCause
  <2>4. Covered' BY <1>5 DEF BatchTypeOK, Covered, Indexes
  <2>5. Leaving' BY <1>5 DEF BatchTypeOK, Leaving
  <2> QED BY <2>1, <2>2, <2>3, <2>4, <2>5
<1>6. ASSUME NEW t \in Threads, Succeed(t) PROVE BatchInv'
  <2> USE DEF Succeed, Moves, BatchInv
  <2>1. BatchTypeOK' BY <1>6 DEF BatchTypeOK, BatchPlaces, ItemsHeld, Holding
  <2>2. ItemsHeld' BY <1>6 DEF BatchTypeOK, ItemsHeld, Holding
  <2>3. RootCause' BY <1>6 DEF BatchTypeOK, RootCause, FirstErrorIsRootCause
  <2>4. Covered' BY <1>6 DEF BatchTypeOK, Covered
  <2>5. Leaving' BY <1>6 DEF BatchTypeOK, Leaving
  <2> QED BY <2>1, <2>2, <2>3, <2>4, <2>5
<1>7. ASSUME NEW t \in Threads, NEW b \in BOOLEAN, Fail(t, b) PROVE BatchInv'
  <2> USE DEF Fail, Moves, BatchInv
  <2>1. BatchTypeOK' BY <1>7 DEF BatchTypeOK, BatchPlaces
  <2>2. ItemsHeld' BY <1>7 DEF BatchTypeOK, ItemsHeld, Holding
  <2>3. RootCause' BY <1>7 DEF BatchTypeOK, RootCause, FirstErrorIsRootCause
  <2>4. Covered' BY <1>7 DEF BatchTypeOK, Covered
  <2>5. Leaving' BY <1>7 DEF BatchTypeOK, Leaving
  <2> QED BY <2>1, <2>2, <2>3, <2>4, <2>5
<1>8. ASSUME NEW t \in Threads, Record(t) PROVE BatchInv'
  <2> USE DEF Record, Moves, BatchInv
  <2>0. item[t] \in Indexes /\ [index |-> item[t], own |-> own[t]] \in Errors
    BY <1>8 DEF BatchTypeOK, ItemsHeld, Holding, Errors
  <2>1. BatchTypeOK' BY <1>8, <2>0 DEF BatchTypeOK, BatchPlaces
  <2>2. ItemsHeld' BY <1>8 DEF BatchTypeOK, ItemsHeld, Holding
  <2>3. RootCause'
    BY <1>8, <2>0 DEF BatchTypeOK, RootCause, FirstErrorIsRootCause
  <2>4. Covered' BY <1>8, <2>0 DEF BatchTypeOK, Covered
  <2>5. Leaving' BY <1>8 DEF BatchTypeOK, Leaving
  <2> QED BY <2>1, <2>2, <2>3, <2>4, <2>5
<1>9. ASSUME NEW t \in Threads, RequestStop(t) PROVE BatchInv'
  <2> USE DEF RequestStop, Moves, BatchInv
  <2>1. BatchTypeOK' BY <1>9 DEF BatchTypeOK, BatchPlaces
  <2>2. ItemsHeld' BY <1>9 DEF BatchTypeOK, ItemsHeld, Holding
  <2>3. RootCause' BY <1>9 DEF BatchTypeOK, RootCause, FirstErrorIsRootCause
  <2>4. Covered' BY <1>9 DEF BatchTypeOK, Covered, RootCause
  <2>5. Leaving' BY <1>9 DEF BatchTypeOK, Leaving
  <2> QED BY <2>1, <2>2, <2>3, <2>4, <2>5
<1> QED
  BY <1>1, <1>2, <1>3, <1>4, <1>5, <1>6, <1>7, <1>8, <1>9 DEF BatchNext, Step, Answered

\* The inductive invariant, of every behaviour of a batch.
THEOREM BatchInvariant == BatchSpec => []BatchInv
<1>1. BatchInv /\ [BatchNext]_batchVars => BatchInv' BY BatchStep
<1> QED BY <1>1, BatchStart, PTL DEF BatchSpec

\* Every variable of a batch keeps its type, for any items and threads.
THEOREM BatchTypeCorrect == BatchSpec => []BatchTypeOK
<1>1. BatchInv => BatchTypeOK BY DEF BatchInv
<1> QED BY <1>1, BatchInvariant, PTL

\* A batch that answers without an error has a result for every item.
THEOREM EverySlotIsFilled == BatchSpec => []NoErrorNoGap
<1>1. BatchInv => NoErrorNoGap
  <2> SUFFICES ASSUME BatchInv, joined, first = NoError PROVE filled = Indexes
    BY DEF NoErrorNoGap
  <2>1. PICK t \in Threads : pc[t] = "gone"
    BY BatchAssumption DEF BatchInv, Leaving
  <2>2. next >= N BY <2>1 DEF BatchInv, Leaving, RootCause
  <2>3. \A i \in Indexes : i < next
    BY <2>2, BatchAssumption DEF BatchInv, BatchTypeOK, Indexes
  <2>4. \A u \in Threads : pc[u] = "gone" BY DEF BatchInv, Leaving
  <2> QED BY <2>3, <2>4 DEF BatchInv, Covered, BatchTypeOK
<1> QED BY <1>1, BatchInvariant, PTL

\* A batch that answers with an error names an item that failed by itself,
\* unless the whole job was cancelled.
THEOREM RootCauseIsReported == BatchSpec => []FirstErrorIsRootCause
<1>1. BatchInv => FirstErrorIsRootCause BY DEF BatchInv, RootCause
<1> QED BY <1>1, BatchInvariant, PTL

\* No item is worked on twice, at once or one after the other.
THEOREM ItemsAreTakenOnce == BatchSpec => []EachItemOnce
<1>1. BatchInv => EachItemOnce BY DEF BatchInv, ItemsHeld, Holding, EachItemOnce
<1> QED BY <1>1, BatchInvariant, PTL
=============================================================================
