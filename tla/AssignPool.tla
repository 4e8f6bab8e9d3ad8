----------------------------- MODULE AssignPool -----------------------------
(***************************************************************************)
(* The on-demand thread pool that runs AssignJob handlers                  *)
(* (src/assign_pool.cpp).  One owner thread -- the session's receive loop  *)
(* -- posts tasks, begins the shutdown and finally destroys the pool;      *)
(* worker threads are spawned by post and joined by the destructor.        *)
(*                                                                         *)
(* A step is one critical section of mu_, or one call to the condition     *)
(* variable outside it: the windows between unlocking mu_ and notifying,   *)
(* and between being notified and re-acquiring mu_, are states here.       *)
(***************************************************************************)
EXTENDS Naturals, Sequences, FiniteSets

CONSTANTS Tasks,      \* task identities, each posted at most once
          Workers     \* thread slots: max_threads_ of them

ASSUME WorkersAssumption == IsFiniteSet(Workers) /\ Workers # {}

VARIABLES
    queue,     \* queue_
    idle,      \* idle_
    draining,  \* draining_
    worker,    \* per slot, where its thread is
    job,       \* per slot, the task it holds (<<>> or <<t>>)
    owner,     \* where the owner is in its calls
    posted,    \* history: tasks handed to post
    refused,   \* history: tasks post dropped
    finished   \* history: tasks that returned

vars == <<queue, idle, draining, worker, job, owner, posted, refused, finished>>

(***************************************************************************)
(* absent  the slot has no thread           entering  about to lock mu_    *)
(* parked  asleep in cv_.wait               woken     notified, wants mu_  *)
(* running inside task()                    gone      worker_loop returned *)
(***************************************************************************)
WorkerStates == {"absent", "entering", "parked", "woken", "running", "gone"}

(***************************************************************************)
(* idle     between calls                                                  *)
(* posting  post has unlocked mu_, notify_one is still to come             *)
(* closing  begin_shutdown has unlocked mu_, notify_all is still to come   *)
(* joining  in the destructor, joining the workers                         *)
(***************************************************************************)
OwnerStates == {"idle", "posting", "closing", "joining", "joined"}

In(state) == {w \in Workers : worker[w] = state}
Parked == In("parked")
Waiters == In("parked") \cup In("woken")    \* the threads idle_ counts
Absent == In("absent")
Running == {job[w][1] : w \in In("running")}
Queued == {queue[i] : i \in DOMAIN queue}
Accepted == posted \ refused

Init ==
    /\ queue = <<>> /\ idle = 0 /\ draining = FALSE
    /\ worker = [w \in Workers |-> "absent"]
    /\ job = [w \in Workers |-> <<>>]
    /\ owner = "idle"
    /\ posted = {} /\ refused = {} /\ finished = {}

-----------------------------------------------------------------------------
(* The owner.                                                              *)

\* `if (idle_ == 0 && workers_.size() < max_threads_) workers_.emplace_back`
SpawnIfNoneIdle ==
    IF idle = 0 /\ Absent # {}
    THEN \E w \in Absent : worker' = [worker EXCEPT ![w] = "entering"]
    ELSE UNCHANGED worker

\* Mutant: the notification is forgotten.
PostWithoutNotify(t) ==
    /\ owner = "idle" /\ t \notin posted
    /\ posted' = posted \cup {t}
    /\ IF draining
       THEN refused' = refused \cup {t} /\ UNCHANGED <<queue, worker>>
       ELSE queue' = Append(queue, t) /\ SpawnIfNoneIdle /\ UNCHANGED refused
    /\ UNCHANGED <<owner, idle, draining, job, finished>>

Post(t) ==
    /\ owner = "idle" /\ t \notin posted
    /\ posted' = posted \cup {t}
    /\ IF draining
       THEN /\ refused' = refused \cup {t}
            /\ UNCHANGED <<queue, worker, owner>>
       ELSE /\ queue' = Append(queue, t)
            /\ SpawnIfNoneIdle
            /\ owner' = "posting"
            /\ UNCHANGED refused
    /\ UNCHANGED <<idle, draining, job, finished>>

\* cv_.notify_one(), after the lock is released.
NotifyOne ==
    /\ owner = "posting"
    /\ owner' = "idle"
    /\ IF Parked = {}
       THEN UNCHANGED worker
       ELSE \E w \in Parked : worker' = [worker EXCEPT ![w] = "woken"]
    /\ UNCHANGED <<queue, idle, draining, job, posted, refused, finished>>

BeginShutdown ==
    /\ owner = "idle"
    /\ draining' = TRUE
    /\ owner' = "closing"
    /\ UNCHANGED <<queue, idle, worker, job, posted, refused, finished>>

\* Mutant: notify_one in place of notify_all.
NotifyOneOnly ==
    /\ owner = "closing"
    /\ owner' \in {"idle", "joining"}
    /\ IF Parked = {}
       THEN UNCHANGED worker
       ELSE \E w \in Parked : worker' = [worker EXCEPT ![w] = "woken"]
    /\ UNCHANGED <<queue, idle, draining, job, posted, refused, finished>>

\* cv_.notify_all().  begin_shutdown then returns to its caller, which is
\* the runner's teardown or the destructor: only the latter goes on to join.
NotifyAll ==
    /\ owner = "closing"
    /\ owner' \in {"idle", "joining"}
    /\ worker' = [w \in Workers |-> IF w \in Parked THEN "woken" ELSE worker[w]]
    /\ UNCHANGED <<queue, idle, draining, job, posted, refused, finished>>

\* workers_ is destroyed: each jthread joins.
Join ==
    /\ owner = "joining"
    /\ \A w \in Workers : worker[w] \in {"absent", "gone"}
    /\ owner' = "joined"
    /\ UNCHANGED <<queue, idle, draining, worker, job, posted, refused, finished>>

-----------------------------------------------------------------------------
(* The workers.                                                            *)

\* The predicate cv_.wait evaluates with mu_ held.
MayProceed == draining \/ queue # <<>>

\* Mutant: a draining worker leaves with the backlog unfinished.
LeaveWhenDraining(w) ==
    IF draining
    THEN /\ worker' = [worker EXCEPT ![w] = "gone"]
         /\ UNCHANGED <<queue, job>>
    ELSE /\ worker' = [worker EXCEPT ![w] = "running"]
         /\ job' = [job EXCEPT ![w] = <<Head(queue)>>]
         /\ queue' = Tail(queue)

\* Mutant: the task is taken without queue_.pop().
TakeWithoutPop(w) ==
    /\ UNCHANGED queue
    /\ IF queue = <<>>
       THEN worker' = [worker EXCEPT ![w] = "gone"] /\ UNCHANGED job
       ELSE /\ worker' = [worker EXCEPT ![w] = "running"]
            /\ job' = [job EXCEPT ![w] = <<Head(queue)>>]

\* The rest of the critical section once the predicate holds: leave when
\* there is nothing to run, else take the oldest task.
TakeOrLeave(w) ==
    IF queue = <<>>
    THEN /\ worker' = [worker EXCEPT ![w] = "gone"]
         /\ UNCHANGED <<queue, job>>
    ELSE /\ worker' = [worker EXCEPT ![w] = "running"]
         /\ job' = [job EXCEPT ![w] = <<Head(queue)>>]
         /\ queue' = Tail(queue)

\* Lock mu_, ++idle_, and the predicate already holds: no wait, --idle_.
EnterAndProceed(w) ==
    /\ worker[w] = "entering"
    /\ MayProceed
    /\ TakeOrLeave(w)
    /\ UNCHANGED <<idle, draining, owner, posted, refused, finished>>

\* Lock mu_, ++idle_, and sleep.
EnterAndPark(w) ==
    /\ worker[w] = "entering"
    /\ ~MayProceed
    /\ idle' = idle + 1
    /\ worker' = [worker EXCEPT ![w] = "parked"]
    /\ UNCHANGED <<queue, draining, job, owner, posted, refused, finished>>

\* A condition variable may return without a notification.
SpuriousWakeup(w) ==
    /\ worker[w] = "parked"
    /\ worker' = [worker EXCEPT ![w] = "woken"]
    /\ UNCHANGED <<queue, idle, draining, job, owner, posted, refused, finished>>

\* A woken worker re-acquires mu_: the predicate holds, --idle_ ...
Resume(w) ==
    /\ worker[w] = "woken"
    /\ MayProceed
    /\ idle' = idle - 1
    /\ TakeOrLeave(w)
    /\ UNCHANGED <<draining, owner, posted, refused, finished>>

\* ... or it does not, and the worker sleeps again.
Repark(w) ==
    /\ worker[w] = "woken"
    /\ ~MayProceed
    /\ worker' = [worker EXCEPT ![w] = "parked"]
    /\ UNCHANGED <<queue, idle, draining, job, owner, posted, refused, finished>>

\* task() returns and the loop goes round.
Finish(w) ==
    /\ worker[w] = "running"
    /\ finished' = finished \cup {job[w][1]}
    /\ job' = [job EXCEPT ![w] = <<>>]
    /\ worker' = [worker EXCEPT ![w] = "entering"]
    /\ UNCHANGED <<queue, idle, draining, owner, posted, refused>>

WorkerStep(w) ==
    \/ EnterAndProceed(w) \/ EnterAndPark(w)
    \/ Resume(w) \/ Repark(w)
    \/ Finish(w)

Next ==
    \/ \E t \in Tasks : Post(t)
    \/ NotifyOne
    \/ BeginShutdown
    \/ NotifyAll
    \/ Join
    \/ \E w \in Workers : WorkerStep(w) \/ SpuriousWakeup(w)

Spec == Init /\ [][Next]_vars

(***************************************************************************)
(* Every thread keeps running: a worker that can take a step takes it, a   *)
(* task returns, and the owner finishes the call it is in.  Nothing makes  *)
(* the owner post or shut down, and no wakeup is assumed but the notified  *)
(* ones.                                                                   *)
(***************************************************************************)
Fairness ==
    /\ \A w \in Workers : WF_vars(WorkerStep(w))
    /\ WF_vars(NotifyOne)
    /\ WF_vars(NotifyAll)
    /\ WF_vars(Join)

FairSpec == Spec /\ Fairness
-----------------------------------------------------------------------------
(* Properties.                                                             *)

TypeOK ==
    /\ queue \in Seq(Tasks)
    /\ idle \in Nat
    /\ draining \in BOOLEAN
    /\ worker \in [Workers -> WorkerStates]
    /\ job \in [Workers -> {<<>>} \cup {<<t>> : t \in Tasks}]
    /\ owner \in OwnerStates
    /\ posted \subseteq Tasks
    /\ refused \subseteq Tasks
    /\ finished \subseteq Tasks

\* idle_ is the number of threads inside cv_.wait: those asleep and those
\* already notified that have not re-acquired mu_ (worker_loop's ++idle_ and
\* --idle_ around the wait).  post decides whether to spawn from it.
IdleCountsWaiters == idle = Cardinality(Waiters)

\* No lost wakeup although post and begin_shutdown notify after unlocking: a
\* queued task always has a thread that will look at the queue, or a
\* notification still to be sent; and once draining is set, a thread sleeps
\* only while notify_all is still to come.
NoLostWakeup ==
    /\ queue # <<>> =>
         \/ owner = "posting"
         \/ \E w \in Workers : worker[w] \in {"entering", "woken", "running"}
    /\ draining /\ Parked # {} => owner = "closing"

\* Workers leave only through the drain, and the destructor returns only
\* when every accepted task has returned ("Workers finish the already-queued
\* backlog before exiting").
BacklogFinishedBeforeJoin == owner = "joined" => Accepted = finished

\* Every accepted task is eventually run to completion, through a shutdown
\* too: the pool strands nothing for good.
AcceptedTaskFinishes == \A t \in Tasks : t \in Accepted ~> t \in finished

\* The destructor never hangs on a sleeping worker.
DestructorReturns == owner = "joining" ~> owner = "joined"

\* The pool as its client sees it: FIFO start, bounded concurrency, nothing
\* lost or run twice, join last.
Pool == INSTANCE TaskPool WITH
            Capacity <- Cardinality(Workers),
            waiting <- queue, active <- Running, finished <- finished,
            refused <- refused, closed <- draining,
            joined <- owner = "joined"

ImplementsTaskPool == Pool!Spec

\* "a post that finds no idle worker spawns one, up to max_threads", so that
\* the pool never "caps dispatch below the capacity the heartbeats advertise"
\* (include/mass_worker/assign_pool.hpp): between two posts, a task does not
\* wait behind busy threads while the cap allows another one.
GrowsToConcurrency ==
    queue # <<>> /\ owner = "idle" /\ (\A w \in Workers : worker[w] \in {"absent", "running"})
        => Absent = {}
=============================================================================
