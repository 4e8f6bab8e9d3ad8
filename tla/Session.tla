------------------------------ MODULE Session ------------------------------
(***************************************************************************)
(* One working session of the worker with its hub, MASS: the threads of    *)
(* Runner::run_one_session from the moment the stream is usable until the  *)
(* function returns (src/runner.cpp), and the part of WorkerService they   *)
(* share: the set of loaded models, the open/stopping flags and the        *)
(* device-lost flag (src/worker_service.cpp).                              *)
(*                                                                         *)
(*   rx         the receive loop, then the teardown                        *)
(*   ctl        the control thread: loads and benchmarks, one at a time    *)
(*   at[a]      the assign-pool task of assign job a                       *)
(*   heartbeat  the heartbeat writer                                       *)
(*   watcher    the relay of stop() to the stream                          *)
(*                                                                         *)
(* The pool itself is used through what TaskPool promises (FIFO start, at  *)
(* most PoolCap active), which AssignPool implements.                      *)
(***************************************************************************)
EXTENDS Naturals, Sequences, FiniteSets

CONSTANTS
    Models,     \* model ids
    Loads,      \* LoadModel frames
    Benches,    \* Benchmark and ModelBenchmark frames
    Assigns,    \* AssignJob frames
    Unloads,    \* UnloadModel frames
    ModelOf,    \* the model a load, assign or unload names
    PoolCap     \* kAssignPoolCap

Frames == Loads \cup Benches \cup Assigns \cup Unloads
Controls == Loads \cup Benches
None == <<>>

ASSUME FramesAssumption ==
    /\ IsFiniteSet(Loads)
    /\ Loads \cap (Benches \cup Assigns \cup Unloads) = {}
    /\ Benches \cap (Assigns \cup Unloads) = {}
    /\ Assigns \cap Unloads = {}
    /\ None \notin Frames

ASSUME ModelOfAssumption == ModelOf \in [Loads \cup Assigns \cup Unloads -> Models]

ASSUME PoolCapAssumption == PoolCap \in Nat \ {0}

VARIABLES
    \* the stream
    stream,       \* "open" or "dead" (closed, broken or cancelled)
    read,         \* history: frames the loop has read
    wire,         \* terminal frames written to the open stream
    \* the threads
    rx, rxJob,    \* the receive loop and the inline job it answers
    ctl, ctlJob,  \* the control thread and its job
    controlQ,     \* control_q
    poolQ,        \* tasks posted to the pool and not started
    at,           \* where each assign job is
    heartbeat, watcher,
    \* the pending-load gate and the teardown flags
    pending,      \* pending_loads, 0 where there is no entry
    assignDone, controlDone, sessionDone,
    stopping,     \* Runner::stopping_
    \* the service
    loaded,       \* models registered in chat_models_ or embed_models_
    sessionOpen,  \* session_open_
    serviceStop,  \* WorkerService::stopping_
    deviceLost,   \* device_lost_
    \* the process
    exited,       \* _Exit has run
    \* history
    ahead,        \* per assign, the loads of its model read before it
    released,     \* loads whose pending count the control thread gave back
    missed,       \* assigns that found their model not loaded
    loadOK,       \* loads that left their model registered
    lossOf        \* the job whose error first reported the lost device

streamVars == <<stream, read, wire>>
threadVars == <<rx, rxJob, ctl, ctlJob, controlQ, poolQ, at, heartbeat, watcher>>
flagVars == <<assignDone, controlDone, sessionDone, stopping>>
serviceVars == <<loaded, sessionOpen, serviceStop, deviceLost>>
historyVars == <<ahead, released, missed, loadOK, lossOf>>
vars == <<streamVars, threadVars, pending, flagVars, serviceVars, exited, historyVars>>

RxStates == {"reading", "pushing", "writing", "checking", "closing",
             "closed", "announced", "notified", "drained", "finishing", "returned"}
CtlStates == {"idle", "fetching", "loading", "benching", "writing", "checking",
              "releasing", "notifying", "gone"}
AtStates == {"unread", "queued", "gate", "checked", "asleep", "running",
             "serving", "writing", "checking", "done", "dropped"}
InPool == {"gate", "checked", "asleep", "running", "serving", "writing", "checking"}

Active == {a \in Assigns : at[a] \in InPool}

\* WorkerService::abandoned(): nothing can receive a result any more.
Abandoned == serviceStop \/ ~sessionOpen

\* pending_mu is free: its only holder that a step can find is an assign
\* task that evaluated its wait predicate and has not gone to sleep yet.
GateFree == \A a \in Assigns : at[a] # "checked"

Init ==
    /\ stream = "open" /\ read = {} /\ wire = {}
    /\ rx = "reading" /\ rxJob = None
    /\ ctl = "idle" /\ ctlJob = None /\ controlQ = <<>>
    /\ poolQ = <<>> /\ at = [a \in Assigns |-> "unread"]
    /\ heartbeat = "up" /\ watcher = "up"
    /\ pending = [m \in Models |-> 0]
    /\ assignDone = FALSE /\ controlDone = FALSE /\ sessionDone = FALSE
    /\ stopping = FALSE
    /\ loaded \in SUBSET Models     \* models outlive the session that loaded them
    /\ sessionOpen = TRUE /\ serviceStop = FALSE /\ deviceLost = FALSE
    /\ exited = FALSE
    /\ ahead = [a \in Assigns |-> {}] /\ released = {} /\ missed = {}
    /\ loadOK = {} /\ lossOf = None

-----------------------------------------------------------------------------
(* The network and the operator.  The hub is in the reads: each returns    *)
(* any frame it has not sent before.                                       *)

StreamBreaks ==
    /\ stream = "open"
    /\ stream' = "dead"
    /\ UNCHANGED <<read, wire, threadVars, pending, flagVars, serviceVars,
                   exited, historyVars>>

\* Runner::stop, from a signal handler.
Stop ==
    /\ ~stopping /\ stopping' = TRUE
    /\ UNCHANGED <<streamVars, threadVars, pending, assignDone, controlDone, sessionDone,
                   serviceVars, exited, historyVars>>

-----------------------------------------------------------------------------
(* What the threads share.                                                 *)

\* A terminal-frame write under write_mu: it reaches the wire of an open
\* stream; on a dead one it fails, and TryCancel changes nothing.
WriteFrame(f) ==
    /\ wire' = IF stream = "open" THEN wire \cup {f} ELSE wire
    /\ UNCHANGED <<stream, read>>

\* execute() scans the text of the frame it is about to return: one that
\* reports a lost device sets device_lost_, for good.
ReportOutcome(f) ==
    \/ UNCHANGED <<deviceLost, lossOf>>
    \/ /\ deviceLost' = TRUE
       /\ lossOf' = IF deviceLost THEN lossOf ELSE <<f>>

\* exit_if_device_lost, once the caller's own frame is written.
ExitIfDeviceLost == exited' = deviceLost

-----------------------------------------------------------------------------
(* The receive loop.                                                       *)

\* Read returns frame f.  Frames received before the stream died may or may
\* not be delivered after it.
Take(f) ==
    /\ rx = "reading" /\ f \notin read
    /\ read' = read \cup {f}
    /\ UNCHANGED <<stream, wire>>

\* A CancelJob, a SetEnabledDevices and a DeleteCacheFiles run on this thread,
\* answer nothing and change nothing of the state above: stuttering steps.

\* AssignJob: posted to the pool.
ReadAssign ==
    \E a \in Assigns :
        /\ Take(a)
        /\ poolQ' = Append(poolQ, a)
        /\ at' = [at EXCEPT ![a] = "queued"]
        /\ ahead' = [ahead EXCEPT ![a] = {l \in Loads \cap read : ModelOf[l] = ModelOf[a]}]
        /\ UNCHANGED <<rx, rxJob, ctl, ctlJob, controlQ, heartbeat, watcher, pending,
                       flagVars, serviceVars, exited, released, missed, loadOK, lossOf>>

\* LoadModel: counted as pending, under pending_mu, before it is queued.
ReadLoad ==
    \E l \in Loads :
        /\ Take(l)
        /\ GateFree
        /\ pending' = [pending EXCEPT ![ModelOf[l]] = @ + 1]
        /\ rx' = "pushing" /\ rxJob' = l
        /\ UNCHANGED <<ctl, ctlJob, controlQ, poolQ, at, heartbeat, watcher,
                       flagVars, serviceVars, exited, historyVars>>

ReadBench ==
    \E b \in Benches :
        /\ Take(b)
        /\ rx' = "pushing" /\ rxJob' = b
        /\ UNCHANGED <<ctl, ctlJob, controlQ, poolQ, at, heartbeat, watcher, pending,
                       flagVars, serviceVars, exited, historyVars>>

\* The push to control_q and its notify, which the control thread cannot
\* miss: it tests its predicate under the same control_mu.
PushControl ==
    /\ rx = "pushing"
    /\ controlQ' = Append(controlQ, rxJob)
    /\ rx' = "reading" /\ rxJob' = None
    /\ UNCHANGED <<streamVars, ctl, ctlJob, poolQ, at, heartbeat, watcher, pending,
                   flagVars, serviceVars, exited, historyVars>>

\* UnloadModel: executed on this thread.
ReadUnload ==
    \E u \in Unloads :
        /\ Take(u)
        /\ loaded' = loaded \ {ModelOf[u]}
        /\ ReportOutcome(u)
        /\ rx' = "writing" /\ rxJob' = u
        /\ UNCHANGED <<ctl, ctlJob, controlQ, poolQ, at, heartbeat, watcher, pending,
                       flagVars, sessionOpen, serviceStop, exited,
                       ahead, released, missed, loadOK>>

\* A failed write leaves the loop.
WriteInline ==
    /\ rx = "writing"
    /\ WriteFrame(rxJob)
    /\ rx' = IF stream = "open" THEN "checking" ELSE "closing"
    /\ rxJob' = None
    /\ UNCHANGED <<ctl, ctlJob, controlQ, poolQ, at, heartbeat, watcher, pending,
                   flagVars, serviceVars, exited, historyVars>>

CheckInline ==
    /\ rx = "checking"
    /\ ExitIfDeviceLost
    /\ rx' = "reading"
    /\ UNCHANGED <<streamVars, rxJob, ctl, ctlJob, controlQ, poolQ, at, heartbeat, watcher,
                   pending, flagVars, serviceVars, historyVars>>

\* Read returns false.
ReadFails ==
    /\ rx = "reading" /\ stream = "dead"
    /\ rx' = "closing"
    /\ UNCHANGED <<streamVars, rxJob, ctl, ctlJob, controlQ, poolQ, at, heartbeat, watcher,
                   pending, flagVars, serviceVars, exited, historyVars>>

-----------------------------------------------------------------------------
(* The teardown, on the same thread.  Only control_done is set under the   *)
(* mutex of the threads that wait for it.                                  *)

EndSession ==
    /\ rx = "closing" /\ rx' = "closed"
    /\ sessionOpen' = FALSE
    /\ UNCHANGED <<streamVars, rxJob, ctl, ctlJob, controlQ, poolQ, at, heartbeat, watcher,
                   pending, flagVars, loaded, serviceStop, deviceLost, exited, historyVars>>

\* assign_done.store, without pending_mu (and the pool's begin_shutdown,
\* after which nothing is posted).
AnnounceAssignDone ==
    /\ rx = "closed" /\ rx' = "announced"
    /\ assignDone' = TRUE
    /\ UNCHANGED <<streamVars, rxJob, ctl, ctlJob, controlQ, poolQ, at, heartbeat, watcher,
                   pending, controlDone, sessionDone, stopping, serviceVars, exited, historyVars>>

WakeSleepers == at' = [a \in Assigns |-> IF at[a] = "asleep" THEN "gate" ELSE at[a]]

\* pending_cv.notify_all.
NotifyGate ==
    /\ rx = "announced" /\ rx' = "notified"
    /\ WakeSleepers
    /\ UNCHANGED <<streamVars, rxJob, ctl, ctlJob, controlQ, poolQ, heartbeat, watcher,
                   pending, flagVars, serviceVars, exited, historyVars>>

CloseControl ==
    /\ rx = "notified" /\ rx' = "drained"
    /\ controlDone' = TRUE
    /\ UNCHANGED <<streamVars, rxJob, ctl, ctlJob, controlQ, poolQ, at, heartbeat, watcher,
                   pending, assignDone, sessionDone, stopping, serviceVars, exited, historyVars>>

\* session_done, wake_locals, stop_cv_, and Finish() on the dead stream.
FinishStream ==
    /\ rx = "drained" /\ rx' = "finishing"
    /\ sessionDone' = TRUE
    /\ UNCHANGED <<streamVars, rxJob, ctl, ctlJob, controlQ, poolQ, at, heartbeat, watcher,
                   pending, assignDone, controlDone, stopping, serviceVars, exited, historyVars>>

\* The jthreads join as they go out of scope and run_one_session returns.
Return ==
    /\ rx = "finishing"
    /\ poolQ = <<>> /\ Active = {}
    /\ ctl = "gone" /\ heartbeat = "gone" /\ watcher = "gone"
    /\ rx' = "returned"
    /\ UNCHANGED <<streamVars, rxJob, ctl, ctlJob, controlQ, poolQ, at, heartbeat, watcher,
                   pending, flagVars, serviceVars, exited, historyVars>>

-----------------------------------------------------------------------------
(* The control thread.                                                     *)

\* Mutant: the pending count is given back when the load is dequeued.
CtlTakeReleases ==
    /\ ctl = "idle" /\ controlQ # <<>>
    /\ ctlJob' = Head(controlQ)
    /\ controlQ' = Tail(controlQ)
    /\ IF Head(controlQ) \in Loads
       THEN ctl' = "fetching" /\ pending' = [pending EXCEPT ![ModelOf[Head(controlQ)]] = 0]
       ELSE ctl' = "benching" /\ UNCHANGED pending
    /\ UNCHANGED <<streamVars, rx, rxJob, poolQ, at, heartbeat, watcher,
                   flagVars, serviceVars, exited, historyVars>>

CtlTake ==
    /\ ctl = "idle" /\ controlQ # <<>>
    /\ ctlJob' = Head(controlQ)
    /\ controlQ' = Tail(controlQ)
    /\ ctl' = IF Head(controlQ) \in Loads THEN "fetching" ELSE "benching"
    /\ UNCHANGED <<streamVars, rx, rxJob, poolQ, at, heartbeat, watcher, pending,
                   flagVars, serviceVars, exited, historyVars>>

\* Mutant: it leaves as soon as control_done is set.
CtlLeaveEarly ==
    /\ ctl = "idle" /\ controlDone
    /\ ctl' = "gone"
    /\ UNCHANGED <<streamVars, rx, rxJob, ctlJob, controlQ, poolQ, at, heartbeat, watcher,
                   pending, flagVars, serviceVars, exited, historyVars>>

\* It leaves only with its queue empty: jobs queued before the teardown are
\* executed (and abandoned) first.
CtlLeave ==
    /\ ctl = "idle" /\ controlQ = <<>> /\ controlDone
    /\ ctl' = "gone"
    /\ UNCHANGED <<streamVars, rx, rxJob, ctlJob, controlQ, poolQ, at, heartbeat, watcher,
                   pending, flagVars, serviceVars, exited, historyVars>>

\* Mutant: a failed fetch ends without its error frame.
FetchFailsSilently ==
    /\ ctl = "fetching"
    /\ ctl' \in {"releasing", "loading"}
    /\ UNCHANGED <<streamVars, rx, rxJob, ctlJob, controlQ, poolQ, at, heartbeat, watcher,
                   pending, flagVars, serviceVars, exited, historyVars>>

\* The fetch of a load returns.  Abandoned: no frame and no load.  Failed:
\* an error frame, and so does a load rejected before its fetch, abandoned
\* or not.  Otherwise the model is loaded, unless its id is registered.
FetchEnds ==
    /\ ctl = "fetching"
    /\ \/ ctl' = "writing"
       \/ Abandoned /\ ctl' = "releasing"
       \/ ~Abandoned /\ ctl' = "loading"
    /\ UNCHANGED <<streamVars, rx, rxJob, ctlJob, controlQ, poolQ, at, heartbeat, watcher,
                   pending, flagVars, serviceVars, exited, historyVars>>

LoadSucceeds ==
    /\ ctl = "loading" /\ ctl' = "writing"
    /\ loaded' = loaded \cup {ModelOf[ctlJob]}
    /\ loadOK' = loadOK \cup {ctlJob}
    /\ UNCHANGED <<streamVars, rx, rxJob, ctlJob, controlQ, poolQ, at, heartbeat, watcher,
                   pending, flagVars, sessionOpen, serviceStop, deviceLost, exited,
                   ahead, released, missed, lossOf>>

LoadFails ==
    /\ ctl = "loading" /\ ModelOf[ctlJob] \notin loaded
    /\ ctl' = "writing"
    /\ ReportOutcome(ctlJob)
    /\ UNCHANGED <<streamVars, rx, rxJob, ctlJob, controlQ, poolQ, at, heartbeat, watcher,
                   pending, flagVars, loaded, sessionOpen, serviceStop, exited,
                   ahead, released, missed, loadOK>>

\* A benchmark ends with its reply, or without one when it finds itself
\* abandoned.
BenchEnds ==
    /\ ctl = "benching"
    /\ \/ /\ ctl' = "writing" /\ UNCHANGED ctlJob
          /\ ReportOutcome(ctlJob)
       \/ /\ Abandoned
          /\ ctl' = "idle" /\ ctlJob' = None
          /\ UNCHANGED <<deviceLost, lossOf>>
    /\ UNCHANGED <<streamVars, rx, rxJob, controlQ, poolQ, at, heartbeat, watcher,
                   pending, flagVars, loaded, sessionOpen, serviceStop, exited,
                   ahead, released, missed, loadOK>>

CtlWrite ==
    /\ ctl = "writing" /\ ctl' = "checking"
    /\ WriteFrame(ctlJob)
    /\ UNCHANGED <<rx, rxJob, ctlJob, controlQ, poolQ, at, heartbeat, watcher,
                   pending, flagVars, serviceVars, exited, historyVars>>

CtlCheck ==
    /\ ctl = "checking"
    /\ ExitIfDeviceLost
    /\ IF ctlJob \in Loads
       THEN ctl' = "releasing" /\ UNCHANGED ctlJob
       ELSE ctl' = "idle" /\ ctlJob' = None
    /\ UNCHANGED <<streamVars, rx, rxJob, controlQ, poolQ, at, heartbeat, watcher,
                   pending, flagVars, serviceVars, historyVars>>

\* --pending_loads[mid], under pending_mu.
CtlRelease ==
    /\ ctl = "releasing" /\ GateFree
    /\ pending' = [pending EXCEPT ![ModelOf[ctlJob]] = IF @ > 0 THEN @ - 1 ELSE 0]
    /\ released' = released \cup {ctlJob}
    /\ ctl' = "notifying" /\ ctlJob' = None
    /\ UNCHANGED <<streamVars, rx, rxJob, controlQ, poolQ, at, heartbeat, watcher,
                   flagVars, serviceVars, exited, ahead, missed, loadOK, lossOf>>

\* Mutant: notify_all is missing.
CtlNotifyNobody ==
    /\ ctl = "notifying" /\ ctl' = "idle"
    /\ UNCHANGED <<streamVars, rx, rxJob, ctlJob, controlQ, poolQ, at, heartbeat, watcher,
                   pending, flagVars, serviceVars, exited, historyVars>>

CtlNotify ==
    /\ ctl = "notifying" /\ ctl' = "idle"
    /\ WakeSleepers
    /\ UNCHANGED <<streamVars, rx, rxJob, ctlJob, controlQ, poolQ, heartbeat, watcher,
                   pending, flagVars, serviceVars, exited, historyVars>>

-----------------------------------------------------------------------------
(* The assign tasks: run_assign on a pool thread.                          *)

AssignMoves(a, from, to) == at[a] = from /\ at' = [at EXCEPT ![a] = to]

StartTask ==
    /\ poolQ # <<>> /\ Cardinality(Active) < PoolCap
    /\ poolQ' = Tail(poolQ)
    /\ AssignMoves(Head(poolQ), "queued", "gate")
    /\ UNCHANGED <<streamVars, rx, rxJob, ctl, ctlJob, controlQ, heartbeat, watcher,
                   pending, flagVars, serviceVars, exited, historyVars>>

\* Mutant: the task does not wait for the loads.
PassGateUnchecked(a) ==
    /\ GateFree
    /\ AssignMoves(a, "gate", IF assignDone /\ pending[ModelOf[a]] > 0 THEN "dropped" ELSE "running")
    /\ UNCHANGED <<streamVars, rx, rxJob, ctl, ctlJob, controlQ, poolQ, heartbeat, watcher,
                   pending, flagVars, serviceVars, exited, historyVars>>

\* Lock pending_mu; the wait predicate holds.  A job whose load the
\* teardown overtook is dropped without a frame.
PassGate(a) ==
    /\ GateFree
    /\ assignDone \/ pending[ModelOf[a]] = 0
    /\ AssignMoves(a, "gate", IF pending[ModelOf[a]] > 0 THEN "dropped" ELSE "running")
    /\ UNCHANGED <<streamVars, rx, rxJob, ctl, ctlJob, controlQ, poolQ, heartbeat, watcher,
                   pending, flagVars, serviceVars, exited, historyVars>>

\* Lock pending_mu; the predicate is false, and the wait will release the
\* lock and sleep in one step: what happens in between without the lock
\* (assign_done, notify_all) is missed.
BlockAtGate(a) ==
    /\ GateFree
    /\ ~assignDone /\ pending[ModelOf[a]] > 0
    /\ AssignMoves(a, "gate", "checked")
    /\ UNCHANGED <<streamVars, rx, rxJob, ctl, ctlJob, controlQ, poolQ, heartbeat, watcher,
                   pending, flagVars, serviceVars, exited, historyVars>>

FallAsleep(a) ==
    /\ AssignMoves(a, "checked", "asleep")
    /\ UNCHANGED <<streamVars, rx, rxJob, ctl, ctlJob, controlQ, poolQ, heartbeat, watcher,
                   pending, flagVars, serviceVars, exited, historyVars>>

SpuriousWakeup(a) ==
    /\ AssignMoves(a, "asleep", "gate")
    /\ UNCHANGED <<streamVars, rx, rxJob, ctl, ctlJob, controlQ, poolQ, heartbeat, watcher,
                   pending, flagVars, serviceVars, exited, historyVars>>

\* execute looks the model up under models_mu_ and keeps it alive from here.
FindModel(a) ==
    /\ IF ModelOf[a] \in loaded
       THEN AssignMoves(a, "running", "serving") /\ UNCHANGED missed
       ELSE AssignMoves(a, "running", "writing") /\ missed' = missed \cup {a}
    /\ UNCHANGED <<streamVars, rx, rxJob, ctl, ctlJob, controlQ, poolQ, heartbeat, watcher,
                   pending, flagVars, serviceVars, exited, ahead, released, loadOK, lossOf>>

\* The job ends: a result, an error or a cancellation, always with a frame.
ServeEnds(a) ==
    /\ AssignMoves(a, "serving", "writing")
    /\ ReportOutcome(a)
    /\ UNCHANGED <<streamVars, rx, rxJob, ctl, ctlJob, controlQ, poolQ, heartbeat, watcher,
                   pending, flagVars, loaded, sessionOpen, serviceStop, exited,
                   ahead, released, missed, loadOK>>

AssignWrite(a) ==
    /\ AssignMoves(a, "writing", "checking")
    /\ WriteFrame(a)
    /\ UNCHANGED <<rx, rxJob, ctl, ctlJob, controlQ, poolQ, heartbeat, watcher,
                   pending, flagVars, serviceVars, exited, historyVars>>

AssignCheck(a) ==
    /\ AssignMoves(a, "checking", "done")
    /\ ExitIfDeviceLost
    /\ UNCHANGED <<streamVars, rx, rxJob, ctl, ctlJob, controlQ, poolQ, heartbeat, watcher,
                   pending, flagVars, serviceVars, historyVars>>

-----------------------------------------------------------------------------
(* The heartbeat and the watcher.                                          *)

\* Ends with the session or a stop; a beat that cannot be written cancels
\* the stream (which is dead by then) and ends it too.
HeartbeatLeaves ==
    /\ heartbeat = "up"
    /\ sessionDone \/ stopping \/ stream = "dead"
    /\ heartbeat' = "gone"
    /\ UNCHANGED <<streamVars, rx, rxJob, ctl, ctlJob, controlQ, poolQ, at, watcher,
                   pending, flagVars, serviceVars, exited, historyVars>>

\* A stop reaches the service before the stream is cancelled.
WatcherRelays ==
    /\ watcher = "up" /\ (stopping \/ sessionDone)
    /\ serviceStop' = (serviceStop \/ stopping)
    /\ watcher' = "cancelling"
    /\ UNCHANGED <<streamVars, rx, rxJob, ctl, ctlJob, controlQ, poolQ, at, heartbeat,
                   pending, flagVars, loaded, sessionOpen, deviceLost, exited, historyVars>>

\* Mutant: the watcher leaves without TryCancel.
WatcherForgets ==
    /\ watcher = "cancelling"
    /\ watcher' = "gone"
    /\ UNCHANGED <<streamVars, rx, rxJob, ctl, ctlJob, controlQ, poolQ, at, heartbeat,
                   pending, flagVars, serviceVars, exited, historyVars>>

WatcherCancels ==
    /\ watcher = "cancelling"
    /\ stream' = "dead"
    /\ watcher' = "gone"
    /\ UNCHANGED <<read, wire, rx, rxJob, ctl, ctlJob, controlQ, poolQ, at, heartbeat,
                   pending, flagVars, serviceVars, exited, historyVars>>

-----------------------------------------------------------------------------

Reads == ReadAssign \/ ReadLoad \/ ReadBench \/ ReadUnload

RxStep ==
    \/ PushControl \/ WriteInline \/ CheckInline \/ ReadFails
    \/ EndSession \/ AnnounceAssignDone \/ NotifyGate \/ CloseControl
    \/ FinishStream \/ Return

\* The steps of the control thread that wait for nothing outside it, and
\* those that end an execution.
CtlStep == CtlTake \/ CtlLeave \/ CtlWrite \/ CtlCheck \/ CtlRelease \/ CtlNotify
CtlWorkEnds == FetchEnds \/ LoadSucceeds \/ LoadFails \/ BenchEnds

AssignStep(a) ==
    PassGate(a) \/ BlockAtGate(a) \/ FallAsleep(a) \/ FindModel(a) \/ AssignWrite(a)
        \/ AssignCheck(a)

Helpers == HeartbeatLeaves \/ WatcherRelays \/ WatcherCancels

Environment == StreamBreaks \/ Stop

\* run_one_session has returned, or the process is gone.
Over == rx = "returned" \/ exited

Next ==
    \/ /\ ~Over
       /\ \/ Environment \/ Reads \/ RxStep
          \/ CtlStep \/ CtlWorkEnds
          \/ StartTask
          \/ \E a \in Assigns : AssignStep(a) \/ SpuriousWakeup(a) \/ ServeEnds(a)
          \/ Helpers
    \/ Over /\ UNCHANGED vars

Spec == Init /\ [][Next]_vars

(***************************************************************************)
(* Every thread keeps running, and pending_mu starves nobody that wants it *)
(* (the strong-fairness conjuncts).  Nothing makes the hub send.  The pool *)
(* starts a task when none is active: AssignPool promises no more while    *)
(* other tasks block.                                                      *)
(***************************************************************************)
ThreadFairness ==
    /\ WF_vars(RxStep)
    /\ WF_vars(CtlStep) /\ SF_vars(CtlRelease)
    /\ WF_vars(StartTask /\ Active = {})
    /\ \A a \in Assigns : WF_vars(AssignStep(a)) /\ SF_vars(PassGate(a) \/ BlockAtGate(a))
    /\ WF_vars(HeartbeatLeaves) /\ WF_vars(WatcherRelays) /\ WF_vars(WatcherCancels)

\* A fetch, a load, a benchmark or a generation may take forever, but not
\* once it is abandoned: each polls the flag.
AbandonedWorkEnds ==
    /\ WF_vars(CtlWorkEnds /\ Abandoned)
    /\ \A a \in Assigns : WF_vars(ServeEnds(a) /\ Abandoned)

LiveSpec == Spec /\ ThreadFairness /\ AbandonedWorkEnds
-----------------------------------------------------------------------------
(* Properties.                                                             *)

Maybe(S) == S \cup {None}

TypeOK ==
    /\ stream \in {"open", "dead"}
    /\ read \subseteq Frames
    /\ wire \subseteq Frames
    /\ rx \in RxStates /\ rxJob \in Maybe(Frames)
    /\ ctl \in CtlStates /\ ctlJob \in Maybe(Controls)
    /\ controlQ \in Seq(Controls)
    /\ poolQ \in Seq(Assigns)
    /\ at \in [Assigns -> AtStates]
    /\ heartbeat \in {"up", "gone"}
    /\ watcher \in {"up", "cancelling", "gone"}
    /\ pending \in [Models -> Nat]
    /\ assignDone \in BOOLEAN /\ controlDone \in BOOLEAN /\ sessionDone \in BOOLEAN
    /\ stopping \in BOOLEAN
    /\ loaded \subseteq Models
    /\ sessionOpen \in BOOLEAN /\ serviceStop \in BOOLEAN /\ deviceLost \in BOOLEAN
    /\ exited \in BOOLEAN
    /\ ahead \in [Assigns -> SUBSET Loads]
    /\ released \subseteq Loads
    /\ missed \subseteq Assigns
    /\ loadOK \subseteq Loads
    /\ lossOf \in {None} \cup {<<f>> : f \in Frames}

\* Loads read and not yet given back by the control thread.
Held(m) == {l \in (read \cap Loads) \ released : ModelOf[l] = m}

\* pending_loads counts, per model, exactly the loads queued or running on
\* the control thread (the comment at its declaration in src/runner.cpp),
\* reloads of one id included.
PendingCountsHeldLoads == \A m \in Models : pending[m] = Cardinality(Held(m))

PastGate == {"running", "serving", "writing", "checking", "done"}

\* "loading model X completes before any AssignJob targeting X runs": an
\* assign executes only after every load of its model read before it has
\* been executed, written and given back.
AssignWaitsForLoads ==
    \A a \in Assigns : at[a] \in PastGate => ahead[a] \subseteq released

\* "MASS observes load-result before any assign-result for that model": an
\* assign's frame is on the wire only if the frames of the loads read before
\* it are -- unless a stop made the worker abandon such a load.
LoadResultBeforeAssignResult ==
    \A a \in Assigns \cap wire : ahead[a] \subseteq wire \/ serviceStop

\* An assign never fails with "model not loaded" after a load that was read
\* before it succeeded, unless an unload of that model was read as well.
AssignFindsLoadedModel ==
    \A a \in missed :
        ahead[a] \cap loadOK # {} => \E u \in Unloads \cap read : ModelOf[u] = ModelOf[a]

\* "exits the process right after the error frame is on the wire"
\* (include/mass_worker/worker_service.hpp, device_lost): the worker leaves on
\* a lost device only after the frame that reports the loss was written.
DeviceLossReachesHub == exited /\ stream = "open" => lossOf[1] \in wire

\* The teardown completes, whatever was queued, running or waiting when the
\* stream died, although assign_done is set and announced without pending_mu.
TeardownCompletes == stream = "dead" ~> Over

\* A stop ends the session even when the hub sends nothing more.
StopEndsSession == stopping ~> Over

\* If work ends by itself, not only once abandoned, every job read is answered
\* while the stream lives: nobody is left at the gate or in a queue.  (What was
\* read and what was answered only grow, so this says it of every frame.)
WorkEnds ==
    /\ WF_vars(CtlWorkEnds)
    /\ \A a \in Assigns : WF_vars(ServeEnds(a))

EveryJobAnswered ==
    WorkEnds => []<>(read \subseteq wire \/ stream = "dead" \/ stopping \/ Over)

\* A thread of the session waits: the receive loop for the hub or for the others
\* to end, the control thread for a job, a task for the loads before it, the pool
\* for a task to return (it promises no more while one is active), the helpers
\* for the end.
RxWaits ==
    \/ rx = "reading" /\ stream = "open"
    \/ /\ rx = "finishing"
       /\ ~(poolQ = <<>> /\ Active = {} /\ ctl = "gone" /\ heartbeat = "gone" /\ watcher = "gone")
CtlWaits == ctl = "gone" \/ (ctl = "idle" /\ controlQ = <<>> /\ ~controlDone)
TasksWait == \A a \in Active : at[a] = "asleep"
PoolWaits == poolQ = <<>> \/ Active # {}
HeartbeatWaits == heartbeat = "gone" \/ (stream = "open" /\ ~sessionDone /\ ~stopping)
WatcherWaits == watcher = "gone" \/ (watcher = "up" /\ ~sessionDone /\ ~stopping)

AllWait ==
    RxWaits /\ CtlWaits /\ TasksWait /\ PoolWaits /\ HeartbeatWaits /\ WatcherWaits

\* Whenever every thread of the session waits, it is for the hub, which has
\* nothing left to get: the stream is alive, nobody asked for a stop, and each
\* frame read is answered.  No thread is left at the gate or at a join
\* (notify_all after the unlock, assign_done outside pending_mu, the order of
\* the teardown).
OnlyTheHubIsAwaited ==
    AllWait /\ ~Over => rx = "reading" /\ ~stopping /\ read \subseteq wire

\* The session as the hub sees it.
Hub == INSTANCE HubView WITH
           open <- stream = "open", stopAsked <- stopping, taken <- read,
           answered <- wire, givenUp <- released \ wire, behind <- ahead

ImplementsHubView == Hub!Spec
=============================================================================
