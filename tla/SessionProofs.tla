--------------------------- MODULE SessionProofs ---------------------------
(***************************************************************************)
(* The pending-load gate and the order of frames, for every set of frames  *)
(* and models.  SessionInv is the inductive invariant: the types, where    *)
(* the jobs of the control thread are, what pending_loads counts, and what *)
(* each stage of an assign job knows of the loads read before it.          *)
(***************************************************************************)
EXTENDS Session, DataLemmas, FiniteSetTheorems

TearingDown == {"closing", "closed", "announced", "notified", "drained",
                "finishing", "returned"}

\* The jobs of the control thread: the one in hand, those queued, and the one
\* the receive loop is about to queue.
InHand == IF ctlJob = None THEN {} ELSE {ctlJob}
Arriving == IF rx = "pushing" THEN {rxJob} ELSE {}

\* Each job given to the control thread is in one place, was read, and has not
\* been released.
ControlJobs ==
    /\ InHand \cup Arriving \cup Elements(controlQ) \subseteq (read \cap Controls) \ released
    /\ Distinct(controlQ)
    /\ InHand \cap (Arriving \cup Elements(controlQ)) = {}
    /\ Arriving \cap Elements(controlQ) = {}
    /\ ctl \in {"fetching", "loading", "releasing"} => ctlJob \in Loads
    /\ ctl \in {"benching", "writing", "checking"} => ctlJob # None
    /\ ctl \in {"idle", "notifying", "gone"} => ctlJob = None
    /\ rx = "writing" => rxJob \in Unloads

\* The loads an assign remembers were read, and are of its model.
AheadWasRead ==
    \A a \in Assigns : ahead[a] \subseteq {l \in read \cap Loads : ModelOf[l] = ModelOf[a]}

ReleasedWasRead == released \subseteq read

\* The session is closed only once its stream is dead, and a load is given
\* back with its frame on the wire unless the stream is dead or a stop
\* reached the service.
FramesOfLoads ==
    /\ rx \in TearingDown => stream = "dead"
    /\ ~sessionOpen => rx \in TearingDown
    /\ ctl = "checking" => ctlJob \in wire \/ stream = "dead" \/ serviceStop
    /\ ctl = "releasing" => ctlJob \in wire \/ stream = "dead" \/ serviceStop
    /\ \A l \in released : l \in wire \/ stream = "dead" \/ serviceStop

\* An assign's frame is on the wire only after it passed the gate, and its
\* task exists only after it was read.
AnsweredAfterGate ==
    \A a \in Assigns :
        /\ a \in wire => at[a] \in {"checking", "done"}
        /\ a \notin read => at[a] = "unread"

GateInv ==
    /\ TypeOK
    /\ ControlJobs
    /\ ReleasedWasRead
    /\ AheadWasRead
    /\ PendingCountsHeldLoads
    /\ AssignWaitsForLoads

SessionInv ==
    /\ GateInv
    /\ FramesOfLoads
    /\ AnsweredAfterGate
    /\ LoadResultBeforeAssignResult

\* Types, action by action.
LEMMA TypeStep ==
    ASSUME TypeOK, ControlJobs, [Next]_vars
    PROVE  TypeOK'
<1>a. /\ None \notin Frames
      /\ rx = "pushing" => rxJob \in Controls
      /\ rx = "writing" => rxJob \in Frames
      /\ ctl \in {"benching", "writing", "checking"} => ctlJob \in Controls
      /\ ctl \in {"fetching", "loading", "releasing"} => ctlJob \in Loads
  BY FramesAssumption DEF TypeOK, ControlJobs, Arriving, Maybe, Frames, Controls
<1>b. ASSUME NEW f \in Frames, ReportOutcome(f)
      PROVE  deviceLost' \in BOOLEAN /\ lossOf' \in {None} \cup {<<g>> : g \in Frames}
  BY <1>b DEF TypeOK, ReportOutcome
<1> USE DEF TypeOK, RxStates, CtlStates, AtStates, Maybe, vars, streamVars, threadVars,
    flagVars, serviceVars, historyVars
<1>1. CASE StreamBreaks
  BY <1>1, <1>a, <1>b, ModelOfAssumption DEF StreamBreaks, Frames, Controls
<1>2. CASE Stop BY <1>2, <1>a, <1>b, ModelOfAssumption DEF Stop, Frames, Controls
<1>3. CASE ReadAssign
  BY <1>3, <1>a, <1>b, ModelOfAssumption DEF ReadAssign, Take, Frames, Controls
<1>4. CASE ReadLoad
  BY <1>4, <1>a, <1>b, ModelOfAssumption DEF ReadLoad, Take, Frames, Controls
<1>5. CASE ReadBench
  BY <1>5, <1>a, <1>b, ModelOfAssumption DEF ReadBench, Take, Frames, Controls
<1>6. CASE ReadUnload
  BY <1>6, <1>a, <1>b, ModelOfAssumption DEF ReadUnload, Take, Frames, Controls
<1>7. CASE PushControl
  BY <1>7, <1>a, <1>b, ModelOfAssumption DEF PushControl, Frames, Controls
<1>8. CASE WriteInline
  BY <1>8, <1>a, <1>b, ModelOfAssumption DEF WriteInline, WriteFrame, Frames, Controls
<1>9. CASE CheckInline
  BY <1>9, <1>a, <1>b, ModelOfAssumption DEF CheckInline, ExitIfDeviceLost, Frames,
     Controls
<1>10. CASE ReadFails
  BY <1>10, <1>a, <1>b, ModelOfAssumption DEF ReadFails, Frames, Controls
<1>11. CASE EndSession
  <2>1. rx' \in RxStates /\ sessionOpen' \in BOOLEAN BY <1>11 DEF EndSession
  <2> QED BY <1>11, <2>1 DEF EndSession
<1>12. CASE AnnounceAssignDone
  BY <1>12, <1>a, <1>b, ModelOfAssumption DEF AnnounceAssignDone, Frames, Controls
<1>13. CASE NotifyGate
  BY <1>13, <1>a, <1>b, ModelOfAssumption DEF NotifyGate, WakeSleepers, Frames,
     Controls
<1>14. CASE CloseControl
  BY <1>14, <1>a, <1>b, ModelOfAssumption DEF CloseControl, Frames, Controls
<1>15. CASE FinishStream
  BY <1>15, <1>a, <1>b, ModelOfAssumption DEF FinishStream, Frames, Controls
<1>16. CASE Return BY <1>16, <1>a, <1>b, ModelOfAssumption DEF Return, Frames, Controls
<1>17. CASE CtlTake
  BY <1>17, <1>a, <1>b, ModelOfAssumption DEF CtlTake, Frames, Controls
<1>18. CASE CtlLeave
  BY <1>18, <1>a, <1>b, ModelOfAssumption DEF CtlLeave, Frames, Controls
<1>19. CASE CtlWrite
  BY <1>19, <1>a, <1>b, ModelOfAssumption DEF CtlWrite, WriteFrame, Frames, Controls
<1>20. CASE CtlCheck
  BY <1>20, <1>a, <1>b, ModelOfAssumption DEF CtlCheck, ExitIfDeviceLost, Frames,
     Controls
<1>21. CASE CtlRelease
  BY <1>21, <1>a, <1>b, ModelOfAssumption DEF CtlRelease, Frames, Controls
<1>22. CASE CtlNotify
  BY <1>22, <1>a, <1>b, ModelOfAssumption DEF CtlNotify, WakeSleepers, Frames,
     Controls
<1>23. CASE FetchEnds
  BY <1>23, <1>a, <1>b, ModelOfAssumption DEF FetchEnds, Frames, Controls
<1>24. CASE LoadSucceeds
  BY <1>24, <1>a, <1>b, ModelOfAssumption DEF LoadSucceeds, Frames, Controls
<1>25. CASE LoadFails
  BY <1>25, <1>a, <1>b, ModelOfAssumption DEF LoadFails, Frames, Controls
<1>26. CASE BenchEnds
  BY <1>26, <1>a, <1>b, ModelOfAssumption DEF BenchEnds, Frames, Controls
<1>27. CASE StartTask
  BY <1>27, <1>a, <1>b, ModelOfAssumption DEF StartTask, AssignMoves, Frames, Controls
<1>28. CASE HeartbeatLeaves
  BY <1>28, <1>a, <1>b, ModelOfAssumption DEF HeartbeatLeaves, Frames, Controls
<1>29. CASE WatcherRelays
  BY <1>29, <1>a, <1>b, ModelOfAssumption DEF WatcherRelays, Frames, Controls
<1>30. CASE WatcherCancels
  BY <1>30, <1>a, <1>b, ModelOfAssumption DEF WatcherCancels, Frames, Controls
<1>31. ASSUME NEW a \in Assigns, PassGate(a) PROVE TypeOK'
  BY <1>31, <1>b DEF PassGate, AssignMoves, Frames
<1>32. ASSUME NEW a \in Assigns, BlockAtGate(a) PROVE TypeOK'
  BY <1>32, <1>b DEF BlockAtGate, AssignMoves, Frames
<1>33. ASSUME NEW a \in Assigns, FallAsleep(a) PROVE TypeOK'
  BY <1>33, <1>b DEF FallAsleep, AssignMoves, Frames
<1>34. ASSUME NEW a \in Assigns, FindModel(a) PROVE TypeOK'
  <2>1. at' \in [Assigns -> AtStates] /\ missed' \subseteq Assigns
    BY <1>34 DEF FindModel, AssignMoves
  <2> QED BY <1>34, <2>1 DEF FindModel
<1>35. ASSUME NEW a \in Assigns, AssignWrite(a) PROVE TypeOK'
  BY <1>35, <1>b DEF AssignWrite, WriteFrame, AssignMoves, Frames
<1>36. ASSUME NEW a \in Assigns, AssignCheck(a) PROVE TypeOK'
  BY <1>36, <1>b DEF AssignCheck, ExitIfDeviceLost, AssignMoves, Frames
<1>37. ASSUME NEW a \in Assigns, SpuriousWakeup(a) PROVE TypeOK'
  BY <1>37, <1>b DEF SpuriousWakeup, AssignMoves, Frames
<1>38. ASSUME NEW a \in Assigns, ServeEnds(a) PROVE TypeOK'
  BY <1>38, <1>b DEF ServeEnds, AssignMoves, Frames
<1>39. CASE UNCHANGED vars BY <1>39
<1> QED
  BY <1>1, <1>2, <1>3, <1>4, <1>5, <1>6, <1>7, <1>8, <1>9, <1>10, <1>11, <1>12,
     <1>13, <1>14, <1>15, <1>16, <1>17, <1>18, <1>19, <1>20, <1>21, <1>22, <1>23,
     <1>24, <1>25, <1>26, <1>27, <1>28, <1>29, <1>30, <1>31, <1>32, <1>33, <1>34,
     <1>35, <1>36, <1>37, <1>38, <1>39
   DEF Next, Environment, Reads, RxStep, CtlStep, CtlWorkEnds, AssignStep, Helpers

\* A pool task, a helper thread, the network and the operator leave the
\* receive loop, the control thread and the pending counts alone.
LEMMA TasksKeep ==
    ASSUME \/ StartTask \/ Helpers \/ Environment \/ UNCHANGED vars
           \/ \E a \in Assigns : AssignStep(a) \/ SpuriousWakeup(a) \/ ServeEnds(a)
    PROVE  UNCHANGED <<read, rx, rxJob, ctl, ctlJob, controlQ, pending, ahead,
    released>>
<1> USE DEF vars, streamVars, threadVars, flagVars, serviceVars, historyVars
<1>1. CASE StartTask BY <1>1 DEF StartTask
<1>2. CASE Helpers BY <1>2 DEF Helpers, HeartbeatLeaves, WatcherRelays, WatcherCancels
<1>3. CASE Environment BY <1>3 DEF Environment, StreamBreaks, Stop
<1>4. CASE UNCHANGED vars BY <1>4
<1>5. ASSUME NEW a \in Assigns, AssignStep(a) \/ SpuriousWakeup(a) \/ ServeEnds(a)
      PROVE  UNCHANGED <<read, rx, rxJob, ctl, ctlJob, controlQ, pending, ahead,
    released>>
  BY <1>5 DEF AssignStep, PassGate, BlockAtGate, FallAsleep, FindModel, AssignWrite,
              AssignCheck, SpuriousWakeup, ServeEnds, WriteFrame
<1> QED BY <1>1, <1>2, <1>3, <1>4, <1>5

\* What the receive loop does besides reading and queueing leaves the control
\* thread and the pending counts alone, and it pushes nothing.
LEMMA LoopKeeps ==
    ASSUME RxStep, ~PushControl
    PROVE  /\ UNCHANGED <<read, ctl, ctlJob, controlQ, pending, ahead, released>>
           /\ rx \notin {"pushing"} /\ rx' \notin {"pushing", "writing"}
<1> USE DEF streamVars, threadVars, flagVars, serviceVars, historyVars
<1>1. CASE WriteInline \/ CheckInline \/ ReadFails
  BY <1>1 DEF WriteInline, CheckInline, ReadFails, WriteFrame
<1>2. CASE EndSession \/ AnnounceAssignDone \/ NotifyGate
  BY <1>2 DEF EndSession, AnnounceAssignDone, NotifyGate
<1>3. CASE CloseControl \/ FinishStream \/ Return
  BY <1>3 DEF CloseControl, FinishStream, Return
<1> QED BY <1>1, <1>2, <1>3 DEF RxStep

\* A step of the control thread that takes no job, gives none back and
\* finishes no benchmark keeps its job and the queue.
LEMMA ControlKeeps ==
    ASSUME CtlStep \/ CtlWorkEnds, ~CtlTake, ~CtlRelease
    PROVE  UNCHANGED <<read, rx, rxJob, controlQ, pending, ahead, released>>
<1> USE DEF streamVars, threadVars, flagVars, serviceVars, historyVars
<1>1. CASE CtlLeave \/ CtlWrite \/ CtlCheck \/ CtlNotify
  BY <1>1 DEF CtlLeave, CtlWrite, CtlCheck, CtlNotify, WriteFrame
<1>2. CASE FetchEnds \/ LoadSucceeds \/ LoadFails \/ BenchEnds
  BY <1>2 DEF FetchEnds, LoadSucceeds, LoadFails, BenchEnds
<1> QED BY <1>1, <1>2 DEF CtlStep, CtlWorkEnds

\* A step is one of these; the proofs below take them one by one.
LEMMA StepCases ==
    ASSUME [Next]_vars
    PROVE  \/ ReadAssign \/ ReadLoad \/ ReadBench \/ ReadUnload
           \/ PushControl \/ (RxStep /\ ~PushControl)
           \/ CtlTake \/ CtlRelease
           \/ (CtlStep \/ CtlWorkEnds) /\ ~CtlTake /\ ~CtlRelease
           \/ \/ StartTask \/ Helpers \/ Environment \/ UNCHANGED vars
              \/ \E a \in Assigns : AssignStep(a) \/ SpuriousWakeup(a) \/ ServeEnds(a)
<1>1. CASE UNCHANGED vars BY <1>1
<1>2. CASE Reads BY <1>2 DEF Reads
<1>3. CASE RxStep BY <1>3
<1>4. CASE CtlStep \/ CtlWorkEnds BY <1>4
<1>5. CASE \/ StartTask \/ Helpers \/ Environment
           \/ \E a \in Assigns : AssignStep(a) \/ SpuriousWakeup(a) \/ ServeEnds(a)
  BY <1>5
<1> QED BY <1>1, <1>2, <1>3, <1>4, <1>5 DEF Next

\* A control job moves from the stream to the queue to the thread, and is
\* given back once.
LEMMA ControlJobsStep ==
    ASSUME TypeOK, ControlJobs, ReleasedWasRead, [Next]_vars
    PROVE  ControlJobs' /\ ReleasedWasRead'
<1> USE DEF streamVars, threadVars, flagVars, serviceVars, historyVars
<1>a. /\ None \notin Frames /\ Loads \subseteq Controls /\ Benches \subseteq Controls
      /\ Controls \subseteq Frames
      /\ controlQ \in Seq(Controls) /\ ctlJob \in Controls \cup {None}
  BY FramesAssumption DEF TypeOK, Maybe, Frames, Controls
<1>1. CASE ReadAssign
  BY <1>1 DEF ReadAssign, Take, ControlJobs, ReleasedWasRead, InHand,
    Arriving
<1>2. ASSUME NEW f \in Controls, Take(f), rx' = "pushing", rxJob' = f,
             UNCHANGED <<ctl, ctlJob, controlQ, released>>
      PROVE  ControlJobs' /\ ReleasedWasRead'
  <2>1. f \notin InHand \cup Elements(controlQ) \cup released /\ rx = "reading"
    BY <1>2 DEF ControlJobs, ReleasedWasRead, Take
  <2>2. InHand' = InHand /\ Arriving' = {f} /\ Arriving = {} /\ read' = read \cup {f}
    BY <1>2, <2>1 DEF InHand, Arriving, Take
  <2> QED BY <1>2, <2>1, <2>2 DEF ControlJobs, ReleasedWasRead
<1>3. CASE ReadLoad BY <1>3, <1>2, <1>a DEF ReadLoad
<1>4. CASE ReadBench BY <1>4, <1>2, <1>a DEF ReadBench
<1>5. CASE ReadUnload
  BY <1>5 DEF ReadUnload, Take, ControlJobs, ReleasedWasRead, InHand, Arriving
<1>6. CASE PushControl
  <2>1. /\ rxJob \in Controls /\ rxJob \notin Elements(controlQ) /\ rxJob \notin InHand
        /\ rxJob \in read \ released
    BY <1>6 DEF PushControl, ControlJobs, Arriving
  <2>2. Elements(controlQ)' = Elements(controlQ) \cup {rxJob}
    BY <2>1, <1>6, <1>a, AppendElements DEF PushControl
  <2>3. Distinct(controlQ)'
    BY <2>1, <1>6, <1>a, AppendDistinct DEF PushControl, ControlJobs
  <2>4. Arriving' = {} /\ InHand' = InHand
    BY <1>6 DEF PushControl, Arriving, InHand
  <2> QED BY <2>1, <2>2, <2>3, <2>4, <1>6 DEF PushControl, ControlJobs, ReleasedWasRead
<1>7. CASE RxStep /\ ~PushControl
  <2>1. Arriving = {} /\ Arriving' = {} /\ InHand' = InHand
    BY <1>7, LoopKeeps DEF Arriving, InHand
  <2> QED BY <2>1, <1>7, LoopKeeps DEF ControlJobs, ReleasedWasRead
<1>8. CASE CtlTake
  <2>1. /\ Head(controlQ) \in Controls
        /\ Elements(controlQ) = {Head(controlQ)} \cup Elements(controlQ')
    BY <1>8, <1>a, HeadTailElements DEF CtlTake
  <2>2. Distinct(controlQ') /\ Head(controlQ) \notin Elements(controlQ')
    BY <1>8, <1>a, TailDistinct DEF CtlTake, ControlJobs
  <2>3. InHand' = {Head(controlQ)} /\ InHand = {} /\ Arriving' = Arriving
    BY <1>8, <1>a, <2>1 DEF CtlTake, InHand, Arriving, ControlJobs
  <2> QED BY <2>1, <2>2, <2>3, <1>8, <1>a DEF CtlTake, ControlJobs, ReleasedWasRead
<1>9. CASE CtlRelease
  <2>1. /\ InHand = {ctlJob} /\ InHand' = {} /\ Arriving' = Arriving
        /\ released' = released \cup {ctlJob} /\ ctlJob \in read
    BY <1>9, <1>a DEF CtlRelease, InHand, Arriving, ControlJobs
  <2> QED BY <2>1, <1>9 DEF CtlRelease, ControlJobs, ReleasedWasRead
<1>10. CASE (CtlStep \/ CtlWorkEnds) /\ ~CtlTake /\ ~CtlRelease
  <2>1. /\ Arriving' = Arriving
        /\ UNCHANGED <<read, rx, rxJob, controlQ, released>>
    BY <1>10, ControlKeeps DEF Arriving
  <2>2. /\ InHand' \subseteq InHand
        /\ ctl' \in {"fetching", "loading", "releasing"} => ctlJob' \in Loads
        /\ ctl' \in {"benching", "writing", "checking"} => ctlJob' # None
        /\ ctl' \in {"idle", "notifying", "gone"} => ctlJob' = None
    BY <1>10, <1>a DEF CtlStep, CtlWorkEnds, CtlLeave, CtlWrite, CtlCheck, CtlNotify,
           FetchEnds, LoadSucceeds, LoadFails, BenchEnds, ControlJobs, InHand
  <2> QED BY <2>1, <2>2 DEF ControlJobs, ReleasedWasRead
<1>11. CASE \/ StartTask \/ Helpers \/ Environment \/ UNCHANGED vars
            \/ \E a \in Assigns : AssignStep(a) \/ SpuriousWakeup(a) \/ ServeEnds(a)
  BY <1>11, TasksKeep DEF ControlJobs, ReleasedWasRead, InHand, Arriving
<1> QED BY <1>1, <1>3, <1>4, <1>5, <1>6, <1>7, <1>8, <1>9, <1>10, <1>11, StepCases

\* The loads of one model that are held are finite in number.
LEMMA HeldFinite ==
    ASSUME NEW m
    PROVE  IsFiniteSet(Held(m)) /\ Cardinality(Held(m)) \in Nat
<1>1. IsFiniteSet(Loads) BY FramesAssumption
<1>2. Held(m) \subseteq Loads BY DEF Held
<1>3. IsFiniteSet(Held(m)) BY <1>1, <1>2, FS_Subset
<1> QED BY <1>3, FS_CardinalityType

\* pending_loads follows the loads read and given back.
LEMMA PendingStep ==
    ASSUME TypeOK, ControlJobs, ReleasedWasRead, PendingCountsHeldLoads, [Next]_vars
    PROVE  PendingCountsHeldLoads'
<1> USE DEF streamVars, threadVars, flagVars, serviceVars, historyVars
<1>1. ASSUME pending' = pending, released' = released, (read \cap Loads)' = read \cap
    Loads
      PROVE  PendingCountsHeldLoads'
  <2>1. \A m \in Models : Held(m)' = Held(m) BY <1>1 DEF Held
  <2> QED BY <2>1, <1>1 DEF PendingCountsHeldLoads
<1>2. CASE ReadLoad
  <2> PICK l \in Loads : /\ Take(l) /\ released' = released
                         /\ pending' = [pending EXCEPT ![ModelOf[l]] = @ + 1]
    BY <1>2 DEF ReadLoad
  <2>1. l \notin read /\ l \notin released /\ read' = read \cup {l}
    BY DEF Take, ReleasedWasRead
  <2> SUFFICES ASSUME NEW m \in Models PROVE pending'[m] = Cardinality(Held(m)')
    BY DEF PendingCountsHeldLoads
  <2>2. pending[m] = Cardinality(Held(m)) /\ pending \in [Models -> Nat]
    BY DEF PendingCountsHeldLoads, TypeOK
  <2>3. CASE m = ModelOf[l]
    <3>1. Held(m)' = Held(m) \cup {l} BY <2>1, <2>3 DEF Held
    <3>2. l \notin Held(m) BY <2>1 DEF Held
    <3>3. Cardinality(Held(m) \cup {l}) = Cardinality(Held(m)) + 1
      BY <3>2, HeldFinite, FS_AddElement
    <3> QED BY <3>1, <3>3, <2>2, <2>3
  <2>4. CASE m # ModelOf[l]
    <3>1. Held(m)' = Held(m) BY <2>1, <2>4 DEF Held
    <3> QED BY <3>1, <2>2, <2>4
  <2> QED BY <2>3, <2>4
<1>3. CASE CtlRelease
  <2>1. /\ ctlJob \in (read \cap Loads) \ released
        /\ released' = released \cup {ctlJob} /\ read' = read
        /\ pending' = [pending EXCEPT ![ModelOf[ctlJob]] = IF @ > 0 THEN @ - 1 ELSE 0]
    BY <1>3, FramesAssumption DEF CtlRelease, ControlJobs, InHand, Frames
  <2> SUFFICES ASSUME NEW m \in Models PROVE pending'[m] = Cardinality(Held(m)')
    BY DEF PendingCountsHeldLoads
  <2>2. pending[m] = Cardinality(Held(m)) /\ pending \in [Models -> Nat]
    BY DEF PendingCountsHeldLoads, TypeOK
  <2>3. CASE m = ModelOf[ctlJob]
    <3>1. Held(m)' = Held(m) \ {ctlJob} BY <2>1, <2>3 DEF Held
    <3>2. ctlJob \in Held(m) BY <2>1, <2>3 DEF Held
    <3>3. Cardinality(Held(m) \ {ctlJob}) = Cardinality(Held(m)) - 1
      BY <3>2, HeldFinite, FS_RemoveElement
    <3>4. Cardinality(Held(m)) > 0
      BY <3>2, HeldFinite, FS_EmptySet
    <3> QED BY <3>1, <3>3, <3>4, <2>1, <2>2, <2>3
  <2>4. CASE m # ModelOf[ctlJob]
    <3>1. Held(m)' = Held(m) BY <2>1, <2>4 DEF Held
    <3> QED BY <3>1, <2>1, <2>2, <2>4
  <2> QED BY <2>3, <2>4
<1>4. CASE ReadAssign \/ ReadBench \/ ReadUnload
  <2>1. PICK f \in Assigns \cup Benches \cup Unloads :
            Take(f) /\ pending' = pending /\ released' = released
    BY <1>4 DEF ReadAssign, ReadBench, ReadUnload
  <2>2. f \notin Loads BY FramesAssumption
  <2> QED BY <2>1, <2>2, <1>1 DEF Take
<1>5. CASE PushControl BY <1>5, <1>1 DEF PushControl
<1>6. CASE RxStep /\ ~PushControl BY <1>6, <1>1, LoopKeeps
<1>7. CASE CtlTake BY <1>7, <1>1 DEF CtlTake
<1>8. CASE (CtlStep \/ CtlWorkEnds) /\ ~CtlTake /\ ~CtlRelease
  BY <1>8, <1>1, ControlKeeps
<1>9. CASE \/ StartTask \/ Helpers \/ Environment \/ UNCHANGED vars
           \/ \E a \in Assigns : AssignStep(a) \/ SpuriousWakeup(a) \/ ServeEnds(a)
  BY <1>9, <1>1, TasksKeep
<1> QED BY <1>2, <1>3, <1>4, <1>5, <1>6, <1>7, <1>8, <1>9, StepCases

\* What an assign remembers of the loads read before it stays read.
LEMMA AheadStep ==
    ASSUME TypeOK, AheadWasRead, [Next]_vars
    PROVE  AheadWasRead'
<1> USE DEF streamVars, threadVars, flagVars, serviceVars, historyVars
<1>1. ASSUME ahead' = ahead, read \subseteq read' PROVE AheadWasRead'
  BY <1>1 DEF AheadWasRead
<1>2. CASE ReadAssign
  <2> PICK b \in Assigns :
         /\ read' = read \cup {b}
         /\ ahead' = [ahead EXCEPT ![b] = {l \in Loads \cap read : ModelOf[l] = ModelOf[b]}]
    BY <1>2 DEF ReadAssign, Take
  <2> SUFFICES ASSUME NEW a \in Assigns, NEW l \in ahead'[a]
               PROVE  l \in read' \cap Loads /\ ModelOf[l] = ModelOf[a]
    BY DEF AheadWasRead
  <2>1. a # b => l \in ahead[a] BY DEF TypeOK
  <2>2. a = b => l \in Loads \cap read /\ ModelOf[l] = ModelOf[b] BY DEF TypeOK
  <2> QED BY <2>1, <2>2 DEF AheadWasRead
<1>3. CASE ReadLoad \/ ReadBench \/ ReadUnload
  BY <1>3, <1>1 DEF ReadLoad, ReadBench, ReadUnload, Take
<1>4. CASE PushControl BY <1>4, <1>1 DEF PushControl
<1>5. CASE RxStep /\ ~PushControl BY <1>5, <1>1, LoopKeeps
<1>6. CASE CtlTake \/ CtlRelease BY <1>6, <1>1 DEF CtlTake, CtlRelease
<1>7. CASE (CtlStep \/ CtlWorkEnds) /\ ~CtlTake /\ ~CtlRelease
  BY <1>7, <1>1, ControlKeeps
<1>8. CASE \/ StartTask \/ Helpers \/ Environment \/ UNCHANGED vars
           \/ \E a \in Assigns : AssignStep(a) \/ SpuriousWakeup(a) \/ ServeEnds(a)
  BY <1>8, <1>1, TasksKeep
<1> QED BY <1>2, <1>3, <1>4, <1>5, <1>6, <1>7, <1>8, StepCases

\* A step leaves task a before the gate if it was, and past its answer.
StaysPut(a) ==
    /\ at'[a] \in PastGate <=> at[a] \in PastGate
    /\ at'[a] = "unread" <=> at[a] = "unread"
    /\ at[a] \in {"checking", "done"} => at'[a] \in {"checking", "done"}

\* Only PassGate lets a task through the gate, and a task that has answered
\* stays past its answer.
LEMMA TasksMove ==
    ASSUME TypeOK, [Next]_vars, ~ReadAssign, \A b \in Assigns : ~PassGate(b),
           NEW a \in Assigns
    PROVE  StaysPut(a)
<1> USE DEF StaysPut, TypeOK, PastGate, vars, streamVars, threadVars, flagVars,
    serviceVars, historyVars
<1>1. ASSUME at' = at
      PROVE  StaysPut(a)
  BY <1>1
<1>2. ASSUME Reads PROVE StaysPut(a)
  BY <1>2, <1>1 DEF Reads, ReadLoad, ReadBench, ReadUnload
<1>3. ASSUME RxStep PROVE StaysPut(a)
  <2>1. CASE NotifyGate BY <2>1 DEF NotifyGate, WakeSleepers
  <2>2. CASE PushControl \/ WriteInline \/ CheckInline \/ ReadFails \/ EndSession
    BY <2>2, <1>1 DEF PushControl, WriteInline, CheckInline, ReadFails, EndSession
  <2>3. CASE AnnounceAssignDone \/ CloseControl \/ FinishStream \/ Return
    BY <2>3, <1>1 DEF AnnounceAssignDone, CloseControl, FinishStream, Return
  <2> QED BY <1>3, <2>1, <2>2, <2>3 DEF RxStep
<1>4. ASSUME CtlStep \/ CtlWorkEnds PROVE StaysPut(a)
  <2>1. CASE CtlNotify BY <2>1 DEF CtlNotify, WakeSleepers
  <2>2. CASE CtlTake \/ CtlLeave \/ CtlWrite \/ CtlCheck \/ CtlRelease
    BY <2>2, <1>1 DEF CtlTake, CtlLeave, CtlWrite, CtlCheck, CtlRelease
  <2>3. CASE FetchEnds \/ LoadSucceeds \/ LoadFails \/ BenchEnds
    BY <2>3, <1>1 DEF FetchEnds, LoadSucceeds, LoadFails, BenchEnds
  <2> QED BY <1>4, <2>1, <2>2, <2>3 DEF CtlStep, CtlWorkEnds
<1>5. ASSUME Environment \/ Helpers \/ UNCHANGED vars PROVE StaysPut(a)
  BY <1>5, <1>1 DEF Environment, StreamBreaks, Stop, Helpers, HeartbeatLeaves,
                    WatcherRelays, WatcherCancels
<1>6. ASSUME StartTask PROVE StaysPut(a)
  <2>1. at' = [at EXCEPT ![Head(poolQ)] = "gate"] /\ at[Head(poolQ)] = "queued"
    BY <1>6 DEF StartTask, AssignMoves
  <2> QED BY <2>1
<1>7. ASSUME NEW b \in Assigns, AssignStep(b) \/ SpuriousWakeup(b) \/ ServeEnds(b)
      PROVE  StaysPut(a)
  <2>1. PICK from \in AtStates, to \in AtStates :
            /\ AssignMoves(b, from, to)
            /\ to \in PastGate <=> from \in PastGate
            /\ from # "unread" /\ to # "unread"
            /\ from \in {"checking", "done"} => to \in {"checking", "done"}
    BY <1>7 DEF AssignStep, BlockAtGate, FallAsleep, FindModel, AssignWrite,
    AssignCheck,
                SpuriousWakeup, ServeEnds, AtStates
  <2>2. at' = [at EXCEPT ![b] = to] /\ at[b] = from
    BY <2>1 DEF AssignMoves
  <2> QED BY <2>1, <2>2
<1>8. StaysPut(a)
  <2> HIDE DEF StaysPut, TypeOK, PastGate, vars, streamVars, threadVars, flagVars,
    serviceVars,
              historyVars
  <2> QED BY <1>2, <1>3, <1>4, <1>5, <1>6, <1>7 DEF Next
<1> QED BY <1>8

\* Only ReadAssign touches what an assign remembers, and a load given back
\* stays given back.
LEMMA AheadStays ==
    ASSUME [Next]_vars, ~ReadAssign
    PROVE  ahead' = ahead /\ released \subseteq released'
<1> USE DEF streamVars, threadVars, flagVars, serviceVars, historyVars
<1>1. CASE ReadLoad \/ ReadBench \/ ReadUnload
  BY <1>1 DEF ReadLoad, ReadBench, ReadUnload
<1>2. CASE PushControl \/ CtlTake \/ CtlRelease
  BY <1>2 DEF PushControl, CtlTake, CtlRelease
<1>3. CASE RxStep /\ ~PushControl BY <1>3, LoopKeeps
<1>4. CASE (CtlStep \/ CtlWorkEnds) /\ ~CtlTake /\ ~CtlRelease
  BY <1>4, ControlKeeps
<1>5. CASE \/ StartTask \/ Helpers \/ Environment \/ UNCHANGED vars
           \/ \E a \in Assigns : AssignStep(a) \/ SpuriousWakeup(a) \/ ServeEnds(a)
  BY <1>5, TasksKeep
<1> QED BY <1>1, <1>2, <1>3, <1>4, <1>5, StepCases

\* The count of an assign's model is zero, so no load of it is held: every load
\* read before the assign has been given back.
LEMMA GateIsEmpty ==
    ASSUME TypeOK, AheadWasRead, PendingCountsHeldLoads,
           NEW a \in Assigns, pending[ModelOf[a]] = 0
    PROVE  ahead[a] \subseteq released
<1>1. ModelOf[a] \in Models BY ModelOfAssumption
<1>2. Cardinality(Held(ModelOf[a])) = 0 BY <1>1 DEF PendingCountsHeldLoads
<1>3. Held(ModelOf[a]) = {} BY <1>2, HeldFinite, FS_EmptySet
<1> QED BY <1>3 DEF AheadWasRead, Held

\* Past the gate, an assign has no load left before it.
LEMMA WaitStep ==
    ASSUME TypeOK, AheadWasRead, ReleasedWasRead, PendingCountsHeldLoads,
           AssignWaitsForLoads, [Next]_vars
    PROVE  AssignWaitsForLoads'
<1> USE DEF streamVars, threadVars, flagVars, serviceVars, historyVars
<1> SUFFICES ASSUME NEW a \in Assigns, at'[a] \in PastGate
             PROVE  ahead'[a] \subseteq released'
  BY DEF AssignWaitsForLoads
<1>1. CASE ReadAssign
  <2> PICK b \in Assigns :
         /\ at' = [at EXCEPT ![b] = "queued"]
         /\ ahead' = [ahead EXCEPT ![b] = {l \in Loads \cap read : ModelOf[l] = ModelOf[b]}]
         /\ released' = released
    BY <1>1 DEF ReadAssign
  <2>1. a # b BY DEF TypeOK, PastGate
  <2> QED BY <2>1 DEF TypeOK, AssignWaitsForLoads
<1>2. CASE ~ReadAssign
  <2>1. ahead' = ahead /\ released \subseteq released' BY <1>2, AheadStays
  <2>2. CASE at[a] \in PastGate
    BY <2>1, <2>2 DEF AssignWaitsForLoads
  <2>3. CASE at[a] \notin PastGate
    <3>1. PICK b \in Assigns : PassGate(b) BY <1>2, <2>3, TasksMove DEF StaysPut
    <3>2. at' = [at EXCEPT ![b] = IF pending[ModelOf[b]] > 0 THEN "dropped" ELSE
    "running"]
      BY <3>1 DEF PassGate, AssignMoves
    <3>3. a = b BY <3>2, <2>3 DEF TypeOK
    <3>4. ~(pending[ModelOf[a]] > 0) BY <3>2, <3>3 DEF TypeOK, PastGate
    <3>5. pending[ModelOf[a]] = 0
      BY <3>4, ModelOfAssumption DEF TypeOK
    <3>6. ahead[a] \subseteq released BY <3>5, GateIsEmpty
    <3> QED BY <3>6, <2>1
  <2> QED BY <2>2, <2>3
<1> QED BY <1>1, <1>2

\* What a step may do to the stream, the wire and the service flags.
LEMMA WireMoves ==
    ASSUME TypeOK, ControlJobs, [Next]_vars
    PROVE  /\ stream = "dead" => stream' = "dead" /\ wire' = wire
           /\ serviceStop => serviceStop'
           /\ wire \subseteq wire'
           /\ \A a \in Assigns : a \in wire' \ wire => AssignWrite(a)
<1> USE DEF vars, streamVars, threadVars, flagVars, serviceVars, historyVars
<1> DEFINE Goal == /\ stream = "dead" => stream' = "dead" /\ wire' = wire
                   /\ serviceStop => serviceStop'
                   /\ wire \subseteq wire'
                   /\ \A a \in Assigns : a \in wire' \ wire => AssignWrite(a)
<1>a. ASSUME wire' = wire, stream = "dead" => stream' = "dead", serviceStop =>
    serviceStop'
      PROVE  Goal
  BY <1>a
<1>1. CASE ReadAssign \/ ReadLoad \/ ReadBench \/ ReadUnload
  BY <1>1, <1>a DEF ReadAssign, ReadLoad, ReadBench, ReadUnload, Take
<1>2. CASE WriteInline
  <2>1. rxJob \in Unloads /\ rxJob \notin Assigns
    BY <1>2, FramesAssumption DEF WriteInline, ControlJobs
  <2> QED BY <1>2, <2>1 DEF WriteInline, WriteFrame, TypeOK
<1>3. CASE CtlWrite
  <2>1. ctlJob \notin Assigns
    BY <1>3, FramesAssumption DEF CtlWrite, ControlJobs, TypeOK, Maybe, Controls
  <2> QED BY <1>3, <2>1 DEF CtlWrite, WriteFrame, TypeOK
<1>4. ASSUME NEW b \in Assigns, AssignWrite(b) PROVE Goal
  BY <1>4 DEF AssignWrite, WriteFrame, TypeOK
<1>5. CASE PushControl \/ CheckInline \/ ReadFails \/ EndSession \/ AnnounceAssignDone
  BY <1>5, <1>a DEF PushControl, CheckInline, ReadFails, EndSession, AnnounceAssignDone
<1>6. CASE NotifyGate \/ CloseControl \/ FinishStream \/ Return
  BY <1>6, <1>a DEF NotifyGate, CloseControl, FinishStream, Return
<1>7. CASE CtlTake \/ CtlLeave \/ CtlCheck \/ CtlRelease \/ CtlNotify
  BY <1>7, <1>a DEF CtlTake, CtlLeave, CtlCheck, CtlRelease, CtlNotify
<1>8. CASE FetchEnds \/ LoadSucceeds \/ LoadFails \/ BenchEnds
  BY <1>8, <1>a DEF FetchEnds, LoadSucceeds, LoadFails, BenchEnds
<1>9. CASE StartTask \/ Helpers \/ Environment \/ UNCHANGED vars
  BY <1>9, <1>a DEF StartTask, Environment, StreamBreaks, Stop, Helpers,
    HeartbeatLeaves,
                    WatcherRelays, WatcherCancels, TypeOK
<1>10. ASSUME NEW b \in Assigns, ~AssignWrite(b),
              AssignStep(b) \/ SpuriousWakeup(b) \/ ServeEnds(b)
       PROVE  Goal
  BY <1>10, <1>a DEF AssignStep, PassGate, BlockAtGate, FallAsleep, FindModel,
    AssignCheck,
                     SpuriousWakeup, ServeEnds
<1> QED
  BY <1>1, <1>2, <1>3, <1>4, <1>5, <1>6, <1>7, <1>8, <1>9, <1>10
     DEF Next, Reads, RxStep, CtlStep, CtlWorkEnds

\* A load is given back with its frame on the wire, or with the stream dead or
\* a stop under way.
LEMMA FramesStep ==
    ASSUME TypeOK, ControlJobs, FramesOfLoads, [Next]_vars
    PROVE  FramesOfLoads'
<1> USE DEF vars, streamVars, threadVars, flagVars, serviceVars, historyVars
<1>1. (rx \in TearingDown => stream = "dead")' /\ (~sessionOpen => rx \in TearingDown)'
  <2>a. stream = "dead" => stream' = "dead" BY WireMoves
  <2>1. CASE sessionOpen' = sessionOpen /\ rx' = rx
    BY <2>1, <2>a DEF FramesOfLoads
  <2>2. CASE Reads
    BY <2>2 DEF Reads, ReadAssign, ReadLoad, ReadBench, ReadUnload, Take,
                FramesOfLoads, TearingDown
  <2>3. CASE PushControl \/ WriteInline \/ CheckInline \/ ReadFails
    BY <2>3 DEF PushControl, WriteInline, CheckInline, ReadFails, WriteFrame,
    FramesOfLoads,
                TearingDown, TypeOK
  <2>4. CASE EndSession \/ AnnounceAssignDone \/ NotifyGate
    BY <2>4 DEF EndSession, AnnounceAssignDone, NotifyGate, FramesOfLoads, TearingDown
  <2>5. CASE CloseControl \/ FinishStream \/ Return
    BY <2>5 DEF CloseControl, FinishStream, Return, FramesOfLoads, TearingDown
  <2>6. CASE CtlStep \/ CtlWorkEnds
    <3>1. CASE CtlTake \/ CtlLeave \/ CtlWrite \/ CtlCheck \/ CtlRelease \/ CtlNotify
      BY <2>1, <3>1 DEF CtlTake, CtlLeave, CtlWrite, CtlCheck, CtlRelease, CtlNotify
    <3>2. CASE FetchEnds \/ LoadSucceeds \/ LoadFails \/ BenchEnds
      BY <2>1, <3>2 DEF FetchEnds, LoadSucceeds, LoadFails, BenchEnds
    <3> QED BY <2>6, <3>1, <3>2 DEF CtlStep, CtlWorkEnds
  <2>7. CASE StartTask \/ Helpers \/ Environment \/ UNCHANGED vars
    BY <2>1, <2>7 DEF StartTask, Environment, StreamBreaks, Stop, Helpers,
    HeartbeatLeaves,
                      WatcherRelays, WatcherCancels
  <2>8. ASSUME NEW b \in Assigns, AssignStep(b) \/ SpuriousWakeup(b) \/ ServeEnds(b)
        PROVE  sessionOpen' = sessionOpen /\ rx' = rx
    BY <2>8 DEF AssignStep, PassGate, BlockAtGate, FallAsleep, FindModel, AssignWrite,
                AssignCheck, SpuriousWakeup, ServeEnds
  <2> QED BY <2>1, <2>2, <2>3, <2>4, <2>5, <2>6, <2>7, <2>8 DEF Next, RxStep
<1> DEFINE Free(l) == l \in wire \/ stream = "dead" \/ serviceStop
<1>2. \A l : Free(l) => Free(l)'
  BY WireMoves
<1>3. /\ ctl' = "checking" => Free(ctlJob)'
      /\ ctl' = "releasing" => Free(ctlJob)'
      /\ \A l \in released' : Free(l)'
  <2>a. /\ ctl = "checking" => Free(ctlJob)
        /\ ctl = "releasing" => Free(ctlJob)
        /\ \A l \in released : Free(l)
    BY DEF FramesOfLoads
  <2> HIDE DEF Free
  <2>1. ASSUME UNCHANGED <<ctl, ctlJob, released>>
        PROVE  /\ ctl' = "checking" => Free(ctlJob)'
               /\ ctl' = "releasing" => Free(ctlJob)'
               /\ \A l \in released' : Free(l)'
    BY <2>1, <2>a, <1>2 DEF Free
  <2>2. CASE ReadAssign \/ ReadLoad \/ ReadBench \/ ReadUnload
    BY <2>1, <2>2 DEF ReadAssign, ReadLoad, ReadBench, ReadUnload
  <2>3. CASE PushControl BY <2>1, <2>3 DEF PushControl
  <2>4. CASE RxStep /\ ~PushControl BY <2>1, <2>4, LoopKeeps
  <2>5. CASE CtlTake BY <2>5, <2>a, <1>2 DEF CtlTake
  <2>6. CASE CtlRelease
    <3>1. Free(ctlJob) /\ released' = released \cup {ctlJob} /\ ctl' = "notifying"
      BY <2>6, <2>a DEF CtlRelease
    <3> QED BY <3>1, <2>a, <1>2
  <2>7. CASE CtlWrite
    <3>1. Free(ctlJob)' BY <2>7 DEF CtlWrite, WriteFrame, Free, TypeOK
    <3> QED BY <3>1, <2>7, <2>a, <1>2 DEF CtlWrite
  <2>8. CASE CtlCheck
    <3>1. ctl' = "releasing" => Free(ctlJob)'
      BY <2>8, <2>a DEF CtlCheck, Free
    <3> QED BY <3>1, <2>8, <2>a, <1>2 DEF CtlCheck
  <2>9. CASE FetchEnds
    <3>1. Abandoned => Free(ctlJob) BY DEF Abandoned, Free, FramesOfLoads
    <3>2. ctl' = "releasing" => Abandoned BY <2>9 DEF FetchEnds
    <3>3. ctl' # "checking" /\ ctlJob' = ctlJob /\ released' = released
      BY <2>9 DEF FetchEnds
    <3>4. Abandoned => Free(ctlJob)' BY <3>1, <3>3, <2>9 DEF Free, FetchEnds
    <3> QED BY <3>1, <3>2, <3>3, <3>4, <2>a, <1>2
  <2>10. CASE CtlLeave \/ CtlNotify \/ LoadSucceeds \/ LoadFails \/ BenchEnds
    BY <2>10, <2>a, <1>2 DEF CtlLeave, CtlNotify, LoadSucceeds, LoadFails, BenchEnds
  <2>11. CASE \/ StartTask \/ Helpers \/ Environment \/ UNCHANGED vars
              \/ \E a \in Assigns : AssignStep(a) \/ SpuriousWakeup(a) \/ ServeEnds(a)
    BY <2>1, <2>11, TasksKeep
  <2> QED
    BY <2>2, <2>3, <2>4, <2>5, <2>6, <2>7, <2>8, <2>9, <2>10, <2>11, StepCases
       DEF CtlStep, CtlWorkEnds
<1> QED BY <1>1, <1>3 DEF FramesOfLoads

\* A frame of an assign on the wire is written by a task past the gate, and a
\* task exists only for a frame that was read.
LEMMA AnsweredStep ==
    ASSUME TypeOK, ControlJobs, AnsweredAfterGate, [Next]_vars
    PROVE  AnsweredAfterGate'
<1> USE DEF vars, streamVars, threadVars, flagVars, serviceVars, historyVars
<1> SUFFICES ASSUME NEW a \in Assigns
             PROVE  /\ a \in wire' => at'[a] \in {"checking", "done"}
                    /\ a \notin read' => at'[a] = "unread"
  BY DEF AnsweredAfterGate
<1>a. /\ a \in wire => at[a] \in {"checking", "done"}
      /\ a \notin read => at[a] = "unread"
  BY DEF AnsweredAfterGate
<1>b. read \subseteq read'
  <2>1. CASE Reads
    BY <2>1 DEF Reads, ReadAssign, ReadLoad, ReadBench, ReadUnload, Take
  <2>2. CASE PushControl \/ CtlTake \/ CtlRelease
    BY <2>2 DEF PushControl, CtlTake, CtlRelease
  <2>3. CASE RxStep /\ ~PushControl BY <2>3, LoopKeeps
  <2>4. CASE (CtlStep \/ CtlWorkEnds) /\ ~CtlTake /\ ~CtlRelease BY <2>4, ControlKeeps
  <2>5. CASE \/ StartTask \/ Helpers \/ Environment \/ UNCHANGED vars
             \/ \E b \in Assigns : AssignStep(b) \/ SpuriousWakeup(b) \/ ServeEnds(b)
    BY <2>5, TasksKeep
  <2> QED BY <2>1, <2>2, <2>3, <2>4, <2>5, StepCases DEF Reads
<1>1. CASE ReadAssign
  <2> PICK b \in Assigns : /\ b \notin read /\ read' = read \cup {b}
                           /\ at' = [at EXCEPT ![b] = "queued"] /\ wire' = wire
    BY <1>1 DEF ReadAssign, Take
  <2>1. CASE a = b BY <2>1, <1>a
  <2>2. CASE a # b BY <2>2, <1>a DEF TypeOK
  <2> QED BY <2>1, <2>2
<1>2. ASSUME NEW b \in Assigns, PassGate(b)
      PROVE  /\ a \in wire' => at'[a] \in {"checking", "done"}
             /\ a \notin read' => at'[a] = "unread"
  BY <1>2, <1>a DEF PassGate, AssignMoves, TypeOK
<1>3. CASE ~ReadAssign /\ \A b \in Assigns : ~PassGate(b)
  <2>1. a \notin read' => at'[a] = "unread"
    BY <1>3, <1>a, <1>b, TasksMove DEF StaysPut
  <2>2. CASE a \in wire' \ wire
    <3>1. AssignWrite(a) BY <2>2, WireMoves
    <3>2. at'[a] = "checking" BY <3>1 DEF AssignWrite, AssignMoves, TypeOK
    <3> QED BY <3>2, <2>1
  <2>3. CASE a \in wire
    <3>1. at[a] \in {"checking", "done"} BY <2>3, <1>a
    <3>2. at'[a] \in {"checking", "done"}
      BY <3>1, <1>3, TasksMove DEF StaysPut
    <3> QED BY <3>2, <2>1
  <2>4. CASE a \notin wire' BY <2>4, <2>1
  <2> QED BY <2>2, <2>3, <2>4
<1> QED BY <1>1, <1>2, <1>3

\* An assign's frame follows the frames of the loads read before it.
LEMMA ResultOrderStep ==
    ASSUME TypeOK, ControlJobs, AheadWasRead, AssignWaitsForLoads, FramesOfLoads,
           AnsweredAfterGate, LoadResultBeforeAssignResult, [Next]_vars
    PROVE  LoadResultBeforeAssignResult'
<1> SUFFICES ASSUME NEW a \in Assigns, a \in wire', ~serviceStop'
             PROVE  ahead'[a] \subseteq wire'
  BY DEF LoadResultBeforeAssignResult
<1>1. /\ wire \subseteq wire' /\ ~serviceStop
      /\ stream = "dead" => wire' = wire
  BY WireMoves
<1>2. ahead'[a] = ahead[a]
  <2>1. CASE ReadAssign
    <3> PICK b \in Assigns :
         /\ b \notin read /\ wire' = wire
         /\ ahead' = [ahead EXCEPT ![b] = {l \in Loads \cap read : ModelOf[l] = ModelOf[b]}]
      BY <2>1 DEF ReadAssign, Take, streamVars
    <3>1. a # b BY DEF AnsweredAfterGate
    <3> QED BY <3>1 DEF TypeOK
  <2>2. CASE ~ReadAssign BY <2>2, AheadStays
  <2> QED BY <2>1, <2>2
<1>3. CASE a \in wire
  BY <1>1, <1>2, <1>3 DEF LoadResultBeforeAssignResult
<1>4. CASE a \notin wire
  <2>1. AssignWrite(a) /\ stream # "dead" BY <1>1, <1>4, WireMoves
  <2>2. at[a] \in PastGate BY <2>1 DEF AssignWrite, AssignMoves, PastGate
  <2>3. ahead[a] \subseteq released BY <2>2 DEF AssignWaitsForLoads
  <2>4. \A l \in released : l \in wire BY <1>1, <2>1 DEF FramesOfLoads
  <2> QED BY <2>3, <2>4, <1>1, <1>2
<1> QED BY <1>3, <1>4

\* The initial states: nothing read, queued, counted or written.
LEMMA SessionInvInit ==
    ASSUME Init
    PROVE  SessionInv
<1> USE DEF Init
<1>1. TypeOK
  <2>1. controlQ \in Seq(Controls) /\ poolQ \in Seq(Assigns) OBVIOUS
  <2>2. pending \in [Models -> Nat] /\ ahead \in [Assigns -> SUBSET Loads] OBVIOUS
  <2>3. at \in [Assigns -> AtStates] BY DEF AtStates
  <2> QED BY <2>1, <2>2, <2>3 DEF TypeOK, RxStates, CtlStates, Maybe
<1>2. ControlJobs /\ ReleasedWasRead /\ AheadWasRead
  <2>1. DOMAIN controlQ = {} BY SMT
  <2>2. Elements(controlQ) = {} /\ Distinct(controlQ) BY <2>1 DEF Elements, Distinct
  <2> QED BY <2>2 DEF ControlJobs, ReleasedWasRead, AheadWasRead, InHand, Arriving
<1>3. PendingCountsHeldLoads
  <2>1. \A m \in Models : Held(m) = {} BY DEF Held
  <2> QED BY <2>1, FS_EmptySet DEF PendingCountsHeldLoads
<1>4. AssignWaitsForLoads /\ AnsweredAfterGate /\ LoadResultBeforeAssignResult
  BY DEF AssignWaitsForLoads, AnsweredAfterGate, LoadResultBeforeAssignResult, PastGate
<1>5. FramesOfLoads BY DEF FramesOfLoads, TearingDown
<1> QED BY <1>1, <1>2, <1>3, <1>4, <1>5 DEF SessionInv, GateInv

\* Every reachable state of a session satisfies the inductive invariant,
\* whatever frames the hub sends.
THEOREM SessionInvariant == Spec => []SessionInv
<1>1. Init => SessionInv BY SessionInvInit
<1>2. SessionInv /\ [Next]_vars => SessionInv'
  BY TypeStep, ControlJobsStep, AheadStep, PendingStep, WaitStep, FramesStep,
     AnsweredStep, ResultOrderStep
     DEF SessionInv, GateInv
<1> QED BY <1>1, <1>2, PTL DEF Spec

\* Every variable of the session keeps its type.
THEOREM SessionTypeOK == Spec => []TypeOK
<1>1. SessionInv => TypeOK BY DEF SessionInv, GateInv
<1> QED BY <1>1, SessionInvariant, PTL

\* pending_loads counts the loads queued or running on the control thread, for
\* any number of loads of one model.
THEOREM PendingCounts == Spec => []PendingCountsHeldLoads
<1>1. SessionInv => PendingCountsHeldLoads BY DEF SessionInv, GateInv
<1> QED BY <1>1, SessionInvariant, PTL

\* An assign executes only after every load of its model read before it is
\* done, even when the teardown lets it through the gate.
THEOREM AssignsWait == Spec => []AssignWaitsForLoads
<1>1. SessionInv => AssignWaitsForLoads BY DEF SessionInv, GateInv
<1> QED BY <1>1, SessionInvariant, PTL

\* The hub sees the result of a load before any assign result that depends on
\* it, unless a stop abandoned the load.
THEOREM LoadResultFirst == Spec => []LoadResultBeforeAssignResult
<1>1. SessionInv => LoadResultBeforeAssignResult BY DEF SessionInv
<1> QED BY <1>1, SessionInvariant, PTL

-----------------------------------------------------------------------------
(* The models a load leaves behind.  An unload may take one back, so what  *)
(* is kept is relative to the unloads read so far.                         *)

\* An unload of the model was read.
UnloadRead(m) == \E u \in Unloads \cap read : ModelOf[u] = m

\* The model of a load that succeeded is registered until an unload is read.
LoadedUntilUnload == \A l \in loadOK : ModelOf[l] \in loaded \/ UnloadRead(ModelOf[l])

MissedPastGate == \A a \in missed : at[a] \in PastGate

ModelsInv ==
    /\ SessionInv
    /\ LoadedUntilUnload
    /\ MissedPastGate
    /\ AssignFindsLoadedModel

\* What a step may do to the registered models and to the assigns that missed one.
LEMMA ModelMoves ==
    ASSUME TypeOK, ControlJobs, [Next]_vars
    PROVE  /\ read \subseteq read'
           /\ \A m \in loaded \ loaded' : UnloadRead(m)'
           /\ \/ loadOK' = loadOK
              \/ /\ ctlJob \in Loads \ released
                 /\ loadOK' = loadOK \cup {ctlJob} /\ ModelOf[ctlJob] \in loaded'
           /\ \/ missed' = missed
              \/ \E a \in Assigns :
                    /\ at[a] = "running" /\ ModelOf[a] \notin loaded
                    /\ missed' = missed \cup {a} /\ loadOK' = loadOK
<1> USE DEF vars, streamVars, threadVars, flagVars, serviceVars, historyVars
<1> DEFINE Goal ==
           /\ read \subseteq read'
           /\ \A m \in loaded \ loaded' : UnloadRead(m)'
           /\ \/ loadOK' = loadOK
              \/ /\ ctlJob \in Loads \ released
                 /\ loadOK' = loadOK \cup {ctlJob} /\ ModelOf[ctlJob] \in loaded'
           /\ \/ missed' = missed
              \/ \E a \in Assigns :
                    /\ at[a] = "running" /\ ModelOf[a] \notin loaded
                    /\ missed' = missed \cup {a} /\ loadOK' = loadOK
<1>a. ASSUME read \subseteq read', UNCHANGED <<loaded, loadOK, missed>> PROVE Goal
  BY <1>a
<1>1. CASE ReadAssign \/ ReadLoad \/ ReadBench
  BY <1>1, <1>a DEF ReadAssign, ReadLoad, ReadBench, Take
<1>2. CASE ReadUnload
  <2> PICK u \in Unloads : Take(u) /\ loaded' = loaded \ {ModelOf[u]} /\ UNCHANGED <<loadOK, missed>>
    BY <1>2 DEF ReadUnload
  <2>1. u \in read' /\ read \subseteq read' BY DEF Take
  <2> QED BY <2>1 DEF UnloadRead
<1>3. CASE PushControl \/ WriteInline \/ CheckInline \/ ReadFails \/ EndSession \/ AnnounceAssignDone
  BY <1>3, <1>a DEF PushControl, WriteInline, CheckInline, ReadFails, EndSession,
                    AnnounceAssignDone, WriteFrame
<1>4. CASE NotifyGate \/ CloseControl \/ FinishStream \/ Return
  BY <1>4, <1>a DEF NotifyGate, CloseControl, FinishStream, Return
<1>5. CASE CtlTake \/ CtlLeave \/ CtlWrite \/ CtlCheck \/ CtlRelease \/ CtlNotify
  BY <1>5, <1>a DEF CtlTake, CtlLeave, CtlWrite, CtlCheck, CtlRelease, CtlNotify, WriteFrame
<1>6. CASE FetchEnds \/ LoadFails \/ BenchEnds
  BY <1>6, <1>a DEF FetchEnds, LoadFails, BenchEnds
<1>7. CASE LoadSucceeds
  <2>1. ctl = "loading" /\ loadOK' = loadOK \cup {ctlJob} /\ loaded' = loaded \cup {ModelOf[ctlJob]}
        /\ missed' = missed /\ read' = read
    BY <1>7 DEF LoadSucceeds
  <2>2. ctlJob \in Loads \ released
    BY <2>1, FramesAssumption DEF ControlJobs, InHand, Frames
  <2> QED BY <2>1, <2>2
<1>8. CASE StartTask \/ Helpers \/ Environment \/ UNCHANGED vars
  BY <1>8, <1>a DEF StartTask, Environment, StreamBreaks, Stop, Helpers, HeartbeatLeaves,
                    WatcherRelays, WatcherCancels
<1>9. ASSUME NEW b \in Assigns, FindModel(b) PROVE Goal
  <2>1. at[b] = "running" /\ UNCHANGED <<read, loaded, loadOK>>
    BY <1>9 DEF FindModel, AssignMoves
  <2>2. missed' = missed \/ (ModelOf[b] \notin loaded /\ missed' = missed \cup {b})
    BY <1>9 DEF FindModel
  <2> QED BY <2>1, <2>2
<1>10. ASSUME NEW b \in Assigns, ~FindModel(b),
              AssignStep(b) \/ SpuriousWakeup(b) \/ ServeEnds(b)
       PROVE  Goal
  BY <1>10, <1>a DEF AssignStep, PassGate, BlockAtGate, FallAsleep, AssignWrite, AssignCheck,
                     SpuriousWakeup, ServeEnds, WriteFrame
<1> QED
  BY <1>1, <1>2, <1>3, <1>4, <1>5, <1>6, <1>7, <1>8, <1>9, <1>10
     DEF Next, Reads, RxStep, CtlStep, CtlWorkEnds

LEMMA LoadedStep ==
    ASSUME TypeOK, ControlJobs, LoadedUntilUnload, [Next]_vars
    PROVE  LoadedUntilUnload'
<1>1. \A m : UnloadRead(m) => UnloadRead(m)'
  BY ModelMoves DEF UnloadRead
<1>2. \A m : m \in loaded => m \in loaded' \/ UnloadRead(m)'
  BY ModelMoves
<1>3. ASSUME NEW l \in loadOK' PROVE ModelOf[l] \in loaded' \/ UnloadRead(ModelOf[l])'
  BY <1>1, <1>2, <1>3, ModelMoves DEF LoadedUntilUnload
<1> QED BY <1>3 DEF LoadedUntilUnload

LEMMA MissedStep ==
    ASSUME SessionInv, MissedPastGate, [Next]_vars
    PROVE  MissedPastGate'
<1> USE DEF SessionInv, GateInv
<1> SUFFICES ASSUME NEW a \in missed' PROVE at'[a] \in PastGate
  BY DEF MissedPastGate
<1>1. a \in Assigns /\ at[a] \in PastGate
  BY ModelMoves DEF MissedPastGate, PastGate, TypeOK
<1>2. CASE ReadAssign
  <2> PICK b \in Assigns : b \notin read /\ at' = [at EXCEPT ![b] = "queued"]
    BY <1>2 DEF ReadAssign, Take
  <2>1. a # b BY <1>1 DEF AnsweredAfterGate, PastGate
  <2> QED BY <1>1, <2>1 DEF TypeOK
<1>3. ASSUME NEW b \in Assigns, PassGate(b) PROVE at'[a] \in PastGate
  BY <1>1, <1>3 DEF PassGate, AssignMoves, TypeOK, PastGate
<1>4. CASE ~ReadAssign /\ \A b \in Assigns : ~PassGate(b)
  BY <1>1, <1>4, TasksMove DEF StaysPut
<1> QED BY <1>2, <1>3, <1>4

\* An assign that missed its model is past the gate: the loads read before it
\* are given back, so none of them can succeed later.
LEMMA FindStep ==
    ASSUME ModelsInv, [Next]_vars
    PROVE  AssignFindsLoadedModel'
<1> USE DEF ModelsInv, SessionInv, GateInv
<1> SUFFICES ASSUME NEW a \in missed', NEW l \in ahead'[a] \cap loadOK'
             PROVE  UnloadRead(ModelOf[a])'
  BY DEF AssignFindsLoadedModel, UnloadRead
<1>1. \A m : UnloadRead(m) => UnloadRead(m)'
  BY ModelMoves DEF UnloadRead
<1>2. a \in Assigns /\ at[a] \in PastGate
  BY ModelMoves DEF MissedPastGate, PastGate, TypeOK
<1>3. ahead'[a] = ahead[a]
  <2>1. CASE ReadAssign
    <3> PICK b \in Assigns :
         /\ b \notin read
         /\ ahead' = [ahead EXCEPT ![b] = {k \in Loads \cap read : ModelOf[k] = ModelOf[b]}]
      BY <2>1 DEF ReadAssign, Take
    <3>1. a # b BY <1>2 DEF AnsweredAfterGate, PastGate
    <3> QED BY <1>2, <3>1 DEF TypeOK
  <2>2. CASE ~ReadAssign BY <2>2, AheadStays
  <2> QED BY <2>1, <2>2
<1>4. l \in released /\ ModelOf[l] = ModelOf[a]
  BY <1>2, <1>3 DEF AssignWaitsForLoads, AheadWasRead
<1>5. l \in loadOK
  BY <1>4, ModelMoves
<1>6. CASE a \in missed
  <2>1. UnloadRead(ModelOf[a])
    BY <1>3, <1>5, <1>6 DEF AssignFindsLoadedModel, UnloadRead
  <2> QED BY <2>1, <1>1
<1>7. CASE a \notin missed
  <2>1. ModelOf[a] \notin loaded BY <1>7, ModelMoves
  <2>2. UnloadRead(ModelOf[a]) BY <2>1, <1>4, <1>5 DEF LoadedUntilUnload
  <2> QED BY <2>2, <1>1
<1> QED BY <1>6, <1>7

\* Models and the assigns that miss them, in every reachable state.
THEOREM ModelsInvariant == Spec => []ModelsInv
<1>1. Init => ModelsInv
  BY SessionInvInit DEF ModelsInv, LoadedUntilUnload, MissedPastGate, AssignFindsLoadedModel, Init
<1>2. ModelsInv /\ [Next]_vars => ModelsInv'
  <2>1. SessionInv /\ [Next]_vars => SessionInv'
    BY TypeStep, ControlJobsStep, AheadStep, PendingStep, WaitStep, FramesStep,
       AnsweredStep, ResultOrderStep
       DEF SessionInv, GateInv
  <2> QED BY <2>1, LoadedStep, MissedStep, FindStep DEF ModelsInv, SessionInv, GateInv
<1> QED BY <1>1, <1>2, PTL DEF Spec

\* An assign never reports "model not loaded" after a load read before it
\* succeeded, unless an unload of the model was read too.
THEOREM AssignsFindModels == Spec => []AssignFindsLoadedModel
<1>1. ModelsInv => AssignFindsLoadedModel BY DEF ModelsInv
<1> QED BY <1>1, ModelsInvariant, PTL

-----------------------------------------------------------------------------
(* The session implements HubView.  Two more facts are needed: a load is   *)
(* abandoned only by a stop somebody asked for, and what the receive loop  *)
(* answers itself was read.                                                *)

HubInv ==
    /\ SessionInv
    /\ serviceStop => stopping
    /\ rx = "writing" => rxJob \in read

LEMMA HubInvStep ==
    ASSUME HubInv, [Next]_vars
    PROVE  (serviceStop => stopping)' /\ (rx = "writing" => rxJob \in read)'
<1> USE DEF HubInv, vars, streamVars, threadVars, flagVars, serviceVars, historyVars
<1>1. CASE ReadAssign \/ ReadLoad \/ ReadBench \/ ReadUnload
  BY <1>1 DEF ReadAssign, ReadLoad, ReadBench, ReadUnload, Take
<1>2. CASE PushControl \/ WriteInline \/ CheckInline \/ ReadFails \/ EndSession \/ AnnounceAssignDone
  BY <1>2 DEF PushControl, WriteInline, CheckInline, ReadFails, EndSession, AnnounceAssignDone
<1>3. CASE NotifyGate \/ CloseControl \/ FinishStream \/ Return
  BY <1>3 DEF NotifyGate, CloseControl, FinishStream, Return
<1>4. CASE CtlTake \/ CtlLeave \/ CtlWrite \/ CtlCheck \/ CtlRelease \/ CtlNotify
  BY <1>4 DEF CtlTake, CtlLeave, CtlWrite, CtlCheck, CtlRelease, CtlNotify, WriteFrame
<1>5. CASE FetchEnds \/ LoadSucceeds \/ LoadFails \/ BenchEnds
  BY <1>5 DEF FetchEnds, LoadSucceeds, LoadFails, BenchEnds
<1>6. CASE StartTask \/ Environment \/ HeartbeatLeaves \/ WatcherCancels \/ UNCHANGED vars
  BY <1>6 DEF StartTask, Environment, StreamBreaks, Stop, HeartbeatLeaves, WatcherCancels
<1>7. CASE WatcherRelays
  BY <1>7 DEF WatcherRelays
<1>8. ASSUME NEW b \in Assigns, AssignStep(b) \/ SpuriousWakeup(b) \/ ServeEnds(b)
      PROVE  (serviceStop => stopping)' /\ (rx = "writing" => rxJob \in read)'
  BY <1>8 DEF AssignStep, PassGate, BlockAtGate, FallAsleep, FindModel, AssignWrite, AssignCheck,
              SpuriousWakeup, ServeEnds, WriteFrame
<1> QED
  BY <1>1, <1>2, <1>3, <1>4, <1>5, <1>6, <1>7, <1>8
     DEF Next, Reads, RxStep, CtlStep, CtlWorkEnds, Helpers

\* A terminal frame written to the stream is an answer, or nothing when the
\* stream is dead.
LEMMA WriteAnswers ==
    ASSUME TypeOK, NEW f \in Frames \cap read, f \notin released, WriteFrame(f),
           f \in Assigns => ahead[f] \subseteq released,
           UNCHANGED <<stopping, released, ahead>>
    PROVE  [Hub!Next]_(Hub!vars)
<1>1. UNCHANGED <<stream, read>> BY DEF WriteFrame
<1>2. (released \ wire)' = released \ wire BY DEF WriteFrame
<1>3. CASE wire' = wire
  BY <1>1, <1>3 DEF Hub!vars
<1>4. CASE wire' # wire
  <2>1. stream = "open" /\ wire' = wire \cup {f} /\ f \notin wire
    BY <1>4 DEF WriteFrame
  <2>2. f \in Assigns => ahead[f] \subseteq wire \cup (released \ wire)
    OBVIOUS
  <2>3. Hub!Answer(f)
    BY <1>1, <1>2, <2>1, <2>2 DEF Hub!Answer, Hub!Answerable, Frames
  <2> QED BY <2>3 DEF Hub!Next, Hub!Answerable, Frames
<1> QED BY <1>3, <1>4

\* Each step of the session is a step of the hub's view, or nothing to it.
LEMMA HubStep ==
    ASSUME HubInv, [Next]_vars
    PROVE  [Hub!Next]_(Hub!vars)
<1> USE DEF HubInv, SessionInv, GateInv, vars, streamVars, threadVars, flagVars, serviceVars,
            historyVars
<1>a. ASSUME UNCHANGED <<stream, stopping, read, wire, released, ahead>>
      PROVE  [Hub!Next]_(Hub!vars)
  BY <1>a DEF Hub!vars
<1>b. ASSUME NEW f \in Loads \cup Benches \cup Unloads, Take(f),
             UNCHANGED <<stopping, released, ahead>>
      PROVE  [Hub!Next]_(Hub!vars)
  <2>1. Hub!TakeOther(f) BY <1>b DEF Hub!TakeOther, Take
  <2> QED BY <2>1 DEF Hub!Next, Hub!Answerable
<1>c. ASSUME stream' = "dead", UNCHANGED <<stopping, read, wire, released, ahead>>
      PROVE  [Hub!Next]_(Hub!vars)
  <2>1. CASE stream = "dead" BY <1>a, <1>c, <2>1
  <2>2. CASE stream = "open"
    <3>1. Hub!Break BY <1>c, <2>2 DEF Hub!Break
    <3> QED BY <3>1 DEF Hub!Next
  <2> QED BY <2>1, <2>2 DEF TypeOK
<1>1. CASE ReadAssign
  <2> PICK b \in Assigns :
         /\ Take(b) /\ UNCHANGED <<stopping, released>>
         /\ ahead' = [ahead EXCEPT ![b] = {l \in Loads \cap read : ModelOf[l] = ModelOf[b]}]
    BY <1>1 DEF ReadAssign
  <2>1. Hub!TakeAssign(b) BY DEF Hub!TakeAssign, Take
  <2> QED BY <2>1 DEF Hub!Next
<1>2. CASE ReadLoad \/ ReadBench \/ ReadUnload
  BY <1>2, <1>b DEF ReadLoad, ReadBench, ReadUnload
<1>3. CASE WriteInline
  <2>1. /\ rxJob \in Frames \cap read /\ rxJob \notin released /\ rxJob \notin Assigns
        /\ WriteFrame(rxJob) /\ UNCHANGED <<stopping, released, ahead>>
    BY <1>3, FramesAssumption DEF WriteInline, ControlJobs, TypeOK, Frames
  <2> QED BY <2>1, WriteAnswers
<1>4. CASE CtlWrite
  <2>1. /\ ctlJob \in Frames \cap read /\ ctlJob \notin released /\ ctlJob \notin Assigns
        /\ WriteFrame(ctlJob) /\ UNCHANGED <<stopping, released, ahead>>
    BY <1>4, FramesAssumption DEF CtlWrite, ControlJobs, TypeOK, Frames, Controls, InHand
  <2> QED BY <2>1, WriteAnswers
<1>5. ASSUME NEW b \in Assigns, AssignWrite(b) PROVE [Hub!Next]_(Hub!vars)
  <2>1. /\ b \in Frames \cap read /\ b \notin released
        /\ WriteFrame(b) /\ UNCHANGED <<stopping, released, ahead>>
    BY <1>5, FramesAssumption DEF AssignWrite, AssignMoves, AnsweredAfterGate, TypeOK, Frames
  <2>2. ahead[b] \subseteq released
    BY <1>5 DEF AssignWrite, AssignMoves, AssignWaitsForLoads, PastGate
  <2> QED BY <2>1, <2>2, WriteAnswers
<1>6. CASE CtlRelease
  <2>1. /\ released' = released \cup {ctlJob} /\ UNCHANGED <<stream, stopping, read, wire, ahead>>
        /\ ctlJob \in wire \/ stream = "dead" \/ stopping
    BY <1>6 DEF CtlRelease, FramesOfLoads
  <2>2. ctlJob \in Loads \cap read
    BY <1>6, FramesAssumption DEF CtlRelease, ControlJobs, InHand, Frames
  <2>3. CASE ctlJob \in wire
    BY <2>1, <2>3 DEF Hub!vars
  <2>4. CASE ctlJob \notin wire
    <3>1. (released \ wire)' = (released \ wire) \cup {ctlJob}
      BY <2>1, <2>4
    <3>2. Hub!GiveUp(ctlJob)
      BY <2>1, <2>2, <2>4, <3>1 DEF Hub!GiveUp
    <3> QED BY <2>2, <3>2 DEF Hub!Next, Hub!Answerable
  <2> QED BY <2>3, <2>4
<1>7. CASE StreamBreaks \/ WatcherCancels
  BY <1>7, <1>c DEF StreamBreaks, WatcherCancels
<1>8. CASE Stop
  <2>1. Hub!AskStop BY <1>8 DEF Stop, Hub!AskStop
  <2> QED BY <2>1 DEF Hub!Next
<1>9. CASE \/ PushControl \/ CheckInline \/ ReadFails \/ EndSession \/ AnnounceAssignDone
           \/ NotifyGate \/ CloseControl \/ FinishStream \/ Return
  BY <1>9, <1>a DEF PushControl, CheckInline, ReadFails, EndSession, AnnounceAssignDone,
                    NotifyGate, CloseControl, FinishStream, Return
<1>10. CASE CtlTake \/ CtlLeave \/ CtlCheck \/ CtlNotify \/ CtlWorkEnds
  BY <1>10, <1>a DEF CtlTake, CtlLeave, CtlCheck, CtlNotify, CtlWorkEnds, FetchEnds,
                     LoadSucceeds, LoadFails, BenchEnds
<1>11. CASE StartTask \/ HeartbeatLeaves \/ WatcherRelays \/ UNCHANGED vars
  BY <1>11, <1>a DEF StartTask, HeartbeatLeaves, WatcherRelays
<1>12. ASSUME NEW b \in Assigns, ~AssignWrite(b),
              AssignStep(b) \/ SpuriousWakeup(b) \/ ServeEnds(b)
       PROVE  [Hub!Next]_(Hub!vars)
  BY <1>12, <1>a DEF AssignStep, PassGate, BlockAtGate, FallAsleep, FindModel, AssignCheck,
                     SpuriousWakeup, ServeEnds
<1> QED
  BY <1>1, <1>2, <1>3, <1>4, <1>5, <1>6, <1>7, <1>8, <1>9, <1>10, <1>11, <1>12
     DEF Next, Environment, Reads, RxStep, CtlStep, Helpers

\* The session implements the hub's view of it: a job is answered at most once
\* and while the stream is open, an assign after the loads taken before it,
\* and a load is given up only for a dead stream or a stop.
THEOREM SessionImplementsHubView == Spec => ImplementsHubView
<1>1. Init => HubInv /\ Hub!Init
  BY SessionInvInit DEF HubInv, Init, Hub!Init
<1>2. HubInv /\ [Next]_vars => HubInv' /\ [Hub!Next]_(Hub!vars)
  <2>1. SessionInv /\ [Next]_vars => SessionInv'
    BY TypeStep, ControlJobsStep, AheadStep, PendingStep, WaitStep, FramesStep,
       AnsweredStep, ResultOrderStep
       DEF SessionInv, GateInv
  <2> QED BY <2>1, HubInvStep, HubStep DEF HubInv
<1> QED BY <1>1, <1>2, PTL DEF Spec, ImplementsHubView, Hub!Spec

-----------------------------------------------------------------------------
(* Nobody waits for nothing: the safety behind TeardownCompletes,          *)
(* StopEndsSession and EveryJobAnswered.                                   *)

\* Who holds a frame that was read: the control thread or its queue, a task of
\* the pool, the receive loop that answers it itself.
ControlHas == InHand \cup Arriving \cup Elements(controlQ)
TasksHave == {a \in Assigns : at[a] = "queued" \/ at[a] \in InPool}
LoopHas == IF rx = "writing" THEN {rxJob} ELSE {}

\* A task that found a load pending will be woken: the load is still to be given
\* back, or the notification that follows is still to come.
SleepersAreWoken ==
    \A a \in Assigns :
        /\ at[a] = "checked" => pending[ModelOf[a]] > 0
        /\ at[a] = "asleep" => pending[ModelOf[a]] > 0 \/ ctl = "notifying"

\* A load counted as pending has somebody to give it back.
LoadsHaveAPlace ==
    /\ (read \cap Loads) \ released \subseteq ControlHas
    /\ ctl = "benching" => ctlJob \in Benches

\* The control thread leaves last, with nothing left to do; the watcher leaves a
\* dead stream behind.
TeardownOrder ==
    /\ rx \in {"finishing", "returned"} => controlDone /\ sessionDone
    /\ rx = "drained" => controlDone
    /\ controlDone => rx \in {"drained", "finishing", "returned"}
    /\ assignDone => rx \in TearingDown
    /\ ctl = "gone" => controlDone /\ controlQ = <<>>
    /\ watcher = "gone" => stream = "dead"

\* A task that was posted and has not started is in the pool's queue.
PostedAreQueued == \A a \in Assigns : at[a] = "queued" => a \in Elements(poolQ)

\* While the stream is open and the service runs, a frame that was read is
\* answered or somebody holds it.
FramesAreHeld ==
    /\ \A a \in Assigns : at[a] \in {"checking", "done"} => a \in wire \/ stream = "dead"
    /\ stream = "open" /\ ~serviceStop =>
          read \subseteq wire \cup ControlHas \cup TasksHave \cup LoopHas

WaitInv ==
    HubInv /\ SleepersAreWoken /\ LoadsHaveAPlace /\ TeardownOrder /\ PostedAreQueued
        /\ FramesAreHeld

\* The step that makes a count zero is followed by a notification, and nobody is
\* between the test of the count and its sleep meanwhile.
LEMMA SleepersStep ==
    ASSUME TypeOK, SleepersAreWoken, [Next]_vars
    PROVE  SleepersAreWoken'
<1> USE DEF vars, streamVars, threadVars, flagVars, serviceVars, historyVars
<1>a. ASSUME UNCHANGED <<at, pending>>, ctl' = ctl \/ ctl # "notifying"
      PROVE  SleepersAreWoken'
  BY <1>a DEF SleepersAreWoken
<1>1. CASE ReadAssign
  <2>1. PICK b \in Assigns : at' = [at EXCEPT ![b] = "queued"] /\ UNCHANGED <<pending, ctl>>
    BY <1>1 DEF ReadAssign
  <2> QED BY <2>1 DEF SleepersAreWoken, TypeOK
<1>2. CASE ReadLoad
  <2>1. PICK l \in Loads :
           pending' = [pending EXCEPT ![ModelOf[l]] = @ + 1] /\ UNCHANGED <<at, ctl>>
    BY <1>2 DEF ReadLoad
  <2>2. \A m \in Models : pending[m] \in Nat /\ pending'[m] \in {pending[m], pending[m] + 1}
    BY <2>1 DEF TypeOK
  <2>3. \A a \in Assigns : ModelOf[a] \in Models
    BY ModelOfAssumption
  <2>4. \A m \in Models : pending[m] > 0 => pending'[m] > 0
    BY <2>2
  <2> QED BY <2>1, <2>3, <2>4 DEF SleepersAreWoken
<1>3. CASE ReadBench \/ ReadUnload
  BY <1>3, <1>a DEF ReadBench, ReadUnload
<1>4. CASE NotifyGate
  BY <1>4 DEF NotifyGate, WakeSleepers, SleepersAreWoken
<1>5. CASE PushControl \/ WriteInline \/ CheckInline \/ ReadFails \/ EndSession
  BY <1>5, <1>a DEF PushControl, WriteInline, CheckInline, ReadFails, EndSession
<1>6. CASE AnnounceAssignDone \/ CloseControl \/ FinishStream \/ Return
  BY <1>6, <1>a DEF AnnounceAssignDone, CloseControl, FinishStream, Return
<1>7. CASE CtlNotify
  BY <1>7 DEF CtlNotify, WakeSleepers, SleepersAreWoken
<1>8. CASE CtlRelease
  BY <1>8 DEF CtlRelease, GateFree, SleepersAreWoken
<1>9. CASE CtlTake \/ CtlLeave \/ CtlWrite \/ CtlCheck
  BY <1>9, <1>a DEF CtlTake, CtlLeave, CtlWrite, CtlCheck
<1>10. CASE FetchEnds \/ LoadSucceeds \/ LoadFails \/ BenchEnds
  BY <1>10, <1>a DEF FetchEnds, LoadSucceeds, LoadFails, BenchEnds
<1>11. CASE StartTask
  BY <1>11 DEF StartTask, AssignMoves, SleepersAreWoken, TypeOK
<1>12. CASE Helpers \/ Environment \/ UNCHANGED vars
  BY <1>12, <1>a DEF Helpers, HeartbeatLeaves, WatcherRelays, WatcherCancels, Environment,
                     StreamBreaks, Stop
<1>13. ASSUME NEW b \in Assigns, AssignStep(b) \/ SpuriousWakeup(b) \/ ServeEnds(b)
       PROVE  SleepersAreWoken'
  <2>1. PICK to \in AtStates :
           /\ at' = [at EXCEPT ![b] = to] /\ UNCHANGED <<pending, ctl>>
           /\ to \in {"checked", "asleep"} => pending[ModelOf[b]] > 0
    BY <1>13 DEF AssignStep, PassGate, BlockAtGate, FallAsleep, FindModel, AssignWrite, AssignCheck,
                 SpuriousWakeup, ServeEnds, AssignMoves, AtStates, SleepersAreWoken
  <2> QED BY <2>1 DEF SleepersAreWoken, TypeOK
<1> QED
  BY <1>1, <1>2, <1>3, <1>4, <1>5, <1>6, <1>7, <1>8, <1>9, <1>10, <1>11, <1>12, <1>13
     DEF Next, Reads, RxStep, CtlStep, CtlWorkEnds

\* A load moves from the loop to the queue to the thread, which gives it back.
LEMMA LoadsPlaceStep ==
    ASSUME TypeOK, ControlJobs, LoadsHaveAPlace, [Next]_vars
    PROVE  LoadsHaveAPlace'
<1> USE DEF vars, streamVars, threadVars, flagVars, serviceVars, historyVars
<1>0. None \notin Frames
  BY FramesAssumption
<1>1. CASE ReadAssign \/ ReadUnload
  BY <1>1, FramesAssumption
     DEF ReadAssign, ReadUnload, Take, LoadsHaveAPlace, ControlHas, InHand, Arriving
<1>2. CASE ReadLoad \/ ReadBench
  BY <1>2, FramesAssumption
     DEF ReadLoad, ReadBench, Take, LoadsHaveAPlace, ControlHas, InHand, Arriving
<1>3. CASE PushControl
  <2>1. controlQ \in Seq(Controls) /\ rxJob \in Controls
    BY <1>3 DEF PushControl, ControlJobs, Arriving, TypeOK
  <2>2. Elements(controlQ') = Elements(controlQ) \cup {rxJob}
    BY <1>3, <2>1, AppendElements DEF PushControl
  <2> QED BY <1>3, <2>2 DEF PushControl, LoadsHaveAPlace, ControlHas, InHand, Arriving
<1>4. CASE RxStep /\ ~PushControl
  <2>1. UNCHANGED <<read, ctlJob, controlQ, released>> /\ rx # "pushing"
    BY <1>4, LoopKeeps
  <2>2. ctl' = ctl
    BY <1>4, LoopKeeps
  <2> QED BY <2>1, <2>2 DEF LoadsHaveAPlace, ControlHas, InHand, Arriving
<1>5. CASE CtlTake
  <2>1. controlQ \in Seq(Controls) /\ controlQ # <<>>
    BY <1>5 DEF CtlTake, TypeOK
  <2>2. Elements(controlQ) = {Head(controlQ)} \cup Elements(Tail(controlQ)) /\ Head(controlQ) \in Controls
    BY <2>1, HeadTailElements
  <2>3. InHand = {} /\ InHand' = {Head(controlQ)}
    BY <1>5, <2>2, <1>0 DEF CtlTake, ControlJobs, InHand, Controls, Frames
  <2> QED BY <1>5, <2>2, <2>3 DEF CtlTake, LoadsHaveAPlace, ControlHas, Arriving, Controls
<1>6. CASE CtlRelease
  BY <1>6 DEF CtlRelease, LoadsHaveAPlace, ControlHas, InHand, Arriving
<1>7. CASE CtlCheck
  BY <1>7 DEF CtlCheck, LoadsHaveAPlace, ControlHas, InHand, Arriving
<1>8. CASE BenchEnds
  <2>1. ctlJob \notin Loads
    BY <1>8, FramesAssumption DEF BenchEnds, LoadsHaveAPlace
  <2> QED BY <1>8, <2>1 DEF BenchEnds, LoadsHaveAPlace, ControlHas, InHand, Arriving
<1>9. CASE CtlLeave \/ CtlWrite \/ CtlNotify \/ FetchEnds \/ LoadSucceeds \/ LoadFails
  BY <1>9 DEF CtlLeave, CtlWrite, CtlNotify, FetchEnds, LoadSucceeds, LoadFails, WriteFrame,
              LoadsHaveAPlace, ControlHas, InHand, Arriving
<1>10. CASE \/ StartTask \/ Helpers \/ Environment \/ UNCHANGED vars
            \/ \E a \in Assigns : AssignStep(a) \/ SpuriousWakeup(a) \/ ServeEnds(a)
  <2>1. UNCHANGED <<read, rx, rxJob, ctl, ctlJob, controlQ, released>>
    BY <1>10, TasksKeep
  <2> QED BY <2>1 DEF LoadsHaveAPlace, ControlHas, InHand, Arriving
<1> QED
  BY <1>1, <1>2, <1>3, <1>4, <1>5, <1>6, <1>7, <1>8, <1>9, <1>10, StepCases
     DEF CtlStep, CtlWorkEnds

\* The flags are set in the teardown's order; the control thread leaves an empty
\* queue, to which nothing is added from there on.
LEMMA TeardownStep ==
    ASSUME TypeOK, FramesOfLoads, TeardownOrder, [Next]_vars
    PROVE  TeardownOrder'
<1> USE DEF vars, streamVars, threadVars, flagVars, serviceVars, historyVars
<1>a. ASSUME UNCHANGED <<rx, assignDone, controlDone, sessionDone, controlQ, ctl, watcher>>,
             stream = "dead" => stream' = "dead"
      PROVE  TeardownOrder'
  BY <1>a DEF TeardownOrder
<1>1. CASE ReadAssign \/ ReadLoad \/ ReadBench \/ ReadUnload
  BY <1>1 DEF ReadAssign, ReadLoad, ReadBench, ReadUnload, Take, TeardownOrder, TearingDown
<1>2. CASE PushControl \/ WriteInline \/ CheckInline \/ ReadFails
  BY <1>2 DEF PushControl, WriteInline, CheckInline, ReadFails, WriteFrame, TeardownOrder, TearingDown
<1>3. CASE EndSession \/ AnnounceAssignDone \/ NotifyGate
  BY <1>3 DEF EndSession, AnnounceAssignDone, NotifyGate, TeardownOrder, TearingDown
<1>4. CASE CloseControl \/ FinishStream \/ Return
  BY <1>4 DEF CloseControl, FinishStream, Return, TeardownOrder, TearingDown
<1>5. CASE CtlTake
  BY <1>5 DEF CtlTake, TeardownOrder
<1>6. CASE CtlLeave \/ CtlNotify \/ CtlRelease \/ CtlCheck \/ CtlWrite
  BY <1>6 DEF CtlLeave, CtlNotify, CtlRelease, CtlCheck, CtlWrite, WriteFrame, TeardownOrder
<1>7. CASE FetchEnds \/ LoadSucceeds \/ LoadFails \/ BenchEnds
  BY <1>7 DEF FetchEnds, LoadSucceeds, LoadFails, BenchEnds, TeardownOrder
<1>8. CASE StartTask \/ HeartbeatLeaves \/ Environment \/ UNCHANGED vars
  BY <1>8, <1>a DEF StartTask, HeartbeatLeaves, Environment, StreamBreaks, Stop
<1>9. CASE WatcherRelays \/ WatcherCancels
  BY <1>9 DEF WatcherRelays, WatcherCancels, TeardownOrder
<1>10. ASSUME NEW b \in Assigns, AssignStep(b) \/ SpuriousWakeup(b) \/ ServeEnds(b)
       PROVE  TeardownOrder'
  BY <1>10, <1>a DEF AssignStep, PassGate, BlockAtGate, FallAsleep, FindModel, AssignWrite,
                     AssignCheck, SpuriousWakeup, ServeEnds, WriteFrame
<1> QED
  BY <1>1, <1>2, <1>3, <1>4, <1>5, <1>6, <1>7, <1>8, <1>9, <1>10
     DEF Next, Reads, RxStep, CtlStep, CtlWorkEnds, Helpers

\* A task leaves the pool's queue when it starts.
LEMMA PostedStep ==
    ASSUME TypeOK, PostedAreQueued, [Next]_vars
    PROVE  PostedAreQueued'
<1> USE DEF vars, streamVars, threadVars, flagVars, serviceVars, historyVars
<1>a. ASSUME poolQ' = poolQ, \A a \in Assigns : at'[a] = "queued" => at[a] = "queued"
      PROVE  PostedAreQueued'
  BY <1>a DEF PostedAreQueued
<1>1. CASE ReadAssign
  <2>1. PICK b \in Assigns : at' = [at EXCEPT ![b] = "queued"] /\ poolQ' = Append(poolQ, b)
    BY <1>1 DEF ReadAssign
  <2>2. Elements(poolQ') = Elements(poolQ) \cup {b}
    BY <2>1, AppendElements DEF TypeOK
  <2> QED BY <2>1, <2>2 DEF PostedAreQueued, TypeOK
<1>2. CASE StartTask
  <2>1. /\ poolQ \in Seq(Assigns) /\ poolQ # <<>> /\ poolQ' = Tail(poolQ)
        /\ at' = [at EXCEPT ![Head(poolQ)] = "gate"]
    BY <1>2 DEF StartTask, AssignMoves, TypeOK
  <2>2. Elements(poolQ) = {Head(poolQ)} \cup Elements(poolQ') /\ Head(poolQ) \in Assigns
    BY <2>1, HeadTailElements
  <2> QED BY <2>1, <2>2 DEF PostedAreQueued, TypeOK
<1>3. CASE ReadLoad \/ ReadBench \/ ReadUnload
  BY <1>3, <1>a DEF ReadLoad, ReadBench, ReadUnload
<1>4. CASE PushControl \/ WriteInline \/ CheckInline \/ ReadFails \/ EndSession \/ AnnounceAssignDone
  BY <1>4, <1>a DEF PushControl, WriteInline, CheckInline, ReadFails, EndSession, AnnounceAssignDone
<1>5. CASE NotifyGate \/ CtlNotify
  BY <1>5, <1>a DEF NotifyGate, CtlNotify, WakeSleepers
<1>6. CASE CloseControl \/ FinishStream \/ Return
  BY <1>6, <1>a DEF CloseControl, FinishStream, Return
<1>7. CASE CtlTake \/ CtlLeave \/ CtlWrite \/ CtlCheck \/ CtlRelease
  BY <1>7, <1>a DEF CtlTake, CtlLeave, CtlWrite, CtlCheck, CtlRelease
<1>8. CASE FetchEnds \/ LoadSucceeds \/ LoadFails \/ BenchEnds
  BY <1>8, <1>a DEF FetchEnds, LoadSucceeds, LoadFails, BenchEnds
<1>9. CASE Helpers \/ Environment \/ UNCHANGED vars
  BY <1>9, <1>a DEF Helpers, HeartbeatLeaves, WatcherRelays, WatcherCancels, Environment,
                    StreamBreaks, Stop
<1>10. ASSUME NEW b \in Assigns, AssignStep(b) \/ SpuriousWakeup(b) \/ ServeEnds(b)
       PROVE  PostedAreQueued'
  <2>1. PICK to \in AtStates \ {"queued"} : at' = [at EXCEPT ![b] = to] /\ poolQ' = poolQ
    BY <1>10 DEF AssignStep, PassGate, BlockAtGate, FallAsleep, FindModel, AssignWrite, AssignCheck,
                 SpuriousWakeup, ServeEnds, AssignMoves, AtStates
  <2> QED BY <2>1, <1>a DEF TypeOK
<1> QED
  BY <1>1, <1>2, <1>3, <1>4, <1>5, <1>6, <1>7, <1>8, <1>9, <1>10
     DEF Next, Reads, RxStep, CtlStep, CtlWorkEnds

\* A frame is handed on or answered; it is dropped only when the stream is dead
\* or a stop reached the service.
LEMMA HeldStep ==
    ASSUME HubInv, FramesAreHeld, TeardownOrder, [Next]_vars
    PROVE  FramesAreHeld'
<1> USE DEF vars, streamVars, threadVars, flagVars, serviceVars, historyVars
<1>0. TypeOK /\ ControlJobs /\ FramesOfLoads /\ None \notin Frames
  BY FramesAssumption DEF HubInv, SessionInv, GateInv
<1>m. /\ stream = "dead" => stream' = "dead" /\ wire' = wire
      /\ serviceStop => serviceStop'
      /\ wire \subseteq wire'
  BY <1>0, WireMoves
<1>f. \A a \in Assigns : at[a] \in {"checking", "done"} => a \in wire \/ stream = "dead"
  BY DEF FramesAreHeld
<1>o. stream' = "open" => stream = "open" /\ rx \notin TearingDown /\ sessionOpen /\ ~assignDone
  BY <1>0, <1>m DEF TypeOK, FramesOfLoads, TeardownOrder
<1>w. ASSUME \A a \in Assigns : at'[a] \in {"checking", "done"} => at[a] \in {"checking", "done"}
      PROVE  \A a \in Assigns : at'[a] \in {"checking", "done"} => a \in wire' \/ stream' = "dead"
  BY <1>w, <1>m, <1>f
<1> DEFINE Has == wire \cup ControlHas \cup TasksHave \cup LoopHas
<1>h. ASSUME \A a \in Assigns : at'[a] \in {"checking", "done"} => a \in wire' \/ stream' = "dead",
             stream' = "open" /\ ~serviceStop' /\ read \subseteq Has => read' \subseteq Has'
      PROVE  FramesAreHeld'
  BY <1>h, <1>m, <1>o DEF FramesAreHeld
<1> HIDE DEF Has
<1>1. CASE ReadAssign
  <2>1. PICK b \in Assigns :
           /\ at' = [at EXCEPT ![b] = "queued"] /\ read' = read \cup {b} /\ rx = "reading"
           /\ UNCHANGED <<wire, rx, rxJob, ctlJob, controlQ>>
    BY <1>1 DEF ReadAssign, Take
  <2>2. \A a \in Assigns : at'[a] \in {"checking", "done"} => at[a] \in {"checking", "done"}
    BY <2>1, <1>0 DEF TypeOK
  <2>3. TasksHave' = TasksHave \cup {b}
    BY <2>1, <1>0 DEF TypeOK, TasksHave, InPool
  <2>4. ControlHas' = ControlHas /\ LoopHas' = LoopHas
    BY <2>1 DEF ControlHas, LoopHas, InHand, Arriving
  <2> QED BY <1>w, <1>h, <2>1, <2>2, <2>3, <2>4 DEF Has
<1>2. CASE ReadLoad \/ ReadBench \/ ReadUnload
  <2>1. PICK f \in Frames :
           /\ read' = read \cup {f} /\ rx = "reading" /\ rx' \in {"pushing", "writing"} /\ rxJob' = f
           /\ UNCHANGED <<at, wire, ctlJob, controlQ>>
    BY <1>2 DEF ReadLoad, ReadBench, ReadUnload, Take, Frames
  <2>2. /\ TasksHave' = TasksHave /\ ControlHas \cup LoopHas \subseteq ControlHas' \cup LoopHas'
        /\ f \in ControlHas' \cup LoopHas'
    BY <2>1 DEF ControlHas, LoopHas, InHand, Arriving, TasksHave
  <2> QED BY <1>w, <1>h, <2>1, <2>2 DEF Has
<1>3. CASE PushControl
  <2>1. controlQ \in Seq(Controls) /\ rxJob \in Controls /\ rx = "pushing"
    BY <1>3, <1>0 DEF PushControl, ControlJobs, Arriving, TypeOK
  <2>2. Elements(controlQ') = Elements(controlQ) \cup {rxJob}
    BY <1>3, <2>1, AppendElements DEF PushControl
  <2>3. /\ UNCHANGED <<at, wire, read, ctlJob>> /\ rx' = "reading"
    BY <1>3 DEF PushControl
  <2>4. TasksHave' = TasksHave /\ ControlHas' = ControlHas /\ LoopHas' = LoopHas
    BY <2>1, <2>2, <2>3 DEF ControlHas, LoopHas, InHand, Arriving, TasksHave
  <2> QED BY <1>w, <1>h, <2>3, <2>4 DEF Has
<1>4. CASE WriteInline
  <2>1. /\ UNCHANGED <<at, read, ctlJob, controlQ, stream>> /\ rx = "writing"
        /\ rx' \in {"checking", "closing"}
        /\ stream = "open" => wire' = wire \cup {rxJob}
    BY <1>4 DEF WriteInline, WriteFrame
  <2>2. TasksHave' = TasksHave /\ ControlHas' = ControlHas /\ LoopHas = {rxJob} /\ LoopHas' = {}
    BY <2>1 DEF ControlHas, LoopHas, InHand, Arriving, TasksHave
  <2> QED BY <1>w, <1>h, <2>1, <2>2 DEF Has
<1>5. CASE CheckInline \/ ReadFails \/ EndSession \/ AnnounceAssignDone
  <2>1. /\ UNCHANGED <<at, read, wire, ctlJob, controlQ>> /\ rx \notin {"pushing", "writing"}
        /\ rx' \notin {"pushing", "writing"}
    BY <1>5 DEF CheckInline, ReadFails, EndSession, AnnounceAssignDone
  <2>2. TasksHave' = TasksHave /\ ControlHas' = ControlHas /\ LoopHas' = LoopHas
    BY <2>1 DEF ControlHas, LoopHas, InHand, Arriving, TasksHave
  <2> QED BY <1>w, <1>h, <2>1, <2>2 DEF Has
<1>6. CASE CloseControl \/ FinishStream \/ Return
  <2>1. UNCHANGED at /\ rx \in TearingDown
    BY <1>6 DEF CloseControl, FinishStream, Return, TearingDown
  <2> QED BY <1>w, <1>h, <1>o, <2>1
<1>7. CASE NotifyGate
  <2>1. rx \in TearingDown /\ WakeSleepers
    BY <1>7 DEF NotifyGate, TearingDown
  <2> QED BY <1>w, <1>h, <1>o, <2>1 DEF WakeSleepers
<1>8. CASE CtlTake
  <2>1. controlQ \in Seq(Controls) /\ controlQ # <<>>
    BY <1>8, <1>0 DEF CtlTake, TypeOK
  <2>2. Elements(controlQ) = {Head(controlQ)} \cup Elements(Tail(controlQ)) /\ Head(controlQ) \in Controls
    BY <2>1, HeadTailElements
  <2>3. InHand = {} /\ InHand' = {Head(controlQ)}
    BY <1>8, <2>2, <1>0 DEF CtlTake, ControlJobs, InHand, Controls, Frames
  <2>4. UNCHANGED <<at, read, wire, rx, rxJob>> /\ controlQ' = Tail(controlQ)
    BY <1>8 DEF CtlTake
  <2>5. TasksHave' = TasksHave /\ ControlHas' = ControlHas /\ LoopHas' = LoopHas
    BY <2>2, <2>3, <2>4 DEF ControlHas, LoopHas, Arriving, TasksHave
  <2> QED BY <1>w, <1>h, <2>4, <2>5 DEF Has
<1>9. CASE CtlLeave \/ FetchEnds \/ LoadSucceeds \/ LoadFails
  <2>1. UNCHANGED <<at, read, wire, rx, rxJob, ctlJob, controlQ>>
    BY <1>9 DEF CtlLeave, FetchEnds, LoadSucceeds, LoadFails
  <2>2. TasksHave' = TasksHave /\ ControlHas' = ControlHas /\ LoopHas' = LoopHas
    BY <2>1 DEF ControlHas, LoopHas, InHand, Arriving, TasksHave
  <2> QED BY <1>w, <1>h, <2>1, <2>2 DEF Has
<1>10. CASE CtlWrite
  <2>1. UNCHANGED <<at, read, rx, rxJob, ctlJob, controlQ>>
    BY <1>10 DEF CtlWrite, WriteFrame
  <2>2. TasksHave' = TasksHave /\ ControlHas' = ControlHas /\ LoopHas' = LoopHas
    BY <2>1 DEF ControlHas, LoopHas, InHand, Arriving, TasksHave
  <2>3. Has \subseteq Has'
    BY <1>m, <2>2 DEF Has
  <2> QED BY <1>w, <1>h, <2>1, <2>3
<1>11. CASE CtlCheck \/ CtlRelease
  <2>1. /\ UNCHANGED <<at, read, wire, rx, rxJob, controlQ, stream, serviceStop>>
        /\ ctlJob' \in {None, ctlJob}
        /\ ctlJob \in wire \/ stream = "dead" \/ serviceStop
    BY <1>11, <1>0 DEF CtlCheck, CtlRelease, FramesOfLoads
  <2>2. /\ TasksHave' = TasksHave /\ LoopHas' = LoopHas
        /\ stream = "open" /\ ~serviceStop => ControlHas \subseteq wire \cup ControlHas'
    BY <2>1 DEF ControlHas, LoopHas, InHand, Arriving, TasksHave
  <2> QED BY <1>w, <1>h, <2>1, <2>2 DEF Has
<1>12. CASE CtlNotify
  <2>1. UNCHANGED <<read, wire, rx, rxJob, ctlJob, controlQ>> /\ WakeSleepers
    BY <1>12 DEF CtlNotify
  <2>2. TasksHave' = TasksHave /\ ControlHas' = ControlHas /\ LoopHas' = LoopHas
    BY <2>1 DEF ControlHas, LoopHas, InHand, Arriving, TasksHave, WakeSleepers, InPool
  <2>3. \A a \in Assigns : at'[a] \in {"checking", "done"} => at[a] \in {"checking", "done"}
    BY <2>1 DEF WakeSleepers
  <2> QED BY <1>w, <1>h, <2>1, <2>2, <2>3 DEF Has
<1>13. CASE BenchEnds
  <2>1. /\ UNCHANGED <<at, read, wire, rx, rxJob, controlQ, stream, serviceStop>>
        /\ ctlJob' = ctlJob \/ Abandoned
    BY <1>13 DEF BenchEnds
  <2>2. /\ TasksHave' = TasksHave /\ LoopHas' = LoopHas
        /\ ~Abandoned => ControlHas' = ControlHas
    BY <2>1 DEF ControlHas, LoopHas, InHand, Arriving, TasksHave
  <2>3. stream' = "open" /\ ~serviceStop' => ~Abandoned
    BY <1>o, <2>1 DEF Abandoned
  <2> QED BY <1>w, <1>h, <2>1, <2>2, <2>3 DEF Has
<1>14. CASE StartTask
  <2>1. /\ UNCHANGED <<read, wire, rx, rxJob, ctlJob, controlQ>>
        /\ at[Head(poolQ)] = "queued" /\ at' = [at EXCEPT ![Head(poolQ)] = "gate"]
    BY <1>14 DEF StartTask, AssignMoves
  <2>2. TasksHave' = TasksHave
    BY <2>1, <1>0 DEF TypeOK, TasksHave, InPool
  <2>3. ControlHas' = ControlHas /\ LoopHas' = LoopHas
    BY <2>1 DEF ControlHas, LoopHas, InHand, Arriving
  <2>4. \A a \in Assigns : at'[a] \in {"checking", "done"} => at[a] \in {"checking", "done"}
    BY <2>1, <1>0 DEF TypeOK
  <2> QED BY <1>w, <1>h, <2>1, <2>2, <2>3, <2>4 DEF Has
<1>15. CASE Helpers \/ Environment \/ UNCHANGED vars
  <2>1. UNCHANGED <<at, read, wire, rx, rxJob, ctlJob, controlQ>>
    BY <1>15 DEF Helpers, HeartbeatLeaves, WatcherRelays, WatcherCancels, Environment, StreamBreaks, Stop
  <2>2. TasksHave' = TasksHave /\ ControlHas' = ControlHas /\ LoopHas' = LoopHas
    BY <2>1 DEF ControlHas, LoopHas, InHand, Arriving, TasksHave
  <2> QED BY <1>w, <1>h, <2>1, <2>2 DEF Has
<1>16. ASSUME NEW b \in Assigns, AssignStep(b) \/ SpuriousWakeup(b) \/ ServeEnds(b)
       PROVE  FramesAreHeld'
  <2>1. UNCHANGED <<read, rx, rxJob, ctlJob, controlQ>>
    BY <1>16, TasksKeep
  <2>2. ControlHas' = ControlHas /\ LoopHas' = LoopHas
    BY <2>1 DEF ControlHas, LoopHas, InHand, Arriving
  <2>3. PICK from \in AtStates, to \in AtStates :
           /\ at[b] = from /\ at' = [at EXCEPT ![b] = to] /\ from \in InPool
           /\ to \in InPool \/ to = "done" \/ assignDone
           /\ to = "checking" => b \in wire' \/ stream' = "dead"
           /\ to = "done" => from = "checking"
    BY <1>16, <1>0 DEF AssignStep, PassGate, BlockAtGate, FallAsleep, FindModel, AssignWrite, AssignCheck,
                 SpuriousWakeup, ServeEnds, AssignMoves, AtStates, InPool, WriteFrame, TypeOK
  <2>4. \A a \in Assigns : at'[a] \in {"checking", "done"} => a \in wire' \/ stream' = "dead"
    BY <2>3, <1>0, <1>m, <1>f DEF TypeOK
  <2>5. stream' = "open" => TasksHave \subseteq wire' \cup TasksHave'
    <3>1. CASE to \in InPool
      BY <2>3, <3>1, <1>0 DEF TasksHave, TypeOK
    <3>2. CASE to = "done"
      <4>1. b \in wire' \/ stream' = "dead"
        BY <2>3, <2>4, <3>2, <1>0 DEF TypeOK
      <4> QED BY <2>3, <3>2, <4>1, <1>0 DEF TasksHave, TypeOK
    <3>3. CASE assignDone
      BY <3>3, <1>o
    <3> QED BY <2>3, <3>1, <3>2, <3>3
  <2>6. stream' = "open" => Has \subseteq Has'
    BY <1>m, <2>2, <2>5 DEF Has
  <2> QED BY <1>h, <2>1, <2>4, <2>6
<1> QED
  BY <1>1, <1>2, <1>3, <1>4, <1>5, <1>6, <1>7, <1>8, <1>9, <1>10, <1>11, <1>12, <1>13, <1>14,
     <1>15, <1>16
     DEF Next, Reads, RxStep, CtlStep, CtlWorkEnds

LEMMA WaitInvInit == Init => WaitInv
<1> SUFFICES ASSUME Init PROVE WaitInv
  OBVIOUS
<1>1. HubInv
  BY SessionInvInit DEF HubInv, Init
<1>2. \A a \in Assigns : at[a] = "unread"
  BY DEF Init
<1>3. SleepersAreWoken /\ PostedAreQueued
  BY <1>2 DEF SleepersAreWoken, PostedAreQueued
<1>4. LoadsHaveAPlace /\ TeardownOrder
  BY DEF Init, LoadsHaveAPlace, TeardownOrder
<1>5. FramesAreHeld
  BY <1>2 DEF Init, FramesAreHeld
<1> QED BY <1>1, <1>3, <1>4, <1>5 DEF WaitInv

\* What is waited for, and by whom, in every state of a session.
THEOREM WaitInvariant == Spec => []WaitInv
<1>1. WaitInv /\ [Next]_vars => WaitInv'
  <2>1. SessionInv /\ [Next]_vars => SessionInv'
    BY TypeStep, ControlJobsStep, AheadStep, PendingStep, WaitStep, FramesStep,
       AnsweredStep, ResultOrderStep
       DEF SessionInv, GateInv
  <2>2. HubInv /\ [Next]_vars => HubInv'
    BY <2>1, HubInvStep DEF HubInv
  <2> QED BY <2>2, SleepersStep, LoadsPlaceStep, TeardownStep, PostedStep, HeldStep
          DEF WaitInv, HubInv, SessionInv, GateInv
<1> QED BY <1>1, WaitInvInit, PTL DEF Spec

\* A load of a model whose count is not zero is somewhere.
LEMMA PendingIsSomewhere ==
    ASSUME TypeOK, PendingCountsHeldLoads, LoadsHaveAPlace, NEW a \in Assigns, pending[ModelOf[a]] > 0
    PROVE  ControlHas # {}
<1>1. Cardinality(Held(ModelOf[a])) > 0
  BY ModelOfAssumption DEF PendingCountsHeldLoads
<1>2. Held(ModelOf[a]) # {}
  BY <1>1, FS_EmptySet
<1> QED BY <1>2 DEF Held, LoadsHaveAPlace

\* When every thread of a session waits, it waits for the hub, with the stream
\* alive and every frame it read answered, for any frames and any interleaving:
\* no lost wakeup at the gate, no join that waits for a thread that waits.
THEOREM NobodyWaitsForNothing == Spec => []OnlyTheHubIsAwaited
<1>1. WaitInv => OnlyTheHubIsAwaited
  <2> SUFFICES ASSUME WaitInv, AllWait, ~Over
               PROVE  rx = "reading" /\ ~stopping /\ read \subseteq wire
    BY DEF OnlyTheHubIsAwaited
  <2>0. TypeOK /\ ControlJobs /\ FramesOfLoads /\ PendingCountsHeldLoads
    BY DEF WaitInv, HubInv, SessionInv, GateInv
  <2>1. rx \in {"reading", "finishing"} /\ Arriving = {} /\ LoopHas = {}
    BY DEF AllWait, RxWaits, Arriving, LoopHas
  <2>2. ctl \in {"idle", "gone"} /\ ctlJob = None /\ controlQ = <<>>
    BY <2>0 DEF AllWait, CtlWaits, WaitInv, TeardownOrder, ControlJobs
  <2>3. ControlHas = {}
    BY <2>1, <2>2 DEF ControlHas, InHand, Elements
  <2>4. Active = {}
    <3> SUFFICES ASSUME NEW a \in Active PROVE FALSE
      OBVIOUS
    <3>1. a \in Assigns /\ at[a] = "asleep"
      BY DEF AllWait, TasksWait, Active
    <3>2. pending[ModelOf[a]] > 0
      BY <2>2, <3>1 DEF WaitInv, SleepersAreWoken
    <3> QED BY <2>0, <2>3, <3>1, <3>2, PendingIsSomewhere DEF WaitInv
  <2>5. poolQ = <<>>
    BY <2>4 DEF AllWait, PoolWaits
  <2>6. TasksHave = {}
    BY <2>4, <2>5 DEF TasksHave, Active, WaitInv, PostedAreQueued, Elements
  <2>7. rx = "reading" /\ stream = "open"
    <3> SUFFICES ASSUME rx = "finishing" PROVE FALSE
      BY <2>1 DEF AllWait, RxWaits
    <3>1. controlDone /\ sessionDone
      BY DEF WaitInv, TeardownOrder
    <3>2. ctl = "gone" /\ heartbeat = "gone" /\ watcher = "gone"
      BY <3>1 DEF AllWait, CtlWaits, HeartbeatWaits, WatcherWaits
    <3> QED BY <2>4, <2>5, <3>2 DEF AllWait, RxWaits
  <2>8. ~stopping
    BY <2>7 DEF AllWait, WatcherWaits, WaitInv, TeardownOrder
  <2>9. ~serviceStop
    BY <2>8 DEF WaitInv, HubInv
  <2>10. read \subseteq wire
    BY <2>1, <2>3, <2>6, <2>7, <2>9 DEF WaitInv, FramesAreHeld
  <2> QED BY <2>7, <2>8, <2>10
<1> QED BY <1>1, WaitInvariant, PTL
=============================================================================
