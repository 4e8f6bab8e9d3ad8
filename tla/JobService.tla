----------------------------- MODULE JobService -----------------------------
(***************************************************************************)
(* The jobs inside WorkerService::execute (src/worker_service.cpp): the    *)
(* cancel map, which outlives the jobs it names, the in-flight counts the  *)
(* heartbeat subtracts from the pool, and the polls that end work nobody   *)
(* waits for.  Frames run on many threads; a step is one critical section  *)
(* (job_cancel_mu_, active_mu_, the pool's own mutex) or one poll.         *)
(*                                                                         *)
(* One model and its context pool; module Session is how frames get here.  *)
(***************************************************************************)
EXTENDS Integers, Sequences, FiniteSets, FiniteSetsExt, SequencesExt

CONSTANTS
    Jobs,         \* job ids; the hub may dispatch one again after its answer
    Kind,         \* "single" (chat, embed), "batch" or "load", of each job
    PoolSize,     \* contexts of the model, pool_size()
    Items,        \* items of a batch
    MaxPending,   \* kMaxPendingCancels
    MaxDispatches \* bound: times one job id is dispatched

ASSUME JobsAssumption == IsFiniteSet(Jobs)
ASSUME KindAssumption == Kind \in [Jobs -> {"single", "batch", "load"}]
ASSUME SizesAssumption ==
    {PoolSize, Items, MaxPending, MaxDispatches} \subseteq Nat \ {0}

VARIABLES
    at,         \* where each job is
    left,       \* items of the job not started
    guards,     \* ActiveGuards the job holds
    slots,      \* contexts the job holds
    aborted,    \* the batch's stop source has fired
    cancels,    \* cancel_requested_, oldest first
    active,     \* active_per_model_ of the model
    streaming,  \* session_open_ and not stopping_
    answered    \* history: times each job has been answered, the current one not counted

jobVars == <<at, left, guards, slots, aborted>>
serviceVars == <<jobVars, cancels, active, streaming, answered>>

JobPlaces == {"out", "queued", "running", "ended", "cleared"}
Entries == [job : Jobs, old : BOOLEAN, during : 0 .. MaxDispatches]

Pending(j) == \E i \in DOMAIN cancels : cancels[i].job = j

InUse == SumFunctionOnSet(slots, Jobs)
Guards == SumFunctionOnSet(guards, Jobs)

\* Mutant: the polls look at the cancel map only.
ShouldStopIfCancelled(j) == Pending(j)

\* is_cancelled of every kind of job, less the batch's own stop token.
ShouldStop(j) == ~streaming \/ Pending(j)

JobInit ==
    /\ at = [j \in Jobs |-> "out"]
    /\ left = [j \in Jobs |-> 0] /\ guards = [j \in Jobs |-> 0]
    /\ slots = [j \in Jobs |-> 0] /\ aborted = [j \in Jobs |-> FALSE]
    /\ cancels = <<>> /\ active = 0 /\ streaming = TRUE
    /\ answered = [j \in Jobs |-> 0]

-----------------------------------------------------------------------------
(* The hub, the stream and the clock.                                      *)

Dispatch(j) ==
    /\ streaming /\ at[j] = "out" /\ answered[j] < MaxDispatches
    /\ at' = [at EXCEPT ![j] = "queued"]
    /\ UNCHANGED <<left, guards, slots, aborted, cancels, active, streaming, answered>>

\* end_session or request_stop; the next session begins when the threads of
\* this one are joined.
EndSession ==
    /\ streaming /\ streaming' = FALSE
    /\ UNCHANGED <<jobVars, cancels, active, answered>>

BeginSession ==
    /\ ~streaming /\ \A j \in Jobs : at[j] = "out"
    /\ streaming' = TRUE
    /\ UNCHANGED <<jobVars, cancels, active, answered>>

\* kCancelRetention passes for the oldest entry that is not past it.  A job
\* that runs polls far more often than that; one that is queued, behind a load
\* of its model for instance, does not poll at all.
EntryAges ==
    /\ \E i \in DOMAIN cancels :
          /\ ~cancels[i].old /\ \A h \in 1 .. i - 1 : cancels[h].old
          /\ at[cancels[i].job] # "running"
          /\ cancels' = [cancels EXCEPT ![i].old = TRUE]
    /\ UNCHANGED <<jobVars, active, streaming, answered>>

-----------------------------------------------------------------------------
(* The cancel map.                                                         *)

\* request_job_cancel: sweep what is past its retention, keep the arrival time
\* of an entry that is there, drop the oldest above the cap.
Swept == SelectSeq(cancels, LAMBDA e : ~e.old)
Recorded(j) ==
    IF \E i \in DOMAIN Swept : Swept[i].job = j THEN Swept
    ELSE Append(Swept, [job |-> j, old |-> FALSE, during |-> answered[j]])

\* Mutant: the cap is off by one.
CappedEarly(s) ==
    IF Len(s) >= MaxPending THEN SubSeq(s, Len(s) - MaxPending + 2, Len(s)) ELSE s

Capped(s) == IF Len(s) > MaxPending THEN SubSeq(s, Len(s) - MaxPending + 1, Len(s)) ELSE s

RequestCancel(j) ==
    /\ streaming
    /\ cancels' = Capped(Recorded(j))
    /\ UNCHANGED <<jobVars, active, streaming, answered>>

\* clear_job_cancel.
Without(j) == SelectSeq(cancels, LAMBDA e : e.job # j)

-----------------------------------------------------------------------------
(* execute() of one job.                                                   *)

\* It returns before its work starts and without clear_job_cancel: model not
\* loaded, not of the kind, unreadable payload, nothing to do, no device
\* enabled, a tokenization, an exception.
ReturnEarly(j) ==
    /\ at[j] = "queued"
    /\ at' = [at EXCEPT ![j] = "out"]
    /\ answered' = [answered EXCEPT ![j] = @ + 1]
    /\ UNCHANGED <<left, guards, slots, aborted, cancels, active, streaming>>

\* The work starts: a single job takes its ActiveGuard for all of it.
Begin(j) ==
    /\ at[j] = "queued"
    /\ at' = [at EXCEPT ![j] = "running"]
    /\ left' = [left EXCEPT ![j] = IF Kind[j] = "batch" THEN Items ELSE 0]
    /\ aborted' = [aborted EXCEPT ![j] = FALSE]
    /\ IF Kind[j] = "single"
         THEN guards' = [guards EXCEPT ![j] = 1] /\ active' = active + 1
         ELSE UNCHANGED <<guards, active>>
    /\ UNCHANGED <<slots, cancels, streaming, answered>>

\* Mutant: an item is not counted by itself.
StartItemUncounted(j) ==
    /\ at[j] = "running" /\ left[j] > 0 /\ ~aborted[j] /\ guards[j] < PoolSize
    /\ left' = [left EXCEPT ![j] = @ - 1]
    /\ guards' = [guards EXCEPT ![j] = @ + 1]
    /\ UNCHANGED <<at, slots, aborted, cancels, active, streaming, answered>>

\* A batch starts an item under a guard of its own, at most a pool at a time.
StartItem(j) ==
    /\ at[j] = "running" /\ left[j] > 0 /\ ~aborted[j] /\ guards[j] < PoolSize
    /\ left' = [left EXCEPT ![j] = @ - 1]
    /\ guards' = [guards EXCEPT ![j] = @ + 1]
    /\ active' = active + 1
    /\ UNCHANGED <<at, slots, aborted, cancels, streaming, answered>>

\* A guard's holder gets a context.
Acquire(j) ==
    /\ at[j] = "running" /\ slots[j] < guards[j] /\ InUse < PoolSize
    /\ slots' = [slots EXCEPT ![j] = @ + 1]
    /\ UNCHANGED <<at, left, guards, aborted, cancels, active, streaming, answered>>

\* An item ends, with its context or without one yet; an error stops the rest
\* of the batch.
ItemEnds(j, held, failed) ==
    /\ at[j] = "running" /\ Kind[j] = "batch" /\ guards[j] > 0
    /\ held <= slots[j] /\ (held = 0 => slots[j] < guards[j])
    /\ slots' = [slots EXCEPT ![j] = @ - held]
    /\ guards' = [guards EXCEPT ![j] = @ - 1]
    /\ active' = active - 1
    /\ aborted' = [aborted EXCEPT ![j] = @ \/ failed]
    /\ UNCHANGED <<at, left, cancels, streaming, answered>>

\* A result takes a context; an item can fail before it has one.
ItemReturns(j) ==
    \E held \in 0 .. 1, failed \in BOOLEAN : (held = 0 => failed) /\ ItemEnds(j, held, failed)

ItemPolls(j) ==
    /\ ShouldStop(j) \/ aborted[j]
    /\ \E held \in 0 .. 1 : ItemEnds(j, held, TRUE)

BatchEnds(j) ==
    /\ at[j] = "running" /\ Kind[j] = "batch"
    /\ guards[j] = 0 /\ (left[j] = 0 \/ aborted[j])
    /\ at' = [at EXCEPT ![j] = "ended"]
    /\ left' = [left EXCEPT ![j] = 0]
    /\ UNCHANGED <<guards, slots, aborted, cancels, active, streaming, answered>>

\* A generation, an embedding or a fetch ends: with its result, an error of its
\* own, or because its poll told it to.
WorkEnds(j) ==
    /\ at[j] = "running" /\ Kind[j] # "batch"
    /\ at' = [at EXCEPT ![j] = "ended"]
    /\ slots' = [slots EXCEPT ![j] = 0]
    /\ UNCHANGED <<left, guards, aborted, cancels, active, streaming, answered>>

WorkPolls(j) == ShouldStop(j) /\ WorkEnds(j)

ClearCancel(j) ==
    /\ at[j] = "ended"
    /\ at' = [at EXCEPT ![j] = "cleared"]
    /\ cancels' = Without(j)
    /\ answered' = [answered EXCEPT ![j] = @ + 1]
    /\ UNCHANGED <<left, guards, slots, aborted, active, streaming>>

\* execute() returns its frame and the job's guard is destroyed.
Return(j) ==
    /\ at[j] = "cleared"
    /\ at' = [at EXCEPT ![j] = "out"]
    /\ guards' = [guards EXCEPT ![j] = 0]
    /\ active' = active - guards[j]
    /\ UNCHANGED <<left, slots, aborted, cancels, streaming, answered>>

\* Mutant: a throw leaves the count as it was.
ThrowsCounted(j) ==
    /\ at[j] = "running" /\ Kind[j] = "single"
    /\ at' = [at EXCEPT ![j] = "out"]
    /\ guards' = [guards EXCEPT ![j] = 0] /\ slots' = [slots EXCEPT ![j] = 0]
    /\ answered' = [answered EXCEPT ![j] = @ + 1]
    /\ UNCHANGED <<left, aborted, cancels, active, streaming>>

\* llama or ggml throws out of a running job: the frames unwind past
\* clear_job_cancel, and the guard and the context go back.
Throws(j) ==
    /\ at[j] = "running" /\ Kind[j] = "single"
    /\ at' = [at EXCEPT ![j] = "out"]
    /\ guards' = [guards EXCEPT ![j] = 0] /\ active' = active - guards[j]
    /\ slots' = [slots EXCEPT ![j] = 0]
    /\ answered' = [answered EXCEPT ![j] = @ + 1]
    /\ UNCHANGED <<left, aborted, cancels, streaming>>

-----------------------------------------------------------------------------
Execute(j) ==
    \/ ReturnEarly(j) \/ Begin(j) \/ StartItem(j) \/ Acquire(j)
    \/ ItemReturns(j) \/ ItemPolls(j) \/ BatchEnds(j)
    \/ WorkEnds(j) \/ WorkPolls(j) \/ ClearCancel(j) \/ Return(j) \/ Throws(j)

JobNext ==
    \/ EndSession \/ BeginSession \/ EntryAges
    \/ \E j \in Jobs : Dispatch(j) \/ RequestCancel(j) \/ Execute(j)

JobSpec == JobInit /\ [][JobNext]_serviceVars

\* The threads run, work that has been told to stop stops at its next poll,
\* and nothing is assumed of work that has not.
JobLiveSpec ==
    /\ JobSpec
    /\ \A j \in Jobs :
          /\ WF_serviceVars(Begin(j)) /\ WF_serviceVars(StartItem(j))
          /\ WF_serviceVars(ItemPolls(j)) /\ WF_serviceVars(WorkPolls(j))
          /\ WF_serviceVars(BatchEnds(j)) /\ WF_serviceVars(ClearCancel(j)) /\ WF_serviceVars(Return(j))

-----------------------------------------------------------------------------
(* Properties.                                                             *)

\* The variables' types.
JobTypeOK ==
    /\ at \in [Jobs -> JobPlaces] /\ left \in [Jobs -> 0 .. Items]
    /\ guards \in [Jobs -> 0 .. PoolSize] /\ slots \in [Jobs -> 0 .. PoolSize]
    /\ aborted \in [Jobs -> BOOLEAN] /\ cancels \in Seq(Entries)
    /\ active \in Nat /\ streaming \in BOOLEAN
    /\ answered \in [Jobs -> 0 .. MaxDispatches]

\* The capacity a heartbeat derives at any moment, pool less active, is never
\* more than the contexts that are free (run_job, worker_service.cpp:603-617).
CapacityIsHonest == PoolSize - active <= PoolSize - InUse

\* When no job executes, none is counted: every way out of execute(), a throw
\* too, gives its guards back (ActiveGuard).
CountsReturnToZero == (\A j \in Jobs : at[j] \in {"out", "queued"}) => active = 0

\* A running job whose cancel is recorded and within its retention ends,
\* whatever other cancels arrive up to the cap and however busy the pool is.
Recent(j) == \E i \in DOMAIN cancels : cancels[i].job = j /\ ~cancels[i].old
CancelEndsItsJob == \A j \in Jobs : at[j] = "running" /\ Recent(j) ~> at[j] # "running"

\* When the stream closes or the worker stops, every job in flight returns,
\* those waiting for a context too (abandoned(), acquire_ctx).  This is what
\* Session assumes of abandoned work.
AbandonedWorkEnds == ~streaming ~> \A j \in Jobs : at[j] = "out"

\* What worker_service.hpp:311-312 says of clear_job_cancel: "called when the
\* job's execute() path completes (matched or not)".  So a running job never
\* finds a cancel from before the last time it was answered.
CancelIsForThisDispatch ==
    \A j \in Jobs : at[j] = "running" =>
        \A i \in DOMAIN cancels : cancels[i].job = j => cancels[i].during = answered[j]
=============================================================================
