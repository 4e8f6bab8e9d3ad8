---------------------------- MODULE BatchRunner ----------------------------
(***************************************************************************)
(* run_batch_items (include/mass_worker/batch_runner.hpp): the items of a  *)
(* batch job on a few threads.  Threads share an index, a stop source, and *)
(* the first error under a mutex; the stop source is looked at before an   *)
(* index is taken, in a step of its own.                                   *)
(***************************************************************************)
EXTENDS Integers, FiniteSets

CONSTANTS
    N,        \* items
    Threads,  \* worker threads, min(max(max_concurrency, 1), N) of them
    NoItem,   \* a thread has no item in hand
    NoError   \* first_error is empty

Indexes == 0 .. N - 1
Errors == [index : Indexes, own : BOOLEAN]

ASSUME BatchAssumption ==
    /\ N \in Nat \ {0} /\ Threads # {}
    /\ NoItem \notin Nat /\ NoError \notin Errors

VARIABLES
    broken,     \* items that fail by themselves
    cancelled,  \* the job was cancelled or abandoned
    next,       \* the shared index
    pc,         \* where each thread is
    item,       \* the index it holds
    own,        \* its item failed by itself, and not because it saw an abort
    filled,     \* slots with a result
    first,      \* first_error: what failed and whether by itself
    aborting,   \* abort.stop_requested()
    joined      \* the threads are joined

batchVars == <<broken, cancelled, next, pc, item, own, filled, first, aborting, joined>>

\* "looking" at the stop source, "taking" an index, "working", with an error
\* to record, with an error recorded and the stop to request, or gone.
BatchPlaces == {"looking", "taking", "working", "failed", "recorded", "gone"}

BatchInit ==
    /\ broken \in SUBSET Indexes /\ cancelled = FALSE
    /\ next = 0 /\ pc = [t \in Threads |-> "looking"]
    /\ item = [t \in Threads |-> NoItem] /\ own = [t \in Threads |-> FALSE]
    /\ filled = {} /\ first = NoError /\ aborting = FALSE /\ joined = FALSE

Moves(t, place) == pc' = [pc EXCEPT ![t] = place]

Look(t) ==
    /\ pc[t] = "looking"
    /\ Moves(t, IF aborting THEN "gone" ELSE "taking")
    /\ UNCHANGED <<broken, cancelled, next, item, own, filled, first, aborting, joined>>

Take(t) ==
    /\ pc[t] = "taking"
    /\ next' = next + 1
    /\ IF next < N
         THEN Moves(t, "working") /\ item' = [item EXCEPT ![t] = next]
         ELSE Moves(t, "gone") /\ UNCHANGED item
    /\ UNCHANGED <<broken, cancelled, own, filled, first, aborting, joined>>

Succeed(t) ==
    /\ pc[t] = "working" /\ item[t] \notin broken
    /\ filled' = filled \cup {item[t]}
    /\ Moves(t, "looking") /\ item' = [item EXCEPT ![t] = NoItem]
    /\ UNCHANGED <<broken, cancelled, next, own, first, aborting, joined>>

\* Mutant: items poll the batch's stop and not the job's cancel.
FailDeaf(t, byItself) ==
    /\ pc[t] = "working"
    /\ IF byItself THEN item[t] \in broken ELSE aborting
    /\ Moves(t, "failed") /\ own' = [own EXCEPT ![t] = byItself]
    /\ UNCHANGED <<broken, cancelled, next, item, filled, first, aborting, joined>>

\* The item's own error or exception, or its poll saw an abort or a cancel.
Fail(t, byItself) ==
    /\ pc[t] = "working"
    /\ IF byItself THEN item[t] \in broken ELSE aborting \/ cancelled
    /\ Moves(t, "failed") /\ own' = [own EXCEPT ![t] = byItself]
    /\ UNCHANGED <<broken, cancelled, next, item, filled, first, aborting, joined>>

\* Mutant: the error of the lowest index is kept.
RecordLowest(t) ==
    /\ pc[t] = "failed"
    /\ first' = IF first = NoError \/ item[t] < first.index
                THEN [index |-> item[t], own |-> own[t]] ELSE first
    /\ Moves(t, "recorded")
    /\ UNCHANGED <<broken, cancelled, next, item, own, filled, aborting, joined>>

Record(t) ==
    /\ pc[t] = "failed"
    /\ first' = IF first = NoError THEN [index |-> item[t], own |-> own[t]] ELSE first
    /\ Moves(t, "recorded")
    /\ UNCHANGED <<broken, cancelled, next, item, own, filled, aborting, joined>>

RequestStop(t) ==
    /\ pc[t] = "recorded"
    /\ aborting' = TRUE
    /\ Moves(t, "looking") /\ item' = [item EXCEPT ![t] = NoItem]
    /\ UNCHANGED <<broken, cancelled, next, own, filled, first, joined>>

JoinThreads ==
    /\ ~joined /\ \A t \in Threads : pc[t] = "gone"
    /\ joined' = TRUE
    /\ UNCHANGED <<broken, cancelled, next, pc, item, own, filled, first, aborting>>

\* The hub cancels the job, or the session ends.
Cancel ==
    /\ ~cancelled /\ ~joined /\ cancelled' = TRUE
    /\ UNCHANGED <<broken, next, pc, item, own, filled, first, aborting, joined>>

Answered == joined /\ UNCHANGED batchVars

Step(t) ==
    \/ Look(t) \/ Take(t) \/ Succeed(t) \/ Fail(t, TRUE) \/ Fail(t, FALSE)
    \/ Record(t) \/ RequestStop(t)

BatchNext == Cancel \/ JoinThreads \/ Answered \/ \E t \in Threads : Step(t)

BatchSpec == BatchInit /\ [][BatchNext]_batchVars

\* Threads run; an item ends once it is told to.
BatchLiveSpec ==
    /\ BatchSpec /\ WF_batchVars(JoinThreads)
    /\ \A t \in Threads :
          WF_batchVars(Look(t) \/ Take(t) \/ Fail(t, FALSE) \/ Record(t) \/ RequestStop(t))

-----------------------------------------------------------------------------
(* Properties.                                                             *)

\* The variables' types.
BatchTypeOK ==
    /\ broken \subseteq Indexes /\ cancelled \in BOOLEAN
    /\ next \in Nat /\ pc \in [Threads -> BatchPlaces]
    /\ item \in [Threads -> Indexes \cup {NoItem}] /\ own \in [Threads -> BOOLEAN]
    /\ filled \subseteq Indexes /\ first \in Errors \cup {NoError}
    /\ aborting \in BOOLEAN /\ joined \in BOOLEAN

\* An item is worked on by one thread, and never again once it is done.
EachItemOnce ==
    \A t \in Threads : pc[t] = "working" =>
        /\ item[t] \notin filled
        /\ \A u \in Threads : pc[u] = "working" /\ item[u] = item[t] => u = t

\* With no error, every slot has its result when the threads are joined: the
\* dereferences at lines 97-99 are safe.
NoErrorNoGap == joined /\ first = NoError => filled = Indexes

\* The error a batch answers with is that of an item that failed by itself;
\* one that merely saw the abort never hides it (lines 29-39), unless the job
\* itself was cancelled.
FirstErrorIsRootCause == first # NoError => first.own \/ cancelled

\* A batch that is told to stop joins its threads.
StoppedBatchJoins == aborting \/ cancelled ~> joined
=============================================================================
