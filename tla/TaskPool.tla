------------------------------ MODULE TaskPool ------------------------------
(***************************************************************************)
(* What a client of the assign pool may rely on, with no thread in sight:  *)
(* tasks are accepted until the pool is closed, start in the order they    *)
(* were accepted, at most Capacity of them run at once, and the owner's    *)
(* join returns only once every accepted task has finished                 *)
(* (include/mass_worker/assign_pool.hpp, the class comment).               *)
(***************************************************************************)
EXTENDS Naturals, Sequences, FiniteSets

CONSTANTS Tasks,      \* task identities, each posted at most once
          Capacity    \* the cap on worker threads

VARIABLES waiting,    \* accepted tasks that have not started, oldest first
          active,     \* tasks being run
          finished,   \* tasks that ran to completion
          refused,    \* tasks posted after the pool was closed
          closed,     \* begin_shutdown has run
          joined      \* the destructor has returned

vars == <<waiting, active, finished, refused, closed, joined>>

Pending == {waiting[i] : i \in DOMAIN waiting}
Known == Pending \cup active \cup finished \cup refused

Init ==
    /\ waiting = <<>> /\ active = {} /\ finished = {} /\ refused = {}
    /\ closed = FALSE /\ joined = FALSE

Accept(t) ==
    /\ ~closed /\ t \notin Known
    /\ waiting' = Append(waiting, t)
    /\ UNCHANGED <<active, finished, refused, closed, joined>>

Refuse(t) ==
    /\ closed /\ ~joined /\ t \notin Known
    /\ refused' = refused \cup {t}
    /\ UNCHANGED <<waiting, active, finished, closed, joined>>

Start ==
    /\ waiting # <<>>
    /\ Cardinality(active) < Capacity
    /\ active' = active \cup {Head(waiting)}
    /\ waiting' = Tail(waiting)
    /\ UNCHANGED <<finished, refused, closed, joined>>

Complete(t) ==
    /\ t \in active
    /\ active' = active \ {t}
    /\ finished' = finished \cup {t}
    /\ UNCHANGED <<waiting, refused, closed, joined>>

Close ==
    /\ ~closed /\ closed' = TRUE
    /\ UNCHANGED <<waiting, active, finished, refused, joined>>

Join ==
    /\ closed /\ ~joined
    /\ waiting = <<>> /\ active = {}
    /\ joined' = TRUE
    /\ UNCHANGED <<waiting, active, finished, refused, closed>>

Next ==
    \/ \E t \in Tasks : Accept(t) \/ Refuse(t) \/ Complete(t)
    \/ Start
    \/ Close
    \/ Join

Spec == Init /\ [][Next]_vars
=============================================================================
