------------------------------ MODULE HubView ------------------------------
(***************************************************************************)
(* One session as MASS may rely on it, with no thread, queue or lock in    *)
(* sight: which jobs the worker has taken off the stream, which it has     *)
(* answered, and which loads it gave up without an answer.  A job is       *)
(* answered at most once, while the stream is open; an assign is answered  *)
(* only after every load of its model that was taken before it; a load is  *)
(* given up only when the stream has died or a stop was asked for          *)
(* (the guarantees stated in the comments of src/runner.cpp).              *)
(***************************************************************************)
EXTENDS Naturals, FiniteSets

CONSTANTS Models, Loads, Benches, Assigns, Unloads, ModelOf

VARIABLES open,       \* the stream is open
          stopAsked,  \* Runner::stop has been called
          taken,      \* frames the worker has read
          answered,   \* jobs whose terminal frame is on the wire
          givenUp,    \* loads that ended without a frame on the wire
          behind      \* per assign, the loads of its model taken before it

vars == <<open, stopAsked, taken, answered, givenUp, behind>>

Answerable == Loads \cup Benches \cup Assigns \cup Unloads

Init ==
    /\ open = TRUE /\ stopAsked = FALSE
    /\ taken = {} /\ answered = {} /\ givenUp = {}
    /\ behind = [a \in Assigns |-> {}]

Break == /\ open /\ open' = FALSE
         /\ UNCHANGED <<stopAsked, taken, answered, givenUp, behind>>

AskStop == /\ ~stopAsked /\ stopAsked' = TRUE
           /\ UNCHANGED <<open, taken, answered, givenUp, behind>>

TakeAssign(a) ==
    /\ a \in Assigns \ taken
    /\ taken' = taken \cup {a}
    /\ behind' = [behind EXCEPT ![a] = {l \in Loads \cap taken : ModelOf[l] = ModelOf[a]}]
    /\ UNCHANGED <<open, stopAsked, answered, givenUp>>

TakeOther(f) ==
    /\ f \in (Loads \cup Benches \cup Unloads) \ taken
    /\ taken' = taken \cup {f}
    /\ UNCHANGED <<open, stopAsked, answered, givenUp, behind>>

Answer(f) ==
    /\ open /\ f \in (Answerable \cap taken) \ (answered \cup givenUp)
    /\ f \in Assigns => behind[f] \subseteq answered \cup givenUp
    /\ answered' = answered \cup {f}
    /\ UNCHANGED <<open, stopAsked, taken, givenUp, behind>>

GiveUp(l) ==
    /\ ~open \/ stopAsked
    /\ l \in (Loads \cap taken) \ answered
    /\ givenUp' = givenUp \cup {l}
    /\ UNCHANGED <<open, stopAsked, taken, answered, behind>>

Next ==
    \/ Break \/ AskStop
    \/ \E a \in Assigns : TakeAssign(a)
    \/ \E f \in Answerable : TakeOther(f) \/ Answer(f) \/ GiveUp(f)

Spec == Init /\ [][Next]_vars
=============================================================================
