----------------------------- MODULE MCSession -----------------------------
(***************************************************************************)
(* Session on small sets of frames.  The hub sends each frame at most      *)
(* once, in every order, so each instance covers every interleaving of its *)
(* frames with the threads, a stop and a broken stream.                    *)
(***************************************************************************)
EXTENDS Session

CONSTANTS m1, m2, l1, l2, a1, a2, u1, b1

\* a1 and every load and unload name m1, a2 names m2: a job behind a reload
\* of its model, and one whose model has no load pending.
MCModelOf == [f \in Loads \cup Assigns \cup Unloads |-> IF f = a2 THEN m2 ELSE m1]

\* Every frame names the same model.
OneModelOf == [f \in Loads \cup Assigns \cup Unloads |-> m1]
=============================================================================
