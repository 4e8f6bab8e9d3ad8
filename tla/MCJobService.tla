---------------------------- MODULE MCJobService ----------------------------
(* JobService with one job of each kind, or a single and a batch. *)
EXTENDS JobService

CONSTANTS s1, b1, l1

MCKind == [j \in Jobs |-> CASE j = s1 -> "single" [] j = b1 -> "batch" [] OTHER -> "load"]
=============================================================================
