---------------------------- MODULE MCModelStore ----------------------------
(* ModelStore with two models that share a file name: one with a digest,   *)
(* one without it and from another URL, which asks for the file in two     *)
(* roles and so looks it up twice.  The object at the first URL may be     *)
(* replaced by a shorter one.                                              *)
EXTENDS ModelStore

CONSTANTS m1, m2, f1, u1, u2, v1, v2, v3

MCParts == [m \in Models |->
    IF m = m1 THEN <<[file |-> f1, url |-> u1, want |-> v1]>>
              ELSE [role \in 1 .. 2 |-> [file |-> f1, url |-> u2, want |-> NoDigest]]]
MCSize == [v \in Versions |-> CASE v = v1 -> 3 [] v = v2 -> 2 [] v = v3 -> 1]
MCServes == [u \in Urls |-> IF u = u1 THEN {v1, v2} ELSE {v2, v3}]
=============================================================================
