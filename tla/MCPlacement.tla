----------------------------- MODULE MCPlacement -----------------------------
(***************************************************************************)
(* A machine with one GPU, one with two, one with none, and one with a     *)
(* second GPU that reports no memory.  The restricted set names a GPU that *)
(* only two of them have.                                                  *)
(***************************************************************************)
EXTENDS Placement

Machines ==
    {<<"CPU">>, <<"ACCEL", "GPU", "CPU">>, <<"CPU", "GPU", "GPU">>, <<"GPU", "MUTE">>}

SomeEnabled == {[all |-> FALSE, ids |-> {<<"gpu", 1>>}]}

Ask(op, id, hub) ==
    [op |-> op, id |-> id, hub |-> hub, hints |-> 0, layers |-> 0, dev |-> <<>>]
SomeRequests ==
    {[Ask("load", "m1", 1) EXCEPT !.layers = -1], Ask("load", "m1", 0), Ask("load", "m2", 3),
     Ask("modelbench", "m2", 0), Ask("bench", "m2", 0)}
=============================================================================
