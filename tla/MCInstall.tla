----------------------------- MODULE MCInstall -----------------------------
(***************************************************************************)
(* Two packages: the worker with a library under two names, and one that   *)
(* somebody packed without the worker.                                     *)
(***************************************************************************)
EXTENDS Install

Package ==
    <<[name |-> "worker", file |-> "exe"], [name |-> "lib", file |-> "lib.1"],
      [name |-> "lib.1", file |-> "lib.1"]>>

PackageInputs == {Package, Tail(Package), Package \o Tail(Package)}
=============================================================================
