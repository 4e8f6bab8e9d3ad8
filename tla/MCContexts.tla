----------------------------- MODULE MCContexts -----------------------------
(***************************************************************************)
(* Prompts that leave room for one token of a context of two, with a limit *)
(* past it and with none, and an input that fills the context.             *)
(***************************************************************************)
EXTENDS Contexts

Ask(kind_, prompt, limit) == [kind |-> kind_, prompt |-> prompt, limit |-> limit]
SomeRequests == {Ask("text", 1, 9), Ask("media", 1, NoLimit), Ask("embed", 2, 0)}
=============================================================================
