------------------------------ MODULE Contexts ------------------------------
(***************************************************************************)
(* Requests on a resident model: the lookup in the registries, the wait    *)
(* for a context of the pool, the prefill, the projector shared by all     *)
(* contexts, the sampling loop and the way back                            *)
(* (src/chat_model.cpp, src/embedding_model.cpp, src/worker_service.cpp).  *)
(*                                                                         *)
(* One model id, loaded as either kind and unloaded while requests run on  *)
(* it: each load makes a new instance.  Each request, or item of a batch,  *)
(* runs in a thread of its own.  A waiter re-reads the free list every     *)
(* 50 ms whatever wakes it, so any waiter can take a free context.         *)
(***************************************************************************)
EXTENDS Integers, Sequences, FiniteSets, SequencesExt, FiniteSetsExt

CONSTANTS
    Jobs,        \* the threads that execute requests
    Instances,   \* 1 .. the loads of the model
    MaxPool,     \* bound: contexts of a pool, pool_size
    NCtx,        \* tokens a context holds, n_ctx
    NBatch,      \* tokens of one prefill step, n_batch
    Requests,    \* what a request asks
    MaxRequests, \* bound: requests in all
    MaxCancels   \* bound: threads whose request is cancelled at a time

NoLimit == -1    \* max_tokens absent; a negative one on the wire is floored to 0

Ctxs == 1 .. MaxPool
ASSUME SizesAssumption ==
    /\ NCtx \in Nat \ {0} /\ NBatch \in Nat \ {0} /\ MaxRequests \in Nat /\ MaxCancels \in Nat
ASSUME JobsAssumption == IsFiniteSet(Jobs)
ASSUME InstancesAssumption == Instances \subseteq Nat \ {0} /\ IsFiniteSet(Instances)
ASSUME PoolAssumption == MaxPool \in Nat
ASSUME RequestsAssumption ==
    Requests \subseteq [kind : {"text", "media", "embed"}, prompt : Nat, limit : Nat \cup {NoLimit}]

VARIABLES
    registry,   \* chat_models_ and embed_models_ of the id: an instance, 0: none
    kind,       \* of each instance: "chat" or "embed", "none" before its load
    size,       \* pool_size of each instance
    gone,       \* instances whose destructor has run
    free,       \* free_ctxs_ of each instance
    cache,      \* the KV cache of each context: whose tokens, how many
    projector,  \* who holds the projector's mutex, of each instance
    at,         \* where each thread is
    req,        \* its request
    inst,       \* the instance it holds a reference to, 0: none
    ctx,        \* the context it borrowed, 0: none
    done,       \* tokens of the prompt decoded
    made,       \* tokens generated
    room,       \* max_new
    cancelled,  \* its cancel, its batch's stop, or the stream's end
    asked       \* bound: requests so far

model == <<registry, kind, size, gone>>
pool == <<free, cache, projector>>
vars == <<model, pool, at, req, inst, ctx, done, made, room, cancelled, asked>>

NoRequest == [kind |-> "text", prompt |-> 0, limit |-> 0]
Empty == [of |-> {}, n |-> 0]
NoJob == 0
Kinds == {"chat", "embed"}

Init ==
    /\ registry = [k \in Kinds |-> 0] /\ gone = {} /\ kind = [i \in Instances |-> "none"]
    /\ size = [i \in Instances |-> 0]
    /\ free = [i \in Instances |-> <<>>]
    /\ cache = [i \in Instances |-> [c \in Ctxs |-> Empty]]
    /\ projector = [i \in Instances |-> NoJob]
    /\ at = [j \in Jobs |-> "out"] /\ req = [j \in Jobs |-> NoRequest]
    /\ inst = [j \in Jobs |-> 0] /\ ctx = [j \in Jobs |-> 0]
    /\ done = [j \in Jobs |-> 0] /\ made = [j \in Jobs |-> 0] /\ room = [j \in Jobs |-> 0]
    /\ cancelled = [j \in Jobs |-> FALSE] /\ asked = 0

-----------------------------------------------------------------------------
(* The registries.                                                         *)

References(i) == {j \in Jobs : inst[j] = i}

\* Mutant: a request counts from its first token on.
CountedGenerating == {j \in Jobs : at[j] = "sampling"}

\* active_per_model_ of the id, whichever instance the requests run on.
Counted == {j \in Jobs : inst[j] # 0}

\* The capacity the heartbeat reports for a resident instance: both registries
\* are walked, and the id's count is taken off each pool.
Reported(i) == Max({0, size[i] - Cardinality(Counted)})

\* A load that finished puts its instance, all contexts free, in the registry
\* of its kind.
Load(i, k, n) ==
    /\ registry[k] = 0 /\ kind[i] = "none" /\ \A h \in Instances : h < i => kind[h] # "none"
    /\ registry' = [registry EXCEPT ![k] = i] /\ kind' = [kind EXCEPT ![i] = k] /\ size' = [size EXCEPT ![i] = n]
    /\ free' = [free EXCEPT ![i] = [c \in 1 .. n |-> c]]
    /\ UNCHANGED <<gone, cache, projector, at, req, inst, ctx, done, made, room, cancelled, asked>>

\* The destructor frees the contexts with what they hold.
Destroyed(i) ==
    /\ gone' = gone \cup {i}
    /\ free' = [free EXCEPT ![i] = <<>>]
    /\ cache' = [cache EXCEPT ![i] = [c \in Ctxs |-> Empty]]

\* The registries do not exclude each other; both lookups try chat first.
Found == IF registry["chat"] # 0 THEN "chat" ELSE "embed"
Resident == {registry[k] : k \in Kinds} \ {0}

\* Mutant: the unload destroys the model whoever uses it.
UnloadNow ==
    /\ registry[Found] # 0
    /\ registry' = [registry EXCEPT ![Found] = 0] /\ Destroyed(registry[Found])
    /\ UNCHANGED <<kind, size, projector, at, req, inst, ctx, done, made, room, cancelled, asked>>

\* UnloadModel drops the registry's reference, the last one destroys.
Unload ==
    /\ registry[Found] # 0
    /\ registry' = [registry EXCEPT ![Found] = 0]
    /\ IF References(registry[Found]) = {} THEN Destroyed(registry[Found])
       ELSE UNCHANGED <<gone, free, cache>>
    /\ UNCHANGED <<kind, size, projector, at, req, inst, ctx, done, made, room, cancelled, asked>>

-----------------------------------------------------------------------------
(* A request up to its context.                                            *)

Dispatch(j) ==
    /\ at[j] = "out" /\ asked < MaxRequests
    /\ \E r \in Requests : req' = [req EXCEPT ![j] = r]
    /\ at' = [at EXCEPT ![j] = "queued"]
    /\ asked' = asked + 1
    /\ UNCHANGED <<model, pool, inst, ctx, done, made, room, cancelled>>

\* After the last poll a cancel changes nothing.
Cancel(j) ==
    /\ at[j] \notin {"out", "finished", "returning"} /\ ~cancelled[j]
    /\ Cardinality({o \in Jobs : cancelled[o]}) < MaxCancels
    /\ cancelled' = [cancelled EXCEPT ![j] = TRUE]
    /\ UNCHANGED <<model, pool, at, req, inst, ctx, done, made, room, asked>>

Serves(k, j) == (k = "embed") = (req[j].kind = "embed")

\* AssignJob: answered at once if the model is not loaded, is of the other kind,
\* or the request cannot be formatted; else the job holds a reference.
Lookup(j) ==
    /\ at[j] = "queued"
    /\ \/ /\ registry[Found] # 0 /\ Serves(Found, j)
          /\ inst' = [inst EXCEPT ![j] = registry[Found]]
          /\ at' = [at EXCEPT ![j] = "waiting"]
       \/ /\ inst' = inst
          /\ at' = [at EXCEPT ![j] = "returning"]
    /\ UNCHANGED <<model, pool, req, ctx, done, made, room, cancelled, asked>>

\* acquire_ctx: the context that came back last, even if the job was cancelled.
Acquire(j) ==
    /\ at[j] = "waiting" /\ free[inst[j]] # <<>>
    /\ ctx' = [ctx EXCEPT ![j] = Last(free[inst[j]])]
    /\ free' = [free EXCEPT ![inst[j]] = Front(@)]
    /\ at' = [at EXCEPT ![j] = "borrowed"]
    /\ UNCHANGED <<model, cache, projector, req, inst, done, made, room, cancelled, asked>>

WaitPolls(j) ==
    /\ at[j] = "waiting" /\ free[inst[j]] = <<>> /\ cancelled[j]
    /\ at' = [at EXCEPT ![j] = "returning"]
    /\ UNCHANGED <<model, pool, req, inst, ctx, done, made, room, cancelled, asked>>

-----------------------------------------------------------------------------
(* The work on a borrowed context.                                         *)

Mine(j) == cache[inst[j]][ctx[j]]

\* llama_decode of n tokens (external): they join what the cache holds.
Decoded(j, n) ==
    cache' = [cache EXCEPT ![inst[j]][ctx[j]] = [of |-> @.of \cup {j}, n |-> @.n + n]]

Goes(j, p) == at' = [at EXCEPT ![j] = p]

\* Mutant: the context keeps what its last borrower left.
KeepCache(j) ==
    /\ at[j] = "borrowed" /\ req[j].kind # "embed"
    /\ Goes(j, IF req[j].kind = "media" THEN "projector" ELSE "prompt")
    /\ UNCHANGED <<model, pool, req, inst, ctx, done, made, room, cancelled, asked>>

\* A completion clears the context and prefills; media goes by the projector.
Clear(j) ==
    /\ at[j] = "borrowed" /\ req[j].kind # "embed"
    /\ cache' = [cache EXCEPT ![inst[j]][ctx[j]] = Empty]
    /\ Goes(j, IF req[j].kind = "media" THEN "projector" ELSE "prompt")
    /\ UNCHANGED <<model, free, projector, req, inst, ctx, done, made, room, cancelled, asked>>

\* embed() polls once, refuses an input that does not fit, clears and decodes.
Embed(j) ==
    /\ at[j] = "borrowed" /\ req[j].kind = "embed"
    /\ Goes(j, "finished")
    /\ IF ~cancelled[j] /\ req[j].prompt <= NCtx
         THEN cache' = [cache EXCEPT ![inst[j]][ctx[j]] = [of |-> {j}, n |-> req[j].prompt]]
         ELSE UNCHANGED cache
    /\ UNCHANGED <<model, free, projector, req, inst, ctx, done, made, room, cancelled, asked>>

\* All use of the one projector is under its mutex.
LockProjector(j) ==
    /\ at[j] = "projector" /\ projector[inst[j]] = NoJob
    /\ projector' = [projector EXCEPT ![inst[j]] = j]
    /\ Goes(j, "encode")
    /\ UNCHANGED <<model, free, cache, req, inst, ctx, done, made, room, cancelled, asked>>

\* A bitmap, the tokenization, the size or the evaluation fails, or the prompt
\* with its media is in the cache.
Encode(j) ==
    /\ at[j] = "encode"
    /\ projector' = [projector EXCEPT ![inst[j]] = NoJob]
    /\ \/ /\ req[j].prompt < NCtx
          /\ Decoded(j, req[j].prompt) /\ done' = [done EXCEPT ![j] = req[j].prompt]
          /\ Goes(j, "prompt")
       \/ Goes(j, "finished") /\ UNCHANGED <<cache, done>>
    /\ UNCHANGED <<model, free, req, inst, ctx, made, room, cancelled, asked>>

\* Text: the tokenization fails, the prompt does not fit, or a slice fails.
PromptFails(j) ==
    /\ at[j] = "prompt" /\ done[j] < req[j].prompt
    /\ Goes(j, "finished")
    /\ UNCHANGED <<model, pool, req, inst, ctx, done, made, room, cancelled, asked>>

\* Text prefills in slices of n_batch and polls before each of them.
Prefill(j) ==
    LET n == Min({NBatch, req[j].prompt - done[j]})
    IN /\ at[j] = "prompt" /\ req[j].prompt < NCtx /\ done[j] < req[j].prompt /\ ~cancelled[j]
       /\ Decoded(j, n) /\ done' = [done EXCEPT ![j] = @ + n]
       /\ UNCHANGED <<model, free, projector, at, req, inst, ctx, made, room, cancelled, asked>>

\* max_new: what is left less one when there is no limit, never below nothing
\* nor above what is left.
Room(j) ==
    LET wish == IF req[j].limit = NoLimit THEN NCtx - done[j] - 1 ELSE req[j].limit
    IN Min({Max({wish, 0}), NCtx - done[j]})

StartSampling(j) ==
    /\ at[j] = "prompt" /\ done[j] = req[j].prompt /\ ~cancelled[j]
    /\ room' = [room EXCEPT ![j] = Room(j)]
    /\ Goes(j, "sampling")
    /\ UNCHANGED <<model, pool, req, inst, ctx, done, made, cancelled, asked>>

\* One turn of the loop that goes on: a token, streamed and decoded.
Generate(j) ==
    /\ at[j] = "sampling" /\ made[j] < room[j] /\ ~cancelled[j]
    /\ Decoded(j, 1) /\ made' = [made EXCEPT ![j] = @ + 1]
    /\ UNCHANGED <<model, free, projector, at, req, inst, ctx, done, room, cancelled, asked>>

\* The limit, an end of generation, a stop sequence, a failed decode or the
\* cancel ends it.
EndSampling(j) ==
    /\ at[j] = "sampling"
    /\ Goes(j, "finished")
    /\ UNCHANGED <<model, pool, req, inst, ctx, done, made, room, cancelled, asked>>

\* The poll before a slice, after the prefill and before a token.
StopsEarly(j) ==
    /\ at[j] \in {"prompt", "sampling"} /\ cancelled[j]
    /\ Goes(j, "finished")
    /\ UNCHANGED <<model, pool, req, inst, ctx, done, made, room, cancelled, asked>>

\* Mutant: the context of a cancelled request does not go back.
ReleaseUncancelled(j) ==
    /\ at[j] = "finished"
    /\ free' = IF cancelled[j] THEN free ELSE [free EXCEPT ![inst[j]] = Append(@, ctx[j])]
    /\ ctx' = [ctx EXCEPT ![j] = 0]
    /\ Goes(j, "returning")
    /\ done' = [done EXCEPT ![j] = 0] /\ made' = [made EXCEPT ![j] = 0]
    /\ room' = [room EXCEPT ![j] = 0] /\ req' = [req EXCEPT ![j] = NoRequest]
    /\ UNCHANGED <<model, cache, projector, inst, cancelled, asked>>

\* ~PoolSlot: the context goes back, however the request ended.
Release(j) ==
    /\ at[j] = "finished"
    /\ free' = [free EXCEPT ![inst[j]] = Append(@, ctx[j])]
    /\ ctx' = [ctx EXCEPT ![j] = 0]
    /\ Goes(j, "returning")
    /\ done' = [done EXCEPT ![j] = 0] /\ made' = [made EXCEPT ![j] = 0]
    /\ room' = [room EXCEPT ![j] = 0] /\ req' = [req EXCEPT ![j] = NoRequest]
    /\ UNCHANGED <<model, cache, projector, inst, cancelled, asked>>

\* execute() returns: the count and the reference are given up, and an instance
\* no registry holds goes with its last job.
Return(j) ==
    /\ at[j] = "returning"
    /\ IF inst[j] # 0 /\ inst[j] \notin Resident /\ References(inst[j]) = {j}
         THEN Destroyed(inst[j])
         ELSE UNCHANGED <<gone, free, cache>>
    /\ inst' = [inst EXCEPT ![j] = 0] /\ at' = [at EXCEPT ![j] = "out"]
    /\ req' = [req EXCEPT ![j] = NoRequest]
    /\ cancelled' = [cancelled EXCEPT ![j] = FALSE]
    /\ UNCHANGED <<registry, kind, size, projector, ctx, done, made, room, asked>>

-----------------------------------------------------------------------------
Work(j) ==
    \/ Lookup(j) \/ Acquire(j) \/ WaitPolls(j) \/ Clear(j) \/ Embed(j)
    \/ LockProjector(j) \/ Encode(j) \/ PromptFails(j) \/ Prefill(j)
    \/ StartSampling(j) \/ Generate(j) \/ EndSampling(j) \/ StopsEarly(j)
    \/ Release(j) \/ Return(j)

Next ==
    \/ \E i \in Instances, k \in Kinds, n \in Ctxs : Load(i, k, n)
    \/ Unload
    \/ \E j \in Jobs : Dispatch(j) \/ Cancel(j) \/ Work(j)

Spec == Init /\ [][Next]_vars

\* Every thread runs.  Neither the free list nor the mutex of the projector is
\* fair to its waiters: it is the end of the requests before it, bounded by
\* MaxRequests, that lets a waiter in.
LiveSpec == Spec /\ \A j \in Jobs : WF_vars(Work(j))

-----------------------------------------------------------------------------
(* Properties.                                                             *)

\* The variables' types.
TypeOK ==
    /\ registry \in [Kinds -> Instances \cup {0}] /\ gone \subseteq Instances
    /\ kind \in [Instances -> Kinds \cup {"none"}] /\ size \in [Instances -> 0 .. MaxPool]
    /\ free \in [Instances -> Seq(Ctxs)]
    /\ cache \in [Instances -> [Ctxs -> [of : SUBSET Jobs, n : Nat]]]
    /\ projector \in [Instances -> Jobs \cup {NoJob}]
    /\ at \in [Jobs -> {"out", "queued", "waiting", "borrowed", "projector", "encode", "prompt",
                        "sampling", "finished", "returning"}]
    /\ req \in [Jobs -> Requests \cup {NoRequest}]
    /\ inst \in [Jobs -> Instances \cup {0}] /\ ctx \in [Jobs -> Ctxs \cup {0}]
    /\ done \in [Jobs -> Nat] /\ made \in [Jobs -> Nat] /\ room \in [Jobs -> Nat]
    /\ cancelled \in [Jobs -> BOOLEAN] /\ asked \in Nat

\* A context at work holds its borrower's tokens and nobody else's, in the number
\* the borrower counts and never too many, and is neither lent again nor on the
\* free list: every reuse, early return and reload included (acquire_ctx, PoolSlot,
\* the clear, the clamp of max_new).
Working == {"projector", "encode", "prompt", "sampling"}
SlotIsPrivate ==
    \A j \in Jobs : at[j] \in Working =>
        /\ Mine(j).of \subseteq {j} /\ Mine(j).n = done[j] + made[j] /\ Mine(j).n <= NCtx
        /\ ctx[j] \notin ToSet(free[inst[j]])
        /\ \A o \in Jobs \ {j} : inst[o] = inst[j] => ctx[o] # ctx[j]

\* A model unloaded under running requests stays until the last of them is done
\* with it (the shared_ptr of AssignJob and of the registry).
UnloadKeepsRunningJobs == \A j \in Jobs : inst[j] # 0 => inst[j] \notin gone

\* The capacity a heartbeat reports for a resident instance, its pool less the
\* jobs counted under the id, is never more than its free contexts, though they
\* may run on an unloaded instance or on one of the other kind (heartbeat).
CapacityAcrossReloads == \A i \in Resident : Reported(i) <= Len(free[i])

\* Who cannot go on by itself: it polls for a context that is not there, or is
\* blocked on the mutex of the projector.
Waits(j) ==
    \/ at[j] = "waiting" /\ free[inst[j]] = <<>> /\ ~cancelled[j]
    \/ at[j] = "projector" /\ projector[inst[j]] # NoJob

\* The requests of an instance never all wait for each other: a pool has a context,
\* a missing one is with a request that goes on or waits for the projector alone,
\* and who holds the projector waits for nothing (acquire_ctx, mm_mu, PoolSlot).
NoCircularWait ==
    \A j \in Jobs : Waits(j) => \E o \in Jobs : inst[o] = inst[j] /\ at[o] # "out" /\ ~Waits(o)

\* No request stays for ever, whatever ended the ones before it: each exit of a
\* completion gives its context and the projector back, to waiters that nobody
\* wakes for the latter (PoolSlot, the 50 ms slices of acquire_ctx, mm_mu).
EveryRequestEnds == \A j \in Jobs : at[j] # "out" ~> at[j] = "out"
=============================================================================
