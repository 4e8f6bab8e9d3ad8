--------------------------- MODULE ContextsProofs ---------------------------
(***************************************************************************)
(* What holds of the requests on a model, for any number of threads, loads *)
(* and contexts and any requests: a context at work belongs to its         *)
(* borrower, an unloaded model outlives its requests, and the capacity a   *)
(* heartbeat reports is there.                                             *)
(***************************************************************************)
EXTENDS Contexts, DataLemmas, FiniteSetTheorems

Borrowing == {"borrowed"} \cup Working \cup {"finished"}

\* What a registry names is alive and of its kind, what a request refers to is
\* alive, and only what was loaded is ever destroyed.
ReferencesLive ==
    /\ \A k \in Kinds : registry[k] # 0 => registry[k] \notin gone /\ kind[registry[k]] = k
    /\ \A j \in Jobs : inst[j] # 0 => inst[j] \notin gone /\ kind[inst[j]] # "none"
    /\ \A i \in gone : kind[i] # "none"

\* Who has an instance and who has a context.
Places ==
    \A j \in Jobs :
        /\ at[j] \in Borrowing <=> ctx[j] # 0
        /\ at[j] = "waiting" \/ ctx[j] # 0 => inst[j] # 0
        /\ at[j] \in {"out", "queued"} => inst[j] = 0

\* A context is on the free list once or with one borrower.
Lending ==
    /\ \A i \in Instances : Distinct(free[i])
    /\ \A j \in Jobs : ctx[j] # 0 => ctx[j] \notin Elements(free[inst[j]])
    /\ \A j, o \in Jobs : j # o /\ ctx[j] # 0 /\ inst[o] = inst[j] => ctx[o] # ctx[j]

\* How far a request is, and that what it has left fits the context.
Progress ==
    \A j \in Jobs :
        /\ at[j] \notin {"prompt", "sampling", "finished"} => done[j] = 0 /\ made[j] = 0
        /\ at[j] = "prompt" =>
              made[j] = 0 /\ (done[j] = 0 \/ (done[j] <= req[j].prompt /\ req[j].prompt < NCtx))
        /\ at[j] = "sampling" => made[j] <= room[j] /\ done[j] + room[j] <= NCtx

\* A context at work holds its borrower's tokens.
Contents ==
    \A j \in Jobs : at[j] \in Working => Mine(j).of \subseteq {j} /\ Mine(j).n = done[j] + made[j]

\* Each context of a live pool is free or lent.
Borrowers(i) == {j \in Jobs : inst[j] = i /\ ctx[j] # 0}
PoolIsWhole ==
    \A i \in Instances : kind[i] # "none" /\ i \notin gone =>
        Len(free[i]) + Cardinality(Borrowers(i)) = size[i]

ContextsInv ==
    TypeOK /\ ReferencesLive /\ Places /\ Lending /\ Progress /\ Contents /\ PoolIsWhole

-----------------------------------------------------------------------------
\* Taking the last element of a queue leaves the others.
LEMMA LastFront ==
    ASSUME NEW S, NEW s \in Seq(S), s # <<>>
    PROVE  /\ Last(s) \in S /\ Front(s) \in Seq(S) /\ Len(Front(s)) = Len(s) - 1
           /\ Elements(s) = Elements(Front(s)) \cup {Last(s)}
           /\ Distinct(s) => Distinct(Front(s)) /\ Last(s) \notin Elements(Front(s))
<1> DEFINE f == SubSeq(s, 1, Len(s) - 1)
<1>1. Len(s) \in Nat /\ Len(s) > 0 /\ DOMAIN s = 1 .. Len(s) /\ \A i \in 1 .. Len(s) : s[i] \in S
  BY EmptySeq, LenProperties, ElementOfSeq
<1>2. /\ f \in Seq(S) /\ Len(f) = Len(s) - 1
      /\ \A i \in 1 .. Len(s) - 1 : f[i] = s[i]
  <2> DEFINE m == 1
             n == Len(s) - 1
  <2>1. m \in Int /\ n \in Int /\ \A i \in m .. n : s[i] \in S
    BY <1>1
  <2>2. m = 1 /\ n \in Nat /\ n = Len(s) - 1 /\ f = SubSeq(s, m, n)
    BY <1>1
  <2> HIDE DEF m, n, f
  <2>3. /\ f \in Seq(S) /\ Len(f) = IF m <= n THEN n - m + 1 ELSE 0
        /\ \A i \in 1 .. n - m + 1 : f[i] = s[m + i - 1]
    BY <2>1, <2>2, SubSeqProperties
  <2>4. Len(f) = n
    BY <2>2, <2>3
  <2>5. ASSUME NEW i \in 1 .. n PROVE f[i] = s[i]
    <3>1. i \in 1 .. n - m + 1 /\ m + i - 1 = i
      BY <2>2
    <3> QED BY <2>3, <3>1
  <2> QED BY <2>2, <2>3, <2>4, <2>5
<1> HIDE DEF f
<1>3. Len(f) = Len(s) - 1 /\ DOMAIN f = 1 .. Len(s) - 1 /\ \A i \in 1 .. Len(s) - 1 : f[i] = s[i]
  BY <1>2, LenProperties
<1>4. {s[i] : i \in DOMAIN s} = {f[i] : i \in DOMAIN f} \cup {s[Len(s)]}
  BY <1>1, <1>3
<1>5. ASSUME Distinct(s) PROVE Distinct(f) /\ s[Len(s)] \notin {f[i] : i \in DOMAIN f}
  BY <1>1, <1>3, <1>5 DEF Distinct
<1> QED BY <1>1, <1>2, <1>3, <1>4, <1>5 DEF f, Last, Front, Elements

\* The least and the greatest of two numbers.
LEMMA MinMax ==
    ASSUME NEW a \in Int, NEW b \in Int
    PROVE  /\ Min({a, b}) = (IF a <= b THEN a ELSE b)
           /\ Max({a, b}) = (IF a >= b THEN a ELSE b)
<1> DEFINE l == IF a <= b THEN a ELSE b
           g == IF a >= b THEN a ELSE b
<1>1. l \in {a, b} /\ (\A y \in {a, b} : l =< y) /\ \A x \in {a, b} : (\A y \in {a, b} : x =< y) => x = l
  OBVIOUS
<1>2. g \in {a, b} /\ (\A y \in {a, b} : g >= y) /\ \A x \in {a, b} : (\A y \in {a, b} : x >= y) => x = g
  OBVIOUS
<1> QED BY <1>1, <1>2 DEF Min, Max

\* What a request is.
LEMMA RequestTypes ==
    ASSUME NEW r \in Requests \cup {NoRequest}
    PROVE  r.kind \in {"text", "media", "embed"} /\ r.prompt \in Nat /\ r.limit \in Nat \cup {NoLimit}
BY RequestsAssumption DEF NoRequest, NoLimit

\* A step that decodes changes one context, and adds to it.
LEMMA DecodedCache ==
    ASSUME TypeOK, NEW j \in Jobs, inst[j] # 0, ctx[j] # 0, NEW n \in Nat, Decoded(j, n)
    PROVE  /\ cache' \in [Instances -> [Ctxs -> [of : SUBSET Jobs, n : Nat]]]
           /\ cache'[inst[j]][ctx[j]] = [of |-> Mine(j).of \cup {j}, n |-> Mine(j).n + n]
           /\ \A i \in Instances, c \in Ctxs :
                 i # inst[j] \/ c # ctx[j] => cache'[i][c] = cache[i][c]
<1> DEFINE i == inst[j]
           c == ctx[j]
<1>1. i \in Instances /\ c \in Ctxs
  BY DEF TypeOK
<1>2. cache[i][c] \in [of : SUBSET Jobs, n : Nat] /\ cache[i] \in [Ctxs -> [of : SUBSET Jobs, n : Nat]]
  BY <1>1 DEF TypeOK
<1> DEFINE new == [of |-> cache[i][c].of \cup {j}, n |-> cache[i][c].n + n]
<1>3. new \in [of : SUBSET Jobs, n : Nat]
  BY <1>2
<1>4. cache' = [cache EXCEPT ![i][c] = new]
  BY DEF Decoded
<1> HIDE DEF new, i, c
<1>5. /\ cache' \in [Instances -> [Ctxs -> [of : SUBSET Jobs, n : Nat]]] /\ cache'[i][c] = new
      /\ \A i2 \in Instances, c2 \in Ctxs : i2 # i \/ c2 # c => cache'[i2][c2] = cache[i2][c2]
  BY <1>1, <1>2, <1>3, <1>4 DEF TypeOK
<1> QED BY <1>5 DEF i, c, new, Mine

\* The room a request gets is what is left at most.
LEMMA RoomFits ==
    ASSUME TypeOK, NEW j \in Jobs, done[j] <= NCtx
    PROVE  Room(j) \in Nat /\ done[j] + Room(j) <= NCtx
<1>1. done[j] \in Nat /\ NCtx \in Nat /\ req[j].limit \in Nat \cup {NoLimit}
  BY SizesAssumption, RequestTypes DEF TypeOK
<1> DEFINE wish == IF req[j].limit = NoLimit THEN NCtx - done[j] - 1 ELSE req[j].limit
<1>2. wish \in Int
  BY <1>1 DEF NoLimit
<1> HIDE DEF wish
<1>3. Max({wish, 0}) \in Nat
  <2> DEFINE z == 0
  <2>1. z \in Int
    OBVIOUS
  <2> HIDE DEF z
  <2>2. Max({wish, z}) = IF wish >= z THEN wish ELSE z
    BY <1>2, <2>1, MinMax
  <2> QED BY <1>2, <2>2 DEF z
<1>4. NCtx - done[j] \in Nat
  BY <1>1
<1>5. Min({Max({wish, 0}), NCtx - done[j]}) \in 0 .. NCtx - done[j]
  <2> DEFINE m == Max({wish, 0})
             w == NCtx - done[j]
  <2>1. m \in Nat /\ w \in Nat
    BY <1>3, <1>4
  <2> HIDE DEF m, w
  <2>2. Min({m, w}) \in 0 .. w
    BY <2>1, MinMax
  <2> QED BY <2>2 DEF m, w
<1>6. Room(j) = Min({Max({wish, 0}), NCtx - done[j]})
  BY DEF Room, wish
<1> QED BY <1>1, <1>5, <1>6

\* The steps, each by its name.
LEMMA Steps ==
    ASSUME [Next]_vars, NEW P,
           UNCHANGED vars => P,
           \A i \in Instances, k \in Kinds, n \in Ctxs : Load(i, k, n) => P,
           Unload => P,
           \A j \in Jobs : Dispatch(j) \/ Cancel(j) \/ Lookup(j) \/ Acquire(j) \/ WaitPolls(j) => P,
           \A j \in Jobs : Clear(j) \/ Embed(j) \/ LockProjector(j) \/ Encode(j) => P,
           \A j \in Jobs : PromptFails(j) \/ Prefill(j) \/ StartSampling(j) \/ Generate(j) => P,
           \A j \in Jobs : EndSampling(j) \/ StopsEarly(j) \/ Release(j) \/ Return(j) => P
    PROVE  P
BY DEF Next, Work

\* The types.
LEMMA TypeStep == ASSUME ContextsInv, [Next]_vars PROVE TypeOK'
<1> USE DEF ContextsInv
<1>1. ASSUME UNCHANGED vars PROVE TypeOK'
  BY <1>1 DEF TypeOK, vars, model, pool
<1>2. ASSUME NEW i \in Instances, NEW k \in Kinds, NEW n \in Ctxs, Load(i, k, n) PROVE TypeOK'
  <2>1. n \in 0 .. MaxPool /\ n \in Nat
    BY PoolAssumption DEF Ctxs
  <2>2. [c \in 1 .. n |-> c] \in Seq(Ctxs)
    <3>1. \A c \in 1 .. n : c \in Ctxs
      BY <2>1, PoolAssumption DEF Ctxs
    <3> QED BY <2>1, <3>1, IsASeq
  <2>3. free' \in [Instances -> Seq(Ctxs)]
    BY <1>2, <2>2 DEF TypeOK, Load
  <2> QED BY <1>2, <2>1, <2>3 DEF TypeOK, Load
<1>3. ASSUME NEW i \in Instances, Destroyed(i)
      PROVE  /\ gone' \subseteq Instances /\ free' \in [Instances -> Seq(Ctxs)]
             /\ cache' \in [Instances -> [Ctxs -> [of : SUBSET Jobs, n : Nat]]]
  <2>1. <<>> \in Seq(Ctxs)
    BY EmptySeq
  <2>2. [c \in Ctxs |-> Empty] \in [Ctxs -> [of : SUBSET Jobs, n : Nat]]
    BY DEF Empty
  <2>3. free' \in [Instances -> Seq(Ctxs)]
    BY <1>3, <2>1 DEF TypeOK, Destroyed
  <2> QED BY <1>3, <2>2, <2>3 DEF TypeOK, Destroyed
<1>4. ASSUME Unload PROVE TypeOK'
  <2>1. registry[Found] \in Instances /\ registry' \in [Kinds -> Instances \cup {0}]
    BY <1>4 DEF TypeOK, Unload, Found, Kinds
  <2>2. /\ gone' \subseteq Instances /\ free' \in [Instances -> Seq(Ctxs)]
        /\ cache' \in [Instances -> [Ctxs -> [of : SUBSET Jobs, n : Nat]]]
    BY <1>4, <2>1, <1>3 DEF TypeOK, Unload
  <2> QED BY <1>4, <2>1, <2>2 DEF TypeOK, Unload
<1>5. ASSUME NEW j \in Jobs, Dispatch(j) \/ Cancel(j) \/ Lookup(j) \/ Acquire(j) \/ WaitPolls(j)
      PROVE  TypeOK'
  <2>1. CASE Dispatch(j)
    BY <2>1 DEF TypeOK, Dispatch, model, pool
  <2>2. CASE Cancel(j)
    BY <2>2 DEF TypeOK, Cancel, model, pool
  <2>3. CASE Lookup(j)
    BY <2>3 DEF TypeOK, Lookup, model, pool, Found, Kinds
  <2>4. CASE Acquire(j)
    <3>1. inst[j] \in Instances
      BY <2>4 DEF Acquire, Places, TypeOK
    <3>2. Last(free[inst[j]]) \in Ctxs /\ Front(free[inst[j]]) \in Seq(Ctxs)
      BY <2>4, <3>1, LastFront DEF TypeOK, Acquire
    <3>3. free' \in [Instances -> Seq(Ctxs)] /\ ctx' \in [Jobs -> Ctxs \cup {0}]
      BY <2>4, <3>1, <3>2 DEF TypeOK, Acquire
    <3> QED BY <2>4, <3>3 DEF TypeOK, Acquire, model
  <2>5. CASE WaitPolls(j)
    BY <2>5 DEF TypeOK, WaitPolls, model, pool
  <2> QED BY <1>5, <2>1, <2>2, <2>3, <2>4, <2>5
<1>6. ASSUME NEW j \in Jobs, at[j] \in Borrowing
      PROVE  /\ inst[j] # 0 /\ ctx[j] # 0 /\ inst[j] \in Instances /\ ctx[j] \in Ctxs
             /\ req[j].prompt \in Nat /\ done[j] \in Nat /\ made[j] \in Nat
    BY <1>6, RequestTypes DEF Places, TypeOK
<1>7. ASSUME NEW j \in Jobs, Clear(j) \/ Embed(j) \/ LockProjector(j) \/ Encode(j)
      PROVE  TypeOK'
  <2>1. inst[j] # 0 /\ ctx[j] # 0 /\ inst[j] \in Instances /\ ctx[j] \in Ctxs /\ req[j].prompt \in Nat
    BY <1>6, <1>7 DEF Clear, Embed, LockProjector, Encode, Borrowing, Working
  <2>2. CASE Clear(j)
    <3>1. cache' \in [Instances -> [Ctxs -> [of : SUBSET Jobs, n : Nat]]]
      BY <2>1, <2>2 DEF TypeOK, Clear, Empty
    <3> QED BY <2>2, <3>1 DEF TypeOK, Clear, Goes, model
  <2>3. CASE Embed(j)
    <3>1. cache' \in [Instances -> [Ctxs -> [of : SUBSET Jobs, n : Nat]]]
      <4> DEFINE new == [of |-> {j}, n |-> req[j].prompt]
      <4>1. new \in [of : SUBSET Jobs, n : Nat]
        BY <2>1
      <4>2. cache' = [cache EXCEPT ![inst[j]][ctx[j]] = new] \/ cache' = cache
        BY <2>3 DEF Embed
      <4> HIDE DEF new
      <4>3. [cache[inst[j]] EXCEPT ![ctx[j]] = new] \in [Ctxs -> [of : SUBSET Jobs, n : Nat]]
        BY <2>1, <4>1 DEF TypeOK
      <4>4. CASE cache' = [cache EXCEPT ![inst[j]][ctx[j]] = new]
        BY <2>1, <4>3, <4>4 DEF TypeOK
      <4> QED BY <4>2, <4>4 DEF TypeOK
    <3> QED BY <2>3, <3>1 DEF TypeOK, Embed, Goes, model
  <2>4. CASE LockProjector(j)
    BY <2>4 DEF TypeOK, LockProjector, Goes, model
  <2>5. CASE Encode(j)
    <3>1. cache' \in [Instances -> [Ctxs -> [of : SUBSET Jobs, n : Nat]]]
      BY <2>1, <2>5, DecodedCache DEF TypeOK, Encode
    <3> QED BY <2>1, <2>5, <3>1 DEF TypeOK, Encode, Goes, model
  <2> QED BY <1>7, <2>2, <2>3, <2>4, <2>5
<1>8. ASSUME NEW j \in Jobs, PromptFails(j) \/ Prefill(j) \/ StartSampling(j) \/ Generate(j)
      PROVE  TypeOK'
  <2>1. /\ inst[j] # 0 /\ ctx[j] # 0 /\ inst[j] \in Instances /\ ctx[j] \in Ctxs
        /\ req[j].prompt \in Nat /\ done[j] \in Nat /\ made[j] \in Nat
    BY <1>6, <1>8 DEF PromptFails, Prefill, StartSampling, Generate, Borrowing, Working
  <2>2. CASE PromptFails(j)
    BY <2>2 DEF TypeOK, PromptFails, Goes, model, pool
  <2>3. CASE Prefill(j)
    <3> DEFINE n == Min({NBatch, req[j].prompt - done[j]})
    <3>1. n \in Nat
      BY <2>1, <2>3, SizesAssumption, MinMax DEF Prefill
    <3>2. Decoded(j, n) /\ done' = [done EXCEPT ![j] = @ + n]
      BY <2>3 DEF Prefill
    <3> HIDE DEF n
    <3>3. cache' \in [Instances -> [Ctxs -> [of : SUBSET Jobs, n : Nat]]]
      BY <2>1, <3>1, <3>2, DecodedCache
    <3>4. done' \in [Jobs -> Nat]
      BY <2>1, <3>1, <3>2 DEF TypeOK
    <3> QED BY <2>3, <3>3, <3>4 DEF TypeOK, Prefill, model
  <2>4. CASE StartSampling(j)
    <3>1. Room(j) \in Nat
      BY <2>1, <2>4, RoomFits, SizesAssumption DEF StartSampling, Progress
    <3> QED BY <2>4, <3>1 DEF TypeOK, StartSampling, Goes, model, pool
  <2>5. CASE Generate(j)
    <3>1. cache' \in [Instances -> [Ctxs -> [of : SUBSET Jobs, n : Nat]]]
      <4>1. 1 \in Nat /\ Decoded(j, 1)
        BY <2>5 DEF Generate
      <4> QED BY <2>1, <4>1, DecodedCache
    <3> QED BY <2>1, <2>5, <3>1 DEF TypeOK, Generate, model
  <2> QED BY <1>8, <2>2, <2>3, <2>4, <2>5
<1>9. ASSUME NEW j \in Jobs, EndSampling(j) \/ StopsEarly(j) \/ Release(j) \/ Return(j)
      PROVE  TypeOK'
  <2>1. CASE EndSampling(j)
    BY <2>1 DEF TypeOK, EndSampling, Goes, model, pool
  <2>2. CASE StopsEarly(j)
    BY <2>2 DEF TypeOK, StopsEarly, Goes, model, pool
  <2>3. CASE Release(j)
    <3>1. inst[j] \in Instances /\ ctx[j] \in Ctxs
      BY <2>3, <1>6 DEF Release, Borrowing
    <3>2. Append(free[inst[j]], ctx[j]) \in Seq(Ctxs)
      BY <3>1, AppendProperties DEF TypeOK
    <3>3. free' \in [Instances -> Seq(Ctxs)]
      BY <2>3, <3>1, <3>2 DEF TypeOK, Release
    <3> QED BY <2>3, <3>3 DEF TypeOK, Release, Goes, model
  <2>4. CASE Return(j)
    <3>1. /\ gone' \subseteq Instances /\ free' \in [Instances -> Seq(Ctxs)]
          /\ cache' \in [Instances -> [Ctxs -> [of : SUBSET Jobs, n : Nat]]]
      BY <2>4, <1>3 DEF TypeOK, Return
    <3> QED BY <2>4, <3>1 DEF TypeOK, Return
  <2> QED BY <1>9, <2>1, <2>2, <2>3, <2>4
<1> QED BY <1>1, <1>2, <1>4, <1>5, <1>7, <1>8, <1>9, Steps

\* Nobody uses an instance that is destroyed, and a reload makes a new one.
LEMMA ReferencesStep == ASSUME ContextsInv, [Next]_vars PROVE ReferencesLive'
<1> USE DEF ContextsInv
<1>1. ASSUME UNCHANGED <<registry, gone, kind, inst>> PROVE ReferencesLive'
  BY <1>1 DEF ReferencesLive
<1>2. ASSUME NEW i \in Instances, NEW k \in Kinds, NEW n \in Ctxs, Load(i, k, n) PROVE ReferencesLive'
  BY <1>2, InstancesAssumption DEF Load, ReferencesLive, TypeOK, Kinds
<1>3. ASSUME Unload PROVE ReferencesLive'
  <2>1. registry[Found] \in Instances /\ Found \in Kinds /\ registry[Found] # 0
    BY <1>3 DEF TypeOK, Unload, Found, Kinds
  <2>2. registry' = [registry EXCEPT ![Found] = 0] /\ kind' = kind /\ inst' = inst
    BY <1>3 DEF Unload
  <2>3. CASE References(registry[Found]) = {}
    <3>1. gone' = gone \cup {registry[Found]}
      BY <1>3, <2>3 DEF Unload, Destroyed
    <3>2. \A j \in Jobs : inst[j] # registry[Found]
      BY <2>3 DEF References
    <3>3. \A k \in Kinds : k # Found /\ registry[k] # 0 => registry[k] # registry[Found]
      BY <2>1 DEF ReferencesLive
    <3>4. kind[registry[Found]] # "none"
      BY <2>1 DEF ReferencesLive, Kinds
    <3> QED BY <2>1, <2>2, <3>1, <3>2, <3>3, <3>4 DEF ReferencesLive, TypeOK
  <2>4. CASE References(registry[Found]) # {}
    <3>1. gone' = gone
      BY <1>3, <2>4 DEF Unload
    <3> QED BY <2>1, <2>2, <3>1 DEF ReferencesLive, TypeOK
  <2> QED BY <2>3, <2>4
<1>4. ASSUME NEW j \in Jobs, Dispatch(j) \/ Cancel(j) \/ Lookup(j) \/ Acquire(j) \/ WaitPolls(j)
      PROVE  ReferencesLive'
  <2>1. CASE ~Lookup(j)
    BY <1>4, <2>1, <1>1 DEF Dispatch, Cancel, Acquire, WaitPolls, model
  <2>2. CASE Lookup(j)
    BY <2>2 DEF Lookup, model, ReferencesLive, TypeOK, Found, Kinds
  <2> QED BY <2>1, <2>2
<1>5. ASSUME NEW j \in Jobs, Clear(j) \/ Embed(j) \/ LockProjector(j) \/ Encode(j)
      PROVE  ReferencesLive'
  BY <1>5, <1>1 DEF Clear, Embed, LockProjector, Encode, model
<1>6. ASSUME NEW j \in Jobs, PromptFails(j) \/ Prefill(j) \/ StartSampling(j) \/ Generate(j)
      PROVE  ReferencesLive'
  BY <1>6, <1>1 DEF PromptFails, Prefill, StartSampling, Generate, model
<1>7. ASSUME NEW j \in Jobs, EndSampling(j) \/ StopsEarly(j) \/ Release(j) \/ Return(j)
      PROVE  ReferencesLive'
  <2>1. CASE ~Return(j)
    BY <1>7, <2>1, <1>1 DEF EndSampling, StopsEarly, Release, model
  <2>2. CASE Return(j)
    <3>1. inst' = [inst EXCEPT ![j] = 0] /\ registry' = registry /\ kind' = kind
      BY <2>2 DEF Return
    <3>2. CASE inst[j] # 0 /\ inst[j] \notin Resident /\ References(inst[j]) = {j}
      <4>1. gone' = gone \cup {inst[j]}
        BY <2>2, <3>2 DEF Return, Destroyed
      <4>2. \A o \in Jobs : o # j => inst[o] # inst[j]
        BY <3>2 DEF References
      <4>3. \A k \in Kinds : registry[k] # 0 => registry[k] # inst[j]
        BY <3>2 DEF Resident
      <4> QED BY <3>1, <3>2, <4>1, <4>2, <4>3 DEF ReferencesLive, TypeOK
    <3>3. CASE ~(inst[j] # 0 /\ inst[j] \notin Resident /\ References(inst[j]) = {j})
      <4>1. gone' = gone
        BY <2>2, <3>3 DEF Return
      <4> QED BY <3>1, <4>1 DEF ReferencesLive, TypeOK
    <3> QED BY <3>2, <3>3
  <2> QED BY <2>1, <2>2
<1>8. UNCHANGED vars => ReferencesLive'
  BY <1>1 DEF vars, model
<1> QED BY <1>2, <1>3, <1>4, <1>5, <1>6, <1>7, <1>8, Steps

\* A request has an instance from its lookup on, and a context while it works.
LEMMA PlacesStep == ASSUME ContextsInv, [Next]_vars PROVE Places'
<1> USE DEF ContextsInv, Places, Borrowing, Working
<1>1. ASSUME UNCHANGED <<at, inst, ctx>> PROVE Places'
  BY <1>1
<1>2. ASSUME NEW i \in Instances, NEW k \in Kinds, NEW n \in Ctxs, Load(i, k, n) PROVE Places'
  BY <1>2, <1>1 DEF Load
<1>3. ASSUME Unload PROVE Places'
  BY <1>3, <1>1 DEF Unload
<1>4. ASSUME NEW j \in Jobs, Dispatch(j) \/ Cancel(j) \/ Lookup(j) \/ Acquire(j) \/ WaitPolls(j)
      PROVE  Places'
  <2>1. CASE Dispatch(j) BY <2>1 DEF Dispatch, TypeOK
  <2>2. CASE Cancel(j) BY <2>2, <1>1 DEF Cancel
  <2>3. CASE Lookup(j) BY <2>3 DEF Lookup, TypeOK
  <2>4. CASE Acquire(j)
    <3>1. inst[j] \in Instances /\ free[inst[j]] \in Seq(Ctxs) /\ free[inst[j]] # <<>>
      BY <2>4 DEF Acquire, TypeOK
    <3>2. Last(free[inst[j]]) \in Ctxs
      BY <3>1, LastFront
    <3>3. Last(free[inst[j]]) # 0
      BY <3>2, PoolAssumption DEF Ctxs
    <3> QED BY <2>4, <3>2, <3>3 DEF Acquire, TypeOK
  <2>5. CASE WaitPolls(j) BY <2>5 DEF WaitPolls, TypeOK
  <2> QED BY <1>4, <2>1, <2>2, <2>3, <2>4, <2>5
<1>5. ASSUME NEW j \in Jobs, Clear(j) \/ Embed(j) \/ LockProjector(j) \/ Encode(j)
      PROVE  Places'
  BY <1>5 DEF Clear, Embed, LockProjector, Encode, Goes, TypeOK
<1>6. ASSUME NEW j \in Jobs, PromptFails(j) \/ Prefill(j) \/ StartSampling(j) \/ Generate(j)
      PROVE  Places'
  BY <1>6 DEF PromptFails, Prefill, StartSampling, Generate, Goes, TypeOK
<1>7. ASSUME NEW j \in Jobs, EndSampling(j) \/ StopsEarly(j) \/ Release(j) \/ Return(j)
      PROVE  Places'
  BY <1>7 DEF EndSampling, StopsEarly, Release, Return, Goes, TypeOK
<1>8. UNCHANGED vars => Places'
  BY <1>1 DEF vars
<1> QED BY <1>2, <1>3, <1>4, <1>5, <1>6, <1>7, <1>8, Steps

\* A request that has a context has an instance.
LEMMA Borrower ==
    ASSUME TypeOK, Places, NEW j \in Jobs, ctx[j] # 0
    PROVE  inst[j] \in Instances /\ inst[j] # 0 /\ ctx[j] \in Ctxs
BY DEF TypeOK, Places

\* A context is taken from the free list by one request and goes back once.
LEMMA LendingStep == ASSUME ContextsInv, [Next]_vars PROVE Lending'
<1> USE DEF ContextsInv
<1>1. ASSUME UNCHANGED <<free, inst, ctx>> PROVE Lending'
  BY <1>1 DEF Lending
<1>2. ASSUME NEW i \in Instances, NEW k \in Kinds, NEW n \in Ctxs, Load(i, k, n) PROVE Lending'
  <2>1. \A j \in Jobs : inst[j] # i
    BY <1>2, InstancesAssumption DEF Load, ReferencesLive
  <2>2. free' = [free EXCEPT ![i] = [c \in 1 .. n |-> c]] /\ inst' = inst /\ ctx' = ctx
    BY <1>2 DEF Load
  <2>3. Distinct([c \in 1 .. n |-> c])
    BY DEF Distinct
  <2>4. \A h \in Instances : Distinct(free'[h])
    BY <2>2, <2>3 DEF Lending, TypeOK
  <2>5. \A j \in Jobs : ctx[j] # 0 => free'[inst[j]] = free[inst[j]]
    BY <2>1, <2>2, Borrower DEF TypeOK
  <2> QED BY <2>2, <2>4, <2>5 DEF Lending
<1>3. ASSUME NEW i \in Instances, free' = [free EXCEPT ![i] = <<>>], \A j \in Jobs : ctx[j] # 0 => inst[j] # i
      PROVE  (\A h \in Instances : Distinct(free'[h])) /\ \A j \in Jobs : ctx[j] # 0 => free'[inst[j]] = free[inst[j]]
  <2>1. Distinct(<<>>)
    BY DEF Distinct
  <2> QED BY <1>3, <2>1, Borrower DEF Lending, TypeOK
<1>4. ASSUME Unload PROVE Lending'
  <2>1. registry[Found] \in Instances /\ inst' = inst /\ ctx' = ctx
    BY <1>4 DEF TypeOK, Unload, Found, Kinds
  <2>2. CASE References(registry[Found]) = {}
    <3>1. \A j \in Jobs : inst[j] # registry[Found]
      BY <2>2 DEF References
    <3>2. free' = [free EXCEPT ![registry[Found]] = <<>>]
      BY <1>4, <2>2 DEF Unload, Destroyed
    <3> QED BY <2>1, <3>1, <3>2, <1>3 DEF Lending
  <2>3. CASE References(registry[Found]) # {}
    BY <1>4, <2>1, <2>3, <1>1 DEF Unload
  <2> QED BY <2>2, <2>3
<1>5. ASSUME NEW j \in Jobs, Dispatch(j) \/ Cancel(j) \/ Lookup(j) \/ Acquire(j) \/ WaitPolls(j)
      PROVE  Lending'
  <2>1. CASE ~Lookup(j) /\ ~Acquire(j)
    BY <1>5, <2>1, <1>1 DEF Dispatch, Cancel, WaitPolls, pool
  <2>2. CASE Lookup(j)
    <3>1. free' = free /\ ctx' = ctx /\ ctx[j] = 0 /\ inst[j] = 0 /\ \A o \in Jobs \ {j} : inst'[o] = inst[o]
      BY <2>2 DEF Lookup, pool, TypeOK, Places, Borrowing, Working
    <3>2. ASSUME NEW o \in Jobs, NEW q \in Jobs, o # q, ctx[o] # 0, inst'[q] = inst'[o] PROVE ctx[q] # ctx[o]
      <4>1. CASE q = j
        BY <3>1, <3>2, <4>1
      <4>2. CASE q # j
        BY <3>1, <3>2, <4>2 DEF Lending
      <4> QED BY <4>1, <4>2
    <3> QED BY <3>1, <3>2 DEF Lending
  <2>3. CASE Acquire(j)
    <3> DEFINE i == inst[j]
               c == Last(free[i])
               rest == Front(free[i])
    <3>1. i \in Instances /\ free[i] \in Seq(Ctxs) /\ free[i] # <<>> /\ ctx[j] = 0
      BY <2>3 DEF Acquire, TypeOK, Places, Borrowing, Working
    <3>2. /\ c \in Ctxs /\ Elements(free[i]) = Elements(rest) \cup {c}
          /\ Distinct(rest) /\ c \notin Elements(rest)
      BY <3>1, LastFront DEF Lending
    <3>3. ctx' = [ctx EXCEPT ![j] = c] /\ free' = [free EXCEPT ![i] = rest] /\ inst' = inst
      BY <2>3 DEF Acquire
    <3> HIDE DEF c, rest
    <3>4. \A h \in Instances : Distinct(free'[h])
      BY <3>1, <3>2, <3>3 DEF Lending, TypeOK
    <3>5. \A o \in Jobs : o # j /\ ctx[o] # 0 /\ inst[o] = i => ctx[o] # c
      BY <3>1, <3>2 DEF Lending
    <3>6. ASSUME NEW o \in Jobs, ctx'[o] # 0 PROVE ctx'[o] \notin Elements(free'[inst[o]])
      <4>1. CASE o = j
        BY <3>1, <3>2, <3>3, <4>1 DEF TypeOK
      <4>2. CASE o # j
        <5>1. ctx'[o] = ctx[o] /\ ctx[o] # 0 /\ inst[o] \in Instances
          BY <3>3, <3>6, <4>2, Borrower DEF TypeOK
        <5>2. ctx[o] \notin Elements(free[inst[o]])
          BY <5>1 DEF Lending
        <5> QED BY <3>1, <3>2, <3>3, <5>1, <5>2 DEF TypeOK
      <4> QED BY <4>1, <4>2
    <3>7. ASSUME NEW o \in Jobs, NEW q \in Jobs, o # q, ctx'[o] # 0, inst[q] = inst[o] PROVE ctx'[q] # ctx'[o]
      <4>1. c # 0
        BY <3>2, PoolAssumption DEF Ctxs
      <4> QED BY <3>1, <3>3, <3>5, <3>7, <4>1 DEF Lending, TypeOK
    <3> QED BY <3>3, <3>4, <3>6, <3>7 DEF Lending
  <2> QED BY <1>5, <2>1, <2>2, <2>3
<1>6. ASSUME NEW j \in Jobs, Clear(j) \/ Embed(j) \/ LockProjector(j) \/ Encode(j)
      PROVE  Lending'
  BY <1>6, <1>1 DEF Clear, Embed, LockProjector, Encode
<1>7. ASSUME NEW j \in Jobs, PromptFails(j) \/ Prefill(j) \/ StartSampling(j) \/ Generate(j)
      PROVE  Lending'
  BY <1>7, <1>1 DEF PromptFails, Prefill, StartSampling, Generate, pool
<1>8. ASSUME NEW j \in Jobs, EndSampling(j) \/ StopsEarly(j) \/ Release(j) \/ Return(j)
      PROVE  Lending'
  <2>1. CASE EndSampling(j) \/ StopsEarly(j)
    BY <2>1, <1>1 DEF EndSampling, StopsEarly, pool
  <2>2. CASE Release(j)
    <3> DEFINE i == inst[j]
               c == ctx[j]
               all == Append(free[i], c)
    <3>1. c # 0 /\ i \in Instances /\ c \in Ctxs /\ free[i] \in Seq(Ctxs)
      BY <2>2, Borrower DEF Release, Places, Borrowing, TypeOK
    <3>2. c \notin Elements(free[i]) /\ Distinct(free[i])
      BY <3>1 DEF Lending
    <3>3. Distinct(all) /\ Elements(all) = Elements(free[i]) \cup {c}
      BY <3>1, <3>2, AppendDistinct, AppendElements
    <3>4. ctx' = [ctx EXCEPT ![j] = 0] /\ free' = [free EXCEPT ![i] = all] /\ inst' = inst
      BY <2>2 DEF Release
    <3> HIDE DEF all
    <3>5. \A h \in Instances : Distinct(free'[h])
      BY <3>1, <3>3, <3>4 DEF Lending, TypeOK
    <3>6. ASSUME NEW o \in Jobs, ctx'[o] # 0 PROVE ctx'[o] \notin Elements(free'[inst[o]])
      <4>1. o # j /\ ctx'[o] = ctx[o] /\ ctx[o] # 0 /\ inst[o] \in Instances
        BY <3>4, <3>6, Borrower DEF TypeOK
      <4>2. ctx[o] \notin Elements(free[inst[o]])
        BY <4>1 DEF Lending
      <4>3. inst[o] = i => ctx[o] # c
        BY <3>1, <4>1 DEF Lending
      <4> QED BY <3>1, <3>3, <3>4, <4>1, <4>2, <4>3 DEF TypeOK
    <3>7. \A o, q \in Jobs : o # q /\ ctx'[o] # 0 /\ inst[q] = inst[o] => ctx'[q] # ctx'[o]
      BY <3>4 DEF Lending, TypeOK
    <3> QED BY <3>4, <3>5, <3>6, <3>7 DEF Lending
  <2>3. CASE Return(j)
    <3>1. ctx' = ctx /\ ctx[j] = 0 /\ inst' = [inst EXCEPT ![j] = 0]
      BY <2>3 DEF Return, Places, Borrowing, Working
    <3>2. (\A h \in Instances : Distinct(free'[h])) /\ \A o \in Jobs : ctx[o] # 0 => free'[inst[o]] = free[inst[o]]
      <4>1. CASE inst[j] # 0 /\ inst[j] \notin Resident /\ References(inst[j]) = {j}
        <5>1. inst[j] \in Instances /\ free' = [free EXCEPT ![inst[j]] = <<>>]
          BY <2>3, <4>1 DEF Return, Destroyed, TypeOK
        <5>2. \A o \in Jobs : ctx[o] # 0 => inst[o] # inst[j]
          BY <3>1, <4>1 DEF References
        <5> QED BY <5>1, <5>2, <1>3
      <4>2. CASE ~(inst[j] # 0 /\ inst[j] \notin Resident /\ References(inst[j]) = {j})
        BY <2>3, <4>2 DEF Return, Lending
      <4> QED BY <4>1, <4>2
    <3>3. \A o \in Jobs : ctx[o] # 0 => inst'[o] = inst[o] /\ inst[o] # 0
      BY <3>1, Borrower DEF TypeOK
    <3>4. ASSUME NEW o \in Jobs, NEW q \in Jobs, o # q, ctx[o] # 0, inst'[q] = inst'[o] PROVE ctx[q] # ctx[o]
      BY <3>1, <3>3, <3>4 DEF Lending, TypeOK
    <3> QED BY <3>1, <3>2, <3>3, <3>4 DEF Lending
  <2> QED BY <1>8, <2>1, <2>2, <2>3
<1>9. UNCHANGED vars => Lending'
  BY <1>1 DEF vars, pool
<1> QED BY <1>2, <1>4, <1>5, <1>6, <1>7, <1>8, <1>9, Steps

\* A request never has more to generate than its context holds.
LEMMA ProgressStep == ASSUME ContextsInv, [Next]_vars PROVE Progress'
<1> USE DEF ContextsInv
<1>1. ASSUME UNCHANGED <<at, req, done, made, room>> PROVE Progress'
  BY <1>1 DEF Progress
<1>2. ASSUME NEW i \in Instances, NEW k \in Kinds, NEW n \in Ctxs, Load(i, k, n) PROVE Progress'
  BY <1>2, <1>1 DEF Load
<1>3. ASSUME Unload PROVE Progress'
  BY <1>3, <1>1 DEF Unload
<1>4. ASSUME NEW j \in Jobs, Dispatch(j) \/ Cancel(j) \/ Lookup(j) \/ Acquire(j) \/ WaitPolls(j)
      PROVE  Progress'
  BY <1>4 DEF Progress, TypeOK, Dispatch, Cancel, Lookup, Acquire, WaitPolls
<1>5. ASSUME NEW j \in Jobs, Clear(j) \/ Embed(j) \/ LockProjector(j) \/ Encode(j)
      PROVE  Progress'
  <2>1. CASE ~Encode(j)
    BY <1>5, <2>1 DEF Progress, TypeOK, Clear, Embed, LockProjector, Goes
  <2>2. CASE Encode(j)
    <3>1. req[j].prompt \in Nat
      BY RequestTypes DEF TypeOK
    <3> QED BY <2>2, <3>1 DEF Progress, TypeOK, Encode, Goes
  <2> QED BY <2>1, <2>2
<1>6. ASSUME NEW j \in Jobs, PromptFails(j) \/ Prefill(j) \/ StartSampling(j) \/ Generate(j)
      PROVE  Progress'
  <2>1. CASE PromptFails(j)
    BY <2>1 DEF Progress, TypeOK, PromptFails, Goes
  <2>2. CASE Prefill(j)
    <3> DEFINE n == Min({NBatch, req[j].prompt - done[j]})
    <3>1. req[j].prompt \in Nat /\ done[j] \in Nat
      BY RequestTypes DEF TypeOK
    <3>2. n \in Nat /\ done[j] + n <= req[j].prompt
      BY <2>2, <3>1, SizesAssumption, MinMax DEF Prefill
    <3>3. /\ done' = [done EXCEPT ![j] = @ + n] /\ UNCHANGED <<at, req, made, room>>
          /\ at[j] = "prompt" /\ req[j].prompt < NCtx
      BY <2>2 DEF Prefill
    <3> HIDE DEF n
    <3> QED BY <3>1, <3>2, <3>3 DEF Progress, TypeOK
  <2>3. CASE StartSampling(j)
    <3>1. req[j].prompt \in Nat /\ done[j] \in Nat /\ NCtx \in Nat
      BY RequestTypes, SizesAssumption DEF TypeOK
    <3>2. done[j] <= NCtx /\ made[j] = 0
      BY <2>3, <3>1 DEF StartSampling, Progress
    <3>3. Room(j) \in Nat /\ done[j] + Room(j) <= NCtx
      BY <3>2, RoomFits
    <3> QED BY <2>3, <3>2, <3>3 DEF Progress, TypeOK, StartSampling, Goes
  <2>4. CASE Generate(j)
    BY <2>4 DEF Progress, TypeOK, Generate
  <2> QED BY <1>6, <2>1, <2>2, <2>3, <2>4
<1>7. ASSUME NEW j \in Jobs, EndSampling(j) \/ StopsEarly(j) \/ Release(j) \/ Return(j)
      PROVE  Progress'
  BY <1>7 DEF Progress, TypeOK, EndSampling, StopsEarly, Release, Return, Goes
<1>8. UNCHANGED vars => Progress'
  BY <1>1 DEF vars
<1> QED BY <1>2, <1>3, <1>4, <1>5, <1>6, <1>7, <1>8, Steps

\* Who works on a context changes that of nobody else.
LEMMA OtherContexts ==
    ASSUME ContextsInv, NEW j \in Jobs, ctx[j] # 0, UNCHANGED <<inst, ctx>>,
           \A i \in Instances, c \in Ctxs : i # inst[j] \/ c # ctx[j] => cache'[i][c] = cache[i][c],
           NEW o \in Jobs, o # j, at[o] \in Working
    PROVE  Mine(o)' = Mine(o)
<1>1. ctx[o] # 0
  BY DEF ContextsInv, Places, Borrowing
<1>2. inst[o] \in Instances /\ ctx[o] \in Ctxs
  BY <1>1, Borrower DEF ContextsInv
<1>3. inst[o] # inst[j] \/ ctx[o] # ctx[j]
  BY <1>1 DEF ContextsInv, Lending
<1> QED BY <1>2, <1>3 DEF Mine

\* A destroyed instance was nobody's workplace.
LEMMA DestroyedContexts ==
    ASSUME ContextsInv, NEW i \in Instances, Destroyed(i), \A j \in Jobs : ctx[j] # 0 => inst[j] # i,
           NEW o \in Jobs, ctx[o] # 0
    PROVE  cache'[inst[o]] = cache[inst[o]]
BY Borrower DEF ContextsInv, TypeOK, Destroyed

\* Each borrower finds its own tokens, and counts them.
LEMMA ContentsStep == ASSUME ContextsInv, [Next]_vars PROVE Contents'
<1> USE DEF ContextsInv
<1>1. ASSUME UNCHANGED <<cache, inst, ctx, done, made>>, \A o \in Jobs : at'[o] \in Working => at[o] \in Working
      PROVE  Contents'
  BY <1>1 DEF Contents, Mine
<1>2. ASSUME NEW i \in Instances, NEW k \in Kinds, NEW n \in Ctxs, Load(i, k, n) PROVE Contents'
  BY <1>2, <1>1 DEF Load
<1>3. ASSUME Unload PROVE Contents'
  <2>1. registry[Found] \in Instances /\ UNCHANGED <<inst, ctx, done, made, at>>
    BY <1>3 DEF TypeOK, Unload, Found, Kinds
  <2>2. CASE References(registry[Found]) = {}
    <3>1. \A j \in Jobs : inst[j] # registry[Found]
      BY <2>2 DEF References
    <3>2. \A o \in Jobs : ctx[o] # 0 => cache'[inst[o]] = cache[inst[o]]
      BY <1>3, <2>1, <2>2, <3>1, DestroyedContexts DEF Unload
    <3> QED BY <2>1, <3>2 DEF Contents, Mine, Places, Borrowing
  <2>3. CASE References(registry[Found]) # {}
    BY <1>3, <2>1, <2>3, <1>1 DEF Unload
  <2> QED BY <2>2, <2>3
<1>4. ASSUME NEW j \in Jobs, Dispatch(j) \/ Cancel(j) \/ Lookup(j) \/ Acquire(j) \/ WaitPolls(j)
      PROVE  Contents'
  <2>1. CASE ~Lookup(j) /\ ~Acquire(j)
    BY <1>4, <2>1, <1>1 DEF Dispatch, Cancel, WaitPolls, pool, TypeOK, Working
  <2>2. CASE Lookup(j)
    <3>1. /\ UNCHANGED <<cache, ctx, done, made>>
          /\ \A o \in Jobs : at'[o] \in Working => at[o] \in Working /\ inst'[o] = inst[o]
      BY <2>2 DEF Lookup, pool, TypeOK, Working
    <3>2. \A o \in Jobs : at'[o] \in Working => Mine(o)' = Mine(o)
      BY <3>1 DEF Mine
    <3> QED BY <3>1, <3>2 DEF Contents
  <2>3. CASE Acquire(j)
    BY <2>3 DEF Acquire, Contents, Mine, TypeOK, Working
  <2> QED BY <1>4, <2>1, <2>2, <2>3
<1>5. ASSUME NEW j \in Jobs, NEW n \in Nat, at[j] \in Working, Decoded(j, n), UNCHANGED <<inst, ctx>>,
             done' \in [Jobs -> Nat], made' \in [Jobs -> Nat], done'[j] + made'[j] = done[j] + made[j] + n,
             \A o \in Jobs \ {j} : at'[o] = at[o] /\ done'[o] = done[o] /\ made'[o] = made[o]
      PROVE  Contents'
  <2>1. ctx[j] # 0 /\ inst[j] # 0
    BY <1>5 DEF Places, Borrowing
  <2>2. /\ Mine(j)' = [of |-> Mine(j).of \cup {j}, n |-> Mine(j).n + n]
        /\ \A i \in Instances, c \in Ctxs : i # inst[j] \/ c # ctx[j] => cache'[i][c] = cache[i][c]
    BY <1>5, <2>1, DecodedCache DEF Mine
  <2>3. \A o \in Jobs : o # j /\ at[o] \in Working => Mine(o)' = Mine(o)
    BY <1>5, <2>1, <2>2, OtherContexts
  <2>4. Mine(j).of \subseteq {j} /\ Mine(j).n = done[j] + made[j]
    BY <1>5 DEF Contents
  <2>5. Mine(j)'.of \subseteq {j} /\ Mine(j)'.n = done'[j] + made'[j]
    BY <1>5, <2>2, <2>4
  <2>6. ASSUME NEW o \in Jobs, o # j, at'[o] \in Working
        PROVE  Mine(o)'.of \subseteq {o} /\ Mine(o)'.n = done'[o] + made'[o]
    BY <1>5, <2>3, <2>6 DEF Contents
  <2> QED BY <2>5, <2>6 DEF Contents
<1>6. ASSUME NEW j \in Jobs, Clear(j) \/ Embed(j) \/ LockProjector(j) \/ Encode(j)
      PROVE  Contents'
  <2>1. ASSUME at[j] = "borrowed", UNCHANGED <<inst, ctx, done, made>>,
               NEW new, cache' = [cache EXCEPT ![inst[j]][ctx[j]] = new],
               \A o \in Jobs \ {j} : at'[o] = at[o], at'[j] = "finished" \/ new = Empty
        PROVE  Contents'
    <3>1. ctx[j] # 0 /\ inst[j] \in Instances /\ ctx[j] \in Ctxs
      BY <2>1, Borrower DEF Places, Borrowing
    <3>2. /\ cache'[inst[j]][ctx[j]] = new
          /\ \A i \in Instances, c \in Ctxs : i # inst[j] \/ c # ctx[j] => cache'[i][c] = cache[i][c]
      BY <2>1, <3>1 DEF TypeOK
    <3>3. \A o \in Jobs : o # j /\ at[o] \in Working => Mine(o)' = Mine(o)
      BY <2>1, <3>1, <3>2, OtherContexts
    <3>4. done[j] = 0 /\ made[j] = 0
      BY <2>1 DEF Progress
    <3>5. ASSUME at'[j] \in Working PROVE Mine(j)'.of \subseteq {j} /\ Mine(j)'.n = done'[j] + made'[j]
      BY <2>1, <3>2, <3>4, <3>5 DEF Working, Empty, Mine
    <3>6. ASSUME NEW o \in Jobs, o # j, at'[o] \in Working
          PROVE  Mine(o)'.of \subseteq {o} /\ Mine(o)'.n = done'[o] + made'[o]
      BY <2>1, <3>3, <3>6 DEF Contents
    <3> QED BY <3>5, <3>6 DEF Contents
  <2>2. CASE Clear(j)
    <3>1. \A o \in Jobs \ {j} : at'[o] = at[o]
      BY <2>2 DEF Clear, Goes, TypeOK
    <3> QED BY <2>1, <2>2, <3>1 DEF Clear
  <2>3. CASE Embed(j)
    <3>1. at[j] = "borrowed" /\ at'[j] = "finished" /\ \A o \in Jobs \ {j} : at'[o] = at[o]
      BY <2>3 DEF Embed, Goes, TypeOK
    <3>2. UNCHANGED <<inst, ctx, done, made>>
      BY <2>3 DEF Embed
    <3>3. CASE cache' = [cache EXCEPT ![inst[j]][ctx[j]] = [of |-> {j}, n |-> req[j].prompt]]
      BY <2>1, <3>1, <3>2, <3>3
    <3>4. CASE cache' = cache
      BY <1>1, <3>1, <3>2, <3>4 DEF Working
    <3> QED BY <2>3, <3>3, <3>4 DEF Embed
  <2>4. CASE LockProjector(j)
    BY <2>4, <1>1 DEF LockProjector, Goes, TypeOK, Working
  <2>5. CASE Encode(j)
    <3>1. req[j].prompt \in Nat /\ done[j] = 0 /\ made[j] = 0 /\ at[j] \in Working
      BY <2>5, RequestTypes DEF TypeOK, Encode, Progress, Working
    <3>2. CASE Decoded(j, req[j].prompt) /\ done' = [done EXCEPT ![j] = req[j].prompt]
      <4>1. UNCHANGED <<inst, ctx, made>> /\ made' \in [Jobs -> Nat] /\ made[j] \in Nat
        BY <2>5 DEF Encode, TypeOK
      <4>2. /\ done' \in [Jobs -> Nat] /\ done'[j] = req[j].prompt
            /\ \A o \in Jobs \ {j} : done'[o] = done[o] /\ at'[o] = at[o]
        BY <2>5, <3>1, <3>2 DEF Encode, Goes, TypeOK
      <4>3. done'[j] + made'[j] = done[j] + made[j] + req[j].prompt
        BY <3>1, <4>1, <4>2
      <4> QED BY <3>1, <3>2, <4>1, <4>2, <4>3, <1>5
    <3>3. CASE Goes(j, "finished") /\ UNCHANGED <<cache, done>>
      BY <2>5, <3>3, <1>1 DEF Encode, Goes, TypeOK, Working
    <3> QED BY <2>5, <3>2, <3>3 DEF Encode
  <2> QED BY <1>6, <2>2, <2>3, <2>4, <2>5
<1>7. ASSUME NEW j \in Jobs, PromptFails(j) \/ Prefill(j) \/ StartSampling(j) \/ Generate(j)
      PROVE  Contents'
  <2>1. CASE PromptFails(j)
    BY <2>1, <1>1 DEF PromptFails, pool, Goes, TypeOK, Working
  <2>2. CASE Prefill(j)
    <3> DEFINE n == Min({NBatch, req[j].prompt - done[j]})
    <3>1. req[j].prompt \in Nat /\ done[j] \in Nat /\ made[j] \in Nat
      BY RequestTypes DEF TypeOK
    <3>2. n \in Nat
      BY <2>2, <3>1, SizesAssumption, MinMax DEF Prefill
    <3>3. /\ Decoded(j, n) /\ done' = [done EXCEPT ![j] = @ + n] /\ made' = made
          /\ UNCHANGED <<at, inst, ctx>> /\ at[j] \in Working
      BY <2>2 DEF Prefill, Working
    <3> HIDE DEF n
    <3>4. /\ done' \in [Jobs -> Nat] /\ done'[j] + made'[j] = done[j] + made[j] + n
          /\ \A o \in Jobs \ {j} : done'[o] = done[o]
      BY <3>1, <3>2, <3>3 DEF TypeOK
    <3> QED BY <3>2, <3>3, <3>4, <1>5 DEF TypeOK
  <2>3. CASE StartSampling(j)
    BY <2>3, <1>1 DEF StartSampling, pool, Goes, TypeOK, Working
  <2>4. CASE Generate(j)
    <3>1. /\ 1 \in Nat /\ Decoded(j, 1) /\ made' = [made EXCEPT ![j] = @ + 1] /\ done' = done
          /\ UNCHANGED <<at, inst, ctx>> /\ at[j] \in Working
      BY <2>4 DEF Generate, Working
    <3>2. /\ made' \in [Jobs -> Nat] /\ made'[j] = made[j] + 1
          /\ \A o \in Jobs \ {j} : made'[o] = made[o]
      BY <3>1 DEF TypeOK
    <3>3. done'[j] + made'[j] = done[j] + made[j] + 1
      <4>1. done[j] \in Nat /\ made[j] \in Nat /\ done'[j] = done[j]
        BY <3>1 DEF TypeOK
      <4> QED BY <3>2, <4>1
    <3> QED BY <3>1, <3>2, <3>3, <1>5 DEF TypeOK
  <2> QED BY <1>7, <2>1, <2>2, <2>3, <2>4
<1>8. ASSUME NEW j \in Jobs, EndSampling(j) \/ StopsEarly(j) \/ Release(j) \/ Return(j)
      PROVE  Contents'
  <2>1. CASE EndSampling(j) \/ StopsEarly(j)
    BY <2>1, <1>1 DEF EndSampling, StopsEarly, pool, Goes, TypeOK, Working
  <2>2. CASE Release(j)
    BY <2>2 DEF Release, Goes, TypeOK, Working, Contents, Mine
  <2>3. CASE Return(j)
    <3>1. /\ ctx' = ctx /\ ctx[j] = 0 /\ done' = done /\ made' = made
          /\ at' = [at EXCEPT ![j] = "out"] /\ inst' = [inst EXCEPT ![j] = 0]
      BY <2>3 DEF Return, Places, Borrowing, Working
    <3>2. \A o \in Jobs : ctx[o] # 0 => cache'[inst[o]] = cache[inst[o]]
      <4>1. CASE inst[j] # 0 /\ inst[j] \notin Resident /\ References(inst[j]) = {j}
        <5>1. inst[j] \in Instances /\ Destroyed(inst[j])
          BY <2>3, <4>1 DEF Return, TypeOK
        <5>2. \A o \in Jobs : ctx[o] # 0 => inst[o] # inst[j]
          BY <3>1, <4>1 DEF References
        <5> QED BY <5>1, <5>2, DestroyedContexts
      <4>2. CASE ~(inst[j] # 0 /\ inst[j] \notin Resident /\ References(inst[j]) = {j})
        BY <2>3, <4>2 DEF Return
      <4> QED BY <4>1, <4>2
    <3>3. ASSUME NEW o \in Jobs, at'[o] \in Working
          PROVE  o # j /\ at[o] \in Working /\ ctx[o] # 0 /\ inst'[o] = inst[o]
      BY <3>1, <3>3 DEF TypeOK, Working, Places, Borrowing
    <3>4. \A o \in Jobs : at'[o] \in Working => Mine(o)' = Mine(o)
      BY <3>1, <3>2, <3>3 DEF Mine
    <3> QED BY <3>1, <3>3, <3>4 DEF Contents
  <2> QED BY <1>8, <2>1, <2>2, <2>3
<1>9. UNCHANGED vars => Contents'
  BY <1>1 DEF vars, pool
<1> QED BY <1>2, <1>3, <1>4, <1>6, <1>7, <1>8, <1>9, Steps

\* A context that changes hands is counted once.
LEMMA PoolStep == ASSUME ContextsInv, [Next]_vars PROVE PoolIsWhole'
<1> USE DEF ContextsInv
<1>1. ASSUME UNCHANGED <<kind, gone, size, free, inst, ctx>> PROVE PoolIsWhole'
  BY <1>1 DEF PoolIsWhole, Borrowers
<1>2. \A i \in Instances : IsFiniteSet(Borrowers(i)) /\ Cardinality(Borrowers(i)) \in Nat
  BY JobsAssumption, FS_Subset, FS_CardinalityType DEF Borrowers
<1>3. ASSUME NEW i \in Instances, NEW k \in Kinds, NEW n \in Ctxs, Load(i, k, n) PROVE PoolIsWhole'
  <2>1. /\ \A h \in Instances \ {i} : kind'[h] = kind[h] /\ size'[h] = size[h] /\ free'[h] = free[h]
        /\ size'[i] = n /\ free'[i] = [c \in 1 .. n |-> c] /\ UNCHANGED <<gone, inst, ctx>>
    BY <1>3 DEF Load, TypeOK
  <2>2. Borrowers(i) = {}
    BY <1>3, InstancesAssumption DEF Load, ReferencesLive, Borrowers
  <2>3. n \in Nat /\ Len(free'[i]) = n
    BY <2>1, PoolAssumption DEF Ctxs
  <2>4. \A h \in Instances : Borrowers(h)' = Borrowers(h)
    BY <2>1 DEF Borrowers
  <2>5. Len(free'[i]) + Cardinality(Borrowers(i)') = size'[i]
    <3>1. Borrowers(i)' = {} /\ Cardinality({}) = 0
      BY <2>2, <2>4, FS_EmptySet
    <3>2. Cardinality(Borrowers(i)') = 0
      BY <3>1
    <3>3. Len(free'[i]) = n /\ size'[i] = n /\ n \in Nat
      BY <2>1, <2>3
    <3> QED BY <3>2, <3>3
  <2>6. ASSUME NEW h \in Instances, h # i, kind'[h] # "none", h \notin gone'
        PROVE  Len(free'[h]) + Cardinality(Borrowers(h)') = size'[h]
    BY <2>1, <2>4, <2>6 DEF PoolIsWhole
  <2> QED BY <2>5, <2>6 DEF PoolIsWhole
<1>4. ASSUME NEW i \in Instances, Destroyed(i), UNCHANGED <<kind, size>>,
             \A h \in Instances \ {i} : Borrowers(h)' = Borrowers(h)
      PROVE  PoolIsWhole'
  <2>1. gone' = gone \cup {i} /\ \A h \in Instances \ {i} : free'[h] = free[h]
    BY <1>4 DEF Destroyed, TypeOK
  <2> QED BY <1>4, <2>1 DEF PoolIsWhole
<1>5. ASSUME Unload PROVE PoolIsWhole'
  <2>1. registry[Found] \in Instances /\ UNCHANGED <<kind, size, inst, ctx>>
    BY <1>5 DEF TypeOK, Unload, Found, Kinds
  <2>2. \A h \in Instances : Borrowers(h)' = Borrowers(h)
    BY <2>1 DEF Borrowers
  <2>3. CASE References(registry[Found]) = {}
    BY <1>4, <1>5, <2>1, <2>2, <2>3 DEF Unload
  <2>4. CASE References(registry[Found]) # {}
    BY <1>1, <1>5, <2>1, <2>4 DEF Unload
  <2> QED BY <2>3, <2>4
<1>6. ASSUME UNCHANGED <<kind, gone, size>>, NEW j \in Jobs, inst[j] \in Instances,
             inst' = inst, \A o \in Jobs \ {j} : ctx'[o] = ctx[o],
             \A h \in Instances \ {inst[j]} : free'[h] = free[h],
             \/ ctx[j] = 0 /\ ctx'[j] # 0 /\ Len(free'[inst[j]]) = Len(free[inst[j]]) - 1
             \/ ctx[j] # 0 /\ ctx'[j] = 0 /\ Len(free'[inst[j]]) = Len(free[inst[j]]) + 1
      PROVE  PoolIsWhole'
  <2> DEFINE i == inst[j]
  <2>1. \A h \in Instances \ {i} : Borrowers(h)' = Borrowers(h)
    BY <1>6 DEF Borrowers
  <2>2. Len(free[i]) \in Nat
    BY <1>6, LenProperties DEF TypeOK
  <2>3. Len(free'[i]) + Cardinality(Borrowers(i)') = Len(free[i]) + Cardinality(Borrowers(i))
    <3>1. CASE ctx[j] = 0
      <4>1. j \notin Borrowers(i) /\ Borrowers(i)' = Borrowers(i) \cup {j}
        BY <1>6, <3>1 DEF Borrowers
      <4>2. Cardinality(Borrowers(i)') = Cardinality(Borrowers(i)) + 1
        BY <1>2, <1>6, <4>1, FS_AddElement
      <4> QED BY <1>2, <1>6, <2>2, <3>1, <4>2
    <3>2. CASE ctx[j] # 0
      <4>1. j \in Borrowers(i) /\ Borrowers(i)' = Borrowers(i) \ {j}
        BY <1>6, <3>2 DEF Borrowers
      <4>2. Cardinality(Borrowers(i)') = Cardinality(Borrowers(i)) - 1
        BY <1>2, <1>6, <4>1, FS_RemoveElement
      <4> QED BY <1>2, <1>6, <2>2, <3>2, <4>2
    <3> QED BY <3>1, <3>2
  <2>4. ASSUME NEW h \in Instances, kind'[h] # "none", h \notin gone'
        PROVE  Len(free'[h]) + Cardinality(Borrowers(h)') = size'[h]
    <3>1. Len(free[h]) + Cardinality(Borrowers(h)) = size[h]
      BY <1>6, <2>4 DEF PoolIsWhole
    <3>2. CASE h = i
      BY <1>6, <2>3, <3>1, <3>2
    <3>3. CASE h # i
      BY <1>6, <2>1, <3>1, <3>3
    <3> QED BY <3>2, <3>3
  <2> QED BY <2>4 DEF PoolIsWhole
<1>7. ASSUME NEW j \in Jobs, Dispatch(j) \/ Cancel(j) \/ Lookup(j) \/ Acquire(j) \/ WaitPolls(j)
      PROVE  PoolIsWhole'
  <2>1. CASE ~Lookup(j) /\ ~Acquire(j)
    BY <1>7, <2>1, <1>1 DEF Dispatch, Cancel, WaitPolls, model, pool
  <2>2. CASE Lookup(j)
    <3>1. ctx[j] = 0 /\ UNCHANGED <<kind, gone, size, free, ctx>> /\ \A o \in Jobs \ {j} : inst'[o] = inst[o]
      BY <2>2 DEF Lookup, model, pool, TypeOK, Places, Borrowing, Working
    <3>2. \A h \in Instances : Borrowers(h)' = Borrowers(h)
      BY <3>1 DEF Borrowers
    <3> QED BY <3>1, <3>2 DEF PoolIsWhole
  <2>3. CASE Acquire(j)
    <3>1. ctx[j] = 0 /\ inst[j] \in Instances /\ free[inst[j]] \in Seq(Ctxs) /\ free[inst[j]] # <<>>
      BY <2>3 DEF Acquire, TypeOK, Places, Borrowing, Working
    <3>2. /\ Last(free[inst[j]]) \in Ctxs
          /\ Len(Front(free[inst[j]])) = Len(free[inst[j]]) - 1
      BY <3>1, LastFront
    <3>3. Last(free[inst[j]]) # 0
      BY <3>2, PoolAssumption DEF Ctxs
    <3>4. /\ UNCHANGED <<kind, gone, size, inst>>
          /\ ctx' = [ctx EXCEPT ![j] = Last(free[inst[j]])]
          /\ free' = [free EXCEPT ![inst[j]] = Front(free[inst[j]])]
      BY <2>3 DEF Acquire, model
    <3>5. /\ ctx'[j] # 0 /\ \A o \in Jobs \ {j} : ctx'[o] = ctx[o]
          /\ Len(free'[inst[j]]) = Len(free[inst[j]]) - 1
          /\ \A h \in Instances \ {inst[j]} : free'[h] = free[h]
      BY <3>1, <3>2, <3>3, <3>4 DEF TypeOK
    <3> QED BY <3>1, <3>4, <3>5, <1>6
  <2> QED BY <1>7, <2>1, <2>2, <2>3
<1>8. ASSUME NEW j \in Jobs, Clear(j) \/ Embed(j) \/ LockProjector(j) \/ Encode(j)
      PROVE  PoolIsWhole'
  BY <1>8, <1>1 DEF Clear, Embed, LockProjector, Encode, model
<1>9. ASSUME NEW j \in Jobs, PromptFails(j) \/ Prefill(j) \/ StartSampling(j) \/ Generate(j)
      PROVE  PoolIsWhole'
  BY <1>9, <1>1 DEF PromptFails, Prefill, StartSampling, Generate, model, pool
<1>10. ASSUME NEW j \in Jobs, EndSampling(j) \/ StopsEarly(j) \/ Release(j) \/ Return(j)
       PROVE  PoolIsWhole'
  <2>1. CASE EndSampling(j) \/ StopsEarly(j)
    BY <2>1, <1>1 DEF EndSampling, StopsEarly, model, pool
  <2>2. CASE Release(j)
    <3>1. ctx[j] # 0 /\ inst[j] \in Instances /\ ctx[j] \in Ctxs /\ free[inst[j]] \in Seq(Ctxs)
      BY <2>2, Borrower DEF Release, Places, Borrowing, TypeOK
    <3>2. Len(Append(free[inst[j]], ctx[j])) = Len(free[inst[j]]) + 1
      BY <3>1, AppendProperties
    <3>3. /\ UNCHANGED <<kind, gone, size, inst>>
          /\ ctx' = [ctx EXCEPT ![j] = 0]
          /\ free' = [free EXCEPT ![inst[j]] = Append(free[inst[j]], ctx[j])]
      BY <2>2 DEF Release, model
    <3>4. /\ ctx'[j] = 0 /\ \A o \in Jobs \ {j} : ctx'[o] = ctx[o]
          /\ Len(free'[inst[j]]) = Len(free[inst[j]]) + 1
          /\ \A h \in Instances \ {inst[j]} : free'[h] = free[h]
      BY <3>1, <3>2, <3>3 DEF TypeOK
    <3> QED BY <3>1, <3>3, <3>4, <1>6
  <2>3. CASE Return(j)
    <3>1. /\ ctx' = ctx /\ ctx[j] = 0 /\ UNCHANGED <<kind, size>>
          /\ \A o \in Jobs \ {j} : inst'[o] = inst[o]
      BY <2>3 DEF Return, Places, Borrowing, Working, TypeOK
    <3>2. \A h \in Instances : Borrowers(h)' = Borrowers(h)
      BY <3>1 DEF Borrowers
    <3>3. CASE inst[j] # 0 /\ inst[j] \notin Resident /\ References(inst[j]) = {j}
      <4>1. inst[j] \in Instances /\ Destroyed(inst[j])
        BY <2>3, <3>3 DEF Return, TypeOK
      <4> QED BY <3>1, <3>2, <4>1, <1>4
    <3>4. CASE ~(inst[j] # 0 /\ inst[j] \notin Resident /\ References(inst[j]) = {j})
      <4>1. gone' = gone /\ free' = free
        BY <2>3, <3>4 DEF Return
      <4> QED BY <3>1, <3>2, <4>1 DEF PoolIsWhole
    <3> QED BY <3>3, <3>4
  <2> QED BY <1>10, <2>1, <2>2, <2>3
<1>11. UNCHANGED vars => PoolIsWhole'
  BY <1>1 DEF vars, model, pool
<1> QED BY <1>3, <1>5, <1>7, <1>8, <1>9, <1>10, <1>11, Steps

-----------------------------------------------------------------------------
\* Initially no model is loaded and no request is under way.
LEMMA ContextsInit == Init => ContextsInv
<1> SUFFICES ASSUME Init PROVE ContextsInv
  OBVIOUS
<1>1. <<>> \in Seq(Ctxs) /\ Empty \in [of : SUBSET Jobs, n : Nat]
  BY EmptySeq DEF Empty
<1>2. TypeOK
  BY <1>1, PoolAssumption DEF Init, TypeOK, NoJob
<1>3. ReferencesLive /\ Places /\ Progress /\ Contents /\ PoolIsWhole
  BY DEF Init, ReferencesLive, Places, Borrowing, Working, Progress, Contents, PoolIsWhole
<1>4. Lending
  BY DEF Init, Lending, Distinct, Elements
<1> QED BY <1>2, <1>3, <1>4 DEF ContextsInv

\* The strengthening the properties rest on.
THEOREM ContextsInvariant == Spec => []ContextsInv
<1>1. ContextsInv /\ [Next]_vars => ContextsInv'
  BY TypeStep, ReferencesStep, PlacesStep, LendingStep, ProgressStep, ContentsStep, PoolStep
     DEF ContextsInv
<1> QED BY <1>1, ContextsInit, PTL DEF Spec

\* The variables have their types.
THEOREM ContextsTypeOK == Spec => []TypeOK
<1>1. ContextsInv => TypeOK BY DEF ContextsInv
<1> QED BY <1>1, ContextsInvariant, PTL

\* A context at work is its borrower's alone, holds the borrower's tokens alone and
\* not more of them than it can, however it was used before.
THEOREM ContextsArePrivate == Spec => []SlotIsPrivate
<1>1. ContextsInv => SlotIsPrivate
  <2> SUFFICES ASSUME ContextsInv, NEW j \in Jobs, at[j] \in Working
               PROVE  /\ Mine(j).of \subseteq {j} /\ Mine(j).n = done[j] + made[j] /\ Mine(j).n <= NCtx
                      /\ ctx[j] \notin ToSet(free[inst[j]])
                      /\ \A o \in Jobs \ {j} : inst[o] = inst[j] => ctx[o] # ctx[j]
    BY DEF SlotIsPrivate
  <2>1. ctx[j] # 0
    BY DEF ContextsInv, Places, Borrowing
  <2>2. Mine(j).of \subseteq {j} /\ Mine(j).n = done[j] + made[j]
    BY DEF ContextsInv, Contents
  <2>3. done[j] + made[j] <= NCtx
    <3>1. done[j] \in Nat /\ made[j] \in Nat /\ room[j] \in Nat /\ req[j].prompt \in Nat /\ NCtx \in Nat
      BY RequestTypes, SizesAssumption DEF ContextsInv, TypeOK
    <3> QED BY <3>1 DEF ContextsInv, Progress, Working
  <2>4. ctx[j] \notin ToSet(free[inst[j]]) /\ \A o \in Jobs \ {j} : inst[o] = inst[j] => ctx[o] # ctx[j]
    BY <2>1 DEF ContextsInv, Lending, Elements, ToSet
  <2> QED BY <2>2, <2>3, <2>4
<1> QED BY <1>1, ContextsInvariant, PTL

\* A model that is unloaded outlives the requests that run on it.
THEOREM UnloadedModelsStay == Spec => []UnloadKeepsRunningJobs
<1>1. ContextsInv => UnloadKeepsRunningJobs
  BY DEF ContextsInv, ReferencesLive, UnloadKeepsRunningJobs
<1> QED BY <1>1, ContextsInvariant, PTL

\* The capacity that is reported for a resident model is free, across unloads and
\* reloads.
THEOREM ReportedCapacityIsFree == Spec => []CapacityAcrossReloads
<1>1. ContextsInv => CapacityAcrossReloads
  <2> SUFFICES ASSUME ContextsInv, NEW i \in Resident
               PROVE  Reported(i) <= Len(free[i])
    BY DEF CapacityAcrossReloads
  <2>1. i \in Instances /\ i \notin gone /\ kind[i] # "none"
    BY DEF ContextsInv, TypeOK, ReferencesLive, Resident, Kinds
  <2>2. Len(free[i]) + Cardinality(Borrowers(i)) = size[i] /\ Len(free[i]) \in Nat /\ size[i] \in Int
    BY <2>1, PoolAssumption, LenProperties DEF ContextsInv, PoolIsWhole, TypeOK
  <2>3. Borrowers(i) \subseteq Counted
    BY DEF ContextsInv, Places, Borrowers, Counted
  <2>4. /\ IsFiniteSet(Counted) /\ Cardinality(Counted) \in Nat /\ Cardinality(Borrowers(i)) \in Nat
        /\ Cardinality(Borrowers(i)) <= Cardinality(Counted)
    <3>1. IsFiniteSet(Counted)
      BY JobsAssumption, FS_Subset DEF Counted
    <3>2. IsFiniteSet(Borrowers(i)) /\ Cardinality(Borrowers(i)) <= Cardinality(Counted)
      BY <2>3, <3>1, FS_Subset
    <3> QED BY <3>1, <3>2, FS_CardinalityType
  <2> DEFINE spare == size[i] - Cardinality(Counted)
             nothing == 0
  <2>5. spare \in Int /\ nothing \in Int /\ spare <= Len(free[i]) /\ nothing <= Len(free[i])
    BY <2>2, <2>4
  <2>6. Reported(i) = Max({nothing, spare})
    BY DEF Reported
  <2> HIDE DEF spare, nothing
  <2> QED BY <2>5, <2>6, MinMax
<1> QED BY <1>1, ContextsInvariant, PTL

-----------------------------------------------------------------------------
(* Nobody waits in a circle.                                               *)

\* Who holds a projector is at work with it, and a pool that was made is not empty.
ProjectorHeld ==
    \A i \in Instances : projector[i] # NoJob =>
        projector[i] \in Jobs /\ at[projector[i]] = "encode" /\ inst[projector[i]] = i
PoolsNotEmpty == \A i \in Instances : kind[i] # "none" => size[i] >= 1

WaitInv == ContextsInv /\ ProjectorHeld /\ PoolsNotEmpty

\* A projector is taken by who asks for it and given back by its holder.
LEMMA ProjectorStep == ASSUME ContextsInv, ProjectorHeld, [Next]_vars PROVE ProjectorHeld'
<1> USE DEF ContextsInv
<1>1. ASSUME projector' = projector,
             \A j \in Jobs : at[j] = "encode" => at'[j] = "encode" /\ inst'[j] = inst[j]
      PROVE  ProjectorHeld'
  BY <1>1 DEF ProjectorHeld
<1>2. ASSUME NEW i \in Instances, NEW k \in Kinds, NEW n \in Ctxs, Load(i, k, n) PROVE ProjectorHeld'
  BY <1>2, <1>1 DEF Load
<1>3. ASSUME Unload PROVE ProjectorHeld'
  BY <1>3, <1>1 DEF Unload
<1>4. ASSUME NEW j \in Jobs, Dispatch(j) \/ Cancel(j) \/ Lookup(j) \/ Acquire(j) \/ WaitPolls(j)
      PROVE  ProjectorHeld'
  BY <1>4, <1>1 DEF Dispatch, Cancel, Lookup, Acquire, WaitPolls, pool, TypeOK
<1>5. ASSUME NEW j \in Jobs, Clear(j) \/ Embed(j) \/ LockProjector(j) \/ Encode(j)
      PROVE  ProjectorHeld'
  <2>1. CASE Clear(j) \/ Embed(j)
    BY <2>1, <1>1 DEF Clear, Embed, Goes, TypeOK
  <2>2. CASE LockProjector(j)
    <3>1. inst[j] \in Instances
      BY <2>2 DEF LockProjector, TypeOK, Places, Borrowing, Working
    <3>2. projector' = [projector EXCEPT ![inst[j]] = j] /\ at' = [at EXCEPT ![j] = "encode"] /\ inst' = inst
      BY <2>2 DEF LockProjector, Goes
    <3> QED BY <3>1, <3>2 DEF ProjectorHeld, TypeOK
  <2>3. CASE Encode(j)
    <3>1. inst[j] \in Instances
      BY <2>3 DEF Encode, TypeOK, Places, Borrowing, Working
    <3>2. /\ projector' = [projector EXCEPT ![inst[j]] = NoJob] /\ inst' = inst
          /\ \A o \in Jobs \ {j} : at'[o] = at[o]
      BY <2>3 DEF Encode, Goes, TypeOK
    <3> QED BY <3>1, <3>2 DEF ProjectorHeld, TypeOK
  <2> QED BY <1>5, <2>1, <2>2, <2>3
<1>6. ASSUME NEW j \in Jobs, PromptFails(j) \/ Prefill(j) \/ StartSampling(j) \/ Generate(j)
      PROVE  ProjectorHeld'
  BY <1>6, <1>1 DEF PromptFails, Prefill, StartSampling, Generate, Goes, pool, TypeOK
<1>7. ASSUME NEW j \in Jobs, EndSampling(j) \/ StopsEarly(j) \/ Release(j) \/ Return(j)
      PROVE  ProjectorHeld'
  BY <1>7, <1>1 DEF EndSampling, StopsEarly, Release, Return, Goes, pool, TypeOK
<1>8. UNCHANGED vars => ProjectorHeld'
  BY <1>1 DEF vars, pool
<1> QED BY <1>2, <1>3, <1>4, <1>5, <1>6, <1>7, <1>8, Steps

\* The size of a pool is fixed by its load.
LEMMA SizeStep == ASSUME TypeOK, PoolsNotEmpty, [Next]_vars PROVE PoolsNotEmpty'
<1>1. ASSUME UNCHANGED <<kind, size>> PROVE PoolsNotEmpty'
  BY <1>1 DEF PoolsNotEmpty
<1>2. ASSUME NEW i \in Instances, NEW k \in Kinds, NEW n \in Ctxs, Load(i, k, n) PROVE PoolsNotEmpty'
  <2>1. n >= 1
    BY PoolAssumption DEF Ctxs
  <2> QED BY <1>2, <2>1 DEF Load, PoolsNotEmpty, TypeOK
<1>3. Unload => PoolsNotEmpty'
  BY <1>1 DEF Unload
<1>4. ASSUME NEW j \in Jobs, Dispatch(j) \/ Cancel(j) \/ Lookup(j) \/ Acquire(j) \/ WaitPolls(j)
      PROVE  PoolsNotEmpty'
  BY <1>4, <1>1 DEF Dispatch, Cancel, Lookup, Acquire, WaitPolls, model
<1>5. ASSUME NEW j \in Jobs, Clear(j) \/ Embed(j) \/ LockProjector(j) \/ Encode(j)
      PROVE  PoolsNotEmpty'
  BY <1>5, <1>1 DEF Clear, Embed, LockProjector, Encode, model
<1>6. ASSUME NEW j \in Jobs, PromptFails(j) \/ Prefill(j) \/ StartSampling(j) \/ Generate(j)
      PROVE  PoolsNotEmpty'
  BY <1>6, <1>1 DEF PromptFails, Prefill, StartSampling, Generate, model
<1>7. ASSUME NEW j \in Jobs, EndSampling(j) \/ StopsEarly(j) \/ Release(j) \/ Return(j)
      PROVE  PoolsNotEmpty'
  BY <1>7, <1>1 DEF EndSampling, StopsEarly, Release, Return, model
<1>8. UNCHANGED vars => PoolsNotEmpty'
  BY <1>1 DEF vars, model
<1> QED BY <1>2, <1>3, <1>4, <1>5, <1>6, <1>7, <1>8, Steps

\* A projector that is held is held by a request that goes on.
LEMMA HolderGoesOn ==
    ASSUME WaitInv, NEW i \in Instances, projector[i] # NoJob
    PROVE  \E o \in Jobs : inst[o] = i /\ at[o] # "out" /\ ~Waits(o)
<1>1. projector[i] \in Jobs /\ at[projector[i]] = "encode" /\ inst[projector[i]] = i
  BY DEF WaitInv, ProjectorHeld
<1>2. ~Waits(projector[i])
  BY <1>1 DEF Waits
<1> QED BY <1>1, <1>2

\* When the free list of a live instance is empty, somebody has a context of it.
LEMMA EmptyPoolIsLent ==
    ASSUME ContextsInv, PoolsNotEmpty, NEW i \in Instances,
           kind[i] # "none", i \notin gone, free[i] = <<>>
    PROVE  \E o \in Jobs : inst[o] = i /\ ctx[o] # 0
<1>1. Len(free[i]) = 0 /\ size[i] >= 1 /\ Len(free[i]) + Cardinality(Borrowers(i)) = size[i]
  BY DEF PoolsNotEmpty, PoolIsWhole, ContextsInv
<1>2. Cardinality(Borrowers(i)) \in Nat
  BY JobsAssumption, FS_Subset, FS_CardinalityType DEF Borrowers
<1>3. size[i] \in Int
  BY PoolAssumption DEF ContextsInv, TypeOK
<1>4. Cardinality(Borrowers(i)) # 0
  <2> DEFINE lent == Cardinality(Borrowers(i))
             left == Len(free[i])
             all == size[i]
  <2>1. left = 0 /\ all >= 1 /\ left + lent = all /\ lent \in Nat /\ all \in Int
    BY <1>1, <1>2, <1>3
  <2> HIDE DEF lent, left, all
  <2>2. lent # 0
    BY <2>1
  <2> QED BY <2>2 DEF lent
<1>5. Borrowers(i) # {}
  BY <1>4, FS_EmptySet
<1> QED BY <1>5 DEF Borrowers

\* What the requests wait for is in somebody's hands.
THEOREM ContextsWaitInvariant == Spec => []WaitInv
<1>1. Init => ProjectorHeld /\ PoolsNotEmpty
  BY DEF Init, ProjectorHeld, PoolsNotEmpty
<1>2. ContextsInv /\ ProjectorHeld /\ PoolsNotEmpty /\ [Next]_vars => ProjectorHeld' /\ PoolsNotEmpty'
  BY ProjectorStep, SizeStep DEF ContextsInv
<1>3. WaitInv <=> ContextsInv /\ ProjectorHeld /\ PoolsNotEmpty
  BY DEF WaitInv
<1> QED BY <1>1, <1>2, <1>3, ContextsInvariant, PTL DEF Spec

\* Whenever a request waits for a context or for the projector, another request of
\* the same instance has what it takes to go on, for any number of threads, contexts,
\* loads and unloads: the two waits never close a circle.
THEOREM RequestsNeverDeadlock == Spec => []NoCircularWait
<1>1. WaitInv => NoCircularWait
  <2> SUFFICES ASSUME WaitInv, NEW j \in Jobs, Waits(j)
               PROVE  \E o \in Jobs : inst[o] = inst[j] /\ at[o] # "out" /\ ~Waits(o)
    BY DEF NoCircularWait
  <2>1. inst[j] # 0 /\ inst[j] \in Instances /\ inst[j] \notin gone /\ kind[inst[j]] # "none"
    BY DEF WaitInv, ContextsInv, Waits, Places, Borrowing, Working, ReferencesLive, TypeOK
  <2>2. CASE projector[inst[j]] # NoJob
    BY <2>1, <2>2, HolderGoesOn
  <2>3. CASE projector[inst[j]] = NoJob
    <3>1. free[inst[j]] = <<>>
      BY <2>3 DEF Waits
    <3>2. PICK o \in Jobs : inst[o] = inst[j] /\ ctx[o] # 0
      BY <2>1, <3>1, EmptyPoolIsLent DEF WaitInv
    <3>3. at[o] \in Borrowing
      BY <3>2 DEF WaitInv, ContextsInv, Places
    <3>4. at[o] # "out" /\ ~Waits(o)
      BY <2>3, <3>2, <3>3 DEF Waits, Borrowing, Working
    <3> QED BY <3>2, <3>4
  <2> QED BY <2>2, <2>3
<1> QED BY <1>1, ContextsWaitInvariant, PTL
=============================================================================
