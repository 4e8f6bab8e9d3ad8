----------------------------- MODULE DataLemmas -----------------------------
(***************************************************************************)
(* What the proofs need of sequences, of numbers and of sums: the elements *)
(* of a queue after a push and after a pop, and that a queue without       *)
(* repetitions stays one; induction over the naturals and over a finite    *)
(* set, each about a set of the values for which something holds; and how  *)
(* the sum of a function over a finite set follows its terms.              *)
(***************************************************************************)
EXTENDS Integers, Sequences, Functions, Folds, SequenceTheorems, FiniteSetTheorems,
        WellFoundedInduction, TLAPS

Elements(s) == {s[i] : i \in DOMAIN s}

\* No element occurs twice.
Distinct(s) == \A i, j \in DOMAIN s : s[i] = s[j] => i = j

\* A push adds its element.
LEMMA AppendElements ==
    ASSUME NEW S, NEW s \in Seq(S), NEW e \in S
    PROVE  Elements(Append(s, e)) = Elements(s) \cup {e}
<1> DEFINE r == Append(s, e)
<1>1. /\ r \in Seq(S) /\ Len(r) = Len(s) + 1
      /\ \A i \in 1..Len(s) : r[i] = s[i]
      /\ r[Len(s) + 1] = e
  BY AppendProperties
<1>2. DOMAIN r = 1..(Len(s) + 1) /\ DOMAIN s = 1..Len(s) /\ Len(s) \in Nat
  BY <1>1, LenProperties
<1> HIDE DEF r
<1>3. {r[i] : i \in DOMAIN r} = {s[i] : i \in DOMAIN s} \cup {e}
  BY <1>1, <1>2
<1> QED BY <1>3 DEF r, Elements

\* A pop takes the head and leaves the rest.
LEMMA HeadTailElements ==
    ASSUME NEW S, NEW s \in Seq(S), s # <<>>
    PROVE  /\ Head(s) \in S /\ Tail(s) \in Seq(S)
           /\ Elements(s) = {Head(s)} \cup Elements(Tail(s))
<1> DEFINE t == Tail(s)
<1>1. /\ Head(s) = s[1] /\ Head(s) \in S
      /\ t \in Seq(S) /\ Len(t) = Len(s) - 1
      /\ \A i \in 1..Len(t) : t[i] = s[i + 1]
      /\ Len(s) \in Nat /\ Len(s) > 0
  BY HeadTailProperties, EmptySeq, LenProperties
<1>2. DOMAIN t = 1..(Len(s) - 1) /\ DOMAIN s = 1..Len(s)
  BY <1>1, LenProperties
<1> HIDE DEF t
<1>3. \A i \in DOMAIN s : s[i] = Head(s) \/ \E j \in DOMAIN t : t[j] = s[i]
  <2> TAKE i \in DOMAIN s
  <2>1. CASE i = 1 BY <2>1, <1>1
  <2>2. CASE i # 1
    <3>1. i - 1 \in DOMAIN t BY <2>2, <1>2, <1>1
    <3>2. t[i - 1] = s[i] BY <3>1, <1>1, <1>2
    <3> QED BY <3>1, <3>2
  <2> QED BY <2>1, <2>2
<1>4. \A j \in DOMAIN t : \E i \in DOMAIN s : s[i] = t[j]
  <2> TAKE j \in DOMAIN t
  <2>1. j + 1 \in DOMAIN s /\ t[j] = s[j + 1] BY <1>1, <1>2
  <2> QED BY <2>1
<1>5. 1 \in DOMAIN s BY <1>1, <1>2
<1>6. {s[i] : i \in DOMAIN s} = {Head(s)} \cup {t[i] : i \in DOMAIN t}
  <2>1. {s[i] : i \in DOMAIN s} \subseteq {Head(s)} \cup {t[i] : i \in DOMAIN t}
    BY <1>3
  <2>2. \A j \in DOMAIN t : t[j] \in {s[i] : i \in DOMAIN s}
    BY <1>4
  <2>3. Head(s) \in {s[i] : i \in DOMAIN s}
    BY <1>1, <1>5
  <2> QED BY <2>1, <2>2, <2>3
<1> QED BY <1>1, <1>6 DEF t, Elements

\* Pushing a new element keeps a queue free of repetitions.
LEMMA AppendDistinct ==
    ASSUME NEW S, NEW s \in Seq(S), NEW e \in S, Distinct(s), e \notin Elements(s)
    PROVE  Distinct(Append(s, e))
<1> DEFINE r == Append(s, e)
<1>1. /\ r \in Seq(S) /\ Len(r) = Len(s) + 1
      /\ \A i \in 1..Len(s) : r[i] = s[i]
      /\ r[Len(s) + 1] = e
  BY AppendProperties
<1>2. DOMAIN r = 1..(Len(s) + 1) /\ DOMAIN s = 1..Len(s) /\ Len(s) \in Nat
  BY <1>1, LenProperties
<1> HIDE DEF r
<1>3. \A i \in DOMAIN s : s[i] # e
  BY DEF Elements
<1>4. ASSUME NEW i \in DOMAIN r, NEW j \in DOMAIN r, r[i] = r[j] PROVE i = j
  BY <1>1, <1>2, <1>3, <1>4 DEF Distinct
<1> QED BY <1>4 DEF r, Distinct

\* Popping keeps it free of repetitions, and the head is gone from the rest.
LEMMA TailDistinct ==
    ASSUME NEW S, NEW s \in Seq(S), s # <<>>, Distinct(s)
    PROVE  Distinct(Tail(s)) /\ Head(s) \notin Elements(Tail(s))
<1> DEFINE t == Tail(s)
<1>1. /\ Head(s) = s[1]
      /\ t \in Seq(S) /\ Len(t) = Len(s) - 1
      /\ \A i \in 1..Len(t) : t[i] = s[i + 1]
      /\ Len(s) \in Nat /\ Len(s) > 0
  BY HeadTailProperties, EmptySeq, LenProperties
<1>2. DOMAIN t = 1..(Len(s) - 1) /\ DOMAIN s = 1..Len(s)
  BY <1>1, LenProperties
<1> HIDE DEF t
<1>3. ASSUME NEW i \in DOMAIN t, NEW j \in DOMAIN t, t[i] = t[j] PROVE i = j
  <2>1. i + 1 \in DOMAIN s /\ j + 1 \in DOMAIN s /\ s[i + 1] = s[j + 1]
    BY <1>1, <1>2, <1>3
  <2>2. i + 1 = j + 1 BY <2>1 DEF Distinct
  <2> QED BY <2>2, <1>2
<1>4. ASSUME NEW i \in DOMAIN t PROVE t[i] # Head(s)
  <2>1. i + 1 \in DOMAIN s /\ 1 \in DOMAIN s /\ t[i] = s[i + 1] /\ i + 1 # 1
    BY <1>1, <1>2
  <2> QED BY <2>1, <1>1 DEF Distinct
<1> QED BY <1>3, <1>4 DEF t, Distinct, Elements

-----------------------------------------------------------------------------
(* Induction.                                                              *)

\* A set of numbers that is not empty has a least one.
LEMMA LeastNumber ==
    ASSUME NEW S \in SUBSET Nat, S # {}
    PROVE  \E x \in S : \A y \in S : x <= y
<1> DEFINE R == OpToRel(<, Nat)
<1>1. R = {ss \in Nat \X Nat : ss[1] < ss[2]}
  BY Zenon DEF OpToRel
<1>2. IsWellFoundedOn(R, Nat)
  BY NatLessThanWellFounded, Zenon
<1> HIDE DEF R
<1>3. PICK x \in S : \A y \in S : ~ (<<y, x>> \in R)
  BY <1>2, WFMin, Zenon
<1>4. \A y \in S : y < x => <<y, x>> \in R
  BY <1>1
<1>5. \A y \in S : ~(y < x)
  BY <1>3, <1>4
<1>6. \A y \in S : x <= y
  BY <1>5
<1> QED BY <1>6

\* A set of numbers with 0 and with the successor of each of its elements is all.
LEMMA NumberInduction ==
    ASSUME NEW G \in SUBSET Nat, 0 \in G, \A n \in G : n + 1 \in G
    PROVE  G = Nat
<1> SUFFICES ASSUME Nat \ G # {} PROVE FALSE
  OBVIOUS
<1>1. PICK m \in Nat \ G : \A y \in Nat \ G : m <= y
  <2> DEFINE S == Nat \ G
  <2>1. S \in SUBSET Nat /\ S # {}
    OBVIOUS
  <2> HIDE DEF S
  <2>2. \E x \in S : \A y \in S : x <= y
    BY <2>1, LeastNumber
  <2> QED BY <2>2 DEF S
<1>2. m # 0 /\ m - 1 \in Nat /\ ~(m <= m - 1)
  OBVIOUS
<1>3. m - 1 \in G
  BY <1>1, <1>2
<1>4. (m - 1) + 1 \in G
  BY <1>3
<1> QED BY <1>4

\* What holds of the empty set and of a set with one more element holds of every
\* finite set.
LEMMA SubsetInduction ==
    ASSUME NEW S, IsFiniteSet(S), NEW G \in SUBSET SUBSET S, {} \in G,
           \A T \in G : \A x \in S \ T : T \cup {x} \in G
    PROVE  S \in G
<1> DEFINE N == {n \in Nat : \A T \in SUBSET S : Cardinality(T) = n => T \in G}
<1>1. \A T \in SUBSET S : IsFiniteSet(T)
  BY FS_Subset
<1>2. 0 \in N
  BY <1>1, FS_EmptySet
<1>3. ASSUME NEW n \in N PROVE n + 1 \in N
  <2> SUFFICES ASSUME NEW T \in SUBSET S, Cardinality(T) = n + 1 PROVE T \in G
    OBVIOUS
  <2>1. IsFiniteSet(T) /\ T # {}
    BY <1>1, FS_EmptySet
  <2>2. PICK x \in T : TRUE
    BY <2>1
  <2>3. Cardinality(T \ {x}) = n
    <3>1. n \in Nat
      OBVIOUS
    <3>2. Cardinality(T \ {x}) = Cardinality(T) - 1
      BY <2>1, <2>2, FS_RemoveElement
    <3> QED BY <3>1, <3>2
  <2>4. T \ {x} \in G
    BY <2>3
  <2>5. (T \ {x}) \cup {x} \in G
    BY <2>4
  <2>6. (T \ {x}) \cup {x} = T
    OBVIOUS
  <2> QED BY <2>5, <2>6
<1>4. N = Nat
  <2> HIDE DEF N
  <2>1. N \in SUBSET Nat
    BY DEF N
  <2> QED BY <1>2, <1>3, <2>1, NumberInduction
<1>5. Cardinality(S) \in N
  BY <1>4, FS_CardinalityType
<1> QED BY <1>5

-----------------------------------------------------------------------------
\* What the fold does with one set, and a function that does it.
Chosen(s) == CHOOSE x \in s : TRUE
SumStep(g, f, s) == IF s = {} THEN 0 ELSE f[Chosen(s)] + g[s \ {Chosen(s)}]
Adds(g, f, S) == g = [s \in SUBSET S |-> SumStep(g, f, s)]

LEMMA ChosenIs == \A s : s # {} => Chosen(s) \in s
BY Zenon DEF Chosen

\* There is a function that adds the elements of every subset up.
LEMMA SumExists ==
    ASSUME NEW S, IsFiniteSet(S), NEW f
    PROVE  \E g : Adds(g, f, S)
<1> DEFINE Upto(g, n) ==
               /\ g = [s \in SUBSET S |-> g[s]]
               /\ \A s \in SUBSET S : Cardinality(s) <= n => g[s] = SumStep(g, f, s)
           N == {n \in Nat : \E g : Upto(g, n)}
<1>1. \A s \in SUBSET S : IsFiniteSet(s) /\ Cardinality(s) \in Nat
  BY FS_Subset, FS_CardinalityType
<1>2. 0 \in N
  <2> DEFINE g == [s \in SUBSET S |-> 0]
  <2>1. \A s \in SUBSET S : Cardinality(s) <= 0 => s = {}
    BY <1>1, FS_EmptySet
  <2>2. \A s \in SUBSET S : s = {} => SumStep(g, f, s) = 0
    BY DEF SumStep
  <2>3. Upto(g, 0)
    BY <2>1, <2>2
  <2> QED BY <2>3
<1>3. ASSUME NEW n \in N PROVE n + 1 \in N
  <2>1. PICK g : Upto(g, n)
    OBVIOUS
  <2> DEFINE h == [s \in SUBSET S |-> SumStep(g, f, s)]
  <2>2. \A s \in SUBSET S : Cardinality(s) <= n => h[s] = g[s]
    BY <2>1
  <2>3. ASSUME NEW s \in SUBSET S, Cardinality(s) <= n + 1
        PROVE  h[s] = SumStep(h, f, s)
    <3>1. CASE s = {}
      BY <3>1 DEF SumStep
    <3>2. CASE s # {}
      <4>1. Chosen(s) \in s /\ s \ {Chosen(s)} \in SUBSET S
        BY <3>2, ChosenIs
      <4>2. Cardinality(s \ {Chosen(s)}) = Cardinality(s) - 1
        BY <1>1, <4>1, FS_RemoveElement
      <4>3. Cardinality(s \ {Chosen(s)}) <= n
        <5>1. n \in Nat /\ Cardinality(s) \in Nat
          BY <1>1
        <5> HIDE DEF h
        <5> QED BY <2>3, <4>2, <5>1
      <4>4. h[s \ {Chosen(s)}] = g[s \ {Chosen(s)}]
        BY <2>2, <4>1, <4>3
      <4>5. h[s] = SumStep(g, f, s)
        OBVIOUS
      <4> HIDE DEF h
      <4> QED BY <4>4, <4>5 DEF SumStep
    <3> QED BY <3>1, <3>2
  <2>4. h = [s \in SUBSET S |-> h[s]]
    OBVIOUS
  <2>5. Upto(h, n + 1)
    <3> HIDE DEF h
    <3> QED BY <2>3, <2>4
  <2>6. n + 1 \in Nat
    OBVIOUS
  <2> QED BY <2>5, <2>6
<1>4. N = Nat
  <2> HIDE DEF N
  <2>1. N \in SUBSET Nat
    BY DEF N
  <2> QED BY <1>2, <1>3, <2>1, NumberInduction
<1>5. PICK g : Upto(g, Cardinality(S))
  BY <1>1, <1>4
<1>6. \A s \in SUBSET S : Cardinality(s) <= Cardinality(S)
  BY FS_Subset
<1>7. \A s \in SUBSET S : g[s] = SumStep(g, f, s)
  BY <1>5, <1>6
<1>8. g = [s \in SUBSET S |-> SumStep(g, f, s)]
  BY <1>5, <1>7
<1> QED BY <1>8 DEF Adds

\* The sum is what such a function says of the whole set.
LEMMA SumIsAdded ==
    ASSUME NEW S, IsFiniteSet(S), NEW f
    PROVE  \E g : Adds(g, f, S) /\ SumFunctionOnSet(f, S) = g[S]
<1> DEFINE it == CHOOSE g : Adds(g, f, S)
<1>1. Adds(it, f, S)
  BY SumExists
<1>2. SumFunctionOnSet(f, S) = it[S]
  BY Zenon DEF SumFunctionOnSet, FoldFunctionOnSet, MapThenFoldSet, Adds, SumStep, Chosen
<1> QED BY <1>1, <1>2

\* What holds of a set when it holds of every smaller one, holds of every subset.
LEMMA SizeInduction ==
    ASSUME NEW S, IsFiniteSet(S), NEW G \in SUBSET SUBSET S,
           \A s \in SUBSET S :
               (\A u \in SUBSET S : Cardinality(u) < Cardinality(s) => u \in G) => s \in G
    PROVE  G = SUBSET S
<1> DEFINE Sizes == {Cardinality(s) : s \in (SUBSET S) \ G}
<1>1. \A s \in SUBSET S : Cardinality(s) \in Nat
  BY FS_Subset, FS_CardinalityType
<1>2. SUFFICES ASSUME Sizes # {} PROVE FALSE
  OBVIOUS
<1>3. PICK m \in Sizes : \A y \in Sizes : m <= y
  <2>1. Sizes \in SUBSET Nat
    BY <1>1
  <2> HIDE DEF Sizes
  <2> QED BY <1>2, <2>1, LeastNumber
<1>4. PICK s \in (SUBSET S) \ G : m = Cardinality(s)
  BY <1>3
<1>5. \A u \in SUBSET S : Cardinality(u) < Cardinality(s) => u \in G
  <2> SUFFICES ASSUME NEW t \in SUBSET S, Cardinality(t) < Cardinality(s), t \notin G
               PROVE  FALSE
    OBVIOUS
  <2>1. Cardinality(t) \in Sizes
    OBVIOUS
  <2>2. Cardinality(s) <= Cardinality(t)
    BY <1>3, <1>4, <2>1
  <2> HIDE DEF Sizes
  <2> QED BY <1>1, <2>2
<1> QED BY <1>4, <1>5

\* A finite set is larger than itself without one of its elements.
LEMMA OneLess ==
    ASSUME NEW S, IsFiniteSet(S), NEW x \in S
    PROVE  Cardinality(S \ {x}) < Cardinality(S)
<1>1. Cardinality(S \ {x}) = Cardinality(S) - 1
  BY FS_RemoveElement
<1>2. Cardinality(S) \in Nat
  BY FS_CardinalityType
<1> QED BY <1>1, <1>2

\* Sums of numbers are numbers.
LEMMA AddsNumbers ==
    ASSUME NEW S, IsFiniteSet(S), NEW f \in [S -> Int], NEW g, Adds(g, f, S)
    PROVE  \A s \in SUBSET S : g[s] \in Int
<1> DEFINE G == {s \in SUBSET S : g[s] \in Int}
<1>1. ASSUME NEW s \in SUBSET S,
             \A u \in SUBSET S : Cardinality(u) < Cardinality(s) => u \in G
      PROVE  s \in G
  <2>1. g[s] = SumStep(g, f, s)
    BY DEF Adds
  <2>2. CASE s = {}
    BY <2>1, <2>2 DEF SumStep
  <2>3. CASE s # {}
    <3>1. Chosen(s) \in s /\ IsFiniteSet(s)
      BY <2>3, ChosenIs, FS_Subset
    <3>2. Cardinality(s \ {Chosen(s)}) < Cardinality(s)
      BY <3>1, OneLess
    <3>3. g[s \ {Chosen(s)}] \in Int
      BY <1>1, <3>2
    <3> QED BY <2>1, <2>3, <3>1, <3>3 DEF SumStep
  <2> QED BY <2>2, <2>3
<1>2. G = SUBSET S
  <2> HIDE DEF G
  <2>1. G \in SUBSET SUBSET S
    BY DEF G
  <2> QED BY <1>1, <2>1, SizeInduction
<1> QED BY <1>2

\* One more element adds its number, whichever element is taken first.
LEMMA AddsOne ==
    ASSUME NEW S, IsFiniteSet(S), NEW f \in [S -> Int], NEW g, Adds(g, f, S),
           NEW t \in SUBSET S, NEW b \in S \ t
    PROVE  g[t \cup {b}] = f[b] + g[t]
<1> DEFINE G == {s \in SUBSET S : \A a \in s : g[s] = f[a] + g[s \ {a}]}
<1>1. \A s \in SUBSET S : g[s] \in Int /\ g[s] = SumStep(g, f, s)
  BY AddsNumbers DEF Adds
<1>2. ASSUME NEW s \in SUBSET S,
             \A u \in SUBSET S : Cardinality(u) < Cardinality(s) => u \in G,
             NEW a \in s
      PROVE  g[s] = f[a] + g[s \ {a}]
  <2> DEFINE c == Chosen(s)
  <2>1. c \in s /\ IsFiniteSet(s)
    BY ChosenIs, FS_Subset
  <2>2. g[s] = f[c] + g[s \ {c}]
    BY <1>1 DEF SumStep
  <2>3. CASE c # a
    <3>1. \A x \in s : Cardinality(s \ {x}) < Cardinality(s)
      BY <2>1, OneLess
    <3> HIDE DEF c
    <3>2. s \ {c} \in G /\ s \ {a} \in G
      BY <1>2, <2>1, <3>1
    <3>3. g[s \ {c}] = f[a] + g[(s \ {c}) \ {a}]
      BY <2>3, <3>2
    <3>4. g[s \ {a}] = f[c] + g[(s \ {a}) \ {c}]
      BY <2>1, <2>3, <3>2
    <3>5. (s \ {c}) \ {a} = (s \ {a}) \ {c}
      OBVIOUS
    <3>6. f[a] \in Int /\ f[c] \in Int /\ g[(s \ {a}) \ {c}] \in Int
      BY <1>1, <2>1
    <3> DEFINE rest == g[(s \ {a}) \ {c}]
    <3>7. g[s] = f[c] + (f[a] + rest) /\ g[s \ {a}] = f[c] + rest
      BY <2>2, <3>3, <3>4, <3>5
    <3>8. \A p, q, r \in Int : p + (q + r) = q + (p + r)
      OBVIOUS
    <3> HIDE DEF rest
    <3> QED BY <3>6, <3>7, <3>8 DEF rest
  <2> QED BY <2>2, <2>3
<1>3. G = SUBSET S
  <2>1. ASSUME NEW s \in SUBSET S,
               \A u \in SUBSET S : Cardinality(u) < Cardinality(s) => u \in G
        PROVE  s \in G
    BY <1>2, <2>1
  <2> HIDE DEF G
  <2>2. G \in SUBSET SUBSET S
    BY DEF G
  <2> QED BY <2>1, <2>2, SizeInduction
<1>4. t \cup {b} \in G /\ (t \cup {b}) \ {b} = t
  BY <1>3
<1> QED BY <1>4

\* So a sum is the last value of a function that starts at 0 and takes the
\* elements in any order.
AddsUp(g, f, S) ==
    /\ g[{}] = 0
    /\ \A s \in SUBSET S : g[s] \in Int
    /\ \A s \in SUBSET S : \A a \in S \ s : g[s \cup {a}] = f[a] + g[s]
    /\ SumFunctionOnSet(f, S) = g[S]

LEMMA SumAddsUp ==
    ASSUME NEW S, IsFiniteSet(S), NEW f \in [S -> Int]
    PROVE  \E g : AddsUp(g, f, S)
<1>1. PICK g : Adds(g, f, S) /\ SumFunctionOnSet(f, S) = g[S]
  BY SumIsAdded
<1>2. g[{}] = 0
  BY <1>1 DEF Adds, SumStep
<1>3. \A s \in SUBSET S : g[s] \in Int
  BY <1>1, AddsNumbers
<1>4. \A s \in SUBSET S : \A a \in S \ s : g[s \cup {a}] = f[a] + g[s]
  <2> SUFFICES ASSUME NEW s \in SUBSET S, NEW a \in S \ s
               PROVE  g[s \cup {a}] = f[a] + g[s]
    OBVIOUS
  <2>1. Adds(g, f, S)
    BY <1>1
  <2>2. s \in SUBSET S /\ a \in S \ s
    OBVIOUS
  <2> QED BY ONLY <2>1, <2>2, IsFiniteSet(S), f \in [S -> Int], AddsOne
<1> QED BY <1>1, <1>2, <1>3, <1>4 DEF AddsUp

\* A sum of integers is one.
LEMMA SumType ==
    ASSUME NEW S, IsFiniteSet(S), NEW f \in [S -> Int]
    PROVE  SumFunctionOnSet(f, S) \in Int
<1>1. PICK g : AddsUp(g, f, S)
  BY SumAddsUp
<1> QED BY <1>1 DEF AddsUp

\* Terms that are nowhere larger have a sum that is not.
LEMMA SumMonotone ==
    ASSUME NEW S, IsFiniteSet(S), NEW f \in [S -> Int], NEW h \in [S -> Int],
           \A x \in S : f[x] <= h[x]
    PROVE  SumFunctionOnSet(f, S) <= SumFunctionOnSet(h, S)
<1>1. PICK g : AddsUp(g, f, S)
  BY SumAddsUp
<1>2. PICK k : AddsUp(k, h, S)
  BY SumAddsUp
<1> DEFINE G == {s \in SUBSET S : g[s] <= k[s]}
<1>3. {} \in G
  BY <1>1, <1>2 DEF AddsUp
<1>4. ASSUME NEW s \in G, NEW x \in S \ s PROVE s \cup {x} \in G
  <2>1. g[s \cup {x}] = f[x] + g[s] /\ k[s \cup {x}] = h[x] + k[s]
    BY <1>1, <1>2 DEF AddsUp
  <2>2. g[s] \in Int /\ k[s] \in Int /\ f[x] \in Int /\ h[x] \in Int
    BY <1>1, <1>2 DEF AddsUp
  <2>3. f[x] <= h[x] /\ g[s] <= k[s]
    OBVIOUS
  <2>4. f[x] + g[s] <= h[x] + k[s]
    BY <2>2, <2>3
  <2> QED BY <2>1, <2>4
<1>5. S \in G
  <2>1. G \in SUBSET SUBSET S
    OBVIOUS
  <2> HIDE DEF G
  <2> QED BY <1>3, <1>4, <2>1, SubsetInduction
<1> QED BY <1>1, <1>2, <1>5 DEF AddsUp

\* Changing one term changes the sum by as much.
LEMMA SumChange ==
    ASSUME NEW S, IsFiniteSet(S), NEW f \in [S -> Int], NEW h \in [S -> Int], NEW a \in S,
           \A x \in S \ {a} : h[x] = f[x]
    PROVE  SumFunctionOnSet(h, S) = (SumFunctionOnSet(f, S) - f[a]) + h[a]
<1>1. PICK g : AddsUp(g, f, S)
  BY SumAddsUp
<1>2. PICK k : AddsUp(k, h, S)
  BY SumAddsUp
<1> DEFINE R == S \ {a}
           G == {s \in SUBSET R : k[s] = g[s]}
<1>3. {} \in G
  BY <1>1, <1>2 DEF AddsUp
<1>4. ASSUME NEW s \in G, NEW x \in R \ s PROVE s \cup {x} \in G
  <2>1. s \in SUBSET S /\ x \in S \ s /\ h[x] = f[x] /\ k[s] = g[s]
    OBVIOUS
  <2>2. g[s \cup {x}] = f[x] + g[s] /\ k[s \cup {x}] = h[x] + k[s]
    BY <1>1, <1>2, <2>1 DEF AddsUp
  <2> QED BY <2>1, <2>2
<1>5. R \in G
  <2>1. G \in SUBSET SUBSET R /\ IsFiniteSet(R)
    BY FS_Subset
  <2> HIDE DEF G, R
  <2> QED BY <1>3, <1>4, <2>1, SubsetInduction
<1>6. g[S] = f[a] + g[R] /\ k[S] = h[a] + k[R]
  <2>1. R \in SUBSET S /\ a \in S \ R /\ R \cup {a} = S
    OBVIOUS
  <2> HIDE DEF R
  <2>2. g[R \cup {a}] = f[a] + g[R] /\ k[R \cup {a}] = h[a] + k[R]
    BY <1>1, <1>2, <2>1 DEF AddsUp
  <2> QED BY <2>1, <2>2
<1>7. g[R] \in Int /\ k[R] = g[R] /\ f[a] \in Int /\ h[a] \in Int
  BY <1>1, <1>5 DEF AddsUp
<1>8. SumFunctionOnSet(f, S) = f[a] + g[R] /\ SumFunctionOnSet(h, S) = h[a] + g[R]
  BY <1>1, <1>2, <1>6, <1>7 DEF AddsUp
<1> QED BY <1>7, <1>8

\* Nothing adds up to nothing.
LEMMA SumNothing ==
    ASSUME NEW S, IsFiniteSet(S), NEW f \in [S -> Int], \A x \in S : f[x] = 0
    PROVE  SumFunctionOnSet(f, S) = 0
<1>1. PICK g : AddsUp(g, f, S)
  BY SumAddsUp
<1> DEFINE G == {s \in SUBSET S : g[s] = 0}
<1>2. {} \in G
  BY <1>1 DEF AddsUp
<1>3. ASSUME NEW s \in G, NEW x \in S \ s PROVE s \cup {x} \in G
  <2>1. g[s \cup {x}] = f[x] + g[s]
    BY <1>1 DEF AddsUp
  <2>2. f[x] = 0 /\ g[s] = 0
    OBVIOUS
  <2> QED BY <2>1, <2>2
<1>4. S \in G
  <2>1. G \in SUBSET SUBSET S
    OBVIOUS
  <2> HIDE DEF G
  <2> QED BY <1>2, <1>3, <2>1, SubsetInduction
<1> QED BY <1>1, <1>4 DEF AddsUp

\* A term is no more than a sum of naturals.
LEMMA SumAtLeast ==
    ASSUME NEW S, IsFiniteSet(S), NEW f \in [S -> Nat], NEW a \in S
    PROVE  SumFunctionOnSet(f, S) \in Nat /\ f[a] <= SumFunctionOnSet(f, S)
<1> DEFINE h == [f EXCEPT ![a] = 0]
           none == [x \in S |-> 0]
<1>1. f \in [S -> Int] /\ h \in [S -> Int] /\ none \in [S -> Int]
  OBVIOUS
<1>2. (\A x \in S : none[x] <= h[x]) /\ (\A x \in S : none[x] = 0) /\ h[a] = 0
      /\ \A x \in S \ {a} : h[x] = f[x]
  OBVIOUS
<1> HIDE DEF h, none
<1>3. SumFunctionOnSet(none, S) = 0
  BY <1>1, <1>2, SumNothing
<1>4. SumFunctionOnSet(none, S) <= SumFunctionOnSet(h, S)
  BY <1>1, <1>2, SumMonotone
<1>5. SumFunctionOnSet(h, S) = (SumFunctionOnSet(f, S) - f[a]) + h[a]
  BY <1>1, <1>2, SumChange
<1>6. SumFunctionOnSet(f, S) \in Int /\ SumFunctionOnSet(h, S) \in Int /\ f[a] \in Nat
  BY <1>1, SumType
<1> QED BY <1>2, <1>3, <1>4, <1>5, <1>6
=============================================================================
