-------------------------- MODULE PlacementProofs --------------------------
(***************************************************************************)
(* The safety of placement and pricing (src/worker_service.cpp,            *)
(* src/ctx_pool.cpp, src/chat_model.cpp, src/bench.cpp) for any devices,   *)
(* models, sizes and pins.  LaneInv is the inductive invariant of the control      *)
(* lane: the account of each unit of device memory, the place of what a    *)
(* step holds, the GPUs a frame may use, the devices a benchmark answers   *)
(* for, and the reading a growing pool goes by.  PriceInv adds what a load *)
(* costs at each of its steps and what a benchmark of it measured, from    *)
(* which a load that fitted its price has room for its whole pool.         *)
(***************************************************************************)
EXTENDS Placement, DataLemmas

-----------------------------------------------------------------------------
(* The walk over the devices.                                              *)

DeviceList == backend \in Backends

\* What the walk keeps after n devices.
WalkStep(g, types, n) ==
    IF n = 0 THEN <<>>
    ELSE IF backend[n] \in types THEN Append(g[n - 1], n) ELSE g[n - 1]
Walked(g, types) == g = [n \in 0 .. Len(backend) |-> WalkStep(g, types, n)]

LEMMA BackendType ==
    ASSUME DeviceList
    PROVE  /\ backend \in Seq(Types) /\ Len(backend) \in Nat
           /\ Devices = 1 .. Len(backend) /\ IsFiniteSet(Devices)
<1>1. backend \in Seq(Types)
  BY BackendsAssumption DEF DeviceList
<1>2. Len(backend) \in Nat /\ Devices = 1 .. Len(backend)
  BY <1>1, LenProperties DEF Devices
<1>3. IsFiniteSet(1 .. Len(backend))
  BY <1>2, FS_Interval
<1> QED BY <1>1, <1>2, <1>3

\* There is a function that walks.
LEMMA WalkExists ==
    ASSUME DeviceList, NEW types
    PROVE  \E g : Walked(g, types)
<1> DEFINE L == Len(backend)
           Upto(g, n) ==
               /\ g = [i \in 0 .. L |-> g[i]]
               /\ \A i \in 0 .. L : i <= n => g[i] = WalkStep(g, types, i)
           G == {n \in Nat : \E g : Upto(g, n)}
<1>1. L \in Nat
  BY BackendType
<1> HIDE DEF L
<1>2. 0 \in G
  <2> DEFINE g == [i \in 0 .. L |-> <<>>]
  <2>1. \A i \in 0 .. L : i <= 0 => g[i] = WalkStep(g, types, i)
    BY <1>1 DEF WalkStep
  <2>2. Upto(g, 0)
    BY <2>1
  <2> QED BY <2>2
<1>3. ASSUME NEW n \in G PROVE n + 1 \in G
  <2>1. PICK g : Upto(g, n)
    OBVIOUS
  <2>0. n \in Nat
    OBVIOUS
  <2> DEFINE h == [i \in 0 .. L |-> WalkStep(g, types, i)]
  <2>2. \A i \in 0 .. L : i <= n => h[i] = g[i]
    BY <2>1
  <2>3. ASSUME NEW i \in 0 .. L, i <= n + 1 PROVE h[i] = WalkStep(h, types, i)
    <3>1. CASE i = 0
      BY <3>1 DEF WalkStep
    <3>2. CASE i # 0
      <4>1. i - 1 \in 0 .. L /\ i - 1 <= n
        BY <1>1, <2>0, <2>3, <3>2
      <4>2. h[i - 1] = g[i - 1]
        BY <2>2, <4>1
      <4>3. h[i] = WalkStep(g, types, i)
        OBVIOUS
      <4> HIDE DEF h
      <4> QED BY <3>2, <4>2, <4>3 DEF WalkStep
    <3> QED BY <3>1, <3>2
  <2>4. h = [i \in 0 .. L |-> h[i]]
    OBVIOUS
  <2>5. Upto(h, n + 1)
    <3> HIDE DEF h
    <3> QED BY <2>3, <2>4
  <2>6. n + 1 \in Nat
    BY <2>0
  <2> QED BY <2>5, <2>6
<1>4. L \in G
  <2>1. G \in SUBSET Nat
    OBVIOUS
  <2> HIDE DEF G
  <2> QED BY <1>1, <1>2, <1>3, <2>1, NumberInduction
<1>5. PICK g : Upto(g, L)
  BY <1>4
<1>6. \A i \in 0 .. L : g[i] = WalkStep(g, types, i)
  BY <1>1, <1>5
<1>7. g = [i \in 0 .. L |-> WalkStep(g, types, i)]
  BY <1>5, <1>6
<1> QED BY <1>7 DEF Walked, L

\* It keeps devices of the types asked for.
LEMMA WalkKeeps ==
    ASSUME DeviceList, NEW types
    PROVE  /\ Walk(types) \in Seq(Devices)
           /\ \A k \in DOMAIN Walk(types) : backend[Walk(types)[k]] \in types
<1> DEFINE it == CHOOSE g : Walked(g, types)
           L == Len(backend)
           Kept(s) == s \in Seq(Devices) /\ \A k \in DOMAIN s : backend[s[k]] \in types
           G == {n \in Nat : n <= L => Kept(it[n])}
<1>1. Walked(it, types)
  BY WalkExists
<1>2. Walk(types) = it[L]
  BY Zenon DEF Walk, Walked, WalkStep
<1>3. L \in Nat /\ Devices = 1 .. L
  BY BackendType
<1> HIDE DEF it, L
<1>4. \A i \in 0 .. L : it[i] = WalkStep(it, types, i)
  BY <1>1 DEF Walked, L
<1>5. 0 \in G
  <2>1. it[0] = <<>>
    BY <1>3, <1>4 DEF WalkStep
  <2>2. <<>> \in Seq(Devices) /\ DOMAIN <<>> = {}
    OBVIOUS
  <2> QED BY <2>1, <2>2
<1>6. ASSUME NEW n \in G PROVE n + 1 \in G
  <2>1. n \in Nat
    OBVIOUS
  <2> SUFFICES ASSUME n + 1 <= L PROVE Kept(it[n + 1])
    BY <2>1
  <2>2. Kept(it[n]) /\ n + 1 \in 0 .. L /\ n + 1 \in Devices /\ (n + 1) - 1 = n
    BY <1>3, <2>1
  <2>3. it[n + 1] = IF backend[n + 1] \in types THEN Append(it[n], n + 1) ELSE it[n]
    BY <1>4, <2>1, <2>2 DEF WalkStep
  <2>4. CASE backend[n + 1] \in types
    <3> DEFINE s == it[n]
               r == Append(s, n + 1)
    <3>1. s \in Seq(Devices)
      BY <2>2
    <3>2. r \in Seq(Devices) /\ Len(r) = Len(s) + 1 /\ Len(s) \in Nat
          /\ (\A i \in 1 .. Len(s) : r[i] = s[i]) /\ r[Len(s) + 1] = n + 1
      BY <2>2, <3>1, AppendProperties, LenProperties
    <3>3. DOMAIN r = 1 .. Len(s) + 1 /\ DOMAIN s = 1 .. Len(s)
      BY <3>1, <3>2, LenProperties
    <3>4. \A k \in DOMAIN s : backend[s[k]] \in types
      BY <2>2
    <3>5. it[n + 1] = r
      BY <2>3, <2>4
    <3> HIDE DEF r, s
    <3>6. \A k \in DOMAIN r : backend[r[k]] \in types
      BY <2>4, <3>2, <3>3, <3>4
    <3> QED BY <3>2, <3>5, <3>6
  <2>5. CASE backend[n + 1] \notin types
    BY <2>2, <2>3, <2>5
  <2> QED BY <2>4, <2>5
<1>7. L \in G
  <2>1. G \in SUBSET Nat
    OBVIOUS
  <2> HIDE DEF G
  <2> QED BY <1>3, <1>5, <1>6, <2>1, NumberInduction
<1> QED BY <1>2, <1>3, <1>7

\* So the two walks are of devices, of GPUs and of CPUs.
LEMMA Walks ==
    ASSUME DeviceList
    PROVE  /\ GpuWalk \in Seq(Devices) /\ CpuWalk \in Seq(Devices)
           /\ \A k \in DOMAIN GpuWalk : IsGpu(GpuWalk[k])
           /\ \A k \in DOMAIN CpuWalk : backend[CpuWalk[k]] = "CPU"
BY WalkKeeps DEF GpuWalk, CpuWalk, IsGpu
-----------------------------------------------------------------------------
(* The invariant of the control lane.                                      *)

BenchSteps == {"device", "phase", "sampling"}
LoadSteps == Steps \ (BenchSteps \cup {"idle", "fetch"})

\* What the lane holds before it takes anything, and past a probe.
HeldInPlace ==
    /\ work.at = "idle" => work.req.op = "load"
    /\ work.at \in BenchSteps <=> work.req.op = "bench"
    /\ work.at \in {"idle", "fetch", "load", "device", "phase"} => work.mem = Nothing
    /\ work.at \in {"idle", "fetch", "load", "projector"} \cup BenchSteps => work.proj = Nothing
    /\ work.at \in {"idle", "fetch", "load", "projector", "size"} => work.pool = 0
    /\ work.at = "priced" => \A d \in MyDevices : work.mem[d] >= Slot

\* The registry holds memory of resident models only, and not of the one that is
\* being loaded.
RegistryInPlace ==
    /\ \A i \in Ids : ~models[i].loaded => models[i].mem = Nothing
    /\ work.at \in LoadSteps /\ work.req.op = "load" => ~models[work.req.id].loaded

\* A frame knows of the GPUs enabled since it came, it is placed on those, and
\* takes memory nowhere else.
Placed ==
    /\ \A k \in DOMAIN queue : EnabledGpus(enabled) \subseteq queue[k].gpus
    /\ work.at \in LoadSteps \cup {"fetch"} => {d \in MyDevices : IsGpu(d)} \subseteq work.gpus
    /\ work.req.op # "bench" => {d \in Devices : work.mem[d] > 0} \subseteq MyDevices

\* The devices a benchmark was asked for are each to do, done or failed.
Asked == IF work.req.dev = <<>> THEN HardwareIds ELSE <<work.req.dev>>
Covers ==
    work.at \in BenchSteps =>
        /\ Distinct(work.todo)
        /\ Elements(work.todo) \cap (work.done \cup work.errors) = {}
        /\ work.done \cap work.errors = {}
        /\ Elements(work.todo) \cup work.done \cup work.errors = Elements(Asked)
        /\ work.at # "device" => work.todo # <<>>

\* Growth nobody pinned nor disturbed: the last reading is the present one, the
\* worst delta is a further context's at least, and with a context there is room
\* for the next one by the time it is allocated.
Growing ==
    work.quiet /\ PoolPin = 0 => \A d \in Gauged(work.allowed) :
        LET costs == d \in MyDevices /\ backend[d] = "GPU"
        IN /\ work.at \in {"predict", "alloc"} => work.prev[d] = Reading[d]
           /\ work.at \in {"predict", "alloc"} /\ work.pool > 0 =>
                 ~Crosses(Reading[d]) /\ (costs => work.worst[d] >= Slot)
           /\ work.at = "alloc" /\ work.pool > 0 =>
                 work.worst[d] = 0 \/ ~Crosses(Reading[d] + work.worst[d])
           /\ work.at = "record" =>
                 /\ costs => work.worst[d] >= Slot \/ Reading[d] - work.prev[d] >= Slot
                 /\ work.pool > 1 => ~Crosses(Reading[d])
           /\ work.at = "grown" /\ work.pool > 1 => ~Crosses(Reading[d])

LaneInv ==
    /\ TypeOK /\ MemoryAccounted /\ HeldInPlace /\ RegistryInPlace
    /\ Placed /\ Covers /\ Growing

-----------------------------------------------------------------------------
(* What the operators of the model return.                                 *)

LEMMA UnitConstants ==
    /\ Weights \in Nat /\ Projector \in Nat /\ Slot \in Nat /\ FirstExtra \in Nat
    /\ Graph \in Nat /\ Scratch \in Nat /\ Total \in Nat /\ HeadroomPct \in Nat
BY UnitsAssumption

\* Sums and differences of what devices hold, device by device.
LEMMA UnitSums ==
    ASSUME NEW m \in Units, NEW n \in Units
    PROVE  /\ Plus(m, n) \in Units
           /\ \A d \in Devices : Plus(m, n)[d] = m[d] + n[d] /\ Minus(m, n)[d] = m[d] - n[d]
           /\ (\A d \in Devices : n[d] <= m[d]) => Minus(m, n) \in Units
BY DEF Units, Plus, Minus

LEMMA UnitsOn ==
    ASSUME NEW ds, NEW n \in Nat
    PROVE  /\ On(ds, n) \in Units
           /\ \A d \in Devices : On(ds, n)[d] = IF d \in ds THEN n ELSE 0
BY DEF Units, On

LEMMA NothingOn ==
    /\ Nothing \in Units
    /\ \A d \in Devices : Nothing[d] = 0
BY DEF Units, Nothing

\* The last and the first of a sequence that is not empty are in it.
LEMMA EndsOf ==
    ASSUME NEW S, NEW s \in Seq(S), s # <<>>
    PROVE  /\ Len(s) \in DOMAIN s /\ 1 \in DOMAIN s
           /\ Last(s) = s[Len(s)] /\ Head(s) = s[1]
<1>1. Len(s) \in Nat /\ Len(s) # 0 /\ DOMAIN s = 1 .. Len(s)
  BY LenProperties, EmptySeq
<1> QED BY <1>1, HeadTailProperties DEF Last

\* The names of the devices.
LEMMA HardwareNames ==
    ASSUME DeviceList
    PROVE  /\ HardwareIds \in Seq(DeviceIds)
           /\ Distinct(HardwareIds)
<1> DEFINE g == [i \in DOMAIN GpuWalk |-> <<"gpu", i - 1>>]
           n == Len(GpuWalk)
           cpu == << <<"cpu", 0>> >>
<1>1. n \in Nat /\ DOMAIN GpuWalk = 1 .. n
  BY Walks, LenProperties
<1>2. g \in Seq(DeviceIds) /\ Len(g) = n /\ \A i \in 1 .. n : g[i] = <<"gpu", i - 1>>
  <2>1. \A i \in 1 .. n : <<"gpu", i - 1>> \in DeviceIds
    BY <1>1 DEF DeviceIds
  <2>2. g \in [1 .. n -> DeviceIds]
    BY <1>1, <2>1
  <2>3. g \in Seq(DeviceIds) /\ Len(g) = n
    BY <1>1, <2>2, IsASeq, LenProperties
  <2> QED BY <1>1, <2>3
<1>3. cpu \in Seq(DeviceIds) /\ Len(cpu) = 1 /\ cpu[1] = <<"cpu", 0>>
  BY DEF DeviceIds
<1>4. HardwareIds = cpu \o g
  BY DEF HardwareIds
<1> DEFINE h == cpu \o g
<1> HIDE DEF g, cpu, n
<1>5. /\ h \in Seq(DeviceIds) /\ Len(h) = 1 + n
      /\ \A i \in 1 .. 1 + n : h[i] = IF i <= 1 THEN cpu[i] ELSE g[i - 1]
  <2>1. /\ h \in Seq(DeviceIds) /\ Len(h) = Len(cpu) + Len(g)
        /\ \A i \in 1 .. Len(cpu) + Len(g) : h[i] = IF i <= Len(cpu) THEN cpu[i] ELSE g[i - Len(cpu)]
    BY <1>2, <1>3, ConcatProperties
  <2> HIDE DEF h
  <2>2. Len(cpu) = 1 /\ Len(g) = n
    BY <1>2, <1>3
  <2> QED BY <2>1, <2>2
<1>6. DOMAIN h = 1 .. 1 + n
  BY <1>5, LenProperties
<1> HIDE DEF h
<1>7. h[1] = <<"cpu", 0>> /\ \A i \in 2 .. 1 + n : h[i] = <<"gpu", i - 2>>
  <2>1. h[1] = <<"cpu", 0>>
    BY <1>1, <1>3, <1>5
  <2>2. ASSUME NEW i \in 2 .. 1 + n PROVE h[i] = <<"gpu", i - 2>>
    <3>1. i \in 1 .. 1 + n /\ ~(i <= 1) /\ i - 1 \in 1 .. n /\ (i - 1) - 1 = i - 2
      BY <1>1
    <3> QED BY <1>2, <1>5, <3>1
  <2> QED BY <2>1, <2>2
<1>8. ASSUME NEW i \in 1 .. 1 + n, NEW j \in 1 .. 1 + n, h[i] = h[j] PROVE i = j
  <2>1. CASE i = 1 /\ j = 1
    BY <2>1
  <2>2. CASE i = 1 /\ j # 1
    <3>1. j \in 2 .. 1 + n
      BY <1>1, <2>2
    <3> QED BY <1>7, <1>8, <2>2, <3>1
  <2>3. CASE i # 1 /\ j = 1
    <3>1. i \in 2 .. 1 + n
      BY <1>1, <2>3
    <3> QED BY <1>7, <1>8, <2>3, <3>1
  <2>4. CASE i # 1 /\ j # 1
    <3>1. i \in 2 .. 1 + n /\ j \in 2 .. 1 + n
      BY <1>1, <2>4
    <3>2. <<"gpu", i - 2>> = <<"gpu", j - 2>>
      BY <1>7, <1>8, <3>1
    <3>3. i - 2 = j - 2
      BY <3>2
    <3> QED BY <1>1, <3>1, <3>3
  <2> QED BY <2>1, <2>2, <2>3, <2>4
<1> QED BY <1>4, <1>5, <1>6, <1>8 DEF Distinct, h

\* Where a model goes, what is gauged and what a benchmark occupies are devices.
LEMMA PlacesAreDevices ==
    ASSUME DeviceList, NEW e \in [all : BOOLEAN, ids : SUBSET DeviceIds],
           NEW allowed \in SUBSET Devices
    PROVE  /\ EnabledGpus(e) \in SUBSET Devices
           /\ AllowedLoadDevices(e) \in SUBSET Devices
           /\ \A b \in BOOLEAN : Occupied(allowed, b) \in SUBSET Devices
           /\ Gauged(allowed) \in SUBSET Devices
<1>1. ToSet(GpuWalk) \in SUBSET Devices /\ ToSet(CpuWalk) \in SUBSET Devices
  <2>1. \A k \in DOMAIN GpuWalk : GpuWalk[k] \in Devices
    BY Walks, ElementOfSeq, LenProperties
  <2>2. \A k \in DOMAIN CpuWalk : CpuWalk[k] \in Devices
    BY Walks, ElementOfSeq, LenProperties
  <2> QED BY <2>1, <2>2 DEF ToSet
<1>2. EnabledGpus(e) \in SUBSET Devices
  BY <1>1 DEF EnabledGpus
<1>3. AllowedLoadDevices(e) \in SUBSET Devices
  <2>1. ASSUME NEW id \in EnabledPlacementIds(e)
        PROVE  (IF id = <<"cpu", 0>> THEN Last(CpuWalk) ELSE GpuWalk[id[2] + 1]) \in Devices
    <3>1. CASE id = <<"cpu", 0>>
      <4>1. CpuWalk # <<>>
        BY <2>1, <3>1 DEF EnabledPlacementIds
      <4>2. Last(CpuWalk) \in ToSet(CpuWalk)
        BY <4>1, Walks, EndsOf DEF ToSet
      <4> QED BY <1>1, <3>1, <4>2
    <3>2. CASE id # <<"cpu", 0>>
      <4>1. PICK i \in DOMAIN GpuWalk : id = <<"gpu", i - 1>>
        BY <2>1, <3>2 DEF EnabledPlacementIds
      <4>2. id[2] + 1 = i
        <5>1. i \in Int
          BY Walks, LenProperties
        <5> QED BY <4>1, <5>1
      <4> QED BY <1>1, <3>2, <4>1, <4>2 DEF ToSet
    <3> QED BY <3>1, <3>2
  <2> QED BY <2>1 DEF AllowedLoadDevices
<1>4. \A b \in BOOLEAN : Occupied(allowed, b) \in SUBSET Devices
  BY <1>1 DEF Occupied
<1>5. Gauged(allowed) \in SUBSET Devices
  BY <1>1 DEF Gauged, MemoryTracked
<1> QED BY <1>2, <1>3, <1>4, <1>5
-----------------------------------------------------------------------------
(* Accounting: what every holder has sums up to what is in use.            *)

\* The locals' types, by name.
LEMMA LocalsTyped ==
    ASSUME TypeOK
    PROVE  /\ work.mem \in Units /\ work.proj \in Units /\ work.before \in Units
           /\ work.prev \in Units /\ work.worst \in Units /\ Reading \in Units
           /\ work.pool \in Nat /\ work.base \in Nat /\ work.per \in Nat
           /\ work.gpus \in SUBSET Devices /\ work.allowed \in SUBSET Devices
           /\ MyDevices \in SUBSET Devices /\ Gauged(work.allowed) \in SUBSET Devices
           /\ DeviceList
<1>1. DeviceList
  BY DEF TypeOK, DeviceList
<1>2. /\ work.mem \in Units /\ work.proj \in Units /\ work.before \in Units
      /\ work.prev \in Units /\ work.worst \in Units
      /\ work.pool \in Nat /\ work.base \in Nat /\ work.per \in Nat
      /\ work.gpus \in SUBSET Devices /\ work.allowed \in SUBSET Devices
  BY DEF TypeOK, Locals
<1>3. Reading \in Units
  BY DEF TypeOK, Units, Reading
<1>4. enabled \in [all : BOOLEAN, ids : SUBSET DeviceIds]
  BY DEF TypeOK
<1>5. MyDevices \in SUBSET Devices /\ Gauged(work.allowed) \in SUBSET Devices
  BY <1>1, <1>2, <1>4, PlacesAreDevices DEF MyDevices
<1> QED BY <1>1, <1>2, <1>3, <1>5

\* What a model holds, of any device.
LEMMA KeptTyped ==
    ASSUME TypeOK, NEW d \in Devices
    PROVE  /\ KeptOn(d) \in [Ids -> Nat]
           /\ \A i \in Ids : /\ models[i].mem[d] \in Nat /\ dying[i][d] \in Nat
                              /\ KeptOn(d)[i] = models[i].mem[d] + dying[i][d]
           /\ SumFunction(KeptOn(d)) = SumFunctionOnSet(KeptOn(d), Ids)
<1>1. \A i \in Ids : models[i].mem[d] \in Nat /\ dying[i][d] \in Nat
  BY DEF TypeOK, Resident, Units
<1>2. KeptOn(d) \in [Ids -> Nat] /\ DOMAIN KeptOn(d) = Ids
  BY <1>1 DEF KeptOn
<1>3. \A i \in Ids : KeptOn(d)[i] = models[i].mem[d] + dying[i][d]
  BY DEF KeptOn
<1>4. SumFunction(KeptOn(d)) = SumFunctionOnSet(KeptOn(d), Ids)
  BY <1>2, Zenon DEF SumFunction
<1> QED BY <1>1, <1>2, <1>3, <1>4

HeldIsTyped == Held \in Units /\ \A d \in Devices : Held[d] = work.mem[d] + work.proj[d]
LEMMA HeldTyped == TypeOK => HeldIsTyped
BY LocalsTyped, UnitSums DEF Held, HeldIsTyped

\* What anyone gives back is in use.
LEMMA EnoughIsUsed ==
    ASSUME TypeOK, MemoryAccounted, NEW d \in Devices
    PROVE  /\ used[d] \in Nat /\ Held[d] \in Nat /\ Held[d] <= used[d]
           /\ \A i \in Ids : models[i].mem[d] <= used[d] /\ dying[i][d] <= used[d]
<1> DEFINE kept == SumFunction(KeptOn(d))
<1>1. PICK i \in Ids : TRUE
  BY IdsAssumption
<1>2. \A k \in Ids : kept \in Nat /\ KeptOn(d)[k] <= kept
  BY KeptTyped, IdsAssumption, SumAtLeast
<1>3. used[d] = Held[d] + kept
  BY DEF MemoryAccounted
<1>4. Held[d] \in Nat
  BY HeldTyped DEF HeldIsTyped, Units
<1>5. kept \in Nat
  BY <1>1, <1>2
<1> HIDE DEF kept
<1>6. ASSUME NEW k \in Ids PROVE models[k].mem[d] <= used[d] /\ dying[k][d] <= used[d]
  <2>1. models[k].mem[d] \in Nat /\ dying[k][d] \in Nat
        /\ models[k].mem[d] + dying[k][d] <= kept
    BY <1>2, KeptTyped
  <2> QED BY <1>3, <1>4, <1>5, <2>1
<1> QED BY <1>3, <1>4, <1>5, <1>6

\* A step in which only the lane takes or gives back.
LEMMA LaneAccounts ==
    ASSUME TypeOK, TypeOK', MemoryAccounted, UNCHANGED <<backend, models, dying>>,
           \A d \in Devices : used'[d] = (used[d] - Held[d]) + Held'[d]
    PROVE  MemoryAccounted'
<1> SUFFICES ASSUME NEW d \in Devices PROVE used'[d] = Held'[d] + SumFunction(KeptOn(d)')
  BY DEF MemoryAccounted, Devices
<1>1. KeptOn(d)' = KeptOn(d)
  BY DEF KeptOn
<1>2. used[d] = Held[d] + SumFunction(KeptOn(d))
  BY DEF MemoryAccounted
<1>3. Held[d] \in Int /\ Held'[d] \in Int
  <2>1. Held \in Units
    BY HeldTyped DEF HeldIsTyped
  <2>2. Held' \in Units'
    <3>1. HeldIsTyped'
      BY HeldTyped, PTL
    <3> QED BY <3>1 DEF HeldIsTyped
  <2> QED BY <2>1, <2>2 DEF Units, Devices
<1>4. SumFunction(KeptOn(d)) \in Int
  BY KeptTyped, IdsAssumption, SumType
<1> QED BY <1>1, <1>2, <1>3, <1>4
-----------------------------------------------------------------------------
(* The frame the lane executes, and what a step of it leaves alone.        *)

\* On the same devices the operators return the same.
LEMMA SameDevices ==
    ASSUME UNCHANGED backend
    PROVE  /\ Devices' = Devices /\ Units' = Units /\ Locals' = Locals /\ Resident' = Resident
           /\ Nothing' = Nothing /\ Idle' = Idle /\ HardwareIds' = HardwareIds
           /\ GpuWalk' = GpuWalk /\ CpuWalk' = CpuWalk
<1>1. Devices' = Devices /\ GpuWalk' = GpuWalk /\ CpuWalk' = CpuWalk
  BY DEF Devices, GpuWalk, CpuWalk, Walk
<1>2. Units' = Units /\ Nothing' = Nothing
  BY <1>1 DEF Units, Nothing
<1>3. Locals' = Locals /\ Resident' = Resident
  BY <1>1, <1>2 DEF Locals, Resident
<1>4. Idle' = Idle /\ HardwareIds' = HardwareIds
  BY <1>1, <1>2 DEF Idle, HardwareIds
<1> QED BY <1>1, <1>2, <1>3, <1>4

\* The same request, placed on the same devices.
LEMMA PlacingKept ==
    ASSUME UNCHANGED backend, work'.req = work.req, work'.allowed = work.allowed
    PROVE  /\ MyDevices' = MyDevices /\ PoolPin' = PoolPin
           /\ (Gauged(work.allowed))' = Gauged(work.allowed)
           /\ HeadroomEnabled' = HeadroomEnabled
<1>1. GpuWalk' = GpuWalk /\ CpuWalk' = CpuWalk
  BY SameDevices
<1>2. MyDevices' = MyDevices
  BY <1>1 DEF MyDevices, Occupied
<1>3. PoolPin' = PoolPin
  BY DEF PoolPin
<1>4. (Gauged(work.allowed))' = Gauged(work.allowed)
  BY <1>1 DEF Gauged, MemoryTracked, Reports
<1> QED BY <1>2, <1>3, <1>4 DEF HeadroomEnabled

\* A step of a frame that stays the frame it is.
SameFrame == work'.req = work.req /\ work'.gpus = work.gpus /\ work'.allowed = work.allowed

LEMMA SamePlace ==
    ASSUME UNCHANGED backend, SameFrame
    PROVE  /\ MyDevices' = MyDevices /\ PoolPin' = PoolPin
           /\ (Gauged(work.allowed))' = Gauged(work.allowed)
           /\ HeadroomEnabled' = HeadroomEnabled
BY PlacingKept DEF SameFrame

LEMMA IdleTyped ==
    ASSUME TypeOK
    PROVE  Idle \in Locals
BY NothingOn DEF Idle, Locals, Steps

\* A step of a load, from its fetch on.
LEMMA LoadStep ==
    ASSUME LaneInv, UNCHANGED <<laneFrame, models, queue, price>>, SameFrame,
           work.at \in LoadSteps \cup {"fetch"}, work'.at \in LoadSteps,
           work' \in Locals, used' \in Units,
           \A d \in Devices : used'[d] = used[d] + (work'.mem[d] - work.mem[d])
                                                 + (work'.proj[d] - work.proj[d]),
           \A d \in Devices : work'.mem[d] > 0 => d \in MyDevices,
           work.at = "fetch" /\ work.req.op = "load" => ~models[work.req.id].loaded,
           HeldInPlace', Growing'
    PROVE  LaneInv'
<1> USE DEF laneFrame
<1>1. TypeOK'
  BY SameDevices DEF TypeOK, LaneInv
<1>2. MemoryAccounted'
  <2>1. Devices' = Devices
    BY SameDevices
  <2>2. \A d \in Devices' : Held'[d] = work'.mem[d] + work'.proj[d]
    <3>1. HeldIsTyped'
      BY <1>1, HeldTyped, PTL
    <3> QED BY <3>1 DEF HeldIsTyped
  <2>3. ASSUME NEW d \in Devices PROVE used'[d] = (used[d] - Held[d]) + Held'[d]
    <3>1. Held'[d] = work'.mem[d] + work'.proj[d] /\ Held[d] = work.mem[d] + work.proj[d]
      BY <2>1, <2>2, HeldTyped DEF HeldIsTyped, LaneInv
    <3>2. /\ work.mem[d] \in Nat /\ work.proj[d] \in Nat /\ used[d] \in Nat
          /\ work'.mem[d] \in Nat /\ work'.proj[d] \in Nat
      BY DEF LaneInv, TypeOK, Locals, Units
    <3> QED BY <3>1, <3>2
  <2> QED BY <1>1, <2>3, LaneAccounts DEF LaneInv
<1>3. RegistryInPlace'
  BY SameDevices DEF RegistryInPlace, LaneInv, SameFrame, LoadSteps, BenchSteps
<1>4. Placed'
  <2>1. MyDevices' = MyDevices /\ Devices' = Devices
    BY SamePlace, SameDevices
  <2>2. EnabledGpus(enabled)' = EnabledGpus(enabled)
    BY SameDevices DEF EnabledGpus
  <2>3. \A k \in DOMAIN queue' : EnabledGpus(enabled)' \subseteq queue'[k].gpus
    BY <2>2 DEF LaneInv, Placed
  <2>4. {d \in MyDevices' : IsGpu(d)'} \subseteq work'.gpus
    BY <2>1 DEF LaneInv, Placed, SameFrame, IsGpu
  <2>5. {d \in Devices' : work'.mem[d] > 0} \subseteq MyDevices'
    BY <2>1
  <2> QED BY <2>3, <2>4, <2>5 DEF Placed
<1>5. Covers'
  BY DEF Covers, LoadSteps
<1> QED BY <1>1, <1>2, <1>3, <1>4, <1>5 DEF LaneInv

\* A step that is not one of the pool's growth.
LEMMA NotGrowing ==
    ASSUME work'.at \notin {"predict", "alloc", "record", "grown"}
    PROVE  Growing'
BY DEF Growing

\* The largest of two numbers, and what was gained on every device.
LEMMA LargestOf ==
    ASSUME NEW a \in Int, NEW b \in Int
    PROVE  /\ Max({a, b}) \in Int /\ Max({a, b}) >= a /\ Max({a, b}) >= b
           /\ Max({a, b}) = a \/ Max({a, b}) = b
<1>1. \E x \in {a, b} : \A y \in {a, b} : x >= y
  OBVIOUS
<1>2. Max({a, b}) \in {a, b} /\ \A y \in {a, b} : Max({a, b}) >= y
  BY <1>1 DEF Max
<1> QED BY <1>2

\* What is gained on one device is gained on them all at least.
LEMMA GrowthOfOne ==
    ASSUME DeviceList, NEW ds \in SUBSET Devices, NEW m \in Units, NEW n \in Units, NEW d \in ds
    PROVE  GrowthBytes(ds, m, n) >= n[d] - m[d] /\ GrowthBytes(ds, m, n) \in Nat
<1> DEFINE f == [e \in ds |-> Max({0, n[e] - m[e]})]
           x == n[d] - m[d]
<1>1. IsFiniteSet(ds)
  BY BackendType, FS_Subset
<1>2. \A e \in ds : f[e] \in Nat /\ f[e] >= n[e] - m[e]
  <2>1. ASSUME NEW e \in ds
        PROVE  Max({0, n[e] - m[e]}) \in Nat /\ Max({0, n[e] - m[e]}) >= n[e] - m[e]
    <3> DEFINE y == n[e] - m[e]
    <3>1. y \in Int
      BY DEF Units
    <3> HIDE DEF y
    <3>2. Max({0, y}) \in Int /\ Max({0, y}) >= 0 /\ Max({0, y}) >= y
      <4>1. 0 \in Int
        OBVIOUS
      <4> QED BY <3>1, <4>1, LargestOf, Zenon
    <3> QED BY <3>2 DEF y
  <2> QED BY <2>1
<1>3. GrowthBytes(ds, m, n) = SumFunctionOnSet(f, ds)
  BY Zenon DEF GrowthBytes, SumFunction
<1>4. f \in [ds -> Nat]
  BY <1>2
<1>5. f[d] \in Nat /\ f[d] >= x
  BY <1>2
<1> HIDE DEF f, x
<1>6. SumFunctionOnSet(f, ds) \in Nat /\ f[d] <= SumFunctionOnSet(f, ds)
  BY <1>1, <1>4, SumAtLeast
<1>7. x \in Int
  BY DEF Units, x
<1>8. GrowthBytes(ds, m, n) >= x /\ GrowthBytes(ds, m, n) \in Nat
  BY <1>3, <1>5, <1>6, <1>7
<1> QED BY <1>8 DEF x

LEMMA GrowthTyped ==
    ASSUME DeviceList, NEW ds \in SUBSET Devices, NEW m \in Units, NEW n \in Units
    PROVE  GrowthBytes(ds, m, n) \in Nat
<1>1. CASE ds = {}
  <2> DEFINE f == [d \in ds |-> Max({0, n[d] - m[d]})]
  <2>1. GrowthBytes(ds, m, n) = SumFunctionOnSet(f, ds)
    BY Zenon DEF GrowthBytes, SumFunction
  <2>2. f \in [ds -> Int] /\ \A d \in ds : f[d] = 0
    BY <1>1
  <2> HIDE DEF f
  <2>3. SumFunctionOnSet(f, ds) = 0
    BY <1>1, <2>2, FS_EmptySet, SumNothing
  <2> QED BY <2>1, <2>3
<1>2. CASE ds # {}
  <2>1. PICK d \in ds : TRUE
    BY <1>2
  <2> QED BY <2>1, GrowthOfOne
<1> QED BY <1>1, <1>2

\* What the steps of a load find.
LEMMA LaneHas ==
    ASSUME LaneInv
    PROVE  /\ TypeOK /\ work \in Locals /\ used \in Units
           /\ work.mem \in Units /\ work.proj \in Units /\ work.before \in Units
           /\ work.prev \in Units /\ work.worst \in Units /\ Reading \in Units
           /\ work.pool \in Nat /\ work.base \in Nat /\ work.per \in Nat
           /\ MyDevices \in SUBSET Devices /\ Gauged(work.allowed) \in SUBSET Devices
           /\ DeviceList
           /\ \A d \in Devices : /\ used[d] \in Nat /\ work.mem[d] \in Nat /\ work.proj[d] \in Nat
                                 /\ work.mem[d] + work.proj[d] <= used[d]
           /\ work.req.op # "bench" => \A d \in Devices : work.mem[d] > 0 => d \in MyDevices
<1>1. TypeOK /\ MemoryAccounted
  BY DEF LaneInv
<1>2. \A d \in Devices : used[d] \in Nat /\ work.mem[d] \in Nat /\ work.proj[d] \in Nat
                         /\ work.mem[d] + work.proj[d] <= used[d]
  <2>1. \A d \in Devices : Held[d] = work.mem[d] + work.proj[d]
    BY <1>1, HeldTyped DEF HeldIsTyped
  <2>2. \A d \in Devices : Held[d] <= used[d]
    BY <1>1, EnoughIsUsed
  <2> QED BY <1>1, <2>1, <2>2 DEF TypeOK, Locals, Units
<1>3. work.req.op # "bench" => \A d \in Devices : work.mem[d] > 0 => d \in MyDevices
  BY DEF LaneInv, Placed
<1>4. work \in Locals /\ used \in Units
  BY <1>1 DEF TypeOK
<1> QED BY <1>1, <1>2, <1>3, <1>4, LocalsTyped
-----------------------------------------------------------------------------
(* The steps of a load.                                                    *)

LEMMA FetchEndsInv ==
    ASSUME LaneInv, FetchEnds, ~models[work.req.id].loaded
    PROVE  LaneInv'
<1>1. /\ work.at = "fetch" /\ work'.at = "load" /\ SameFrame /\ used' = used
      /\ work'.mem = work.mem /\ work'.proj = work.proj /\ work'.pool = work.pool
      /\ UNCHANGED <<laneFrame, models, queue, price>>
      /\ work' = [work EXCEPT !.at = "load", !.before = Reading, !.quiet = TRUE, !.fits = Priced]
  BY LaneHas DEF FetchEnds, Goes, SameFrame, Locals
<1>2. Priced \in BOOLEAN
  BY DEF Priced
<1>3. work' \in Locals
  BY <1>1, <1>2, LaneHas DEF Locals, Steps
<1>4. HeldInPlace'
  BY <1>1, SameDevices DEF HeldInPlace, LaneInv, SameFrame, BenchSteps, laneFrame
<1>5. Growing'
  BY <1>1, NotGrowing
<1>6. work.req.op # "bench"
  BY <1>1 DEF LaneInv, HeldInPlace, BenchSteps
<1>7. \A d \in Devices : used'[d] = used[d] + (work'.mem[d] - work.mem[d])
                                            + (work'.proj[d] - work.proj[d])
  BY <1>1, LaneHas
<1> QED BY <1>1, <1>3, <1>4, <1>5, <1>6, <1>7, LaneHas, LoadStep DEF LoadSteps, Steps, BenchSteps

LEMMA BenchFetchEndsInv ==
    ASSUME LaneInv, BenchFetchEnds
    PROVE  LaneInv'
<1>1. /\ work.at = "fetch" /\ work'.at = "load" /\ SameFrame /\ used' = used
      /\ work'.mem = work.mem /\ work'.proj = work.proj /\ work'.pool = work.pool
      /\ work.req.op = "modelbench"
      /\ UNCHANGED <<laneFrame, models, queue, price>>
      /\ work' = [work EXCEPT !.at = "load", !.before = Reading, !.quiet = TRUE]
  BY LaneHas DEF BenchFetchEnds, Goes, SameFrame, Locals
<1>2. work' \in Locals
  BY <1>1, LaneHas DEF Locals, Steps
<1>3. HeldInPlace'
  BY <1>1, SameDevices DEF HeldInPlace, LaneInv, SameFrame, BenchSteps, laneFrame
<1>4. Growing'
  BY <1>1, NotGrowing
<1>5. \A d \in Devices : used'[d] = used[d] + (work'.mem[d] - work.mem[d])
                                            + (work'.proj[d] - work.proj[d])
  BY <1>1, LaneHas
<1> QED BY <1>1, <1>2, <1>3, <1>4, <1>5, LaneHas, LoadStep DEF LoadSteps, Steps, BenchSteps

LEMMA LoadWeightsInv ==
    ASSUME LaneInv, LoadWeights
    PROVE  LaneInv'
<1> DEFINE cost == On(MyDevices, Weights)
<1>1. cost \in Units /\ \A d \in Devices : cost[d] = IF d \in MyDevices THEN Weights ELSE 0
  BY UnitConstants, UnitsOn
<1>2. /\ work.at = "load" /\ work'.at \in {"projector", "size"} /\ SameFrame
      /\ used' = Plus(used, cost)
      /\ work'.mem = cost /\ work'.proj = work.proj /\ work'.pool = work.pool
      /\ UNCHANGED <<laneFrame, models, queue, price>>
      /\ work' = [work EXCEPT !.mem = cost,
                     !.at = IF work.req.id \in Vision THEN "projector" ELSE "size"]
  BY LaneHas DEF LoadWeights, Goes, SameFrame, Locals
<1> HIDE DEF cost
<1>3. work' \in Locals
  BY <1>1, <1>2, LaneHas DEF Locals, Steps
<1>4. HeldInPlace'
  BY <1>2, SameDevices DEF HeldInPlace, LaneInv, SameFrame, BenchSteps, laneFrame
<1>5. Growing'
  BY <1>2, NotGrowing
<1>6. used' \in Units /\ \A d \in Devices : used'[d] = used[d] + cost[d]
  BY <1>1, <1>2, LaneHas, UnitSums
<1>7. \A d \in Devices : work.mem[d] = 0
  BY <1>2, NothingOn DEF LaneInv, HeldInPlace
<1>8. \A d \in Devices : used'[d] = used[d] + (work'.mem[d] - work.mem[d])
                                            + (work'.proj[d] - work.proj[d])
  BY <1>1, <1>2, <1>6, <1>7, LaneHas DEF Units
<1>9. \A d \in Devices : work'.mem[d] > 0 => d \in MyDevices
  BY <1>1, <1>2
<1> QED BY <1>2, <1>3, <1>4, <1>5, <1>6, <1>8, <1>9, LoadStep DEF LoadSteps, Steps, BenchSteps

LEMMA LoadProjectorInv ==
    ASSUME LaneInv, LoadProjector
    PROVE  LaneInv'
<1> DEFINE cost == On(ProjectorDevices(work.allowed), Projector)
<1>1. cost \in Units
  BY UnitConstants, UnitsOn
<1>2. /\ work.at = "projector" /\ work'.at = "size" /\ SameFrame
      /\ used' = Plus(used, cost)
      /\ work'.mem = work.mem /\ work'.proj = cost /\ work'.pool = work.pool
      /\ UNCHANGED <<laneFrame, models, queue, price>>
      /\ work' = [work EXCEPT !.proj = cost, !.at = "size"]
  BY LaneHas DEF LoadProjector, Goes, SameFrame, Locals
<1> HIDE DEF cost
<1>3. work' \in Locals
  BY <1>1, <1>2, LaneHas DEF Locals, Steps
<1>4. HeldInPlace'
  BY <1>2, SameDevices DEF HeldInPlace, LaneInv, SameFrame, BenchSteps, laneFrame
<1>5. Growing'
  BY <1>2, NotGrowing
<1>6. used' \in Units /\ \A d \in Devices : used'[d] = used[d] + cost[d]
  BY <1>1, <1>2, LaneHas, UnitSums
<1>7. \A d \in Devices : work.proj[d] = 0
  BY <1>2, NothingOn DEF LaneInv, HeldInPlace
<1>8. \A d \in Devices : used'[d] = used[d] + (work'.mem[d] - work.mem[d])
                                            + (work'.proj[d] - work.proj[d])
  BY <1>1, <1>2, <1>6, <1>7, LaneHas DEF Units
<1>9. work.req.op # "bench"
  BY <1>2 DEF LaneInv, HeldInPlace, BenchSteps
<1> QED BY <1>2, <1>3, <1>4, <1>5, <1>6, <1>8, <1>9, LaneHas, LoadStep
        DEF LoadSteps, Steps, BenchSteps

\* What a step finds that changes its locals only.
LEMMA LocalStep ==
    ASSUME LaneInv, work.at \in LoadSteps, work'.at \in LoadSteps, work'.at # "priced",
           UNCHANGED <<laneFrame, models, queue, price>>, SameFrame, work' \in Locals,
           used' = used, work'.mem = work.mem, work'.proj = work.proj,
           work'.at \notin {"load", "projector", "size"}, Growing'
    PROVE  LaneInv'
<1>1. HeldInPlace'
  BY DEF HeldInPlace, LaneInv, SameFrame, LoadSteps, BenchSteps, laneFrame
<1>2. \A d \in Devices : used'[d] = used[d] + (work'.mem[d] - work.mem[d])
                                            + (work'.proj[d] - work.proj[d])
  BY LaneHas
<1>3. work.req.op # "bench"
  BY DEF LaneInv, HeldInPlace, BenchSteps, LoadSteps
<1>4. work.at # "fetch"
  BY DEF LoadSteps
<1> QED BY <1>1, <1>2, <1>3, <1>4, LaneHas, LoadStep

LEMMA CalibrationFailsInv ==
    ASSUME LaneInv, CalibrationFails
    PROVE  LaneInv'
<1>1. /\ work.at = "calibrate" /\ work'.at = "price" /\ SameFrame /\ used' = used
      /\ work'.mem = work.mem /\ work'.proj = work.proj
      /\ UNCHANGED <<laneFrame, models, queue, price>>
      /\ work' = [work EXCEPT !.at = "price", !.timed = FALSE]
  BY LaneHas DEF CalibrationFails, Goes, SameFrame, Locals
<1>2. work' \in Locals
  BY <1>1, LaneHas DEF Locals, Steps
<1>3. Growing'
  BY <1>1, NotGrowing
<1> QED BY <1>1, <1>2, <1>3, LocalStep DEF LoadSteps, Steps, BenchSteps

LEMMA PriceBaseInv ==
    ASSUME LaneInv, PriceBase
    PROVE  LaneInv'
<1> DEFINE base == GrowthBytes(Gauged(work.allowed), work.before, Reading)
<1>1. /\ work.at = "price" /\ work'.at = "probe" /\ SameFrame /\ used' = used
      /\ work'.mem = work.mem /\ work'.proj = work.proj
      /\ UNCHANGED <<laneFrame, models, queue, price>>
      /\ work' = [work EXCEPT !.at = "probe", !.prev = Reading, !.base = base]
  BY LaneHas DEF PriceBase, Goes, SameFrame, Locals
<1>2. base \in Nat
  BY LaneHas, GrowthTyped
<1> HIDE DEF base
<1>3. work' \in Locals
  BY <1>1, <1>2, LaneHas DEF Locals, Steps
<1>4. Growing'
  BY <1>1, NotGrowing
<1> QED BY <1>1, <1>3, <1>4, LocalStep DEF LoadSteps, Steps, BenchSteps

LEMMA ProbeFailsInv ==
    ASSUME LaneInv, ProbeFails
    PROVE  LaneInv'
<1>1. /\ work.at = "probe" /\ work'.at = "benched" /\ SameFrame /\ used' = used
      /\ work'.mem = work.mem /\ work'.proj = work.proj
      /\ UNCHANGED <<laneFrame, models, queue, price>>
      /\ work' = [work EXCEPT !.at = "benched", !.per = work.base]
  BY LaneHas DEF ProbeFails, Goes, SameFrame, Locals
<1>2. work' \in Locals
  BY <1>1, LaneHas DEF Locals, Steps
<1>3. Growing'
  BY <1>1, NotGrowing
<1> QED BY <1>1, <1>2, <1>3, LocalStep DEF LoadSteps, Steps, BenchSteps

\* A step that takes more for the contexts, of the devices of the model.
LEMMA TakingStep ==
    ASSUME LaneInv, work.at \in LoadSteps \ {"load", "projector", "size"},
           work'.at \in LoadSteps \ {"load", "projector", "size"},
           UNCHANGED <<laneFrame, models, queue, price>>, SameFrame, work' \in Locals,
           NEW n \in Nat, NEW cost, cost = On(MyDevices, n), work'.at = "priced" => n = Slot,
           used' = Plus(used, cost), work'.mem = Plus(work.mem, cost), work'.proj = work.proj,
           Growing'
    PROVE  LaneInv'
<1>1. cost \in Units /\ \A d \in Devices : cost[d] = IF d \in MyDevices THEN n ELSE 0
  BY UnitsOn
<1>2. /\ used' \in Units
      /\ \A d \in Devices : used'[d] = used[d] + cost[d] /\ work'.mem[d] = work.mem[d] + cost[d]
  BY <1>1, LaneHas, UnitSums
<1>3. \A d \in Devices : cost[d] \in Nat
  BY <1>1 DEF Units
<1>4. work.req.op # "bench"
  BY DEF LaneInv, HeldInPlace, BenchSteps, LoadSteps
<1>5. HeldInPlace'
  <2>1. MyDevices' = MyDevices
    BY SamePlace DEF laneFrame
  <2>2. work'.at = "priced" => \A d \in MyDevices : work'.mem[d] >= Slot
    BY <1>1, <1>2, LaneHas, UnitConstants
  <2>3. work.req.op # "bench" /\ work'.at \notin BenchSteps \cup {"idle", "fetch"}
    BY <1>4 DEF LoadSteps
  <2> QED BY <2>1, <2>2, <2>3 DEF HeldInPlace, BenchSteps, SameFrame
<1>6. \A d \in Devices : used'[d] = used[d] + (work'.mem[d] - work.mem[d])
                                            + (work'.proj[d] - work.proj[d])
  BY <1>2, <1>3, LaneHas
<1>7. \A d \in Devices : work'.mem[d] > 0 => d \in MyDevices
  BY <1>1, <1>2, <1>4, LaneHas
<1>8. work.at # "fetch"
  BY DEF LoadSteps
<1> QED BY <1>2, <1>5, <1>6, <1>7, <1>8, LoadStep

LEMMA PayloadEndsInv ==
    ASSUME LaneInv, PayloadEnds
    PROVE  LaneInv'
<1>1. PICK decodes \in BOOLEAN :
          LET cost == On(MyDevices, IF decodes THEN Graph ELSE 0)
          IN Goes([work EXCEPT !.at = "calibrate", !.mem = Plus(@, cost), !.timed = decodes],
                  Plus(used, cost))
  BY DEF PayloadEnds
<1> DEFINE n == IF decodes THEN Graph ELSE 0
           cost == On(MyDevices, n)
<1>2. n \in Nat
  BY UnitConstants
<1>3. work' = [work EXCEPT !.at = "calibrate", !.mem = Plus(@, cost), !.timed = decodes]
      /\ used' = Plus(used, cost) /\ UNCHANGED <<laneFrame, models, queue, price>>
      /\ work.at = "grown"
  BY <1>1 DEF Goes, PayloadEnds
<1>4. cost \in Units
  BY <1>2, UnitsOn
<1> HIDE DEF n
<1>5. cost = On(MyDevices, n)
  OBVIOUS
<1> HIDE DEF cost
<1>6. Plus(work.mem, cost) \in Units
  BY <1>4, LaneHas, UnitSums
<1>7. /\ work'.at = "calibrate" /\ SameFrame /\ work' \in Locals
      /\ work'.mem = Plus(work.mem, cost) /\ work'.proj = work.proj
  BY <1>3, <1>6, LaneHas DEF SameFrame, Locals, Steps
<1>8. Growing'
  BY <1>7, NotGrowing
<1> QED BY <1>2, <1>3, <1>5, <1>7, <1>8, TakingStep DEF LoadSteps, Steps, BenchSteps

LEMMA CalibrateInv ==
    ASSUME LaneInv, Calibrate
    PROVE  LaneInv'
<1> DEFINE n == IF work.timed THEN 0 ELSE Graph
           cost == On(MyDevices, n)
<1>2. n \in Nat
  BY UnitConstants
<1>3. work' = [work EXCEPT !.at = "price", !.mem = Plus(@, cost), !.timed = TRUE]
      /\ used' = Plus(used, cost) /\ UNCHANGED <<laneFrame, models, queue, price>>
      /\ work.at = "calibrate"
  BY DEF Goes, Calibrate
<1>4. cost \in Units
  BY <1>2, UnitsOn
<1> HIDE DEF n
<1>5. cost = On(MyDevices, n)
  OBVIOUS
<1> HIDE DEF cost
<1>6. Plus(work.mem, cost) \in Units
  BY <1>4, LaneHas, UnitSums
<1>7. /\ work'.at = "price" /\ SameFrame /\ work' \in Locals
      /\ work'.mem = Plus(work.mem, cost) /\ work'.proj = work.proj
  BY <1>3, <1>6, LaneHas DEF SameFrame, Locals, Steps
<1>8. Growing'
  BY <1>7, NotGrowing
<1> QED BY <1>2, <1>3, <1>5, <1>7, <1>8, TakingStep DEF LoadSteps, Steps, BenchSteps

LEMMA ProbeSlotInv ==
    ASSUME LaneInv, ProbeSlot
    PROVE  LaneInv'
<1> DEFINE cost == On(MyDevices, Slot)
<1>1. Slot \in Nat
  BY UnitConstants
<1>2. work' = [work EXCEPT !.at = "priced", !.mem = Plus(@, cost)]
      /\ used' = Plus(used, cost) /\ UNCHANGED <<laneFrame, models, queue, price>>
      /\ work.at = "probe"
  BY DEF Goes, ProbeSlot
<1>3. cost \in Units /\ cost = On(MyDevices, Slot)
  BY <1>1, UnitsOn
<1> HIDE DEF cost
<1>4. Plus(work.mem, cost) \in Units
  BY <1>3, LaneHas, UnitSums
<1>5. /\ work'.at = "priced" /\ SameFrame /\ work' \in Locals
      /\ work'.mem = Plus(work.mem, cost) /\ work'.proj = work.proj
  BY <1>2, <1>4, LaneHas DEF SameFrame, Locals, Steps
<1>6. Growing'
  BY <1>5, NotGrowing
<1> QED BY <1>1, <1>2, <1>3, <1>5, <1>6, TakingStep DEF LoadSteps, Steps, BenchSteps

\* The probe's slot is given back.
LEMMA PriceSlotInv ==
    ASSUME LaneInv, PriceSlot
    PROVE  LaneInv'
<1> DEFINE cost == On(MyDevices, Slot)
           per == GrowthBytes(Gauged(work.allowed), work.prev, Reading)
<1>1. cost \in Units /\ \A d \in Devices : cost[d] = IF d \in MyDevices THEN Slot ELSE 0
  BY UnitConstants, UnitsOn
<1>2. per \in Nat
  BY LaneHas, GrowthTyped
<1>3. work' = [work EXCEPT !.at = "benched", !.mem = Minus(@, cost), !.per = per]
      /\ used' = Minus(used, cost) /\ UNCHANGED <<laneFrame, models, queue, price>>
      /\ work.at = "priced"
  BY DEF Goes, PriceSlot
<1> HIDE DEF cost, per
<1>4. \A d \in Devices : cost[d] \in Nat /\ cost[d] <= work.mem[d]
  BY <1>1, <1>3, LaneHas, UnitConstants DEF LaneInv, HeldInPlace
<1>5. \A d \in Devices : cost[d] <= used[d]
  BY <1>4, LaneHas
<1>6. /\ Minus(work.mem, cost) \in Units /\ Minus(used, cost) \in Units
      /\ \A d \in Devices : Minus(work.mem, cost)[d] = work.mem[d] - cost[d]
                            /\ Minus(used, cost)[d] = used[d] - cost[d]
  BY <1>1, <1>4, <1>5, LaneHas, UnitSums
<1>7. /\ work'.at = "benched" /\ SameFrame /\ work' \in Locals
      /\ work'.mem = Minus(work.mem, cost) /\ work'.proj = work.proj
  BY <1>2, <1>3, <1>6, LaneHas DEF SameFrame, Locals, Steps
<1>8. Growing'
  BY <1>7, NotGrowing
<1>9. HeldInPlace'
  BY <1>3, <1>7 DEF HeldInPlace, LaneInv, SameFrame, BenchSteps
<1>10. \A d \in Devices : used'[d] = used[d] + (work'.mem[d] - work.mem[d])
                                             + (work'.proj[d] - work.proj[d])
  BY <1>3, <1>4, <1>6, <1>7, LaneHas
<1>11. work.req.op # "bench"
  BY <1>3 DEF LaneInv, HeldInPlace, BenchSteps
<1>12. \A d \in Devices : work'.mem[d] > 0 => d \in MyDevices
  BY <1>4, <1>6, <1>7, <1>11, LaneHas
<1> QED BY <1>3, <1>6, <1>7, <1>8, <1>9, <1>10, <1>12, LoadStep DEF LoadSteps, Steps, BenchSteps
-----------------------------------------------------------------------------
(* The growth of the pool.                                                 *)

LEMMA CrossesMore ==
    ASSUME NEW m \in Int, NEW n \in Int, m <= n, Crosses(m)
    PROVE  Crosses(n)
<1> DEFINE mark == HeadroomPct * Total
<1>1. mark \in Int
  BY UnitConstants
<1>2. m * 100 >= mark
  BY DEF Crosses
<1> HIDE DEF mark
<1>3. n * 100 >= mark
  BY <1>1, <1>2
<1> QED BY <1>3 DEF Crosses, mark

\* A device the pool is gauged on reports, and a gauged pool nobody pinned is
\* grown by its readings.
LEMMA GaugedReports ==
    ASSUME NEW d \in Gauged(work.allowed), PoolPin = 0
    PROVE  HeadroomEnabled /\ backend[d] \in {"CPU", "GPU"}
BY DEF Gauged, Reports, HeadroomEnabled

\* What the growth promises of one device.
GrowsOn(d) ==
    LET costs == d \in MyDevices /\ backend[d] = "GPU"
    IN /\ work.at \in {"predict", "alloc"} => work.prev[d] = Reading[d]
       /\ work.at \in {"predict", "alloc"} /\ work.pool > 0 =>
             ~Crosses(Reading[d]) /\ (costs => work.worst[d] >= Slot)
       /\ work.at = "alloc" /\ work.pool > 0 =>
             work.worst[d] = 0 \/ ~Crosses(Reading[d] + work.worst[d])
       /\ work.at = "record" =>
             /\ costs => work.worst[d] >= Slot \/ Reading[d] - work.prev[d] >= Slot
             /\ work.pool > 1 => ~Crosses(Reading[d])
       /\ work.at = "grown" /\ work.pool > 1 => ~Crosses(Reading[d])

LEMMA GrowingIs ==
    Growing <=> (work.quiet /\ PoolPin = 0 => \A d \in Gauged(work.allowed) : GrowsOn(d))
BY DEF Growing, GrowsOn

LEMMA StartGrowthInv ==
    ASSUME LaneInv, StartGrowth
    PROVE  LaneInv'
<1>1. /\ work.at = "size" /\ work'.at = "predict" /\ SameFrame /\ used' = used
      /\ work'.mem = work.mem /\ work'.proj = work.proj /\ work'.prev = Reading
      /\ work'.pool = work.pool
      /\ UNCHANGED <<laneFrame, models, queue, price>>
      /\ work' = [work EXCEPT !.at = "predict", !.prev = Reading, !.worst = Nothing]
  BY LaneHas DEF StartGrowth, Goes, SameFrame, Locals
<1>2. work' \in Locals
  BY <1>1, LaneHas, NothingOn DEF Locals, Steps
<1>3. Growing'
  <2>1. work'.pool = 0
    BY <1>1 DEF LaneInv, HeldInPlace
  <2>2. Reading' = Reading
    BY <1>1, SameDevices DEF Reading, laneFrame
  <2> QED BY <1>1, <2>1, <2>2 DEF Growing
<1> QED BY <1>1, <1>2, <1>3, LocalStep DEF LoadSteps, Steps, BenchSteps

LEMMA PredictSlotInv ==
    ASSUME LaneInv, PredictSlot
    PROVE  LaneInv'
<1> DEFINE stop == \/ work.pool >= Ceiling
                   \/ HeadroomEnabled /\ Predicted(Gauged(work.allowed), Reading, work.worst)
<1>1. /\ work.at = "predict" /\ work'.at = (IF stop THEN "grown" ELSE "alloc")
      /\ SameFrame /\ used' = used
      /\ work'.mem = work.mem /\ work'.proj = work.proj /\ work'.prev = work.prev
      /\ work'.pool = work.pool /\ work'.worst = work.worst /\ work'.quiet = work.quiet
      /\ UNCHANGED <<laneFrame, models, queue, price>>
      /\ work' = [work EXCEPT !.at = IF stop THEN "grown" ELSE "alloc"]
  BY LaneHas DEF PredictSlot, Goes, SameFrame, Locals
<1>2. work' \in Locals
  BY <1>1, LaneHas DEF Locals, Steps
<1>3. Growing'
  <2>1. Reading' = Reading /\ backend' = backend
    BY <1>1, SameDevices DEF Reading, laneFrame
  <2>2. MyDevices' = MyDevices /\ PoolPin' = PoolPin
        /\ (Gauged(work.allowed))' = Gauged(work.allowed)
    BY <1>1, <2>1, SamePlace
  <2>3. SUFFICES ASSUME work.quiet, PoolPin = 0, NEW d \in Gauged(work.allowed)
                 PROVE  GrowsOn(d)'
    BY <1>1, <2>2 DEF Growing, GrowsOn
  <2>4. GrowsOn(d)
    BY <2>3, GrowingIs DEF LaneInv
  <2>5. ~stop => ~(work.worst[d] > 0 /\ Crosses(Reading[d] + work.worst[d]))
    BY <2>3, GaugedReports DEF Predicted
  <2>6. work.worst[d] \in Nat
    BY <2>3, LaneHas DEF Units
  <2> HIDE DEF stop
  <2>7. ~stop => work.worst[d] = 0 \/ ~Crosses(Reading[d] + work.worst[d])
    BY <2>5, <2>6
  <2> QED BY <1>1, <2>1, <2>2, <2>4, <2>7, LaneHas DEF GrowsOn
<1> QED BY <1>1, <1>2, <1>3, LocalStep DEF LoadSteps, Steps, BenchSteps

LEMMA AllocFailsInv ==
    ASSUME LaneInv, AllocFails
    PROVE  LaneInv'
<1>1. /\ work.at = "alloc" /\ work'.at = (IF work.pool = 0 THEN "noroom" ELSE "grown")
      /\ SameFrame /\ used' = used
      /\ work'.mem = work.mem /\ work'.proj = work.proj
      /\ work'.pool = work.pool /\ work'.quiet = work.quiet
      /\ UNCHANGED <<laneFrame, models, queue, price>>
      /\ work' = [work EXCEPT !.at = IF work.pool = 0 THEN "noroom" ELSE "grown"]
  BY LaneHas DEF AllocFails, Goes, SameFrame, Locals
<1>2. work' \in Locals
  BY <1>1, LaneHas DEF Locals, Steps
<1>3. Growing'
  <2>1. Reading' = Reading /\ backend' = backend
    BY <1>1, SameDevices DEF Reading, laneFrame
  <2>2. MyDevices' = MyDevices /\ PoolPin' = PoolPin
        /\ (Gauged(work.allowed))' = Gauged(work.allowed)
    BY <1>1, <2>1, SamePlace
  <2>3. SUFFICES ASSUME work.quiet, PoolPin = 0, NEW d \in Gauged(work.allowed)
                 PROVE  GrowsOn(d)'
    BY <1>1, <2>2 DEF Growing, GrowsOn
  <2>4. GrowsOn(d)
    BY <2>3, GrowingIs DEF LaneInv
  <2> QED BY <1>1, <2>1, <2>4, LaneHas DEF GrowsOn
<1> QED BY <1>1, <1>2, <1>3, LocalStep DEF LoadSteps, Steps, BenchSteps

LEMMA AllocSlotInv ==
    ASSUME LaneInv, AllocSlot
    PROVE  LaneInv'
<1> DEFINE n == IF work.pool = 0 THEN Slot + FirstExtra ELSE Slot
           cost == On(MyDevices, n)
           after == IF HeadroomEnabled THEN "record" ELSE "predict"
<1>1. n \in Nat /\ n >= Slot
  BY UnitConstants
<1>2. SlotCost = cost
  BY DEF SlotCost
<1>3. work' = [work EXCEPT !.mem = Plus(@, cost), !.pool = @ + 1, !.at = after]
      /\ used' = Plus(used, cost) /\ UNCHANGED <<laneFrame, models, queue, price>>
      /\ work.at = "alloc"
  BY <1>2 DEF Goes, AllocSlot
<1>4. cost \in Units /\ \A d \in Devices : cost[d] = IF d \in MyDevices THEN n ELSE 0
  BY <1>1, UnitsOn
<1>5. work.pool > 0 => n = Slot
  OBVIOUS
<1> HIDE DEF n
<1>6. cost = On(MyDevices, n)
  OBVIOUS
<1>0. after \in Steps
  BY DEF Steps
<1> HIDE DEF cost, after
<1>7. Plus(work.mem, cost) \in Units /\ work.pool + 1 \in Nat
  BY <1>4, LaneHas, UnitSums
<1>8. /\ work'.at = after /\ SameFrame /\ work' \in Locals
      /\ work'.mem = Plus(work.mem, cost) /\ work'.proj = work.proj
      /\ work'.pool = work.pool + 1 /\ work'.prev = work.prev /\ work'.worst = work.worst
      /\ work'.quiet = work.quiet
  BY <1>0, <1>3, <1>7, LaneHas DEF SameFrame, Locals
<1>9. Growing'
  <2>1. backend' = backend /\ Devices' = Devices
    BY <1>3, SameDevices DEF laneFrame
  <2>2. MyDevices' = MyDevices /\ PoolPin' = PoolPin
        /\ (Gauged(work.allowed))' = Gauged(work.allowed)
    BY <1>8, <2>1, SamePlace
  <2>3. SUFFICES ASSUME work.quiet, PoolPin = 0, NEW d \in Gauged(work.allowed)
                 PROVE  GrowsOn(d)'
    BY <1>8, <2>2 DEF Growing, GrowsOn
  <2>4. GrowsOn(d) /\ HeadroomEnabled /\ d \in Devices
    BY <2>3, GrowingIs, GaugedReports, LaneHas DEF LaneInv
  <2>5. work'.at = "record"
    BY <1>8, <2>4 DEF after
  <2> DEFINE r == Reading[d]
             s == Reading'[d]
             w == work.worst[d]
             costs == d \in MyDevices /\ backend[d] = "GPU"
  <2>6. s = r + (IF costs THEN n ELSE 0) /\ r \in Nat /\ w \in Nat
    <3>1. used'[d] = used[d] + cost[d]
      BY <1>3, <1>4, <2>4, LaneHas, UnitSums
    <3>2. r = (IF backend[d] = "GPU" THEN used[d] ELSE 0)
          /\ s = (IF backend[d] = "GPU" THEN used'[d] ELSE 0)
      BY <2>1, <2>4 DEF Reading
    <3>3. cost[d] = (IF d \in MyDevices THEN n ELSE 0) /\ used[d] \in Nat /\ w \in Nat
      BY <1>4, <2>4, LaneHas DEF Units
    <3> HIDE DEF r, s, w
    <3> QED BY <1>1, <3>1, <3>2, <3>3
  <2>7. /\ work.prev[d] = r
        /\ work.pool > 0 => ~Crosses(r) /\ (costs => w >= Slot) /\ (w = 0 \/ ~Crosses(r + w))
    BY <1>3, <2>4 DEF GrowsOn
  <2> HIDE DEF r, s, w
  <2>8. costs => s - work'.prev[d] >= Slot
    BY <1>1, <1>8, <2>6, <2>7, UnitConstants
  <2>9. ASSUME work'.pool > 1 PROVE ~Crosses(s)
    <3>1. work.pool > 0 /\ n = Slot
      BY <1>5, <1>8, <2>9, LaneHas
    <3>2. CASE costs
      <4>1. s <= r + w /\ (w = 0 => s = r)
        BY <2>6, <2>7, <3>1, <3>2, UnitConstants
      <4>2. s \in Int /\ r + w \in Int
        BY <1>1, <2>6
      <4> QED BY <2>7, <3>1, <4>1, <4>2, CrossesMore
    <3>3. CASE ~costs
      BY <2>6, <2>7, <3>1, <3>3
    <3> QED BY <3>2, <3>3
  <2> QED BY <2>1, <2>2, <2>5, <2>8, <2>9 DEF GrowsOn, s
<1> QED BY <1>1, <1>3, <1>6, <1>8, <1>9, TakingStep DEF LoadSteps, Steps, BenchSteps, after

LEMMA WorstTyped ==
    ASSUME NEW ds, NEW m \in Units, NEW n \in Units, NEW w \in Units
    PROVE  /\ WorstDelta(ds, m, n, w) \in Units
           /\ \A d \in Devices \cap ds : /\ WorstDelta(ds, m, n, w)[d] >= w[d]
                                         /\ WorstDelta(ds, m, n, w)[d] >= n[d] - m[d]
<1> DEFINE v == WorstDelta(ds, m, n, w)
<1>1. ASSUME NEW d \in Devices
      PROVE  v[d] \in Nat /\ v[d] >= w[d] /\ (d \in ds => v[d] >= n[d] - m[d])
  <2> DEFINE a == w[d]
             b == n[d] - m[d]
  <2>1. a \in Nat /\ b \in Int
    BY DEF Units
  <2>2. v[d] = IF d \in ds THEN Max({a, b}) ELSE a
    BY DEF WorstDelta
  <2> HIDE DEF a, b
  <2>3. Max({a, b}) \in Int /\ Max({a, b}) >= a /\ Max({a, b}) >= b
    <3>1. a \in Int
      BY <2>1
    <3> QED BY <2>1, <3>1, LargestOf, Zenon
  <2>4. v[d] \in Nat /\ v[d] >= a /\ (d \in ds => v[d] >= b)
    BY <2>1, <2>2, <2>3
  <2> QED BY <2>4 DEF a, b
<1>2. v = [d \in Devices |-> v[d]]
  BY DEF WorstDelta
<1>3. v \in Units
  BY <1>1, <1>2 DEF Units
<1> QED BY <1>1, <1>3

LEMMA RecordSlotInv ==
    ASSUME LaneInv, RecordSlot
    PROVE  LaneInv'
<1> DEFINE ds == Gauged(work.allowed)
           worst == WorstDelta(ds, work.prev, Reading, work.worst)
           after == IF Reached(ds, Reading) THEN "grown" ELSE "predict"
<1>0. worst \in Units /\ \A d \in ds : worst[d] >= work.worst[d]
                                      /\ worst[d] >= Reading[d] - work.prev[d]
  BY LaneHas, WorstTyped
<1>1. /\ work.at = "record" /\ work'.at = after /\ SameFrame /\ used' = used
      /\ work'.mem = work.mem /\ work'.proj = work.proj /\ work'.prev = Reading
      /\ work'.pool = work.pool /\ work'.worst = worst /\ work'.quiet = work.quiet
      /\ UNCHANGED <<laneFrame, models, queue, price>>
      /\ work' = [work EXCEPT !.worst = worst, !.prev = Reading, !.at = after]
  BY LaneHas DEF RecordSlot, Goes, SameFrame, Locals
<1> HIDE DEF worst
<1>2. work' \in Locals
  BY <1>0, <1>1, LaneHas DEF Locals, Steps
<1>3. Growing'
  <2>1. Reading' = Reading /\ backend' = backend
    BY <1>1, SameDevices DEF Reading, laneFrame
  <2>2. MyDevices' = MyDevices /\ PoolPin' = PoolPin
        /\ (Gauged(work.allowed))' = Gauged(work.allowed)
    BY <1>1, <2>1, SamePlace
  <2>3. SUFFICES ASSUME work.quiet, PoolPin = 0, NEW d \in Gauged(work.allowed)
                 PROVE  GrowsOn(d)'
    BY <1>1, <2>2 DEF Growing, GrowsOn
  <2>4. GrowsOn(d)
    BY <2>3, GrowingIs DEF LaneInv
  <2>5. after = "predict" => ~Crosses(Reading[d])
    BY <2>3 DEF Reached
  <2>6. /\ worst[d] >= work.worst[d] /\ worst[d] >= Reading[d] - work.prev[d]
        /\ worst[d] \in Nat /\ work.worst[d] \in Nat /\ Reading[d] \in Nat /\ work.prev[d] \in Nat
    BY <1>0, <2>3, LaneHas DEF Units
  <2>7. d \in MyDevices /\ backend[d] = "GPU" => worst[d] >= Slot
    BY <1>1, <2>4, <2>6, UnitConstants DEF GrowsOn
  <2> QED BY <1>1, <2>1, <2>2, <2>4, <2>5, <2>7 DEF GrowsOn
<1> QED BY <1>1, <1>2, <1>3, LocalStep DEF LoadSteps, Steps, BenchSteps
-----------------------------------------------------------------------------
(* The end of a frame, and the accounts of the models.                     *)

\* A request is what the hub may ask, or the one of a lane that rests.
LEMMA RequestTyped ==
    ASSUME TypeOK
    PROVE  /\ work.req.id \in Ids /\ work.req.op \in {"load", "modelbench", "bench"}
           /\ work.req.hub \in Nat /\ work.req.hints \in Nat
           /\ work.req.dev \in DeviceIds \cup {<<>>}
<1>1. work.req \in Requests \cup {NoRequest}
  BY DEF TypeOK, Locals
<1>2. PICK i \in Ids : TRUE
  BY IdsAssumption
<1>3. (CHOOSE k \in Ids : TRUE) \in Ids
  BY <1>2, Zenon
<1>4. CASE work.req \in Requests
  BY <1>4, RequestsAssumption
<1>5. CASE work.req = NoRequest
  BY <1>3, <1>5 DEF NoRequest
<1> QED BY <1>1, <1>4, <1>5

\* A step that changes what one model holds, and maybe the lane with it.
LEMMA OneAccounts ==
    ASSUME TypeOK, TypeOK', MemoryAccounted, UNCHANGED backend, NEW i \in Ids,
           \A k \in Ids \ {i} : models'[k] = models[k] /\ dying'[k] = dying[k],
           \A d \in Devices :
               used'[d] = (used[d] + (work'.mem[d] - work.mem[d]) + (work'.proj[d] - work.proj[d]))
                          + (models'[i].mem[d] - models[i].mem[d]) + (dying'[i][d] - dying[i][d])
    PROVE  MemoryAccounted'
<1>1. Devices' = Devices
  BY SameDevices
<1> SUFFICES ASSUME NEW d \in Devices PROVE used'[d] = Held'[d] + SumFunction(KeptOn(d)')
  BY <1>1 DEF MemoryAccounted
<1> DEFINE f == KeptOn(d)
           h == KeptOn(d)'
<1>2. f \in [Ids -> Int] /\ f[i] = models[i].mem[d] + dying[i][d]
  BY KeptTyped
<1>3. \A k \in Ids : models'[k].mem[d] \in Nat /\ dying'[k][d] \in Nat
  BY <1>1 DEF TypeOK, Resident, Units
<1>4. h = [k \in Ids |-> models'[k].mem[d] + dying'[k][d]]
  BY DEF KeptOn
<1>5. h \in [Ids -> Int] /\ h[i] = models'[i].mem[d] + dying'[i][d] /\ DOMAIN h = Ids
  BY <1>3, <1>4
<1>6. \A k \in Ids \ {i} : h[k] = f[k]
  BY <1>4, KeptTyped
<1>7. SumFunction(f) = SumFunctionOnSet(f, Ids)
  BY KeptTyped
<1>8. SumFunction(h) = SumFunctionOnSet(h, Ids)
  BY <1>5, Zenon DEF SumFunction
<1> HIDE DEF f, h
<1>9. SumFunction(h) = (SumFunction(f) - f[i]) + h[i]
  BY <1>2, <1>5, <1>6, <1>7, <1>8, IdsAssumption, SumChange
<1>10. SumFunction(f) \in Int
  BY <1>2, <1>7, IdsAssumption, SumType
<1>11. used[d] = Held[d] + SumFunction(f)
  BY DEF MemoryAccounted, f
<1>12. Held[d] = work.mem[d] + work.proj[d]
  BY HeldTyped DEF HeldIsTyped
<1>13. Held'[d] = work'.mem[d] + work'.proj[d]
  <2>1. HeldIsTyped'
    BY HeldTyped, PTL
  <2> QED BY <1>1, <2>1 DEF HeldIsTyped
<1>14. /\ work.mem[d] \in Nat /\ work.proj[d] \in Nat /\ models[i].mem[d] \in Nat
       /\ dying[i][d] \in Nat
  BY DEF TypeOK, Locals, Resident, Units
<1>15. work'.mem[d] \in Nat /\ work'.proj[d] \in Nat
  BY <1>1 DEF TypeOK, Locals, Units
<1>16. models'[i].mem[d] \in Nat /\ dying'[i][d] \in Nat
  BY <1>3
<1>17. used'[d] = Held'[d] + SumFunction(h)
  BY <1>2, <1>5, <1>9, <1>10, <1>11, <1>12, <1>13, <1>14, <1>15, <1>16
<1> QED BY <1>17 DEF h

\* What a lane that rests knows.
LEMMA IdleInv ==
    ASSUME LaneInv, UNCHANGED <<backend, enabled, queue>>, work' = Idle, TypeOK',
           MemoryAccounted', \A i \in Ids : ~models'[i].loaded => models'[i].mem = Nothing
    PROVE  LaneInv'
<1>1. Nothing' = Nothing /\ Devices' = Devices
  BY SameDevices
<1>2. HeldInPlace'
  BY <1>1 DEF HeldInPlace, Idle, NoRequest, BenchSteps
<1>3. RegistryInPlace'
  BY <1>1 DEF RegistryInPlace, Idle, LoadSteps, BenchSteps
<1>4. Placed'
  <2>1. EnabledGpus(enabled)' = EnabledGpus(enabled)
    BY SameDevices DEF EnabledGpus
  <2>2. \A d \in Devices : ~(work'.mem[d] > 0)
    BY NothingOn DEF Idle
  <2> QED BY <1>1, <2>1, <2>2 DEF Placed, LaneInv, Idle, LoadSteps, BenchSteps
<1>5. Covers' /\ Growing'
  BY NotGrowing DEF Covers, BenchSteps, Idle
<1> QED BY <1>2, <1>3, <1>4, <1>5 DEF LaneInv

\* A frame that is over gives back what it holds.
LEMMA FrameEnds ==
    ASSUME LaneInv, work' = Idle, used' = Minus(used, Held), UNCHANGED <<laneFrame, models, queue>>,
           price' \in [Ids -> [known : BOOLEAN, base : Nat, per : Nat, devs : SUBSET Devices]]
    PROVE  LaneInv'
<1> USE DEF laneFrame
<1>1. Held \in Units /\ \A d \in Devices : Held[d] = work.mem[d] + work.proj[d]
  BY LaneHas, HeldTyped DEF HeldIsTyped
<1>2. used' \in Units /\ \A d \in Devices : used'[d] = used[d] - Held[d]
  BY <1>1, LaneHas, UnitSums
<1>3. TypeOK'
  BY <1>2, SameDevices, IdleTyped, LaneHas DEF TypeOK
<1>4. MemoryAccounted'
  <2>1. Devices' = Devices
    BY SameDevices
  <2>2. \A d \in Devices : Held'[d] = 0
    <3>1. HeldIsTyped'
      BY <1>3, HeldTyped, PTL
    <3> QED BY <2>1, <3>1, NothingOn DEF HeldIsTyped, Idle
  <2>3. \A d \in Devices : used'[d] = (used[d] - Held[d]) + Held'[d]
    BY <1>1, <1>2, <2>2, LaneHas DEF Units
  <2> QED BY <1>3, <2>3, LaneHas, LaneAccounts DEF LaneInv
<1>5. \A i \in Ids : ~models'[i].loaded => models'[i].mem = Nothing
  BY DEF LaneInv, RegistryInPlace
<1> QED BY <1>3, <1>4, <1>5, IdleInv

LEMMA FinishedInv ==
    ASSUME LaneInv, Finished
    PROVE  LaneInv'
BY FrameEnds DEF Finished, LaneInv, TypeOK

LEMMA ReplyModelBenchmarkInv ==
    ASSUME LaneInv, ReplyModelBenchmark
    PROVE  LaneInv'
<1>1. work.quiet \in BOOLEAN /\ work.base \in Nat /\ work.per \in Nat
      /\ MyDevices \in SUBSET Devices /\ work.req.id \in Ids
  BY LaneHas, RequestTyped DEF Locals
<1>2. price' \in [Ids -> [known : BOOLEAN, base : Nat, per : Nat, devs : SUBSET Devices]]
  <2>1. price \in [Ids -> [known : BOOLEAN, base : Nat, per : Nat, devs : SUBSET Devices]]
    BY DEF LaneInv, TypeOK
  <2> QED BY <1>1, <2>1 DEF ReplyModelBenchmark
<1> QED BY <1>2, FrameEnds DEF ReplyModelBenchmark

\* The registry takes over what the lane held.
LEMMA RegisterInv ==
    ASSUME LaneInv, Register
    PROVE  LaneInv'
<1> DEFINE i == work.req.id
           m == [loaded |-> TRUE, mem |-> Held, on |-> MyDevices, pool |-> work.pool,
                 warm |-> FALSE]
<1>1. /\ work.at = "grown" /\ work.req.op = "load" /\ work' = Idle /\ used' = used
      /\ models' = [models EXCEPT ![i] = m] /\ UNCHANGED <<laneFrame, queue, price>>
  BY DEF Register
<1>2. Held \in Units /\ \A d \in Devices : Held[d] = work.mem[d] + work.proj[d]
  BY LaneHas, HeldTyped DEF HeldIsTyped
<1>3. m \in Resident
  BY <1>2, LaneHas DEF Resident
<1>4. i \in Ids /\ models \in [Ids -> Resident]
  BY LaneHas, RequestTyped DEF TypeOK
<1>5. models' \in [Ids -> Resident] /\ models'[i] = m
      /\ \A k \in Ids \ {i} : models'[k] = models[k]
  BY <1>1, <1>3, <1>4
<1>6. m.mem = Held /\ m.loaded
  OBVIOUS
<1>7. models[i].mem = Nothing
  BY <1>1, <1>4 DEF LaneInv, RegistryInPlace, LoadSteps, BenchSteps, Steps
<1> HIDE DEF m, i
<1>8. TypeOK'
  BY <1>1, <1>5, SameDevices, IdleTyped, LaneHas DEF TypeOK, laneFrame
<1>9. MemoryAccounted'
  <2>1. ASSUME NEW d \in Devices
        PROVE  used'[d] = (used[d] + (work'.mem[d] - work.mem[d]) + (work'.proj[d] - work.proj[d]))
                          + (models'[i].mem[d] - models[i].mem[d]) + (dying'[i][d] - dying[i][d])
    <3>1. work'.mem[d] = 0 /\ work'.proj[d] = 0 /\ models[i].mem[d] = 0
      BY <1>1, <1>7, NothingOn DEF Idle
    <3>2. models'[i].mem[d] = work.mem[d] + work.proj[d]
      BY <1>2, <1>5, <1>6
    <3>3. used'[d] = used[d] /\ used[d] \in Nat /\ work.mem[d] \in Nat /\ work.proj[d] \in Nat
      BY <1>1, LaneHas
    <3>4. dying'[i][d] = dying[i][d] /\ dying[i][d] \in Nat
      BY <1>1, <1>4, LaneHas DEF laneFrame, TypeOK, Units
    <3> QED BY <3>1, <3>2, <3>3, <3>4
  <2>2. \A k \in Ids \ {i} : models'[k] = models[k] /\ dying'[k] = dying[k]
    BY <1>1, <1>5 DEF laneFrame
  <2> QED BY <1>1, <1>4, <1>8, <2>1, <2>2, LaneHas, OneAccounts DEF laneFrame, LaneInv
<1>10. \A k \in Ids : ~models'[k].loaded => models'[k].mem = Nothing
  BY <1>5, <1>6 DEF LaneInv, RegistryInPlace
<1> QED BY <1>1, <1>8, <1>9, <1>10, IdleInv DEF laneFrame
-----------------------------------------------------------------------------
(* The frame is taken up.                                                  *)

\* The places of a walk are exactly what it keeps, whatever is restricted.
LEMMA WalkedPlaces ==
    ASSUME DeviceList
    PROVE  /\ ToSet(GpuWalk) = {GpuWalk[k] : k \in DOMAIN GpuWalk}
           /\ \A d \in ToSet(CpuWalk) : ~IsGpu(d)
           /\ CpuWalk # <<>> => Last(CpuWalk) \in ToSet(CpuWalk)
<1>1. \A d \in ToSet(CpuWalk) : ~IsGpu(d)
  BY Walks DEF ToSet, IsGpu
<1>2. CpuWalk # <<>> => Last(CpuWalk) \in ToSet(CpuWalk)
  BY Walks, EndsOf DEF ToSet
<1> QED BY <1>1, <1>2 DEF ToSet

\* The GPUs a load may occupy are enabled when it is taken up, whether the
\* operator's set names any, names the CPU only or is no restriction at all.
LEMMA OccupiedEnabled ==
    ASSUME DeviceList, NEW e \in [all : BOOLEAN, ids : SUBSET DeviceIds],
           EnabledPlacementIds(e) # {}, NEW b \in BOOLEAN,
           NEW d \in Occupied(AllowedLoadDevices(e), b), IsGpu(d)
    PROVE  d \in EnabledGpus(e)
<1>1. d \notin ToSet(CpuWalk)
  BY WalkedPlaces
<1>2. CASE e.all
  <2>1. AllowedLoadDevices(e) = {}
    BY <1>2 DEF AllowedLoadDevices
  <2>2. d \in ToSet(GpuWalk)
    BY <1>1, <2>1 DEF Occupied
  <2> QED BY <1>2, <2>2 DEF EnabledGpus
<1>3. CASE ~e.all
  <2>1. AllowedLoadDevices(e) = {IF id = <<"cpu", 0>> THEN Last(CpuWalk) ELSE GpuWalk[id[2] + 1] :
                                    id \in EnabledPlacementIds(e)}
    BY <1>3 DEF AllowedLoadDevices
  <2>2. AllowedLoadDevices(e) # {}
    BY <2>1
  <2>3. d \in AllowedLoadDevices(e)
    BY <1>1, <2>2 DEF Occupied
  <2>4. PICK id \in EnabledPlacementIds(e) :
            d = IF id = <<"cpu", 0>> THEN Last(CpuWalk) ELSE GpuWalk[id[2] + 1]
    BY <2>1, <2>3
  <2>5. id # <<"cpu", 0>>
    <3>1. ASSUME id = <<"cpu", 0>> PROVE FALSE
      <4>1. CpuWalk # <<>>
        BY <3>1 DEF EnabledPlacementIds
      <4>2. d = Last(CpuWalk)
        BY <2>4, <3>1
      <4> QED BY <1>1, <4>1, <4>2, WalkedPlaces
    <3> QED BY <3>1
  <2>6. PICK i \in DOMAIN GpuWalk : id = <<"gpu", i - 1>>
    BY <2>5 DEF EnabledPlacementIds
  <2>7. id \in e.ids
    BY <1>3, <2>5 DEF EnabledPlacementIds
  <2>8. id[2] + 1 = i
    <3>1. i \in Int
      BY Walks, LenProperties
    <3> QED BY <2>6, <3>1
  <2>9. GpuWalk[i] = d /\ d \in ToSet(GpuWalk)
    BY <2>4, <2>5, <2>8 DEF ToSet
  <2> QED BY <2>6, <2>7, <2>9 DEF EnabledGpus
<1> QED BY <1>2, <1>3

\* The queue's frames, and the first one's.
LEMMA QueueHas ==
    ASSUME LaneInv, queue # <<>>
    PROVE  /\ Head(queue) \in [req : Requests, gpus : SUBSET Devices]
           /\ Tail(queue) \in Seq([req : Requests, gpus : SUBSET Devices])
           /\ EnabledGpus(enabled) \subseteq Head(queue).gpus
           /\ \A k \in DOMAIN Tail(queue) : EnabledGpus(enabled) \subseteq Tail(queue)[k].gpus
<1> DEFINE F == [req : Requests, gpus : SUBSET Devices]
           t == Tail(queue)
<1>1. queue \in Seq(F)
  BY DEF LaneInv, TypeOK
<1> HIDE DEF F
<1>2. /\ Head(queue) = queue[1] /\ Head(queue) \in F
      /\ t \in Seq(F) /\ Len(t) = Len(queue) - 1
      /\ \A i \in 1 .. Len(t) : t[i] = queue[i + 1]
  BY <1>1, HeadTailProperties
<1>3. Len(queue) \in Nat /\ Len(queue) > 0 /\ DOMAIN queue = 1 .. Len(queue)
      /\ DOMAIN t = 1 .. Len(t)
  BY <1>1, <1>2, LenProperties, EmptySeq
<1> HIDE DEF t
<1>4. \A k \in DOMAIN queue : EnabledGpus(enabled) \subseteq queue[k].gpus
  BY DEF LaneInv, Placed
<1>5. 1 \in DOMAIN queue /\ \A k \in DOMAIN t : k + 1 \in DOMAIN queue /\ t[k] = queue[k + 1]
  BY <1>2, <1>3
<1> QED BY <1>2, <1>4, <1>5 DEF F, t

\* A lane that rests takes the next frame: what it has to show of it.
LEMMA TakeStep ==
    ASSUME LaneInv, work.at = "idle", queue # <<>>, queue' = Tail(queue),
           UNCHANGED <<laneFrame, used, models, price>>, work' \in Locals,
           work'.mem = Nothing, work'.proj = Nothing, work'.pool = 0,
           work'.at \in {"fetch", "device"}, work'.at = "device" <=> work'.req.op = "bench",
           work'.at = "fetch" => {d \in MyDevices' : IsGpu(d)} \subseteq work'.gpus,
           Covers'
    PROVE  LaneInv'
<1> USE DEF laneFrame
<1>1. TypeOK'
  BY QueueHas, LaneHas, SameDevices DEF TypeOK
<1>2. MemoryAccounted'
  <2>1. Devices' = Devices
    BY SameDevices
  <2>2. HeldIsTyped /\ HeldIsTyped'
    BY <1>1, LaneHas, HeldTyped, PTL
  <2>3. ASSUME NEW d \in Devices PROVE used'[d] = (used[d] - Held[d]) + Held'[d]
    <3>1. Held'[d] = 0
      BY <2>1, <2>2, NothingOn DEF HeldIsTyped
    <3>2. Held[d] = 0
      BY <2>2, NothingOn DEF HeldIsTyped, LaneInv, HeldInPlace
    <3> QED BY <3>1, <3>2, LaneHas
  <2> QED BY <1>1, <2>3, LaneHas, LaneAccounts DEF LaneInv
<1>3. HeldInPlace'
  BY SameDevices DEF HeldInPlace, BenchSteps
<1>4. RegistryInPlace'
  BY SameDevices DEF RegistryInPlace, LaneInv, LoadSteps, BenchSteps
<1>5. Placed'
  <2>1. EnabledGpus(enabled)' = EnabledGpus(enabled)
    BY SameDevices DEF EnabledGpus
  <2>2. Devices' = Devices /\ \A d \in Devices : work'.mem[d] = 0
    BY SameDevices, NothingOn
  <2>3. \A k \in DOMAIN queue' : EnabledGpus(enabled)' \subseteq queue'[k].gpus
    BY <2>1, QueueHas
  <2>4. work'.at \in LoadSteps \cup {"fetch"} => {d \in MyDevices' : IsGpu(d)'} \subseteq work'.gpus
    BY DEF IsGpu, LoadSteps, BenchSteps
  <2> QED BY <2>2, <2>3, <2>4 DEF Placed
<1>6. Growing'
  BY NotGrowing
<1> QED BY <1>1, <1>2, <1>3, <1>4, <1>5, <1>6 DEF LaneInv

LEMMA TakeModelFrameInv ==
    ASSUME LaneInv, NEW op \in {"load", "modelbench"}, TakeModelFrame(op)
    PROVE  LaneInv'
<1>1. /\ work.at = "idle" /\ queue # <<>> /\ Head(queue).req.op = op /\ queue' = Tail(queue)
      /\ UNCHANGED <<laneFrame, used, models, price>>
  BY DEF TakeModelFrame
<1>2. CASE EnabledPlacementIds(enabled) = {}
  <2>1. work' = Idle
    BY <1>2 DEF TakeModelFrame
  <2>2. TypeOK'
    BY <1>1, <2>1, QueueHas, LaneHas, IdleTyped, SameDevices DEF TypeOK, laneFrame
  <2>3. MemoryAccounted'
    <3>1. Devices' = Devices
      BY <1>1, SameDevices DEF laneFrame
    <3>2. HeldIsTyped /\ HeldIsTyped'
      BY <2>2, LaneHas, HeldTyped, PTL
    <3>3. ASSUME NEW d \in Devices PROVE used'[d] = (used[d] - Held[d]) + Held'[d]
      <4>1. Held'[d] = 0
        BY <2>1, <3>1, <3>2, NothingOn DEF HeldIsTyped, Idle
      <4>2. Held[d] = 0
        BY <1>1, <3>2, NothingOn DEF HeldIsTyped, LaneInv, HeldInPlace
      <4> QED BY <1>1, <4>1, <4>2, LaneHas
    <3> QED BY <1>1, <2>2, <3>3, LaneHas, LaneAccounts DEF LaneInv, laneFrame
  <2>4. HeldInPlace' /\ RegistryInPlace' /\ Covers'
    BY <1>1, <2>1, SameDevices
       DEF HeldInPlace, RegistryInPlace, Covers, LaneInv, Idle, NoRequest, LoadSteps, BenchSteps,
           laneFrame
  <2>5. Placed'
    <3>1. EnabledGpus(enabled)' = EnabledGpus(enabled) /\ Devices' = Devices
      BY <1>1, SameDevices DEF EnabledGpus, laneFrame
    <3>2. \A d \in Devices : ~(work'.mem[d] > 0)
      BY <2>1, NothingOn DEF Idle
    <3>3. \A k \in DOMAIN queue' : EnabledGpus(enabled)' \subseteq queue'[k].gpus
      BY <1>1, <3>1, QueueHas
    <3> QED BY <2>1, <3>1, <3>2, <3>3 DEF Placed, Idle, LoadSteps, BenchSteps
  <2>6. Growing'
    BY <2>1, NotGrowing DEF Idle
  <2> QED BY <2>2, <2>3, <2>4, <2>5, <2>6 DEF LaneInv
<1>3. CASE EnabledPlacementIds(enabled) # {}
  <2> DEFINE allowed == AllowedLoadDevices(enabled)
             w == [Idle EXCEPT !.at = "fetch", !.req = Head(queue).req,
                               !.gpus = Head(queue).gpus, !.allowed = allowed]
  <2>1. work' = w
    BY <1>3 DEF TakeModelFrame
  <2>2. enabled \in [all : BOOLEAN, ids : SUBSET DeviceIds]
    BY LaneHas DEF TypeOK
  <2>3. allowed \in SUBSET Devices
    BY <2>2, LaneHas, PlacesAreDevices
  <2>4. Idle \in Locals /\ Idle.mem = Nothing /\ Idle.proj = Nothing /\ Idle.pool = 0
    BY LaneHas, IdleTyped DEF Idle
  <2> HIDE DEF allowed
  <2>5. /\ work' \in Locals /\ work'.at = "fetch" /\ work'.req = Head(queue).req
        /\ work'.gpus = Head(queue).gpus /\ work'.allowed = allowed
        /\ work'.mem = Nothing /\ work'.proj = Nothing /\ work'.pool = 0
    BY <1>1, <2>1, <2>3, <2>4, QueueHas DEF Locals, Steps
  <2>6. {d \in MyDevices' : IsGpu(d)} \subseteq work'.gpus
    <3> DEFINE b == LlamaGpuLayers(work'.req.layers) = 0
    <3>1. MyDevices' = Occupied(allowed, b)
      BY <1>1, <2>5, SameDevices DEF MyDevices, Occupied, laneFrame
    <3>2. ASSUME NEW d \in Occupied(allowed, b), IsGpu(d) PROVE d \in EnabledGpus(enabled)
      <4>1. b \in BOOLEAN
        OBVIOUS
      <4> HIDE DEF b
      <4> QED BY <1>3, <2>2, <3>2, <4>1, LaneHas, OccupiedEnabled DEF allowed
    <3> HIDE DEF b
    <3> QED BY <1>1, <2>5, <3>1, <3>2, QueueHas
  <2>7. Covers'
    BY <2>5 DEF Covers, BenchSteps
  <2>8. work'.req.op # "bench"
    BY <1>1, <2>5
  <2> QED BY <1>1, <2>5, <2>6, <2>7, <2>8, TakeStep
<1> QED BY <1>2, <1>3

LEMMA TakeBenchmarkInv ==
    ASSUME LaneInv, TakeBenchmark
    PROVE  LaneInv'
<1> DEFINE r == Head(queue).req
           asked == IF r.dev = <<>> THEN HardwareIds ELSE <<r.dev>>
           w == [Idle EXCEPT !.at = "device", !.req = r, !.gpus = Head(queue).gpus,
                             !.todo = asked]
<1>1. /\ work.at = "idle" /\ queue # <<>> /\ r.op = "bench" /\ queue' = Tail(queue)
      /\ work' = w /\ UNCHANGED <<laneFrame, used, models, price>>
  BY DEF TakeBenchmark
<1>2. r \in Requests /\ r.dev \in DeviceIds \cup {<<>>}
  BY <1>1, QueueHas, RequestsAssumption
<1>3. asked \in Seq(DeviceIds) /\ Distinct(asked)
  <2>1. CASE r.dev = <<>>
    BY <2>1, LaneHas, HardwareNames
  <2>2. CASE r.dev # <<>>
    <3>1. r.dev \in DeviceIds
      BY <1>2, <2>2
    <3> DEFINE x == r.dev
    <3> HIDE DEF x
    <3>2. x \in DeviceIds => <<x>> \in Seq(DeviceIds) /\ Distinct(<<x>>)
      BY DEF Distinct
    <3> QED BY <2>2, <3>1, <3>2 DEF x
  <2> QED BY <2>1, <2>2
<1>4. /\ Idle \in Locals /\ Idle.mem = Nothing /\ Idle.proj = Nothing /\ Idle.pool = 0
      /\ Idle.done = {} /\ Idle.errors = {}
  BY LaneHas, IdleTyped DEF Idle
<1>5. Head(queue).gpus \in SUBSET Devices
  BY <1>1, QueueHas
<1> HIDE DEF asked, r
<1>6. /\ work' \in Locals /\ work'.at = "device" /\ work'.req = r /\ work'.todo = asked
      /\ work'.mem = Nothing /\ work'.proj = Nothing /\ work'.pool = 0
      /\ work'.done = {} /\ work'.errors = {}
  BY <1>1, <1>2, <1>3, <1>4, <1>5 DEF Locals, Steps
<1>7. Covers'
  <2>1. Asked' = asked
    BY <1>1, <1>6, SameDevices DEF Asked, asked, laneFrame
  <2> QED BY <1>3, <1>6, <2>1 DEF Covers
<1>8. work'.req.op = "bench"
  BY <1>1, <1>6
<1> QED BY <1>1, <1>6, <1>7, <1>8, TakeStep
-----------------------------------------------------------------------------
(* The steps of a device benchmark.                                        *)

LEMMA BenchStep ==
    ASSUME LaneInv, work.at \in BenchSteps, work'.at \in BenchSteps, SameFrame,
           UNCHANGED <<laneFrame, models, queue, price>>, work' \in Locals, used' \in Units,
           \A d \in Devices : used'[d] = used[d] + (work'.mem[d] - work.mem[d]),
           work'.proj = work.proj, work'.at # "sampling" => work'.mem = Nothing, Covers'
    PROVE  LaneInv'
<1> USE DEF laneFrame
<1>1. TypeOK'
  BY LaneHas, SameDevices DEF TypeOK
<1>2. MemoryAccounted'
  <2>1. Devices' = Devices
    BY SameDevices
  <2>2. HeldIsTyped /\ HeldIsTyped'
    BY <1>1, LaneHas, HeldTyped, PTL
  <2>3. ASSUME NEW d \in Devices PROVE used'[d] = (used[d] - Held[d]) + Held'[d]
    <3>1. Held'[d] = work'.mem[d] + work'.proj[d] /\ Held[d] = work.mem[d] + work.proj[d]
      BY <2>1, <2>2 DEF HeldIsTyped
    <3>2. work'.mem[d] \in Nat
      BY DEF Locals, Units
    <3> QED BY <3>1, <3>2, LaneHas
  <2> QED BY <1>1, <2>3, LaneHas, LaneAccounts DEF LaneInv
<1>3. HeldInPlace'
  <2>1. work.req.op = "bench" /\ work.proj = Nothing
    BY DEF LaneInv, HeldInPlace
  <2> QED BY <2>1, SameDevices DEF HeldInPlace, BenchSteps, SameFrame
<1>4. RegistryInPlace'
  BY SameDevices DEF RegistryInPlace, LaneInv, LoadSteps
<1>5. Placed'
  <2>1. EnabledGpus(enabled)' = EnabledGpus(enabled)
    BY SameDevices DEF EnabledGpus
  <2>2. work'.req.op = "bench"
    BY DEF LaneInv, HeldInPlace, SameFrame
  <2> QED BY <2>1, <2>2 DEF Placed, LaneInv, LoadSteps, BenchSteps
<1>6. Growing'
  BY NotGrowing DEF BenchSteps
<1> QED BY <1>1, <1>2, <1>3, <1>4, <1>5, <1>6 DEF LaneInv

\* What the benchmark finds: the devices left, and those it is over with.
LEMMA BenchHas ==
    ASSUME LaneInv, work.at \in BenchSteps
    PROVE  /\ work.todo \in Seq(DeviceIds) /\ work.done \in SUBSET DeviceIds
           /\ work.errors \in SUBSET DeviceIds /\ work.phase \in 0 .. 3
           /\ Covers /\ Distinct(work.todo)
BY LaneHas DEF Locals, LaneInv, Covers

\* The device under test leaves the list for one of the two outcomes.
LEMMA ConcludesInv ==
    ASSUME LaneInv, work.at \in BenchSteps, work.todo # <<>>, NEW ok \in BOOLEAN, Concludes(ok)
    PROVE  LaneInv'
<1> DEFINE x == Head(work.todo)
           t == Tail(work.todo)
           done == IF ok THEN work.done \cup {x} ELSE work.done
           errors == IF ok THEN work.errors ELSE work.errors \cup {x}
<1>1. /\ work' = [work EXCEPT !.at = "device", !.todo = t, !.mem = Nothing, !.phase = 0,
                              !.done = done, !.errors = errors]
      /\ used' = Minus(used, work.mem) /\ UNCHANGED <<laneFrame, models, queue, price>>
  BY LaneHas DEF Concludes, Goes, Locals
<1>2. x \in DeviceIds /\ t \in Seq(DeviceIds) /\ Elements(work.todo) = {x} \cup Elements(t)
  BY BenchHas, HeadTailElements
<1>3. Distinct(t) /\ x \notin Elements(t)
  BY BenchHas, TailDistinct
<1>4. done \in SUBSET DeviceIds /\ errors \in SUBSET DeviceIds
  BY <1>2, BenchHas
<1>5. done \cup errors = work.done \cup work.errors \cup {x}
  OBVIOUS
<1>6. /\ x \in Elements(work.todo)
      /\ Elements(work.todo) \cap (work.done \cup work.errors) = {}
      /\ work.done \cap work.errors = {}
      /\ Elements(work.todo) \cup work.done \cup work.errors = Elements(Asked)
  BY <1>2, BenchHas DEF Covers
<1>7. done \cap errors = {}
  BY <1>6
<1> HIDE DEF done, errors, x, t
<1>8. /\ work'.at = "device" /\ SameFrame /\ work' \in Locals /\ work'.proj = work.proj
      /\ work'.mem = Nothing /\ work'.todo = t /\ work'.done = done /\ work'.errors = errors
  <2>1. 0 \in 0 .. 3 /\ "device" \in Steps /\ Nothing \in Units
    BY NothingOn DEF Steps
  <2>2. work' \in Locals
    BY <1>1, <1>2, <1>4, <2>1, LaneHas DEF Locals
  <2> QED BY <1>1, <2>2, LaneHas DEF SameFrame, Locals
<1>9. Covers'
  <2>1. Asked' = Asked
    BY <1>1, <1>8, SameDevices DEF Asked, SameFrame, laneFrame
  <2>2. Elements(t) \cap (done \cup errors) = {}
    BY <1>2, <1>3, <1>5, <1>6
  <2>3. Elements(t) \cup done \cup errors = Elements(Asked)
    BY <1>2, <1>5, <1>6
  <2> QED BY <1>3, <1>7, <1>8, <2>1, <2>2, <2>3 DEF Covers
<1>10. used' \in Units /\ \A d \in Devices : used'[d] = used[d] - work.mem[d]
  <2>1. \A d \in Devices : work.mem[d] <= used[d]
    BY LaneHas
  <2> QED BY <1>1, <2>1, LaneHas, UnitSums
<1>11. \A d \in Devices : used'[d] = used[d] + (work'.mem[d] - work.mem[d])
  BY <1>8, <1>10, LaneHas, NothingOn
<1> QED BY <1>1, <1>8, <1>9, <1>10, <1>11, BenchStep DEF BenchSteps

LEMMA NextDeviceInv ==
    ASSUME LaneInv, NextDevice
    PROVE  LaneInv'
<1>1. work.at = "device" /\ work.todo # <<>>
  BY DEF NextDevice
<1>2. CASE ~Testable
  BY <1>1, <1>2, ConcludesInv DEF NextDevice, BenchSteps
<1>3. CASE Testable
  <2>1. /\ work' = [work EXCEPT !.at = "phase", !.phase = 1] /\ used' = used
        /\ UNCHANGED <<laneFrame, models, queue, price>>
    BY <1>3 DEF NextDevice, Goes
  <2>2. /\ work'.at = "phase" /\ SameFrame /\ work' \in Locals /\ work'.proj = work.proj
        /\ work'.mem = work.mem /\ work'.todo = work.todo /\ work'.done = work.done
        /\ work'.errors = work.errors
    <3>1. 1 \in 0 .. 3 /\ "phase" \in Steps
      BY DEF Steps
    <3>2. work' \in Locals
      BY <2>1, <3>1, LaneHas DEF Locals
    <3> QED BY <2>1, <3>2, LaneHas DEF SameFrame, Locals
  <2>3. work.mem = Nothing
    BY <1>1 DEF LaneInv, HeldInPlace
  <2>4. Covers'
    <3>1. Asked' = Asked
      BY <2>1, <2>2, SameDevices DEF Asked, SameFrame, laneFrame
    <3> QED BY <1>1, <2>2, <3>1, BenchHas DEF Covers, BenchSteps
  <2>5. \A d \in Devices : used'[d] = used[d] + (work'.mem[d] - work.mem[d])
    BY <2>1, <2>2, LaneHas
  <2> QED BY <1>1, <2>1, <2>2, <2>3, <2>4, <2>5, LaneHas, BenchStep DEF BenchSteps
<1> QED BY <1>2, <1>3

LEMMA StartPhaseInv ==
    ASSUME LaneInv, StartPhase
    PROVE  LaneInv'
<1> DEFINE cost == On({ThisDevice}, Scratch)
<1>1. cost \in Units
  BY UnitConstants, UnitsOn
<1>2. /\ work.at = "phase" /\ work' = [work EXCEPT !.at = "sampling", !.mem = cost]
      /\ used' = Plus(used, cost) /\ UNCHANGED <<laneFrame, models, queue, price>>
  BY DEF StartPhase, Goes
<1> HIDE DEF cost
<1>3. /\ work'.at = "sampling" /\ SameFrame /\ work' \in Locals /\ work'.proj = work.proj
      /\ work'.mem = cost /\ work'.todo = work.todo /\ work'.done = work.done
      /\ work'.errors = work.errors
  BY <1>1, <1>2, LaneHas DEF SameFrame, Locals, Steps
<1>4. Covers'
  <2>1. Asked' = Asked
    BY <1>2, <1>3, SameDevices DEF Asked, SameFrame, laneFrame
  <2> QED BY <1>2, <1>3, <2>1, BenchHas DEF Covers, BenchSteps
<1>5. used' \in Units /\ \A d \in Devices : used'[d] = used[d] + cost[d]
  BY <1>1, <1>2, LaneHas, UnitSums
<1>6. \A d \in Devices : used'[d] = used[d] + (work'.mem[d] - work.mem[d])
  <2>1. \A d \in Devices : work.mem[d] = 0 /\ cost[d] \in Nat
    BY <1>1, <1>2, NothingOn DEF LaneInv, HeldInPlace, Units
  <2> QED BY <1>3, <1>5, <2>1, LaneHas
<1> QED BY <1>2, <1>3, <1>4, <1>5, <1>6, BenchStep DEF BenchSteps

LEMMA EndPhaseInv ==
    ASSUME LaneInv, EndPhase
    PROVE  LaneInv'
<1>1. /\ work.at = "sampling" /\ work.phase < 3
      /\ work' = [work EXCEPT !.at = "phase", !.phase = @ + 1, !.mem = Nothing]
      /\ used' = Minus(used, work.mem) /\ UNCHANGED <<laneFrame, models, queue, price>>
  BY DEF EndPhase, Goes
<1>2. work.phase + 1 \in 0 .. 3
  BY <1>1, BenchHas DEF BenchSteps
<1>3. /\ work'.at = "phase" /\ SameFrame /\ work' \in Locals /\ work'.proj = work.proj
      /\ work'.mem = Nothing /\ work'.todo = work.todo /\ work'.done = work.done
      /\ work'.errors = work.errors
  BY <1>1, <1>2, LaneHas, NothingOn DEF SameFrame, Locals, Steps
<1>4. Covers'
  <2>1. Asked' = Asked
    BY <1>1, <1>3, SameDevices DEF Asked, SameFrame, laneFrame
  <2> QED BY <1>1, <1>3, <2>1, BenchHas DEF Covers, BenchSteps
<1>5. used' \in Units /\ \A d \in Devices : used'[d] = used[d] - work.mem[d]
  <2>1. \A d \in Devices : work.mem[d] <= used[d]
    BY LaneHas
  <2> QED BY <1>1, <2>1, LaneHas, UnitSums
<1>6. \A d \in Devices : used'[d] = used[d] + (work'.mem[d] - work.mem[d])
  BY <1>3, <1>5, LaneHas, NothingOn
<1> QED BY <1>1, <1>3, <1>4, <1>5, <1>6, BenchStep DEF BenchSteps

\* The benchmark's steps that conclude the device under test.
LEMMA OutcomeInv ==
    ASSUME LaneInv, PhaseFails \/ EndLoadPhase
    PROVE  LaneInv'
<1>1. work.at \in BenchSteps /\ work.todo # <<>>
  <2>1. work.at \in {"phase", "sampling"}
    BY DEF PhaseFails, EndLoadPhase
  <2> QED BY <2>1, BenchHas DEF Covers, BenchSteps
<1>2. CASE PhaseFails
  BY <1>1, <1>2, ConcludesInv DEF PhaseFails
<1>3. CASE EndLoadPhase
  BY <1>1, <1>3, ConcludesInv DEF EndLoadPhase
<1> QED BY <1>2, <1>3

\* Any step of the lane.
LEMMA LaneStep ==
    ASSUME LaneInv, Lane
    PROVE  LaneInv'
<1>1. CASE TakeLoad \/ TakeModelBenchmark
  BY <1>1, TakeModelFrameInv DEF TakeLoad, TakeModelBenchmark
<1>2. CASE FetchAbandoned \/ FetchFails \/ LoadFails \/ NoRoom \/ PayloadFails \/ PayloadAbandoned
           \/ ReplyBenchmark
  BY <1>2, FinishedInv
     DEF FetchAbandoned, FetchFails, LoadFails, NoRoom, PayloadFails, PayloadAbandoned,
         ReplyBenchmark
<1>3. CASE FetchEnds
  <2>1. CASE models[work.req.id].loaded
    BY <1>3, <2>1, FinishedInv DEF FetchEnds
  <2> QED BY <1>3, <2>1, FetchEndsInv
<1>4. CASE BenchFetchEnds
  BY <1>4, BenchFetchEndsInv
<1>5. CASE LoadWeights \/ LoadProjector
  BY <1>5, LoadWeightsInv, LoadProjectorInv
<1>6. CASE StartGrowth \/ PredictSlot \/ AllocSlot \/ AllocFails \/ RecordSlot
  BY <1>6, StartGrowthInv, PredictSlotInv, AllocSlotInv, AllocFailsInv, RecordSlotInv
<1>7. CASE Register
  BY <1>7, RegisterInv
<1>8. CASE PayloadEnds \/ Calibrate \/ CalibrationFails
  BY <1>8, PayloadEndsInv, CalibrateInv, CalibrationFailsInv
<1>9. CASE PriceBase \/ ProbeSlot \/ ProbeFails \/ PriceSlot
  BY <1>9, PriceBaseInv, ProbeSlotInv, ProbeFailsInv, PriceSlotInv
<1>10. CASE ReplyModelBenchmark
  BY <1>10, ReplyModelBenchmarkInv
<1>11. CASE TakeBenchmark
  BY <1>11, TakeBenchmarkInv
<1>12. CASE NextDevice \/ StartPhase \/ EndPhase
  BY <1>12, NextDeviceInv, StartPhaseInv, EndPhaseInv
<1>13. CASE PhaseFails \/ EndLoadPhase
  BY <1>13, OutcomeInv
<1> QED BY <1>1, <1>2, <1>3, <1>4, <1>5, <1>6, <1>7, <1>8, <1>9, <1>10, <1>11, <1>12, <1>13
        DEF Lane
-----------------------------------------------------------------------------
(* The receive thread, and the jobs.                                       *)

\* The lane's own state but for the history of who moved the memory.
LaneSame ==
    /\ SameFrame /\ work'.at = work.at /\ work'.mem = work.mem /\ work'.proj = work.proj
    /\ work'.pool = work.pool /\ work'.prev = work.prev /\ work'.worst = work.worst
    /\ work'.todo = work.todo /\ work'.done = work.done /\ work'.errors = work.errors

\* A step beside the lane leaves it what it knows.
LEMMA BesideLane ==
    ASSUME LaneInv, TypeOK', MemoryAccounted', UNCHANGED <<backend, enabled, queue>>, LaneSame,
           work'.quiet => work.quiet /\ (used' = used \/ work.at = "idle"),
           \A i \in Ids : ~models'[i].loaded => models'[i].mem = Nothing,
           \A i \in Ids : models'[i].loaded => models[i].loaded
    PROVE  LaneInv'
<1> USE DEF LaneSame
<1>1. MyDevices' = MyDevices /\ PoolPin' = PoolPin /\ Nothing' = Nothing /\ Devices' = Devices
      /\ (Gauged(work.allowed))' = Gauged(work.allowed)
  BY SamePlace, SameDevices
<1>2. HeldInPlace'
  BY <1>1 DEF HeldInPlace, LaneInv, SameFrame
<1>3. RegistryInPlace'
  <2>1. work.req.id \in Ids
    BY LaneHas, RequestTyped
  <2> QED BY <1>1, <2>1 DEF RegistryInPlace, LaneInv, SameFrame
<1>4. Placed'
  <2>1. EnabledGpus(enabled)' = EnabledGpus(enabled)
    BY SameDevices DEF EnabledGpus
  <2> QED BY <1>1, <2>1 DEF Placed, LaneInv, SameFrame, IsGpu
<1>5. Covers'
  <2>1. Asked' = Asked
    BY SameDevices DEF Asked, SameFrame
  <2> QED BY <2>1 DEF Covers, LaneInv
<1>6. Growing'
  <2>1. CASE work.at = "idle"
    BY <2>1, NotGrowing
  <2>2. CASE work.at # "idle"
    <3>1. work'.quiet => Reading' = Reading
      BY <1>1, <2>2 DEF Reading
    <3> QED BY <1>1, <3>1 DEF Growing, LaneInv
  <2> QED BY <2>1, <2>2
<1> QED BY <1>2, <1>3, <1>4, <1>5, <1>6 DEF LaneInv

\* Memory that is not the lane's changed, or nothing did.
LEMMA DisturbedSame ==
    ASSUME LaneInv, UNCHANGED backend, work' = Disturbed \/ work' = work
    PROVE  /\ LaneSame /\ work' \in Locals
           /\ work' = Disturbed => (work'.quiet => work.quiet /\ work.at = "idle")
           /\ work' = work => (work'.quiet => work.quiet)
BY LaneHas DEF LaneSame, SameFrame, Disturbed, Locals

\* What the registry holds, typed.
LEMMA RegistryHas ==
    ASSUME LaneInv, NEW i \in Ids
    PROVE  /\ models \in [Ids -> Resident] /\ models[i] \in Resident /\ models[i].mem \in Units
           /\ dying \in [Ids -> Units] /\ dying[i] \in Units
           /\ \A d \in Devices : /\ models[i].mem[d] \in Nat /\ dying[i][d] \in Nat
                                 /\ models[i].mem[d] <= used[d] /\ dying[i][d] <= used[d]
           /\ NotLoaded \in Resident
           /\ \A k \in Ids : ~models[k].loaded => models[k].mem = Nothing
<1>1. TypeOK /\ MemoryAccounted
  BY DEF LaneInv
<1>2. /\ models \in [Ids -> Resident] /\ models[i] \in Resident /\ models[i].mem \in Units
      /\ dying \in [Ids -> Units] /\ dying[i] \in Units
  BY <1>1 DEF TypeOK, Resident
<1>3. \A d \in Devices : /\ models[i].mem[d] \in Nat /\ dying[i][d] \in Nat
                         /\ models[i].mem[d] <= used[d] /\ dying[i][d] <= used[d]
  BY <1>1, <1>2, EnoughIsUsed DEF Units
<1>4. NotLoaded \in Resident
  BY NothingOn DEF NotLoaded, Resident
<1>5. \A k \in Ids : ~models[k].loaded => models[k].mem = Nothing
  BY DEF LaneInv, RegistryInPlace
<1> QED BY <1>2, <1>3, <1>4, <1>5

LEMMA UnloadInv ==
    ASSUME LaneInv, NEW i \in Ids, Unload(i)
    PROVE  LaneInv'
<1>1. /\ models' = [models EXCEPT ![i] = NotLoaded] /\ busy' = busy \ {i}
      /\ models[i].loaded /\ dying[i] = Nothing
      /\ UNCHANGED <<backend, enabled, queue, price, open, frames, sets>>
  BY DEF Unload
<1>2. NotLoaded.mem = Nothing /\ ~NotLoaded.loaded
  BY DEF NotLoaded
<1>3. models' \in [Ids -> Resident] /\ models'[i] = NotLoaded
      /\ \A k \in Ids \ {i} : models'[k] = models[k]
  BY <1>1, RegistryHas
<1>4. /\ \A k \in Ids : ~models'[k].loaded => models'[k].mem = Nothing
      /\ \A k \in Ids : models'[k].loaded => models[k].loaded
  BY <1>1, <1>2, <1>3, RegistryHas
<1>5. busy' \subseteq Ids
  BY <1>1, LaneHas DEF TypeOK
<1>6. CASE i \in busy
  <2>1. dying' = [dying EXCEPT ![i] = models[i].mem] /\ UNCHANGED <<used, work>>
    BY <1>6 DEF Unload
  <2>2. dying' \in [Ids -> Units] /\ dying'[i] = models[i].mem
        /\ \A k \in Ids \ {i} : dying'[k] = dying[k]
    BY <2>1, RegistryHas
  <2>3. TypeOK'
    BY <1>1, <1>3, <1>5, <2>1, <2>2, SameDevices, LaneHas DEF TypeOK
  <2>4. MemoryAccounted'
    <3>1. ASSUME NEW d \in Devices
          PROVE  used'[d] = (used[d] + (work'.mem[d] - work.mem[d]) + (work'.proj[d] - work.proj[d]))
                            + (models'[i].mem[d] - models[i].mem[d]) + (dying'[i][d] - dying[i][d])
      <4>1. models'[i].mem[d] = 0 /\ dying[i][d] = 0
        BY <1>1, <1>2, <1>3, NothingOn
      <4>2. dying'[i][d] = models[i].mem[d] /\ models[i].mem[d] \in Nat
        BY <2>2, RegistryHas
      <4> QED BY <2>1, <4>1, <4>2, LaneHas
    <3> QED BY <1>1, <1>3, <2>2, <2>3, <3>1, LaneHas, OneAccounts DEF LaneInv
  <2> QED BY <1>1, <1>4, <2>1, <2>3, <2>4, DisturbedSame, BesideLane
<1>7. CASE i \notin busy
  <2>1. used' = Minus(used, models[i].mem) /\ work' = Disturbed /\ UNCHANGED dying
    BY <1>7 DEF Unload
  <2>2. used' \in Units /\ \A d \in Devices : used'[d] = used[d] - models[i].mem[d]
    <3>1. \A d \in Devices : models[i].mem[d] <= used[d]
      BY RegistryHas
    <3>2. models[i].mem \in Units
      BY RegistryHas
    <3> QED BY <2>1, <3>1, <3>2, LaneHas, UnitSums
  <2>3. LaneSame /\ work' \in Locals /\ (work'.quiet => work.quiet /\ work.at = "idle")
    BY <1>1, <2>1, DisturbedSame
  <2>4. TypeOK'
    BY <1>1, <1>3, <1>5, <2>1, <2>2, <2>3, SameDevices, LaneHas DEF TypeOK
  <2>5. MemoryAccounted'
    <3>1. ASSUME NEW d \in Devices
          PROVE  used'[d] = (used[d] + (work'.mem[d] - work.mem[d]) + (work'.proj[d] - work.proj[d]))
                            + (models'[i].mem[d] - models[i].mem[d]) + (dying'[i][d] - dying[i][d])
      <4>1. models'[i].mem[d] = 0 /\ dying'[i][d] = dying[i][d] /\ dying[i][d] \in Nat
            /\ models[i].mem[d] \in Nat
        BY <1>2, <1>3, <2>1, NothingOn, RegistryHas
      <4>2. work'.mem[d] = work.mem[d] /\ work'.proj[d] = work.proj[d]
        BY <2>3 DEF LaneSame
      <4> QED BY <2>2, <4>1, <4>2, LaneHas
    <3>2. \A k \in Ids \ {i} : models'[k] = models[k] /\ dying'[k] = dying[k]
      BY <1>3, <2>1
    <3> QED BY <1>1, <2>4, <3>1, <3>2, LaneHas, OneAccounts DEF LaneInv
  <2> QED BY <1>1, <1>4, <2>3, <2>4, <2>5, BesideLane
<1> QED BY <1>6, <1>7

LEMMA LastJobEndsInv ==
    ASSUME LaneInv, NEW i \in Ids, LastJobEnds(i)
    PROVE  LaneInv'
<1>1. /\ used' = Minus(used, dying[i]) /\ dying' = [dying EXCEPT ![i] = Nothing]
      /\ work' = Disturbed
      /\ UNCHANGED <<backend, enabled, models, busy, queue, price, open, frames, sets>>
  BY DEF LastJobEnds
<1>2. used' \in Units /\ \A d \in Devices : used'[d] = used[d] - dying[i][d]
  <2>1. \A d \in Devices : dying[i][d] <= used[d]
    BY RegistryHas
  <2>2. dying[i] \in Units
    BY RegistryHas
  <2> QED BY <1>1, <2>1, <2>2, LaneHas, UnitSums
<1>3. LaneSame /\ work' \in Locals /\ (work'.quiet => work.quiet /\ work.at = "idle")
  BY <1>1, DisturbedSame
<1>4. dying' \in [Ids -> Units] /\ dying'[i] = Nothing
      /\ \A k \in Ids \ {i} : dying'[k] = dying[k]
  BY <1>1, RegistryHas, NothingOn
<1>5. TypeOK'
  BY <1>1, <1>2, <1>3, <1>4, SameDevices, LaneHas DEF TypeOK
<1>6. MemoryAccounted'
  <2>1. ASSUME NEW d \in Devices
        PROVE  used'[d] = (used[d] + (work'.mem[d] - work.mem[d]) + (work'.proj[d] - work.proj[d]))
                          + (models'[i].mem[d] - models[i].mem[d]) + (dying'[i][d] - dying[i][d])
    <3>1. dying'[i][d] = 0 /\ dying[i][d] \in Nat
          /\ models'[i].mem[d] = models[i].mem[d] /\ models[i].mem[d] \in Nat
      BY <1>1, <1>4, NothingOn, RegistryHas
    <3>2. work'.mem[d] = work.mem[d] /\ work'.proj[d] = work.proj[d]
      BY <1>3 DEF LaneSame
    <3> QED BY <1>2, <3>1, <3>2, LaneHas
  <2>2. \A k \in Ids \ {i} : models'[k] = models[k] /\ dying'[k] = dying[k]
    BY <1>1, <1>4
  <2> QED BY <1>1, <1>5, <2>1, <2>2, LaneHas, OneAccounts DEF LaneInv
<1> QED BY <1>1, <1>3, <1>5, <1>6, RegistryHas, BesideLane

LEMMA StartJobInv ==
    ASSUME LaneInv, NEW i \in Ids, StartJob(i)
    PROVE  LaneInv'
<1> DEFINE cost == On(models[i].on, Graph)
           commits == ~models[i].warm /\ Fits(cost)
<1>1. /\ busy' = busy \cup {i} /\ models[i].loaded
      /\ UNCHANGED <<backend, enabled, dying, queue, price, open, frames, sets>>
  BY DEF StartJob
<1>2. CASE ~commits
  <2>1. UNCHANGED <<used, work, models>>
    BY <1>2 DEF StartJob
  <2>2. TypeOK'
    BY <1>1, <2>1, SameDevices, LaneHas DEF TypeOK
  <2>3. MemoryAccounted'
    BY <1>1, <2>1, SameDevices DEF LaneInv, MemoryAccounted, Held, Plus, KeptOn
  <2> QED BY <1>1, <2>1, <2>2, <2>3, RegistryHas, DisturbedSame, BesideLane
<1>3. CASE commits
  <2>1. /\ used' = Plus(used, cost) /\ work' = Disturbed
        /\ models' = [models EXCEPT ![i].mem = Plus(@, cost), ![i].warm = TRUE]
    BY <1>3 DEF StartJob
  <2>2. cost \in Units
    BY UnitConstants, UnitsOn
  <2> HIDE DEF cost
  <2>3. used' \in Units /\ \A d \in Devices : used'[d] = used[d] + cost[d] /\ cost[d] \in Nat
    BY <2>1, <2>2, LaneHas, UnitSums DEF Units
  <2>4. Plus(models[i].mem, cost) \in Units
        /\ \A d \in Devices : Plus(models[i].mem, cost)[d] = models[i].mem[d] + cost[d]
    BY <2>2, RegistryHas, UnitSums
  <2>5. /\ models' \in [Ids -> Resident] /\ models'[i].mem = Plus(models[i].mem, cost)
        /\ models'[i].loaded /\ \A k \in Ids \ {i} : models'[k] = models[k]
    BY <1>1, <2>1, <2>4, RegistryHas DEF Resident
  <2>6. LaneSame /\ work' \in Locals /\ (work'.quiet => work.quiet /\ work.at = "idle")
    BY <1>1, <2>1, DisturbedSame
  <2>7. busy' \subseteq Ids
    BY <1>1, LaneHas DEF TypeOK
  <2>8. TypeOK'
    BY <1>1, <2>3, <2>5, <2>6, <2>7, SameDevices, LaneHas DEF TypeOK
  <2>9. MemoryAccounted'
    <3>1. ASSUME NEW d \in Devices
          PROVE  used'[d] = (used[d] + (work'.mem[d] - work.mem[d]) + (work'.proj[d] - work.proj[d]))
                            + (models'[i].mem[d] - models[i].mem[d]) + (dying'[i][d] - dying[i][d])
      <4>1. dying'[i][d] = dying[i][d] /\ dying[i][d] \in Nat /\ models[i].mem[d] \in Nat
            /\ models'[i].mem[d] = models[i].mem[d] + cost[d] /\ cost[d] \in Nat
        BY <1>1, <2>3, <2>4, <2>5, RegistryHas
      <4>2. work'.mem[d] = work.mem[d] /\ work'.proj[d] = work.proj[d]
        BY <2>6 DEF LaneSame
      <4> QED BY <2>3, <4>1, <4>2, LaneHas
    <3>2. \A k \in Ids \ {i} : models'[k] = models[k] /\ dying'[k] = dying[k]
      BY <1>1, <2>5
    <3> QED BY <1>1, <2>8, <3>1, <3>2, LaneHas, OneAccounts DEF LaneInv
  <2>10. /\ \A k \in Ids : ~models'[k].loaded => models'[k].mem = Nothing
         /\ \A k \in Ids : models'[k].loaded => models[k].loaded
    BY <1>1, <2>5, RegistryHas
  <2> QED BY <1>1, <2>6, <2>8, <2>9, <2>10, BesideLane
<1> QED BY <1>2, <1>3

\* The steps that leave the memory and the lane alone.
LEMMA NoMemoryInv ==
    ASSUME LaneInv, UNCHANGED <<backend, enabled, used, models, dying, queue, work, price>>,
           TypeOK'
    PROVE  LaneInv'
<1>1. MemoryAccounted'
  BY SameDevices DEF LaneInv, MemoryAccounted, Held, Plus, KeptOn
<1> QED BY <1>1, LaneHas, RequestTyped, DisturbedSame, BesideLane DEF LaneInv, RegistryInPlace

LEMMA SessionStepsInv ==
    ASSUME LaneInv, \/ EndSession \/ BeginSession
                    \/ \E i \in Ids : EndJob(i)
    PROVE  LaneInv'
<1>1. UNCHANGED <<backend, enabled, used, models, dying, queue, work, price, frames, sets>>
      /\ busy' \subseteq Ids /\ open' \in BOOLEAN
  BY LaneHas DEF EndSession, BeginSession, EndJob, TypeOK
<1>2. TypeOK'
  BY <1>1, SameDevices, LaneHas DEF TypeOK
<1> QED BY <1>1, <1>2, NoMemoryInv

LEMMA ReceiveInv ==
    ASSUME LaneInv, NEW r \in Requests, Receive(r)
    PROVE  LaneInv'
<1> DEFINE F == [req : Requests, gpus : SUBSET Devices]
           e == [req |-> r, gpus |-> EnabledGpus(enabled)]
<1>1. /\ queue' = Append(queue, e) /\ frames < MaxFrames /\ frames' = frames + 1
      /\ UNCHANGED <<backend, enabled, used, models, dying, busy, work, price, open, sets>>
  BY DEF Receive
<1>2. e \in F /\ e.gpus = EnabledGpus(enabled)
  BY LaneHas, PlacesAreDevices DEF TypeOK
<1>3. queue \in Seq(F)
  BY LaneHas DEF TypeOK
<1> HIDE DEF F, e
<1>4. /\ queue' \in Seq(F) /\ Len(queue') = Len(queue) + 1
      /\ \A i \in 1 .. Len(queue) : queue'[i] = queue[i]
      /\ queue'[Len(queue) + 1] = e
  BY <1>1, <1>2, <1>3, AppendProperties
<1>5. DOMAIN queue' = 1 .. Len(queue) + 1 /\ DOMAIN queue = 1 .. Len(queue)
      /\ Len(queue) \in Nat
  BY <1>3, <1>4, LenProperties
<1>6. frames' \in 0 .. MaxFrames
  <2>1. frames \in 0 .. MaxFrames
    BY LaneHas DEF TypeOK
  <2>2. MaxFrames \in Nat
    BY UnitsAssumption
  <2> QED BY <1>1, <2>1, <2>2
<1>7. TypeOK'
  BY <1>1, <1>4, <1>6, SameDevices, LaneHas DEF TypeOK, F
<1>8. MemoryAccounted'
  BY <1>1, SameDevices DEF LaneInv, MemoryAccounted, Held, Plus, KeptOn
<1>9. HeldInPlace' /\ RegistryInPlace' /\ Covers' /\ Growing'
  <2>1. SameFrame
    BY <1>1 DEF SameFrame
  <2>2. /\ MyDevices' = MyDevices /\ PoolPin' = PoolPin /\ Nothing' = Nothing
        /\ (Gauged(work.allowed))' = Gauged(work.allowed)
    BY <1>1, <2>1, SamePlace, SameDevices
  <2>3. Asked' = Asked /\ Reading' = Reading
    BY <1>1, SameDevices DEF Asked, Reading
  <2>4. HeldInPlace' /\ RegistryInPlace'
    BY <1>1, <2>2 DEF HeldInPlace, RegistryInPlace, LaneInv
  <2>5. Covers' /\ Growing'
    BY <1>1, <2>2, <2>3 DEF Covers, Growing, LaneInv
  <2> QED BY <2>4, <2>5
<1>10. Placed'
  <2>1. EnabledGpus(enabled)' = EnabledGpus(enabled) /\ Devices' = Devices
    BY <1>1, SameDevices DEF EnabledGpus
  <2>2. SameFrame
    BY <1>1 DEF SameFrame
  <2>3. MyDevices' = MyDevices
    BY <1>1, <2>2, SamePlace
  <2>4. ASSUME NEW k \in DOMAIN queue' PROVE EnabledGpus(enabled)' \subseteq queue'[k].gpus
    <3>1. CASE k = Len(queue) + 1
      BY <1>2, <1>4, <2>1, <3>1
    <3>2. CASE k # Len(queue) + 1
      <4>1. k \in DOMAIN queue /\ queue'[k] = queue[k]
        BY <1>4, <1>5, <3>2
      <4> QED BY <2>1, <4>1 DEF LaneInv, Placed
    <3> QED BY <3>1, <3>2
  <2> QED BY <1>1, <2>1, <2>3, <2>4 DEF LaneInv, Placed, IsGpu
<1> QED BY <1>7, <1>8, <1>9, <1>10 DEF LaneInv

\* The operator's set changes: every frame that waits or runs learns of it.
LEMMA SetEnabledInv ==
    ASSUME LaneInv, NEW e \in EnabledSets, SetEnabled(e)
    PROVE  LaneInv'
<1> DEFINE F == [req : Requests, gpus : SUBSET Devices]
           g == EnabledGpus(e)
           gpus == IF work.at = "idle" THEN {} ELSE work.gpus \cup g
<1>1. /\ enabled' = e /\ sets < MaxSets /\ sets' = sets + 1
      /\ queue' = [i \in DOMAIN queue |-> [queue[i] EXCEPT !.gpus = @ \cup g]]
      /\ work' = [work EXCEPT !.gpus = gpus]
      /\ UNCHANGED <<backend, used, models, dying, busy, price, open, frames>>
  BY DEF SetEnabled
<1>2. e \in [all : BOOLEAN, ids : SUBSET DeviceIds] /\ g \in SUBSET Devices
  BY LaneHas, EnabledAssumption, PlacesAreDevices
<1>3. queue \in Seq(F) /\ work.gpus \in SUBSET Devices
  BY LaneHas DEF TypeOK, Locals
<1>4. (EnabledGpus(enabled))' = g
  BY <1>1, SameDevices DEF EnabledGpus
<1> HIDE DEF g
<1>5. queue' \in Seq(F) /\ \A k \in DOMAIN queue' : g \subseteq queue'[k].gpus
  <2>1. DOMAIN queue = 1 .. Len(queue) /\ Len(queue) \in Nat
    BY <1>3, LenProperties
  <2>2. \A k \in 1 .. Len(queue) : queue[k] \in F
    BY <1>3, ElementOfSeq
  <2>3. \A k \in 1 .. Len(queue) : queue'[k] \in F /\ g \subseteq queue'[k].gpus
    BY <1>1, <1>2, <2>1, <2>2
  <2>4. queue' \in [1 .. Len(queue) -> F]
    BY <1>1, <2>1, <2>3
  <2> HIDE DEF F
  <2> QED BY <1>1, <2>1, <2>3, <2>4, IsASeq
<1>6. gpus \in SUBSET Devices
  BY <1>2, <1>3
<1> HIDE DEF gpus, F
<1>7. /\ work' \in Locals /\ work'.gpus = gpus /\ work'.at = work.at /\ work'.req = work.req
      /\ work'.allowed = work.allowed /\ work'.mem = work.mem /\ work'.proj = work.proj
      /\ work'.pool = work.pool /\ work'.prev = work.prev /\ work'.worst = work.worst
      /\ work'.todo = work.todo /\ work'.done = work.done /\ work'.errors = work.errors
      /\ work'.quiet = work.quiet
  BY <1>1, <1>6, LaneHas DEF Locals
<1>8. sets' \in 0 .. MaxSets
  <2>1. sets \in 0 .. MaxSets
    BY LaneHas DEF TypeOK
  <2>2. MaxSets \in Nat
    BY UnitsAssumption
  <2> QED BY <1>1, <2>1, <2>2
<1>9. TypeOK'
  BY <1>1, <1>2, <1>5, <1>7, <1>8, SameDevices, LaneHas DEF TypeOK, F
<1>10. MemoryAccounted'
  BY <1>1, <1>7, SameDevices DEF LaneInv, MemoryAccounted, Held, Plus, KeptOn
<1>11. MyDevices' = MyDevices /\ PoolPin' = PoolPin /\ Nothing' = Nothing /\ Devices' = Devices
       /\ (Gauged(work.allowed))' = Gauged(work.allowed)
  BY <1>1, <1>7, SameDevices, PlacingKept
<1>12. HeldInPlace' /\ RegistryInPlace' /\ Covers' /\ Growing'
  <2>1. Asked' = Asked /\ Reading' = Reading
    BY <1>1, <1>7, SameDevices DEF Asked, Reading
  <2>2. HeldInPlace' /\ RegistryInPlace'
    BY <1>1, <1>7, <1>11 DEF HeldInPlace, RegistryInPlace, LaneInv
  <2>3. Covers'
    BY <1>7, <2>1 DEF Covers, LaneInv
  <2>4. Growing'
    BY <1>1, <1>7, <1>11, <2>1 DEF Growing, LaneInv
  <2> QED BY <2>2, <2>3, <2>4
<1>13. Placed'
  <2>1. work.at # "idle" => work.gpus \subseteq work'.gpus
    BY <1>7 DEF gpus
  <2>2. work.at \in LoadSteps \cup {"fetch"} => work.at # "idle"
    BY DEF LoadSteps
  <2>3. \A k \in DOMAIN queue' : (EnabledGpus(enabled))' \subseteq queue'[k].gpus
    BY <1>4, <1>5
  <2>4. work'.at \in LoadSteps \cup {"fetch"} => {d \in MyDevices' : IsGpu(d)'} \subseteq work'.gpus
    BY <1>1, <1>7, <1>11, <2>1, <2>2 DEF LaneInv, Placed, IsGpu
  <2>5. work'.req.op # "bench" => {d \in Devices' : work'.mem[d] > 0} \subseteq MyDevices'
    BY <1>7, <1>11 DEF LaneInv, Placed
  <2> QED BY <2>3, <2>4, <2>5 DEF Placed
<1> QED BY <1>9, <1>10, <1>12, <1>13 DEF LaneInv
-----------------------------------------------------------------------------
(* The control lane's invariant, and what follows from it.                 *)

\* At the start nothing is resident, nothing is in use and the lane rests.
LEMMA LaneStart ==
    ASSUME Init
    PROVE  LaneInv
<1>1. /\ backend \in Backends /\ enabled = [all |-> TRUE, ids |-> {}]
      /\ used = Nothing /\ queue = <<>> /\ work = Idle /\ open = TRUE
      /\ models = [i \in Ids |-> NotLoaded] /\ dying = [i \in Ids |-> Nothing]
      /\ busy = {} /\ price = [i \in Ids |-> Unpriced]
      /\ frames = 0 /\ sets = 0
  BY DEF Init
<1>2. Nothing \in Units /\ \A d \in Devices : Nothing[d] = 0
  BY NothingOn
<1>3. TypeOK
  <2>1. work \in Locals
    BY <1>1, <1>2 DEF Locals, Idle, Steps
  <2>2. models \in [Ids -> Resident] /\ dying \in [Ids -> Units]
    BY <1>1, <1>2 DEF Resident, NotLoaded
  <2>3. price \in [Ids -> [known : BOOLEAN, base : Nat, per : Nat, devs : SUBSET Devices]]
    BY <1>1 DEF Unpriced
  <2>4. frames \in 0 .. MaxFrames /\ sets \in 0 .. MaxSets
    BY <1>1, UnitsAssumption
  <2>5. queue \in Seq([req : Requests, gpus : SUBSET Devices])
    BY <1>1
  <2> QED BY <1>1, <1>2, <2>1, <2>2, <2>3, <2>4, <2>5 DEF TypeOK
<1>4. MemoryAccounted
  <2>1. SUFFICES ASSUME NEW d \in Devices PROVE used[d] = Held[d] + SumFunction(KeptOn(d))
    BY DEF MemoryAccounted
  <2>2. \A i \in Ids : KeptOn(d)[i] = 0
    <3>1. \A i \in Ids : models[i].mem[d] = 0 /\ dying[i][d] = 0
      BY <1>1, <1>2 DEF NotLoaded
    <3> QED BY <1>3, <3>1, KeptTyped
  <2>3. SumFunction(KeptOn(d)) = 0
    <3>1. KeptOn(d) \in [Ids -> Int]
      BY <1>3, KeptTyped
    <3>2. SumFunctionOnSet(KeptOn(d), Ids) = 0
      BY <2>2, <3>1, IdsAssumption, SumNothing
    <3> QED BY <1>3, <3>2, KeptTyped
  <2>4. Held[d] = 0 /\ used[d] = 0
    BY <1>1, <1>2, <1>3, HeldTyped DEF HeldIsTyped, Idle
  <2> QED BY <2>3, <2>4
<1>5. HeldInPlace /\ RegistryInPlace /\ Covers /\ Growing
  BY <1>1, <1>2
     DEF HeldInPlace, RegistryInPlace, Covers, Growing, Idle, NoRequest, NotLoaded,
         LoadSteps, BenchSteps
<1>6. Placed
  BY <1>1, <1>2 DEF Placed, Idle, LoadSteps, BenchSteps
<1> QED BY <1>3, <1>4, <1>5, <1>6 DEF LaneInv

LEMMA LaneNext ==
    ASSUME LaneInv, [Next]_vars
    PROVE  LaneInv'
<1>1. CASE Lane
  BY <1>1, LaneStep
<1>2. CASE EndSession \/ BeginSession \/ \E i \in Ids : EndJob(i)
  BY <1>2, SessionStepsInv
<1>3. CASE \E r \in Requests : Receive(r)
  BY <1>3, ReceiveInv
<1>4. CASE \E e \in EnabledSets : SetEnabled(e)
  BY <1>4, SetEnabledInv
<1>5. CASE \E i \in Ids : Unload(i) \/ LastJobEnds(i) \/ StartJob(i)
  BY <1>5, UnloadInv, LastJobEndsInv, StartJobInv
<1>6. CASE UNCHANGED vars
  <2>1. TypeOK'
    BY <1>6, SameDevices, LaneHas DEF TypeOK, vars
  <2> QED BY <1>6, <2>1, NoMemoryInv DEF vars
<1> QED BY <1>1, <1>2, <1>3, <1>4, <1>5, <1>6 DEF Next

\* The invariant of the control lane holds in every state of the program.
THEOREM LaneInvariant == Spec => []LaneInv
<1>1. Init => LaneInv
  BY LaneStart
<1>2. LaneInv /\ [Next]_vars => LaneInv'
  BY LaneNext
<1> QED BY <1>1, <1>2, PTL DEF Spec

\* The variables keep their types; no unit that is given back was not in use.
THEOREM PlacementTypeCorrect == Spec => []TypeOK
<1>1. LaneInv => TypeOK
  BY DEF LaneInv
<1> QED BY <1>1, LaneInvariant, PTL

\* Every unit in use is a resident model's, a dying one's or the lane's, for any
\* devices, any models and any sizes (initialize, run_model_benchmark).
THEOREM NoMemoryIsLost == Spec => []MemoryAccounted
<1>1. LaneInv => MemoryAccounted
  BY DEF LaneInv
<1> QED BY <1>1, LaneInvariant, PTL

\* A load's weights and contexts take GPUs only that were enabled since its frame
\* came, whatever the operator does meanwhile (allowed_load_devices).
THEOREM LoadsOnEnabled == Spec => []LoadsStayOnEnabled
<1>1. LaneInv => LoadsStayOnEnabled
  <2> SUFFICES ASSUME LaneInv, work.req.op # "bench", NEW d \in Devices, IsGpu(d), work.mem[d] > 0
               PROVE  d \in work.gpus
    BY DEF LoadsStayOnEnabled
  <2>1. d \in MyDevices
    BY LaneHas
  <2>2. work.at \notin BenchSteps
    BY DEF LaneInv, HeldInPlace
  <2>3. work.at # "idle"
    BY LaneHas, NothingOn DEF LaneInv, HeldInPlace
  <2>4. work.at \in LoadSteps \cup {"fetch"}
    BY <2>2, <2>3, LaneHas DEF LoadSteps, Locals
  <2> QED BY <2>1, <2>4 DEF LaneInv, Placed
<1> QED BY <1>1, LaneInvariant, PTL

\* A device benchmark accounts for each device it was asked for once, in any
\* order of failures (execute, kBenchmark).
THEOREM DevicesReported == Spec => []EveryDeviceReported
<1>1. LaneInv => EveryDeviceReported
  <2> SUFFICES ASSUME LaneInv, work.at = "device", work.todo = <<>>
               PROVE  /\ work.done \cap work.errors = {}
                      /\ work.done \cup work.errors =
                            IF work.req.dev = <<>> THEN ToSet(HardwareIds) ELSE {work.req.dev}
    BY DEF EveryDeviceReported
  <2>1. Covers
    BY DEF LaneInv
  <2>2. Elements(work.todo) = {}
    BY DEF Elements
  <2>3. Elements(Asked) = IF work.req.dev = <<>> THEN ToSet(HardwareIds) ELSE {work.req.dev}
    BY DEF Asked, Elements, ToSet
  <2> QED BY <2>1, <2>2, <2>3 DEF Covers, BenchSteps
<1> QED BY <1>1, LaneInvariant, PTL

\* A pool nobody pinned that grew undisturbed past its first context is under the
\* watermark on every device it is gauged on (CtxPoolHeadroom).
THEOREM GrowthStops == Spec => []GrowthStopsInTime
<1>1. LaneInv => GrowthStopsInTime
  BY DEF LaneInv, Growing, GrowthStopsInTime
<1> QED BY <1>1, LaneInvariant, PTL
-----------------------------------------------------------------------------
(* What a load costs and what a benchmark of it measured.                  *)

\* What a pool of n contexts takes of a device, and a model's projector.
PoolUnits(n) == IF n = 0 THEN 0 ELSE n * Slot + FirstExtra
ProjectorOn(i, d) == IF i \in Vision /\ Head(GpuWalk) = d THEN Projector ELSE 0

\* The one device of a frame's model, if it is a GPU.
Lone(d) == MyDevices = {d} /\ backend[d] = "GPU"

\* No GPU is filled past its memory.
Capped == \A d \in Devices : backend[d] = "GPU" => used[d] <= Total

\* What a load holds of its lone GPU at each of its steps.
Costs ==
    /\ work.at = "projector" => work.req.id \in Vision
    /\ \A d \in Devices : Lone(d) =>
        /\ work.at \in {"projector", "size"} => work.mem[d] = Weights
        /\ work.at \in {"predict", "alloc", "record", "grown"} =>
              work.mem[d] = Weights + PoolUnits(work.pool)
        /\ work.at \in {"calibrate", "price"} =>
              work.mem[d] >= Weights + PoolUnits(work.pool) + (IF work.timed THEN Graph ELSE 0)
        /\ work.at \in LoadSteps \ {"load", "projector"} =>
              work.proj[d] = ProjectorOn(work.req.id, d)

\* A pinned pool stops at its pin, and a benchmark's pool is pinned.
PinnedPool ==
    /\ PoolPin > 0 =>
          /\ work.at \in {"predict", "grown"} => work.pool <= PoolPin
          /\ work.at = "alloc" => work.pool < PoolPin
          /\ work.at \in {"grown", "calibrate", "price"} => work.pool > 0
          /\ work.at # "record"
    /\ work.at \in {"calibrate", "price", "probe", "priced", "benched"} =>
          work.req.op = "modelbench"

\* Undisturbed, the memory in use is what was in use before and what the load
\* took; and what was read before the slot is what is in use without it.
Undisturbed ==
    work.quiet => \A d \in Devices : backend[d] = "GPU" =>
        /\ work.at \in LoadSteps => used[d] = work.before[d] + work.mem[d] + work.proj[d]
        /\ work.at = "probe" => work.prev[d] = used[d]
        /\ work.at = "priced" /\ Lone(d) => used[d] = work.prev[d] + Slot

\* A price is what a load costs at least, in the making and once it is known.
Covering(i, d, base, per) ==
    base >= Weights + ProjectorOn(i, d) + Slot + FirstExtra + Graph /\ per >= Slot
Measured ==
    work.quiet /\ work.timed => \A d \in Devices : Lone(d) =>
        /\ work.at \in {"probe", "priced"} => Covering(work.req.id, d, work.base, Slot)
        /\ work.at = "benched" => Covering(work.req.id, d, work.base, work.per)
PricesCover ==
    \A i \in Ids, d \in Devices :
        price[i].known /\ price[i].devs = {d} /\ backend[d] = "GPU" =>
            Covering(i, d, price[i].base, price[i].per)

\* A load whose price fitted has room for all it takes.
RoomOn(d) ==
    /\ Lone(d) /\ work.req.hub > 0 /\ work.req.op = "load"
    /\ work.before[d] + Weights + ProjectorOn(work.req.id, d)
          + FirstExtra + work.req.hub * Slot <= Total
RoomForAll ==
    /\ work.at \notin LoadSteps => ~work.fits
    /\ work.fits /\ work.quiet => \E d \in Devices : RoomOn(d)

PriceInv ==
    /\ LaneInv /\ Capped /\ Costs /\ PinnedPool /\ Undisturbed /\ Measured /\ PricesCover
    /\ RoomForAll /\ PricedPoolFits
-----------------------------------------------------------------------------
(* Prices.                                                                 *)

\* The arithmetic of a pool.
LEMMA PoolUnitsGrow ==
    /\ \A n \in Nat : PoolUnits(n) \in Nat
    /\ PoolUnits(0) = 0 /\ PoolUnits(1) = Slot + FirstExtra
    /\ \A n \in Nat : n > 0 => /\ PoolUnits(n + 1) = PoolUnits(n) + Slot
                               /\ PoolUnits(n) >= Slot + FirstExtra
    /\ \A n \in Nat, m \in Nat : m > 0 /\ n <= m => PoolUnits(n) <= m * Slot + FirstExtra
<1>1. Slot \in Nat /\ FirstExtra \in Nat
  BY UnitConstants
<1>2. ASSUME NEW n \in Nat PROVE n * Slot \in Nat /\ (n + 1) * Slot = n * Slot + Slot
  BY <1>1
<1>3. ASSUME NEW n \in Nat, n > 0 PROVE n * Slot >= Slot
  BY <1>1, <1>3
<1>4. ASSUME NEW n \in Nat, NEW m \in Nat, n <= m PROVE n * Slot <= m * Slot
  BY <1>1, <1>4
<1>5. \A n \in Nat : PoolUnits(n) \in Nat
  BY <1>1, <1>2 DEF PoolUnits
<1>6. PoolUnits(0) = 0 /\ PoolUnits(1) = Slot + FirstExtra
  BY <1>1 DEF PoolUnits
<1>7. ASSUME NEW n \in Nat, n > 0
      PROVE  PoolUnits(n + 1) = PoolUnits(n) + Slot /\ PoolUnits(n) >= Slot + FirstExtra
  <2>1. PoolUnits(n) = n * Slot + FirstExtra /\ PoolUnits(n + 1) = (n + 1) * Slot + FirstExtra
    BY <1>7 DEF PoolUnits
  <2> QED BY <1>1, <1>2, <1>3, <1>7, <2>1
<1>8. ASSUME NEW n \in Nat, NEW m \in Nat, m > 0, n <= m
      PROVE  PoolUnits(n) <= m * Slot + FirstExtra
  <2>1. m * Slot \in Nat
    BY <1>2
  <2>2. CASE n = 0
    BY <1>1, <2>1, <2>2 DEF PoolUnits
  <2>3. CASE n # 0
    BY <1>1, <1>2, <1>4, <1>8, <2>1, <2>3 DEF PoolUnits
  <2> QED BY <2>2, <2>3
<1> QED BY <1>5, <1>6, <1>7, <1>8

LEMMA ProjectorTyped == \A i, d : ProjectorOn(i, d) \in Nat
BY UnitConstants DEF ProjectorOn

\* A model on a lone GPU is not kept on the CPU: its projector asks for a GPU, and
\* the pool and the prices are gauged on that GPU.
LEMMA LoneIsGauged ==
    ASSUME LaneInv, NEW d \in Devices, Lone(d)
    PROVE  GpuUsable(work.allowed) /\ d \in Gauged(work.allowed)
<1>1. d \notin ToSet(CpuWalk)
  BY LaneHas, WalkedPlaces DEF Lone, IsGpu
<1>2. d \in MyDevices /\ backend[d] = "GPU"
  BY DEF Lone
<1>3. CASE work.allowed # {}
  <2>1. d \in work.allowed
    BY <1>1, <1>2, <1>3 DEF MyDevices, Occupied
  <2> QED BY <1>2, <1>3, <2>1 DEF GpuUsable, IsGpu, Gauged, MemoryTracked, Reports
<1>4. CASE work.allowed = {}
  <2>1. GpuWalk # <<>> /\ d \in ToSet(GpuWalk)
    BY <1>1, <1>2, <1>4 DEF MyDevices, Occupied
  <2> QED BY <1>2, <1>4, <2>1 DEF GpuUsable, Gauged, MemoryTracked, Reports
<1> QED BY <1>3, <1>4

\* The same request on the same devices is priced the same.
LEMMA LoneKept ==
    ASSUME UNCHANGED backend, work'.req = work.req, work'.allowed = work.allowed
    PROVE  /\ \A d : Lone(d)' = Lone(d)
           /\ \A i, d : ProjectorOn(i, d)' = ProjectorOn(i, d)
<1>1. MyDevices' = MyDevices /\ GpuWalk' = GpuWalk
  BY PlacingKept, SameDevices
<1>2. \A d : Lone(d)' = Lone(d)
  BY <1>1 DEF Lone
<1>3. \A i, d : ProjectorOn(i, d)' = ProjectorOn(i, d)
  BY <1>1 DEF ProjectorOn
<1> QED BY <1>2, <1>3

LEMMA SameLone ==
    ASSUME UNCHANGED backend, SameFrame
    PROVE  /\ \A d : Lone(d)' = Lone(d)
           /\ \A i, d : ProjectorOn(i, d)' = ProjectorOn(i, d)
BY LoneKept DEF SameFrame

LEMMA SamePrices ==
    ASSUME UNCHANGED <<backend, price>>, PricesCover
    PROVE  PricesCover'
<1>1. Devices' = Devices /\ GpuWalk' = GpuWalk
  BY SameDevices
<1>2. \A i, d, b, p : Covering(i, d, b, p)' = Covering(i, d, b, p)
  BY <1>1 DEF Covering, ProjectorOn
<1> QED BY <1>1, <1>2 DEF PricesCover

\* What the lane takes fits; what anyone gives back does not fill a device.
LEMMA CappedTaken ==
    ASSUME LaneInv, Capped, UNCHANGED backend, NEW m \in Units,
           \/ used' = used
           \/ used' = Plus(used, m) /\ Fits(m)
           \/ used' = Minus(used, m)
    PROVE  Capped'
<1>1. Devices' = Devices /\ Total \in Nat
  BY SameDevices, UnitConstants
<1> SUFFICES ASSUME NEW d \in Devices, backend[d] = "GPU" PROVE used'[d] <= Total
  BY <1>1 DEF Capped
<1>2. used[d] <= Total /\ used[d] \in Nat /\ m[d] \in Nat
  BY LaneHas DEF Capped, Units
<1>3. CASE used' = used
  BY <1>2, <1>3
<1>4. CASE used' = Plus(used, m) /\ Fits(m)
  BY <1>4 DEF Fits, Plus
<1>5. CASE used' = Minus(used, m)
  <2>1. used'[d] = used[d] - m[d]
    BY <1>5 DEF Minus
  <2> QED BY <1>1, <1>2, <2>1
<1> QED BY <1>3, <1>4, <1>5

\* What is in use moves with what the lane holds.
LEMMA LaneBalance ==
    ASSUME LaneInv, LaneInv', UNCHANGED <<backend, models, dying>>, NEW d \in Devices
    PROVE  used'[d] = used[d] + (work'.mem[d] - work.mem[d]) + (work'.proj[d] - work.proj[d])
<1>1. Devices' = Devices
  BY SameDevices
<1>2. HeldIsTyped /\ HeldIsTyped'
  BY LaneHas, HeldTyped, PTL DEF LaneInv
<1>3. Held'[d] = work'.mem[d] + work'.proj[d] /\ Held[d] = work.mem[d] + work.proj[d]
  BY <1>1, <1>2 DEF HeldIsTyped
<1>4. KeptOn(d)' = KeptOn(d)
  BY DEF KeptOn
<1>5. used[d] = Held[d] + SumFunction(KeptOn(d)) /\ used'[d] = Held'[d] + SumFunction(KeptOn(d))
  BY <1>1, <1>4 DEF LaneInv, MemoryAccounted
<1>6. SumFunction(KeptOn(d)) \in Int
  BY LaneHas, KeptTyped, IdsAssumption, SumType
<1>7. work'.mem[d] \in Nat /\ work'.proj[d] \in Nat
  BY <1>1 DEF LaneInv, TypeOK, Locals, Units
<1> QED BY <1>3, <1>5, <1>6, <1>7, LaneHas

\* A step of a load, from one of its steps to the next.
LEMMA PricedStep ==
    ASSUME PriceInv, LaneInv', UNCHANGED <<laneFrame, models, queue, price>>, SameFrame,
           work.at \in LoadSteps, work'.at \in LoadSteps,
           work'.before = work.before, work'.quiet = work.quiet, work'.fits = work.fits,
           Capped', Costs', PinnedPool', Measured', PricedPoolFits',
           work.quiet => \A d \in Devices : backend[d] = "GPU" =>
               /\ work'.at = "probe" => work'.prev[d] = used'[d]
               /\ work'.at = "priced" /\ Lone(d) => used'[d] = work'.prev[d] + Slot
    PROVE  PriceInv'
<1> USE DEF laneFrame
<1>1. Devices' = Devices
  BY SameDevices
<1>2. \A d : Lone(d)' = Lone(d)
  BY SameLone
<1>3. \A i, d : ProjectorOn(i, d)' = ProjectorOn(i, d)
  BY SameLone
<1>4. Undisturbed'
  <2> SUFFICES ASSUME work.quiet, NEW d \in Devices, backend[d] = "GPU"
               PROVE  /\ used'[d] = work'.before[d] + work'.mem[d] + work'.proj[d]
                      /\ work'.at = "probe" => work'.prev[d] = used'[d]
                      /\ work'.at = "priced" /\ Lone(d) => used'[d] = work'.prev[d] + Slot
    BY <1>1, <1>2 DEF Undisturbed
  <2>1. used[d] = work.before[d] + work.mem[d] + work.proj[d]
    BY DEF PriceInv, Undisturbed
  <2>2. /\ work.before[d] \in Nat /\ work.mem[d] \in Nat /\ work.proj[d] \in Nat
        /\ used[d] \in Nat
    BY LaneHas DEF PriceInv, Units
  <2>3. work'.mem[d] \in Nat /\ work'.proj[d] \in Nat
    BY <1>1 DEF LaneInv, TypeOK, Locals, Units
  <2>4. used'[d] = work'.before[d] + work'.mem[d] + work'.proj[d]
    BY <2>1, <2>2, <2>3, LaneBalance DEF PriceInv
  <2> QED BY <2>4
<1>5. RoomForAll'
  <2>1. \A d \in Devices : RoomOn(d) => RoomOn(d)'
    BY <1>2, <1>3 DEF RoomOn, SameFrame
  <2> QED BY <1>1, <2>1 DEF RoomForAll, PriceInv
<1> QED BY <1>4, <1>5, SamePrices DEF PriceInv
-----------------------------------------------------------------------------
(* The steps of a load and of a model benchmark, priced.                   *)

LEMMA LoadWeightsPriced ==
    ASSUME PriceInv, LoadWeights
    PROVE  PriceInv'
<1> DEFINE cost == On(MyDevices, Weights)
<1>1. LaneInv /\ LaneInv'
  BY LoadWeightsInv DEF PriceInv
<1>2. cost \in Units /\ \A d \in Devices : cost[d] = IF d \in MyDevices THEN Weights ELSE 0
  BY UnitConstants, UnitsOn
<1>3. /\ work.at = "load" /\ work'.at = (IF work.req.id \in Vision THEN "projector" ELSE "size")
      /\ SameFrame /\ used' = Plus(used, cost) /\ Fits(cost)
      /\ work'.mem = cost /\ work'.proj = work.proj
      /\ work'.before = work.before /\ work'.quiet = work.quiet /\ work'.fits = work.fits
      /\ UNCHANGED <<laneFrame, models, queue, price>>
  BY <1>1, LaneHas DEF LoadWeights, Goes, SameFrame, Locals
<1> HIDE DEF cost
<1>4. Capped'
  BY <1>1, <1>2, <1>3, CappedTaken DEF PriceInv, laneFrame
<1>5. Costs'
  <2>1. Devices' = Devices /\ \A d : Lone(d)' = Lone(d)
    BY <1>3, SameDevices, SameLone DEF laneFrame
  <2>2. \A i, d : ProjectorOn(i, d)' = ProjectorOn(i, d)
    BY <1>3, SameLone DEF laneFrame
  <2>3. ASSUME NEW d \in Devices, Lone(d)
        PROVE  work'.mem[d] = Weights /\ (work'.at = "size" => work'.proj[d] = ProjectorOn(work.req.id, d))
    <3>1. work'.mem[d] = Weights
      BY <1>2, <1>3, <2>3 DEF Lone
    <3>2. work.proj[d] = 0
      BY <1>1, <1>3, NothingOn DEF LaneInv, HeldInPlace
    <3> QED BY <1>3, <3>1, <3>2 DEF ProjectorOn
  <2> QED BY <1>3, <2>1, <2>2, <2>3 DEF Costs, SameFrame
<1>6. PinnedPool' /\ Measured' /\ PricedPoolFits'
  BY <1>3 DEF PinnedPool, Measured, PricedPoolFits
<1> QED BY <1>1, <1>3, <1>4, <1>5, <1>6, PricedStep DEF LoadSteps, Steps, BenchSteps

LEMMA LoadProjectorPriced ==
    ASSUME PriceInv, LoadProjector
    PROVE  PriceInv'
<1> DEFINE cost == On(ProjectorDevices(work.allowed), Projector)
<1>1. LaneInv /\ LaneInv'
  BY LoadProjectorInv DEF PriceInv
<1>2. cost \in Units
      /\ \A d \in Devices : cost[d] = IF d \in ProjectorDevices(work.allowed) THEN Projector ELSE 0
  BY UnitConstants, UnitsOn
<1>3. /\ work.at = "projector" /\ work'.at = "size"
      /\ SameFrame /\ used' = Plus(used, cost) /\ Fits(cost)
      /\ work'.mem = work.mem /\ work'.proj = cost
      /\ work'.before = work.before /\ work'.quiet = work.quiet /\ work'.fits = work.fits
      /\ UNCHANGED <<laneFrame, models, queue, price>>
  BY <1>1, LaneHas DEF LoadProjector, Goes, SameFrame, Locals
<1> HIDE DEF cost
<1>4. Capped'
  BY <1>1, <1>2, <1>3, CappedTaken DEF PriceInv, laneFrame
<1>5. Costs'
  <2>1. Devices' = Devices /\ \A d : Lone(d)' = Lone(d)
    BY <1>3, SameDevices, SameLone DEF laneFrame
  <2>2. \A i, d : ProjectorOn(i, d)' = ProjectorOn(i, d)
    BY <1>3, SameLone DEF laneFrame
  <2>3. ASSUME NEW d \in Devices, Lone(d)
        PROVE  work'.mem[d] = Weights /\ work'.proj[d] = ProjectorOn(work.req.id, d)
    <3>1. work'.mem[d] = Weights
      BY <1>3, <2>3 DEF PriceInv, Costs
    <3>2. work.req.id \in Vision
      BY <1>3 DEF PriceInv, Costs
    <3>3. ProjectorDevices(work.allowed) = {Head(GpuWalk)}
      BY <1>1, <2>3, LoneIsGauged DEF ProjectorDevices
    <3> QED BY <1>2, <1>3, <3>1, <3>2, <3>3 DEF ProjectorOn
  <2> QED BY <1>3, <2>1, <2>2, <2>3 DEF Costs, SameFrame
<1>6. PinnedPool' /\ Measured' /\ PricedPoolFits'
  BY <1>3 DEF PinnedPool, Measured, PricedPoolFits
<1> QED BY <1>1, <1>3, <1>4, <1>5, <1>6, PricedStep DEF LoadSteps, Steps, BenchSteps

LEMMA StartGrowthPriced ==
    ASSUME PriceInv, StartGrowth
    PROVE  PriceInv'
<1>1. LaneInv /\ LaneInv'
  BY StartGrowthInv DEF PriceInv
<1>3. /\ work.at = "size" /\ work'.at = "predict" /\ SameFrame /\ used' = used
      /\ work'.mem = work.mem /\ work'.proj = work.proj /\ work'.pool = work.pool
      /\ work'.before = work.before /\ work'.quiet = work.quiet /\ work'.fits = work.fits
      /\ UNCHANGED <<laneFrame, models, queue, price>>
  BY <1>1, LaneHas DEF StartGrowth, Goes, SameFrame, Locals
<1>4. Capped'
  BY <1>1, <1>3, NothingOn, CappedTaken DEF PriceInv, laneFrame
<1>2. work'.pool = 0
  BY <1>1, <1>3 DEF LaneInv, HeldInPlace
<1>5. Costs' /\ PinnedPool'
  <2>1. Devices' = Devices /\ MyDevices' = MyDevices /\ PoolPin' = PoolPin
        /\ (\A d : Lone(d)' = Lone(d))
    BY <1>3, SameDevices, SamePlace, SameLone DEF laneFrame
  <2>2. \A i, d : ProjectorOn(i, d)' = ProjectorOn(i, d)
    BY <1>3, SameLone DEF laneFrame
  <2>3. Weights + PoolUnits(0) = Weights
    BY UnitConstants, PoolUnitsGrow
  <2>4. Costs'
    BY <1>2, <1>3, <2>1, <2>2, <2>3 DEF Costs, PriceInv, SameFrame, LoadSteps, Steps, BenchSteps
  <2>5. PinnedPool'
    <3>1. PoolPin \in Nat
      BY <1>1, LaneHas, RequestTyped DEF PoolPin
    <3> QED BY <1>2, <1>3, <2>1, <3>1 DEF PinnedPool, PriceInv
  <2> QED BY <2>4, <2>5
<1>6. Measured' /\ PricedPoolFits'
  BY <1>3 DEF Measured, PricedPoolFits
<1> QED BY <1>1, <1>3, <1>4, <1>5, <1>6, PricedStep DEF LoadSteps, Steps, BenchSteps

LEMMA PredictSlotPriced ==
    ASSUME PriceInv, PredictSlot
    PROVE  PriceInv'
<1> DEFINE stop == \/ work.pool >= Ceiling
                   \/ HeadroomEnabled /\ Predicted(Gauged(work.allowed), Reading, work.worst)
<1>1. LaneInv /\ LaneInv'
  BY PredictSlotInv DEF PriceInv
<1>2. PoolPin \in Nat /\ work.pool \in Nat
  BY <1>1, LaneHas, RequestTyped DEF PoolPin
<1>7. PoolPin > 0 => (stop <=> work.pool >= PoolPin)
  BY <1>2 DEF Ceiling, HeadroomEnabled
<1>3. /\ work.at = "predict" /\ work'.at = (IF stop THEN "grown" ELSE "alloc")
      /\ SameFrame /\ used' = used
      /\ work'.mem = work.mem /\ work'.proj = work.proj /\ work'.pool = work.pool
      /\ work'.before = work.before /\ work'.quiet = work.quiet /\ work'.fits = work.fits
      /\ UNCHANGED <<laneFrame, models, queue, price>>
  BY <1>1, LaneHas DEF PredictSlot, Goes, SameFrame, Locals
<1> HIDE DEF stop
<1>4. Capped'
  BY <1>1, <1>3, NothingOn, CappedTaken DEF PriceInv, laneFrame
<1>5. Costs' /\ PinnedPool'
  <2>1. Devices' = Devices /\ MyDevices' = MyDevices /\ PoolPin' = PoolPin
        /\ (\A d : Lone(d)' = Lone(d))
    BY <1>3, SameDevices, SamePlace, SameLone DEF laneFrame
  <2>2. \A i, d : ProjectorOn(i, d)' = ProjectorOn(i, d)
    BY <1>3, SameLone DEF laneFrame
  <2>3. Costs'
    BY <1>3, <2>1, <2>2 DEF Costs, PriceInv, SameFrame, LoadSteps, Steps, BenchSteps
  <2>4. PinnedPool'
    BY <1>2, <1>3, <1>7, <2>1 DEF PinnedPool, PriceInv
  <2> QED BY <2>3, <2>4
<1>6. Measured' /\ PricedPoolFits'
  <2>1. Measured'
    BY <1>3 DEF Measured
  <2>2. ASSUME work.fits, work.quiet, stop PROVE work.pool = work.req.hub
    <3>1. work.req.hub > 0 /\ work.req.op = "load"
      BY <2>2 DEF PriceInv, RoomForAll, RoomOn
    <3>2. PoolPin = work.req.hub
      BY <3>1 DEF PoolPin
    <3>3. work.pool <= PoolPin
      BY <1>3, <3>1, <3>2 DEF PriceInv, PinnedPool
    <3> QED BY <1>2, <1>7, <2>2, <3>1, <3>2, <3>3
  <2> QED BY <1>3, <2>1, <2>2 DEF PricedPoolFits, SameFrame
<1> QED BY <1>1, <1>3, <1>4, <1>5, <1>6, PricedStep DEF LoadSteps, Steps, BenchSteps

LEMMA AllocSlotPriced ==
    ASSUME PriceInv, AllocSlot
    PROVE  PriceInv'
<1> DEFINE n == IF work.pool = 0 THEN Slot + FirstExtra ELSE Slot
           cost == On(MyDevices, n)
           after == IF HeadroomEnabled THEN "record" ELSE "predict"
<1>1. LaneInv /\ LaneInv'
  BY AllocSlotInv DEF PriceInv
<1>0. n \in Nat /\ SlotCost = cost
  BY UnitConstants DEF SlotCost
<1>2. cost \in Units /\ \A d \in Devices : cost[d] = IF d \in MyDevices THEN n ELSE 0
  BY <1>0, UnitsOn
<1>7. PoolPin \in Nat /\ work.pool \in Nat
  BY <1>1, LaneHas, RequestTyped DEF PoolPin
<1>8. PoolUnits(work.pool + 1) = PoolUnits(work.pool) + n /\ PoolUnits(work.pool) \in Nat
  <2>1. CASE work.pool = 0
    BY <2>1, UnitConstants, PoolUnitsGrow
  <2>2. CASE work.pool # 0
    BY <1>7, <2>2, PoolUnitsGrow
  <2> QED BY <2>1, <2>2
<1>3. /\ work.at = "alloc" /\ work'.at = after /\ SameFrame
      /\ used' = Plus(used, cost) /\ Fits(cost)
      /\ work'.mem = Plus(work.mem, cost) /\ work'.proj = work.proj
      /\ work'.pool = work.pool + 1
      /\ work'.before = work.before /\ work'.quiet = work.quiet /\ work'.fits = work.fits
      /\ UNCHANGED <<laneFrame, models, queue, price>>
  BY <1>0, <1>1, LaneHas DEF AllocSlot, Goes, SameFrame, Locals
<1> HIDE DEF cost, n
<1>4. Capped'
  BY <1>1, <1>2, <1>3, CappedTaken DEF PriceInv, laneFrame
<1>5. Costs' /\ PinnedPool'
  <2>1. Devices' = Devices /\ MyDevices' = MyDevices /\ PoolPin' = PoolPin
        /\ (\A d : Lone(d)' = Lone(d))
    BY <1>3, SameDevices, SamePlace, SameLone DEF laneFrame
  <2>2. \A i, d : ProjectorOn(i, d)' = ProjectorOn(i, d)
    BY <1>3, SameLone DEF laneFrame
  <2>3. ASSUME NEW d \in Devices, Lone(d)
        PROVE  work'.mem[d] = Weights + PoolUnits(work'.pool)
    <3>1. work'.mem[d] = work.mem[d] + n
      BY <1>1, <1>2, <1>3, <2>3, LaneHas, UnitSums DEF Lone
    <3>2. work.mem[d] = Weights + PoolUnits(work.pool)
      BY <1>3, <2>3 DEF PriceInv, Costs
    <3> QED BY <1>0, <1>3, <1>8, <3>1, <3>2, UnitConstants
  <2>4. Costs'
    BY <1>3, <2>1, <2>2, <2>3 DEF Costs, PriceInv, SameFrame, LoadSteps, Steps, BenchSteps
  <2>5. PoolPin > 0 => after = "predict"
    BY <1>7 DEF HeadroomEnabled
  <2>6. PinnedPool'
    BY <1>3, <1>7, <2>1, <2>5 DEF PinnedPool, PriceInv
  <2> QED BY <2>4, <2>6
<1>6. Measured' /\ PricedPoolFits'
  BY <1>3 DEF Measured, PricedPoolFits
<1> QED BY <1>1, <1>3, <1>4, <1>5, <1>6, PricedStep DEF LoadSteps, Steps, BenchSteps

LEMMA AllocFailsPriced ==
    ASSUME PriceInv, AllocFails
    PROVE  PriceInv'
<1> DEFINE n == IF work.pool = 0 THEN Slot + FirstExtra ELSE Slot
           cost == On(MyDevices, n)
<1>1. LaneInv /\ LaneInv'
  BY AllocFailsInv DEF PriceInv
<1>0. n \in Nat /\ SlotCost = cost
  BY UnitConstants DEF SlotCost
<1>2. \A d \in Devices : cost[d] = IF d \in MyDevices THEN n ELSE 0
  BY <1>0, UnitsOn
<1>7. PoolPin \in Nat /\ work.pool \in Nat
  BY <1>1, LaneHas, RequestTyped DEF PoolPin
<1>8. PoolUnits(work.pool + 1) = PoolUnits(work.pool) + n /\ PoolUnits(work.pool) \in Nat
  <2>1. CASE work.pool = 0
    BY <2>1, UnitConstants, PoolUnitsGrow
  <2>2. CASE work.pool # 0
    BY <1>7, <2>2, PoolUnitsGrow
  <2> QED BY <2>1, <2>2
<1>3. /\ work.at = "alloc" /\ work'.at = (IF work.pool = 0 THEN "noroom" ELSE "grown")
      /\ SameFrame /\ used' = used
      /\ work'.mem = work.mem /\ work'.proj = work.proj /\ work'.pool = work.pool
      /\ work'.before = work.before /\ work'.quiet = work.quiet /\ work'.fits = work.fits
      /\ UNCHANGED <<laneFrame, models, queue, price>>
  BY <1>1, LaneHas DEF AllocFails, Goes, SameFrame, Locals
<1>9. ~Fits(cost) \/ \E d \in MyDevices : backend[d] # "GPU"
  BY <1>0 DEF AllocFails
<1> HIDE DEF cost, n
<1>4. Capped'
  BY <1>1, <1>3, NothingOn, CappedTaken DEF PriceInv, laneFrame
<1>5. Costs' /\ PinnedPool'
  <2>1. Devices' = Devices /\ MyDevices' = MyDevices /\ PoolPin' = PoolPin
        /\ (\A d : Lone(d)' = Lone(d))
    BY <1>3, SameDevices, SamePlace, SameLone DEF laneFrame
  <2>2. \A i, d : ProjectorOn(i, d)' = ProjectorOn(i, d)
    BY <1>3, SameLone DEF laneFrame
  <2>3. Costs'
    BY <1>3, <2>1, <2>2 DEF Costs, PriceInv, SameFrame, LoadSteps, Steps, BenchSteps
  <2>4. PinnedPool'
    BY <1>3, <1>7, <2>1 DEF PinnedPool, PriceInv
  <2> QED BY <2>3, <2>4
<1>6. Measured' /\ PricedPoolFits'
  <2>1. Measured'
    BY <1>3 DEF Measured
  <2>2. ASSUME work.fits, work.quiet PROVE FALSE
    <3>1. PICK d \in Devices : RoomOn(d)
      BY <2>2 DEF PriceInv, RoomForAll
    <3>2. Lone(d) /\ MyDevices = {d} /\ backend[d] = "GPU" /\ work.req.hub > 0
          /\ work.req.op = "load"
      BY <3>1 DEF RoomOn, Lone
    <3> DEFINE hub == work.req.hub
               p == ProjectorOn(work.req.id, d)
    <3>3. hub \in Nat /\ PoolPin = hub /\ work.pool < hub
      <4>1. PoolPin = hub /\ hub \in Nat
        BY <1>1, <3>2, LaneHas, RequestTyped DEF PoolPin
      <4> QED BY <1>3, <3>2, <4>1 DEF PriceInv, PinnedPool
    <3>4. work.before[d] + Weights + p + FirstExtra + hub * Slot <= Total
      BY <3>1 DEF RoomOn
    <3>5. /\ used[d] = work.before[d] + work.mem[d] + work.proj[d]
          /\ work.mem[d] = Weights + PoolUnits(work.pool)
          /\ work.proj[d] = p
      BY <1>3, <2>2, <3>2 DEF PriceInv, Undisturbed, Costs, LoadSteps, Steps, BenchSteps
    <3>6. PoolUnits(work.pool + 1) <= hub * Slot + FirstExtra /\ PoolUnits(work.pool + 1) \in Nat
      <4>1. work.pool + 1 \in Nat /\ work.pool + 1 <= hub /\ hub > 0
        BY <1>7, <3>3
      <4> QED BY <3>3, <4>1, PoolUnitsGrow
    <3>7. p \in Nat /\ work.before[d] \in Nat /\ hub * Slot \in Nat
      <4>1. work.before[d] \in Nat /\ p \in Nat
        BY <1>1, LaneHas, ProjectorTyped DEF Units
      <4>2. hub * Slot \in Nat
        BY <3>3, UnitConstants
      <4> QED BY <4>1, <4>2
    <3> HIDE DEF p
    <3>8. used[d] + n <= Total
      <4> DEFINE x == hub * Slot
                 u == PoolUnits(work.pool)
                 v == PoolUnits(work.pool + 1)
      <4>1. x \in Nat /\ u \in Nat /\ v \in Nat /\ v = u + n /\ v <= x + FirstExtra
        BY <1>8, <3>6, <3>7
      <4>2. work.before[d] + Weights + p + FirstExtra + x <= Total
        BY <3>4
      <4>3. used[d] = work.before[d] + (Weights + u) + p
        BY <3>5
      <4> HIDE DEF x, u, v
      <4> QED BY <1>0, <3>7, <4>1, <4>2, <4>3, UnitConstants
    <3>9. Fits(cost)
      <4>1. ASSUME NEW e \in Devices, backend[e] = "GPU" PROVE used[e] + cost[e] <= Total
        <5>1. CASE e = d
          BY <1>2, <3>2, <3>8, <5>1
        <5>2. CASE e # d
          <6>1. cost[e] = 0 /\ used[e] \in Nat /\ used[e] <= Total
            BY <1>1, <1>2, <3>2, <4>1, <5>2, LaneHas DEF PriceInv, Capped
          <6> QED BY <6>1
        <5> QED BY <5>1, <5>2
      <4> QED BY <4>1 DEF Fits
    <3> QED BY <1>9, <3>2, <3>9
  <2> QED BY <1>3, <2>1, <2>2 DEF PricedPoolFits
<1> QED BY <1>1, <1>3, <1>4, <1>5, <1>6, PricedStep DEF LoadSteps, Steps, BenchSteps

LEMMA RecordSlotPriced ==
    ASSUME PriceInv, RecordSlot
    PROVE  PriceInv'
<1> DEFINE after == IF Reached(Gauged(work.allowed), Reading) THEN "grown" ELSE "predict"
<1>1. LaneInv /\ LaneInv'
  BY RecordSlotInv DEF PriceInv
<1>2. PoolPin = 0
  BY <1>1, LaneHas, RequestTyped DEF PriceInv, PinnedPool, PoolPin, RecordSlot
<1>3. /\ work.at = "record" /\ work'.at = after
      /\ SameFrame /\ used' = used
      /\ work'.mem = work.mem /\ work'.proj = work.proj /\ work'.pool = work.pool
      /\ work'.before = work.before /\ work'.quiet = work.quiet /\ work'.fits = work.fits
      /\ UNCHANGED <<laneFrame, models, queue, price>>
  BY <1>1, LaneHas DEF RecordSlot, Goes, SameFrame, Locals
<1> HIDE DEF after
<1>4. Capped'
  BY <1>1, <1>3, NothingOn, CappedTaken DEF PriceInv, laneFrame
<1>7. work'.at \in {"grown", "predict"}
  BY <1>3 DEF after
<1>5. Costs' /\ PinnedPool'
  <2>1. Devices' = Devices /\ MyDevices' = MyDevices /\ PoolPin' = PoolPin
        /\ (\A d : Lone(d)' = Lone(d))
    BY <1>3, SameDevices, SamePlace, SameLone DEF laneFrame
  <2>2. \A i, d : ProjectorOn(i, d)' = ProjectorOn(i, d)
    BY <1>3, SameLone DEF laneFrame
  <2>3. Costs'
    BY <1>3, <1>7, <2>1, <2>2 DEF Costs, PriceInv, SameFrame, LoadSteps, Steps, BenchSteps
  <2>4. PinnedPool'
    BY <1>2, <1>7, <2>1 DEF PinnedPool
  <2> QED BY <2>3, <2>4
<1>6. Measured' /\ PricedPoolFits'
  <2>1. Measured'
    BY <1>7 DEF Measured
  <2>2. ~(work.fits /\ work.quiet)
    <3>1. ASSUME work.fits, work.quiet PROVE FALSE
      <4>1. work.req.hub > 0 /\ work.req.op = "load"
        BY <3>1 DEF PriceInv, RoomForAll, RoomOn
      <4>2. PoolPin > 0
        BY <4>1 DEF PoolPin
      <4> QED BY <1>2, <4>2
    <3> QED BY <3>1
  <2> QED BY <1>3, <2>1, <2>2 DEF PricedPoolFits
<1> QED BY <1>1, <1>3, <1>4, <1>5, <1>6, <1>7, PricedStep DEF LoadSteps, Steps, BenchSteps

LEMMA PayloadEndsPriced ==
    ASSUME PriceInv, PayloadEnds
    PROVE  PriceInv'
<1>1. LaneInv /\ LaneInv'
  BY PayloadEndsInv DEF PriceInv
<1>7. PICK decodes \in BOOLEAN :
          LET cost == On(MyDevices, IF decodes THEN Graph ELSE 0)
          IN /\ Fits(cost)
             /\ Goes([work EXCEPT !.at = "calibrate", !.mem = Plus(@, cost), !.timed = decodes],
                     Plus(used, cost))
  BY DEF PayloadEnds
<1> DEFINE n == IF decodes THEN Graph ELSE 0
           cost == On(MyDevices, n)
<1>2. n \in Nat /\ cost \in Units
      /\ \A d \in Devices : cost[d] = IF d \in MyDevices THEN n ELSE 0
  BY UnitConstants, UnitsOn
<1>3. /\ work.at = "grown" /\ work'.at = "calibrate" /\ work.req.op = "modelbench" /\ SameFrame
      /\ used' = Plus(used, cost) /\ Fits(cost)
      /\ work'.mem = Plus(work.mem, cost) /\ work'.proj = work.proj /\ work'.pool = work.pool
      /\ work'.timed = decodes
      /\ work'.before = work.before /\ work'.quiet = work.quiet /\ work'.fits = work.fits
      /\ UNCHANGED <<laneFrame, models, queue, price>>
  BY <1>1, <1>7, LaneHas DEF PayloadEnds, Goes, SameFrame, Locals
<1> HIDE DEF cost
<1>4. Capped'
  BY <1>1, <1>2, <1>3, CappedTaken DEF PriceInv, laneFrame
<1>5. Costs' /\ PinnedPool'
  <2>1. Devices' = Devices /\ MyDevices' = MyDevices /\ PoolPin' = PoolPin
        /\ (\A d : Lone(d)' = Lone(d))
    BY <1>3, SameDevices, SamePlace, SameLone DEF laneFrame
  <2>2. \A i, d : ProjectorOn(i, d)' = ProjectorOn(i, d)
    BY <1>3, SameLone DEF laneFrame
  <2>3. ASSUME NEW d \in Devices, Lone(d)
        PROVE  work'.mem[d] >= Weights + PoolUnits(work'.pool) + n
    <3>1. work'.mem[d] = work.mem[d] + n
      BY <1>1, <1>2, <1>3, <2>3, LaneHas, UnitSums DEF Lone
    <3>2. work.mem[d] = Weights + PoolUnits(work.pool)
      BY <1>3, <2>3 DEF PriceInv, Costs
    <3>3. PoolUnits(work.pool) \in Nat
      BY <1>1, LaneHas, PoolUnitsGrow
    <3> HIDE DEF n
    <3> QED BY <1>2, <1>3, <3>1, <3>2, <3>3, UnitConstants
  <2>4. Costs'
    BY <1>3, <2>1, <2>2, <2>3 DEF Costs, PriceInv, SameFrame, LoadSteps, Steps, BenchSteps
  <2>5. PinnedPool'
    BY <1>3, <2>1 DEF PinnedPool, PriceInv, SameFrame
  <2> QED BY <2>4, <2>5
<1>6. Measured' /\ PricedPoolFits'
  BY <1>3 DEF Measured, PricedPoolFits
<1> QED BY <1>1, <1>3, <1>4, <1>5, <1>6, PricedStep DEF LoadSteps, Steps, BenchSteps

LEMMA CalibratePriced ==
    ASSUME PriceInv, Calibrate
    PROVE  PriceInv'
<1> DEFINE n == IF work.timed THEN 0 ELSE Graph
           cost == On(MyDevices, n)
<1>1. LaneInv /\ LaneInv'
  BY CalibrateInv DEF PriceInv
<1>2. n \in Nat /\ cost \in Units
      /\ \A d \in Devices : cost[d] = IF d \in MyDevices THEN n ELSE 0
  BY UnitConstants, UnitsOn
<1>3. /\ work.at = "calibrate" /\ work'.at = "price" /\ SameFrame
      /\ used' = Plus(used, cost) /\ Fits(cost)
      /\ work'.mem = Plus(work.mem, cost) /\ work'.proj = work.proj /\ work'.pool = work.pool
      /\ work'.timed = TRUE
      /\ work'.before = work.before /\ work'.quiet = work.quiet /\ work'.fits = work.fits
      /\ UNCHANGED <<laneFrame, models, queue, price>>
  BY <1>1, LaneHas DEF Calibrate, Goes, SameFrame, Locals
<1> HIDE DEF cost
<1>4. Capped'
  BY <1>1, <1>2, <1>3, CappedTaken DEF PriceInv, laneFrame
<1>5. Costs' /\ PinnedPool'
  <2>1. Devices' = Devices /\ MyDevices' = MyDevices /\ PoolPin' = PoolPin
        /\ (\A d : Lone(d)' = Lone(d))
    BY <1>3, SameDevices, SamePlace, SameLone DEF laneFrame
  <2>2. \A i, d : ProjectorOn(i, d)' = ProjectorOn(i, d)
    BY <1>3, SameLone DEF laneFrame
  <2>3. ASSUME NEW d \in Devices, Lone(d)
        PROVE  work'.mem[d] >= Weights + PoolUnits(work'.pool) + Graph
    <3>1. work'.mem[d] = work.mem[d] + n
      BY <1>1, <1>2, <1>3, <2>3, LaneHas, UnitSums DEF Lone
    <3>2. work.mem[d] >= Weights + PoolUnits(work.pool) + (IF work.timed THEN Graph ELSE 0)
      BY <1>3, <2>3 DEF PriceInv, Costs
    <3>3. PoolUnits(work.pool) \in Nat /\ work.mem[d] \in Nat
      BY <1>1, LaneHas, PoolUnitsGrow
    <3> QED BY <1>3, <3>1, <3>2, <3>3, UnitConstants
  <2>4. Costs'
    BY <1>3, <2>1, <2>2, <2>3 DEF Costs, PriceInv, SameFrame, LoadSteps, Steps, BenchSteps
  <2>5. PinnedPool'
    BY <1>3, <2>1 DEF PinnedPool, PriceInv, SameFrame
  <2> QED BY <2>4, <2>5
<1>6. Measured' /\ PricedPoolFits'
  BY <1>3 DEF Measured, PricedPoolFits
<1> QED BY <1>1, <1>3, <1>4, <1>5, <1>6, PricedStep DEF LoadSteps, Steps, BenchSteps

LEMMA CalibrationFailsPriced ==
    ASSUME PriceInv, CalibrationFails
    PROVE  PriceInv'
<1>1. LaneInv /\ LaneInv'
  BY CalibrationFailsInv DEF PriceInv
<1>3. /\ work.at = "calibrate" /\ work'.at = "price" /\ SameFrame /\ used' = used
      /\ work'.mem = work.mem /\ work'.proj = work.proj /\ work'.pool = work.pool
      /\ work'.timed = FALSE
      /\ work'.before = work.before /\ work'.quiet = work.quiet /\ work'.fits = work.fits
      /\ UNCHANGED <<laneFrame, models, queue, price>>
  BY <1>1, LaneHas DEF CalibrationFails, Goes, SameFrame, Locals
<1>4. Capped'
  BY <1>1, <1>3, NothingOn, CappedTaken DEF PriceInv, laneFrame
<1>5. Costs' /\ PinnedPool'
  <2>1. Devices' = Devices /\ MyDevices' = MyDevices /\ PoolPin' = PoolPin
        /\ (\A d : Lone(d)' = Lone(d))
    BY <1>3, SameDevices, SamePlace, SameLone DEF laneFrame
  <2>2. \A i, d : ProjectorOn(i, d)' = ProjectorOn(i, d)
    BY <1>3, SameLone DEF laneFrame
  <2>3. ASSUME NEW d \in Devices, Lone(d)
        PROVE  work'.mem[d] >= Weights + PoolUnits(work'.pool)
    <3>1. work.mem[d] >= Weights + PoolUnits(work.pool) + (IF work.timed THEN Graph ELSE 0)
      BY <1>3, <2>3 DEF PriceInv, Costs
    <3>2. PoolUnits(work.pool) \in Nat /\ work.mem[d] \in Nat
      BY <1>1, LaneHas, PoolUnitsGrow
    <3> QED BY <1>3, <3>1, <3>2, UnitConstants
  <2>4. \A k \in Nat : Weights + PoolUnits(k) + 0 = Weights + PoolUnits(k)
    BY UnitConstants, PoolUnitsGrow
  <2>5. work'.pool \in Nat
    BY <1>1, <1>3, LaneHas
  <2>6. Costs'
    BY <1>3, <2>1, <2>2, <2>3, <2>4, <2>5
       DEF Costs, PriceInv, SameFrame, LoadSteps, Steps, BenchSteps
  <2>7. PinnedPool'
    BY <1>3, <2>1 DEF PinnedPool, PriceInv, SameFrame
  <2> QED BY <2>6, <2>7
<1>6. Measured' /\ PricedPoolFits'
  BY <1>3 DEF Measured, PricedPoolFits
<1> QED BY <1>1, <1>3, <1>4, <1>5, <1>6, PricedStep DEF LoadSteps, Steps, BenchSteps

\* What an undisturbed load took of its lone GPU is in the base price.
LEMMA PriceBasePriced ==
    ASSUME PriceInv, PriceBase
    PROVE  PriceInv'
<1> DEFINE base == GrowthBytes(Gauged(work.allowed), work.before, Reading)
<1>1. LaneInv /\ LaneInv'
  BY PriceBaseInv DEF PriceInv
<1>3. /\ work.at = "price" /\ work'.at = "probe" /\ SameFrame /\ used' = used
      /\ work'.mem = work.mem /\ work'.proj = work.proj /\ work'.pool = work.pool
      /\ work'.timed = work.timed /\ work'.prev = Reading /\ work'.base = base
      /\ work'.before = work.before /\ work'.quiet = work.quiet /\ work'.fits = work.fits
      /\ UNCHANGED <<laneFrame, models, queue, price>>
  BY <1>1, LaneHas DEF PriceBase, Goes, SameFrame, Locals
<1> HIDE DEF base
<1>4. Capped'
  BY <1>1, <1>3, NothingOn, CappedTaken DEF PriceInv, laneFrame
<1>5. Costs' /\ PinnedPool'
  <2>1. Devices' = Devices /\ MyDevices' = MyDevices /\ PoolPin' = PoolPin
        /\ (\A d : Lone(d)' = Lone(d))
    BY <1>3, SameDevices, SamePlace, SameLone DEF laneFrame
  <2>2. \A i, d : ProjectorOn(i, d)' = ProjectorOn(i, d)
    BY <1>3, SameLone DEF laneFrame
  <2>3. Costs'
    BY <1>3, <2>1, <2>2 DEF Costs, PriceInv, SameFrame, LoadSteps, Steps, BenchSteps
  <2>4. PinnedPool'
    BY <1>3, <2>1 DEF PinnedPool, PriceInv, SameFrame
  <2> QED BY <2>3, <2>4
<1>6. Measured' /\ PricedPoolFits'
  <2>1. Devices' = Devices /\ MyDevices' = MyDevices /\ PoolPin' = PoolPin
        /\ (\A d : Lone(d)' = Lone(d))
    BY <1>3, SameDevices, SamePlace, SameLone DEF laneFrame
  <2>2. \A i, d : ProjectorOn(i, d)' = ProjectorOn(i, d)
    BY <1>3, SameLone DEF laneFrame
  <2>3. ASSUME work.quiet, work.timed, NEW d \in Devices, Lone(d)
        PROVE  Covering(work.req.id, d, base, Slot)
    <3> DEFINE x == PoolUnits(work.pool)
               p == ProjectorOn(work.req.id, d)
    <3>1. base >= Reading[d] - work.before[d] /\ base \in Nat
      BY <1>1, <2>3, LaneHas, LoneIsGauged, GrowthOfOne DEF base
    <3>2. Reading[d] = used[d]
      BY <2>3 DEF Reading, Lone
    <3>3. used[d] = work.before[d] + work.mem[d] + work.proj[d]
      BY <1>3, <2>3 DEF PriceInv, Undisturbed, Lone, LoadSteps, Steps, BenchSteps
    <3>4. work.mem[d] >= Weights + x + Graph /\ work.proj[d] = p
      BY <1>3, <2>3 DEF PriceInv, Costs, LoadSteps, Steps, BenchSteps
    <3>5. x >= Slot + FirstExtra /\ x \in Nat
      <4>1. work.req.op = "modelbench"
        BY <1>3 DEF PriceInv, PinnedPool
      <4>2. PoolPin > 0
        BY <4>1 DEF PoolPin
      <4>3. work.pool > 0 /\ work.pool \in Nat
        BY <1>1, <1>3, <4>2, LaneHas DEF PriceInv, PinnedPool
      <4> QED BY <4>3, PoolUnitsGrow
    <3>6. work.before[d] \in Nat /\ work.mem[d] \in Nat /\ p \in Nat
      BY <1>1, LaneHas, ProjectorTyped DEF Units
    <3> HIDE DEF x, p
    <3>7. base >= Weights + p + Slot + FirstExtra + Graph
      BY <3>1, <3>2, <3>3, <3>4, <3>5, <3>6, UnitConstants
    <3> QED BY <3>7, UnitConstants DEF Covering, p
  <2>4. \A i, d, b, k : Covering(i, d, b, k)' = Covering(i, d, b, k)
    BY <2>2 DEF Covering
  <2>5. Measured'
    BY <1>3, <2>1, <2>3, <2>4 DEF Measured, SameFrame
  <2> QED BY <1>3, <2>5 DEF PricedPoolFits
<1>7. work.quiet => \A d \in Devices : backend[d] = "GPU" => work'.prev[d] = used'[d]
  BY <1>3 DEF Reading
<1> QED BY <1>1, <1>3, <1>4, <1>5, <1>6, <1>7, PricedStep DEF LoadSteps, Steps, BenchSteps

LEMMA ProbeSlotPriced ==
    ASSUME PriceInv, ProbeSlot
    PROVE  PriceInv'
<1> DEFINE cost == On(MyDevices, Slot)
<1>1. LaneInv /\ LaneInv'
  BY ProbeSlotInv DEF PriceInv
<1>2. cost \in Units /\ \A d \in Devices : cost[d] = IF d \in MyDevices THEN Slot ELSE 0
  BY UnitConstants, UnitsOn
<1>3. /\ work.at = "probe" /\ work'.at = "priced" /\ SameFrame
      /\ used' = Plus(used, cost) /\ Fits(cost)
      /\ work'.mem = Plus(work.mem, cost) /\ work'.proj = work.proj /\ work'.pool = work.pool
      /\ work'.timed = work.timed /\ work'.prev = work.prev /\ work'.base = work.base
      /\ work'.before = work.before /\ work'.quiet = work.quiet /\ work'.fits = work.fits
      /\ UNCHANGED <<laneFrame, models, queue, price>>
  BY <1>1, LaneHas DEF ProbeSlot, Goes, SameFrame, Locals
<1> HIDE DEF cost
<1>4. Capped'
  BY <1>1, <1>2, <1>3, CappedTaken DEF PriceInv, laneFrame
<1>5. Costs' /\ PinnedPool'
  <2>1. Devices' = Devices /\ MyDevices' = MyDevices /\ PoolPin' = PoolPin
        /\ (\A d : Lone(d)' = Lone(d))
    BY <1>3, SameDevices, SamePlace, SameLone DEF laneFrame
  <2>2. \A i, d : ProjectorOn(i, d)' = ProjectorOn(i, d)
    BY <1>3, SameLone DEF laneFrame
  <2>3. Costs'
    BY <1>3, <2>1, <2>2 DEF Costs, PriceInv, SameFrame, LoadSteps, Steps, BenchSteps
  <2>4. PinnedPool'
    BY <1>3, <2>1 DEF PinnedPool, PriceInv, SameFrame
  <2> QED BY <2>3, <2>4
<1>6. Measured' /\ PricedPoolFits'
  <2>1. Devices' = Devices /\ MyDevices' = MyDevices /\ PoolPin' = PoolPin
        /\ (\A d : Lone(d)' = Lone(d))
    BY <1>3, SameDevices, SamePlace, SameLone DEF laneFrame
  <2>2. \A i, d : ProjectorOn(i, d)' = ProjectorOn(i, d)
    BY <1>3, SameLone DEF laneFrame
  <2>3. \A i, d, b, k : Covering(i, d, b, k)' = Covering(i, d, b, k)
    BY <2>2 DEF Covering
  <2>4. Measured'
    BY <1>3, <2>1, <2>3 DEF Measured, PriceInv, SameFrame
  <2> QED BY <1>3, <2>4 DEF PricedPoolFits
<1>7. work.quiet => \A d \in Devices : backend[d] = "GPU" /\ Lone(d) => used'[d] = work'.prev[d] + Slot
  BY <1>1, <1>2, <1>3, LaneHas, UnitSums DEF PriceInv, Undisturbed, Lone
<1> QED BY <1>1, <1>3, <1>4, <1>5, <1>6, <1>7, PricedStep DEF LoadSteps, Steps, BenchSteps

LEMMA ProbeFailsPriced ==
    ASSUME PriceInv, ProbeFails
    PROVE  PriceInv'
<1>1. LaneInv /\ LaneInv'
  BY ProbeFailsInv DEF PriceInv
<1>3. /\ work.at = "probe" /\ work'.at = "benched" /\ SameFrame /\ used' = used
      /\ work'.mem = work.mem /\ work'.proj = work.proj /\ work'.pool = work.pool
      /\ work'.timed = work.timed /\ work'.base = work.base /\ work'.per = work.base
      /\ work'.before = work.before /\ work'.quiet = work.quiet /\ work'.fits = work.fits
      /\ UNCHANGED <<laneFrame, models, queue, price>>
  BY <1>1, LaneHas DEF ProbeFails, Goes, SameFrame, Locals
<1>4. Capped'
  BY <1>1, <1>3, NothingOn, CappedTaken DEF PriceInv, laneFrame
<1>5. Costs' /\ PinnedPool'
  <2>1. Devices' = Devices /\ MyDevices' = MyDevices /\ PoolPin' = PoolPin
        /\ (\A d : Lone(d)' = Lone(d))
    BY <1>3, SameDevices, SamePlace, SameLone DEF laneFrame
  <2>2. \A i, d : ProjectorOn(i, d)' = ProjectorOn(i, d)
    BY <1>3, SameLone DEF laneFrame
  <2>3. Costs'
    BY <1>3, <2>1, <2>2 DEF Costs, PriceInv, SameFrame, LoadSteps, Steps, BenchSteps
  <2>4. PinnedPool'
    BY <1>3, <2>1 DEF PinnedPool, PriceInv, SameFrame
  <2> QED BY <2>3, <2>4
<1>6. Measured' /\ PricedPoolFits'
  <2>1. Devices' = Devices /\ MyDevices' = MyDevices /\ PoolPin' = PoolPin
        /\ (\A d : Lone(d)' = Lone(d))
    BY <1>3, SameDevices, SamePlace, SameLone DEF laneFrame
  <2>2. \A i, d : ProjectorOn(i, d)' = ProjectorOn(i, d)
    BY <1>3, SameLone DEF laneFrame
  <2>3. ASSUME NEW d, Covering(work.req.id, d, work.base, Slot)
        PROVE  Covering(work.req.id, d, work.base, work.base)
    BY <1>1, <2>3, LaneHas, UnitConstants, ProjectorTyped DEF Covering
  <2>4. \A i, d, b, k : Covering(i, d, b, k)' = Covering(i, d, b, k)
    BY <2>2 DEF Covering
  <2>5. Measured'
    BY <1>3, <2>1, <2>3, <2>4 DEF Measured, PriceInv, SameFrame
  <2> QED BY <1>3, <2>5 DEF PricedPoolFits
<1> QED BY <1>1, <1>3, <1>4, <1>5, <1>6, PricedStep DEF LoadSteps, Steps, BenchSteps

LEMMA PriceSlotPriced ==
    ASSUME PriceInv, PriceSlot
    PROVE  PriceInv'
<1> DEFINE cost == On(MyDevices, Slot)
           per == GrowthBytes(Gauged(work.allowed), work.prev, Reading)
<1>1. LaneInv /\ LaneInv'
  BY PriceSlotInv DEF PriceInv
<1>2. cost \in Units
  BY UnitConstants, UnitsOn
<1>3. /\ work.at = "priced" /\ work'.at = "benched" /\ SameFrame
      /\ used' = Minus(used, cost)
      /\ work'.mem = Minus(work.mem, cost) /\ work'.proj = work.proj /\ work'.pool = work.pool
      /\ work'.timed = work.timed /\ work'.base = work.base /\ work'.per = per
      /\ work'.before = work.before /\ work'.quiet = work.quiet /\ work'.fits = work.fits
      /\ UNCHANGED <<laneFrame, models, queue, price>>
  BY <1>1, LaneHas DEF PriceSlot, Goes, SameFrame, Locals
<1> HIDE DEF cost, per
<1>4. Capped'
  BY <1>1, <1>2, <1>3, CappedTaken DEF PriceInv, laneFrame
<1>5. Costs' /\ PinnedPool'
  <2>1. Devices' = Devices /\ MyDevices' = MyDevices /\ PoolPin' = PoolPin
        /\ (\A d : Lone(d)' = Lone(d))
    BY <1>3, SameDevices, SamePlace, SameLone DEF laneFrame
  <2>2. \A i, d : ProjectorOn(i, d)' = ProjectorOn(i, d)
    BY <1>3, SameLone DEF laneFrame
  <2>3. Costs'
    BY <1>3, <2>1, <2>2 DEF Costs, PriceInv, SameFrame, LoadSteps, Steps, BenchSteps
  <2>4. PinnedPool'
    BY <1>3, <2>1 DEF PinnedPool, PriceInv, SameFrame
  <2> QED BY <2>3, <2>4
<1>6. Measured' /\ PricedPoolFits'
  <2>1. Devices' = Devices /\ MyDevices' = MyDevices /\ PoolPin' = PoolPin
        /\ (\A d : Lone(d)' = Lone(d))
    BY <1>3, SameDevices, SamePlace, SameLone DEF laneFrame
  <2>2. \A i, d : ProjectorOn(i, d)' = ProjectorOn(i, d)
    BY <1>3, SameLone DEF laneFrame
  <2>3. ASSUME work.quiet, work.timed, NEW d \in Devices, Lone(d)
        PROVE  Covering(work.req.id, d, work.base, per)
    <3>1. per >= Reading[d] - work.prev[d] /\ per \in Nat
      BY <1>1, <2>3, LaneHas, LoneIsGauged, GrowthOfOne DEF per
    <3>2. Reading[d] = used[d] /\ used[d] = work.prev[d] + Slot
      BY <1>3, <2>3 DEF Reading, Lone, PriceInv, Undisturbed
    <3>3. work.prev[d] \in Nat
      BY <1>1, LaneHas DEF Units
    <3>4. per >= Slot
      BY <3>1, <3>2, <3>3, UnitConstants
    <3>5. Covering(work.req.id, d, work.base, Slot)
      BY <1>3, <2>3 DEF PriceInv, Measured
    <3> QED BY <3>4, <3>5 DEF Covering
  <2>4. \A i, d, b, k : Covering(i, d, b, k)' = Covering(i, d, b, k)
    BY <2>2 DEF Covering
  <2>5. Measured'
    BY <1>3, <2>1, <2>3, <2>4 DEF Measured, SameFrame
  <2> QED BY <1>3, <2>5 DEF PricedPoolFits
<1> QED BY <1>1, <1>3, <1>4, <1>5, <1>6, PricedStep DEF LoadSteps, Steps, BenchSteps

\* A load begins: a price that fits leaves room for all the load will take.
LEMMA FetchEndsPriced ==
    ASSUME PriceInv, FetchEnds, ~models[work.req.id].loaded
    PROVE  PriceInv'
<1>1. LaneInv /\ LaneInv'
  BY FetchEndsInv DEF PriceInv
<1>2. /\ work.at = "fetch" /\ work'.at = "load" /\ work.req.op = "load" /\ SameFrame
      /\ used' = used /\ work'.mem = work.mem /\ work'.proj = work.proj
      /\ work'.before = Reading /\ work'.quiet = TRUE /\ work'.fits = Priced
      /\ UNCHANGED <<laneFrame, models, queue, price>>
  BY <1>1, LaneHas DEF FetchEnds, Goes, SameFrame, Locals
<1>3. Devices' = Devices /\ (\A d : Lone(d)' = Lone(d))
      /\ (\A i, d : ProjectorOn(i, d)' = ProjectorOn(i, d))
  BY <1>2, SameDevices, SameLone DEF laneFrame
<1>4. Capped'
  BY <1>1, <1>2, NothingOn, CappedTaken DEF PriceInv, laneFrame
<1>5. Costs' /\ PinnedPool' /\ Measured' /\ PricedPoolFits'
  BY <1>2 DEF Costs, PinnedPool, Measured, PricedPoolFits
<1>6. Undisturbed'
  <2>1. ASSUME NEW d \in Devices, backend[d] = "GPU"
        PROVE  used'[d] = work'.before[d] + work'.mem[d] + work'.proj[d]
    <3>1. work.mem[d] = 0 /\ work.proj[d] = 0
      BY <1>1, <1>2, NothingOn DEF LaneInv, HeldInPlace
    <3>2. work'.before[d] = used[d] /\ used[d] \in Nat
      BY <1>1, <1>2, <2>1, LaneHas DEF Reading
    <3> QED BY <1>2, <3>1, <3>2
  <2> QED BY <1>2, <1>3, <2>1 DEF Undisturbed, laneFrame
<1>7. RoomForAll'
  <2>1. ASSUME Priced PROVE \E d \in Devices : RoomOn(d)'
    <3> DEFINE p == price[work.req.id]
               hub == work.req.hub
    <3>1. /\ p.known /\ hub > 0 /\ p.devs = MyDevices
          /\ \E d \in MyDevices : /\ MyDevices = {d} /\ backend[d] = "GPU"
                                  /\ used[d] + p.base + hub * p.per <= Total
      BY <2>1 DEF Priced
    <3>2. PICK d \in MyDevices : /\ MyDevices = {d} /\ backend[d] = "GPU"
                                 /\ used[d] + p.base + hub * p.per <= Total
      BY <3>1
    <3>3. d \in Devices /\ work.req.id \in Ids /\ hub \in Nat
      BY <1>1, LaneHas, RequestTyped
    <3>4. Covering(work.req.id, d, p.base, p.per)
      BY <3>1, <3>2, <3>3 DEF PriceInv, PricesCover
    <3> DEFINE base == p.base
               per == p.per
               proj == ProjectorOn(work.req.id, d)
    <3>5. base \in Nat /\ per \in Nat /\ proj \in Nat /\ used[d] \in Nat
      BY <1>1, <3>3, LaneHas, ProjectorTyped DEF TypeOK
    <3>6. base >= Weights + proj + Slot + FirstExtra + Graph /\ per >= Slot
      BY <3>4 DEF Covering
    <3>7. used[d] + base + hub * per <= Total
      BY <3>2
    <3>8. Reading[d] = used[d]
      BY <3>2, <3>3 DEF Reading
    <3> HIDE DEF p, base, per, proj, hub
    <3>9. hub * per >= hub * Slot /\ hub * per \in Nat /\ hub * Slot \in Nat
      BY <3>3, <3>5, <3>6, UnitConstants
    <3>10. used[d] + Weights + proj + FirstExtra + hub * Slot <= Total
      <4> DEFINE x == hub * per
                 y == hub * Slot
      <4>1. x >= y /\ x \in Nat /\ y \in Nat /\ used[d] + base + x <= Total
        BY <3>7, <3>9
      <4> HIDE DEF x, y
      <4>2. used[d] + Weights + proj + FirstExtra + y <= Total
        BY <3>5, <3>6, <4>1, UnitConstants
      <4> QED BY <4>2 DEF y
    <3>11. RoomOn(d)'
      BY <1>2, <1>3, <3>1, <3>2, <3>8, <3>10 DEF RoomOn, Lone, SameFrame, hub, proj
    <3> QED BY <3>3, <3>11
  <2> QED BY <1>2, <1>3, <2>1 DEF RoomForAll, LoadSteps, Steps, BenchSteps
<1> QED BY <1>1, <1>2, <1>4, <1>5, <1>6, <1>7, SamePrices DEF PriceInv, laneFrame

LEMMA BenchFetchEndsPriced ==
    ASSUME PriceInv, BenchFetchEnds
    PROVE  PriceInv'
<1>1. LaneInv /\ LaneInv'
  BY BenchFetchEndsInv DEF PriceInv
<1>2. /\ work.at = "fetch" /\ work'.at = "load" /\ SameFrame
      /\ used' = used /\ work'.mem = work.mem /\ work'.proj = work.proj
      /\ work'.before = Reading /\ work'.quiet = TRUE /\ work'.fits = work.fits
      /\ UNCHANGED <<laneFrame, models, queue, price>>
  BY <1>1, LaneHas DEF BenchFetchEnds, Goes, SameFrame, Locals
<1>3. Devices' = Devices
  BY <1>2, SameDevices DEF laneFrame
<1>4. Capped'
  BY <1>1, <1>2, NothingOn, CappedTaken DEF PriceInv, laneFrame
<1>5. Costs' /\ PinnedPool' /\ Measured' /\ PricedPoolFits'
  BY <1>2 DEF Costs, PinnedPool, Measured, PricedPoolFits
<1>6. Undisturbed'
  <2>1. ASSUME NEW d \in Devices, backend[d] = "GPU"
        PROVE  used'[d] = work'.before[d] + work'.mem[d] + work'.proj[d]
    <3>1. work.mem[d] = 0 /\ work.proj[d] = 0
      BY <1>1, <1>2, NothingOn DEF LaneInv, HeldInPlace
    <3>2. work'.before[d] = used[d] /\ used[d] \in Nat
      BY <1>1, <1>2, <2>1, LaneHas DEF Reading
    <3> QED BY <1>2, <3>1, <3>2
  <2> QED BY <1>2, <1>3, <2>1 DEF Undisturbed, laneFrame
<1>7. RoomForAll'
  <2>1. ~work.fits
    BY <1>2 DEF PriceInv, RoomForAll, LoadSteps, Steps, BenchSteps
  <2> QED BY <1>2, <2>1 DEF RoomForAll
<1> QED BY <1>1, <1>2, <1>4, <1>5, <1>6, <1>7, SamePrices DEF PriceInv, laneFrame

\* A step that ends outside a load has nothing to say of one.
LEMMA NoLoadPriced ==
    ASSUME LaneInv', Capped', PricesCover', work'.at \notin LoadSteps, ~work'.fits
    PROVE  PriceInv'
<1>1. Costs' /\ PinnedPool' /\ Undisturbed' /\ Measured'
  BY DEF Costs, PinnedPool, Undisturbed, Measured, LoadSteps, Steps, BenchSteps
<1>2. RoomForAll' /\ PricedPoolFits'
  BY DEF RoomForAll, PricedPoolFits
<1> QED BY <1>1, <1>2 DEF PriceInv

LEMMA OverPriced ==
    ASSUME PriceInv, Finished
    PROVE  PriceInv'
<1>1. LaneInv /\ LaneInv'
  BY FinishedInv DEF PriceInv
<1>2. Held \in Units
  BY <1>1, LaneHas, HeldTyped DEF HeldIsTyped
<1>3. Capped'
  BY <1>1, <1>2, CappedTaken DEF PriceInv, Finished, laneFrame
<1>4. PricesCover'
  BY SamePrices DEF PriceInv, Finished, laneFrame
<1>5. work'.at = "idle" /\ ~work'.fits
  BY DEF Finished, Idle
<1> QED BY <1>1, <1>3, <1>4, <1>5, NoLoadPriced DEF LoadSteps

\* A price becomes known that covers the load that was measured.
LEMMA ReplyPriced ==
    ASSUME PriceInv, ReplyModelBenchmark
    PROVE  PriceInv'
<1>1. LaneInv /\ LaneInv'
  BY ReplyModelBenchmarkInv DEF PriceInv
<1>2. /\ work.at = "benched" /\ work' = Idle /\ used' = Minus(used, Held)
      /\ UNCHANGED <<laneFrame, models, queue>>
  BY DEF ReplyModelBenchmark
<1>3. Held \in Units
  BY <1>1, LaneHas, HeldTyped DEF HeldIsTyped
<1>4. Capped'
  BY <1>1, <1>2, <1>3, CappedTaken DEF PriceInv, laneFrame
<1>5. Devices' = Devices /\ GpuWalk' = GpuWalk
  BY <1>2, SameDevices DEF laneFrame
<1>6. \A i, d, b, p : Covering(i, d, b, p)' = Covering(i, d, b, p)
  BY <1>5 DEF Covering, ProjectorOn
<1>7. PricesCover'
  <2>1. CASE ~work.timed
    <3>1. price' = price
      BY <2>1 DEF ReplyModelBenchmark
    <3> QED BY <1>2, <3>1, SamePrices DEF PriceInv, laneFrame
  <2>2. CASE work.timed
    <3> DEFINE new == [known |-> work.quiet, base |-> work.base, per |-> work.per,
                       devs |-> MyDevices]
    <3>1. price' = [price EXCEPT ![work.req.id] = new]
      BY <2>2 DEF ReplyModelBenchmark
    <3>2. price \in [Ids -> [known : BOOLEAN, base : Nat, per : Nat, devs : SUBSET Devices]]
      BY <1>1, LaneHas DEF TypeOK
    <3>3. ASSUME NEW i \in Ids, NEW d \in Devices, price'[i].known, price'[i].devs = {d},
                 backend[d] = "GPU"
          PROVE  Covering(i, d, price'[i].base, price'[i].per)
      <4>1. CASE i = work.req.id
        <5>1. price'[i] = new
          BY <3>1, <3>2, <4>1
        <5>2. work.quiet /\ Lone(d) /\ price'[i].base = work.base /\ price'[i].per = work.per
          BY <3>3, <5>1 DEF Lone
        <5> QED BY <1>2, <2>2, <4>1, <5>2 DEF PriceInv, Measured
      <4>2. CASE i # work.req.id
        <5>1. price'[i] = price[i]
          BY <3>1, <3>2, <4>2
        <5> QED BY <3>3, <5>1 DEF PriceInv, PricesCover
      <4> QED BY <4>1, <4>2
    <3> QED BY <1>2, <1>5, <1>6, <3>3 DEF PricesCover, laneFrame
  <2> QED BY <2>1, <2>2
<1>8. work'.at = "idle" /\ ~work'.fits
  BY <1>2 DEF Idle
<1> QED BY <1>1, <1>4, <1>7, <1>8, NoLoadPriced DEF LoadSteps

LEMMA RegisterPriced ==
    ASSUME PriceInv, Register
    PROVE  PriceInv'
<1>1. LaneInv /\ LaneInv'
  BY RegisterInv DEF PriceInv
<1>2. Capped' /\ PricesCover'
  BY <1>1, NothingOn, CappedTaken, SamePrices DEF PriceInv, Register, laneFrame
<1>3. work'.at = "idle" /\ ~work'.fits
  BY DEF Register, Idle
<1> QED BY <1>1, <1>2, <1>3, NoLoadPriced DEF LoadSteps

LEMMA TakesPriced ==
    ASSUME PriceInv, TakeLoad \/ TakeModelBenchmark \/ TakeBenchmark
    PROVE  PriceInv'
<1>1. LaneInv /\ LaneInv'
  BY TakeModelFrameInv, TakeBenchmarkInv DEF PriceInv, TakeLoad, TakeModelBenchmark
<1>2. UNCHANGED <<laneFrame, used, models, price>>
  BY DEF TakeLoad, TakeModelBenchmark, TakeModelFrame, TakeBenchmark
<1>3. Capped' /\ PricesCover'
  BY <1>1, <1>2, NothingOn, CappedTaken, SamePrices DEF PriceInv, laneFrame
<1>4. work'.at \in {"idle", "fetch", "device"} /\ ~work'.fits
  <2>1. Idle.at = "idle" /\ ~Idle.fits /\ Idle \in Locals
    BY <1>1, IdleTyped, LaneHas DEF Idle
  <2>2. ASSUME NEW op, TakeModelFrame(op) PROVE work'.at \in {"idle", "fetch"} /\ ~work'.fits
    BY <2>1, <2>2 DEF TakeModelFrame, Locals
  <2>3. ASSUME TakeBenchmark PROVE work'.at = "device" /\ ~work'.fits
    BY <2>1, <2>3 DEF TakeBenchmark, Locals
  <2> QED BY <2>2, <2>3 DEF TakeLoad, TakeModelBenchmark
<1> QED BY <1>1, <1>3, <1>4, NoLoadPriced DEF LoadSteps, BenchSteps

LEMMA BenchPriced ==
    ASSUME PriceInv, NextDevice \/ StartPhase \/ PhaseFails \/ EndPhase \/ EndLoadPhase
    PROVE  PriceInv'
<1>1. LaneInv /\ LaneInv'
  BY NextDeviceInv, StartPhaseInv, OutcomeInv, EndPhaseInv DEF PriceInv
<1>2. /\ UNCHANGED <<laneFrame, models, queue, price>>
      /\ work.at \in BenchSteps /\ work'.at \in BenchSteps /\ work'.fits = work.fits
  BY <1>1, LaneHas
     DEF NextDevice, StartPhase, PhaseFails, EndPhase, EndLoadPhase, Concludes, Goes, Locals,
         BenchSteps
<1>3. Capped'
  <2> DEFINE cost == On({ThisDevice}, Scratch)
  <2>1. cost \in Units /\ work.mem \in Units
    BY <1>1, UnitConstants, UnitsOn, LaneHas
  <2>2. \/ used' = used
        \/ used' = Plus(used, cost) /\ Fits(cost)
        \/ used' = Minus(used, work.mem)
    BY DEF NextDevice, StartPhase, PhaseFails, EndPhase, EndLoadPhase, Concludes, Goes
  <2> HIDE DEF cost
  <2> QED BY <1>1, <1>2, <2>1, <2>2, CappedTaken DEF PriceInv, laneFrame
<1>4. PricesCover'
  BY <1>2, SamePrices DEF PriceInv, laneFrame
<1>5. ~work.fits
  BY <1>2 DEF PriceInv, RoomForAll, LoadSteps
<1> QED BY <1>1, <1>2, <1>3, <1>4, <1>5, NoLoadPriced DEF LoadSteps

LEMMA LanePriced ==
    ASSUME PriceInv, Lane
    PROVE  PriceInv'
<1>1. CASE TakeLoad \/ TakeModelBenchmark \/ TakeBenchmark
  BY <1>1, TakesPriced
<1>2. CASE FetchAbandoned \/ FetchFails \/ LoadFails \/ NoRoom \/ PayloadFails \/ PayloadAbandoned
           \/ ReplyBenchmark
  BY <1>2, OverPriced
     DEF FetchAbandoned, FetchFails, LoadFails, NoRoom, PayloadFails, PayloadAbandoned,
         ReplyBenchmark
<1>3. CASE FetchEnds
  <2>1. CASE models[work.req.id].loaded
    BY <1>3, <2>1, OverPriced DEF FetchEnds
  <2> QED BY <1>3, <2>1, FetchEndsPriced
<1>4. CASE BenchFetchEnds
  BY <1>4, BenchFetchEndsPriced
<1>5. CASE LoadWeights \/ LoadProjector
  BY <1>5, LoadWeightsPriced, LoadProjectorPriced
<1>6. CASE StartGrowth \/ PredictSlot \/ AllocSlot \/ AllocFails \/ RecordSlot
  BY <1>6, StartGrowthPriced, PredictSlotPriced, AllocSlotPriced, AllocFailsPriced,
     RecordSlotPriced
<1>7. CASE Register
  BY <1>7, RegisterPriced
<1>8. CASE PayloadEnds \/ Calibrate \/ CalibrationFails
  BY <1>8, PayloadEndsPriced, CalibratePriced, CalibrationFailsPriced
<1>9. CASE PriceBase \/ ProbeSlot \/ ProbeFails \/ PriceSlot
  BY <1>9, PriceBasePriced, ProbeSlotPriced, ProbeFailsPriced, PriceSlotPriced
<1>10. CASE ReplyModelBenchmark
  BY <1>10, ReplyPriced
<1>11. CASE NextDevice \/ StartPhase \/ PhaseFails \/ EndPhase \/ EndLoadPhase
  BY <1>11, BenchPriced
<1> QED BY <1>1, <1>2, <1>3, <1>4, <1>5, <1>6, <1>7, <1>8, <1>9, <1>10, <1>11 DEF Lane

\* Memory that moves beside the lane ends the history its prices rest on.
LEMMA BesidePriced ==
    ASSUME PriceInv, UNCHANGED <<backend, price>>,
           LaneInv', Capped', work'.req = work.req, work'.allowed = work.allowed,
           work'.at = work.at, work'.mem = work.mem, work'.proj = work.proj,
           work'.pool = work.pool, work'.prev = work.prev, work'.before = work.before,
           work'.base = work.base, work'.per = work.per, work'.timed = work.timed,
           work'.fits = work.fits,
           work'.quiet => work.quiet /\ (used' = used \/ work.at = "idle")
    PROVE  PriceInv'
<1>1. Devices' = Devices /\ MyDevices' = MyDevices /\ PoolPin' = PoolPin
      /\ (\A d : Lone(d)' = Lone(d))
  BY SameDevices, PlacingKept, LoneKept
<1>2. \A i, d : ProjectorOn(i, d)' = ProjectorOn(i, d)
  BY LoneKept
<1>3. \A i, d, b, p : Covering(i, d, b, p)' = Covering(i, d, b, p)
  BY <1>2 DEF Covering
<1>4. Costs'
  BY <1>1, <1>2 DEF Costs, PriceInv
<1>5. PinnedPool'
  BY <1>1 DEF PinnedPool, PriceInv
<1>6. Undisturbed'
  <2>1. CASE work.at = "idle"
    BY <2>1 DEF Undisturbed, LoadSteps, BenchSteps
  <2>2. CASE work.at # "idle"
    BY <1>1, <2>2 DEF Undisturbed, PriceInv
  <2> QED BY <2>1, <2>2
<1>7. Measured'
  BY <1>1, <1>3 DEF Measured, PriceInv
<1>8. RoomForAll'
  <2>1. \A d \in Devices : RoomOn(d) => RoomOn(d)'
    BY <1>1, <1>2 DEF RoomOn
  <2> QED BY <1>1, <2>1 DEF RoomForAll, PriceInv
<1>9. PricedPoolFits'
  BY DEF PricedPoolFits, PriceInv
<1> QED BY <1>4, <1>5, <1>6, <1>7, <1>8, <1>9, SamePrices DEF PriceInv

LEMMA OutsidePriced ==
    ASSUME PriceInv, NEW i \in Ids, Unload(i) \/ LastJobEnds(i) \/ StartJob(i)
    PROVE  PriceInv'
<1>1. LaneInv /\ LaneInv'
  BY UnloadInv, LastJobEndsInv, StartJobInv DEF PriceInv
<1> DEFINE cost == On(models[i].on, Graph)
<1>2. cost \in Units /\ models[i].mem \in Units /\ dying[i] \in Units
  BY <1>1, UnitConstants, UnitsOn, RegistryHas
<1>3. /\ UNCHANGED <<backend, price>>
      /\ (work' = work /\ used' = used) \/ work' = Disturbed
      /\ \/ used' = used
         \/ used' = Plus(used, cost) /\ Fits(cost)
         \/ used' = Minus(used, models[i].mem)
         \/ used' = Minus(used, dying[i])
  BY DEF Unload, LastJobEnds, StartJob
<1> HIDE DEF cost
<1>4. Capped'
  <2>1. CASE used' = Minus(used, dying[i])
    BY <1>1, <1>2, <1>3, <2>1, CappedTaken DEF PriceInv
  <2>2. CASE used' = Minus(used, models[i].mem)
    BY <1>1, <1>2, <1>3, <2>2, CappedTaken DEF PriceInv
  <2>3. CASE used' = used \/ (used' = Plus(used, cost) /\ Fits(cost))
    BY <1>1, <1>2, <1>3, <2>3, CappedTaken DEF PriceInv
  <2> QED BY <1>3, <2>1, <2>2, <2>3
<1>5. work' = Disturbed \/ work' = work
  BY <1>3
<1>6. /\ work'.req = work.req /\ work'.allowed = work.allowed /\ work'.at = work.at /\ work'.mem = work.mem /\ work'.proj = work.proj
      /\ work'.pool = work.pool /\ work'.prev = work.prev /\ work'.before = work.before
      /\ work'.base = work.base /\ work'.per = work.per /\ work'.timed = work.timed
      /\ work'.fits = work.fits
  BY <1>1, <1>5, LaneHas DEF Disturbed, Locals
<1>7. work'.quiet => work.quiet /\ (used' = used \/ work.at = "idle")
  BY <1>1, <1>3, DisturbedSame
<1> QED BY <1>1, <1>3, <1>4, <1>6, <1>7, BesidePriced

LEMMA SessionPriced ==
    ASSUME PriceInv,
           \/ EndSession \/ BeginSession \/ UNCHANGED vars
           \/ \E i \in Ids : EndJob(i)
           \/ \E r \in Requests : Receive(r)
    PROVE  PriceInv'
<1>1. LaneInv /\ LaneInv'
  BY LaneNext DEF PriceInv, Next
<1>2. UNCHANGED <<backend, used, work, price>>
  BY DEF EndSession, BeginSession, EndJob, Receive, vars
<1>3. Capped'
  BY <1>1, <1>2, NothingOn, CappedTaken DEF PriceInv
<1> QED BY <1>1, <1>2, <1>3, BesidePriced

LEMMA SetEnabledPriced ==
    ASSUME PriceInv, NEW e \in EnabledSets, SetEnabled(e)
    PROVE  PriceInv'
<1>1. LaneInv /\ LaneInv'
  BY SetEnabledInv DEF PriceInv
<1> DEFINE gpus == IF work.at = "idle" THEN {} ELSE work.gpus \cup EnabledGpus(e)
<1>2. UNCHANGED <<backend, used, models, dying, price>> /\ work' = [work EXCEPT !.gpus = gpus]
  BY <1>1, LaneHas DEF SetEnabled, Locals
<1> HIDE DEF gpus
<1>3. /\ work'.req = work.req /\ work'.allowed = work.allowed
      /\ work'.at = work.at /\ work'.mem = work.mem /\ work'.proj = work.proj
      /\ work'.pool = work.pool /\ work'.prev = work.prev /\ work'.before = work.before
      /\ work'.base = work.base /\ work'.per = work.per /\ work'.timed = work.timed
      /\ work'.fits = work.fits /\ work'.quiet = work.quiet
  BY <1>1, <1>2, LaneHas DEF Locals
<1>4. Capped'
  BY <1>1, <1>2, NothingOn, CappedTaken DEF PriceInv
<1> QED BY <1>1, <1>2, <1>3, <1>4, BesidePriced

LEMMA PriceStart ==
    ASSUME Init
    PROVE  PriceInv
<1>1. LaneInv
  BY LaneStart
<1>2. Capped
  BY UnitConstants, NothingOn DEF Init, Capped
<1>3. Costs /\ PinnedPool /\ Undisturbed /\ Measured
  BY DEF Init, Idle, Costs, PinnedPool, Undisturbed, Measured, LoadSteps, BenchSteps
<1>4. PricesCover
  BY DEF Init, Unpriced, PricesCover
<1>5. RoomForAll /\ PricedPoolFits
  BY DEF Init, Idle, RoomForAll, PricedPoolFits
<1> QED BY <1>1, <1>2, <1>3, <1>4, <1>5 DEF PriceInv

\* The invariant of the loads and of the prices holds in every state of the program.
THEOREM PriceInvariant == Spec => []PriceInv
<1>1. Init => PriceInv
  BY PriceStart
<1>2. ASSUME PriceInv, [Next]_vars PROVE PriceInv'
  <2>1. CASE Lane
    BY <1>2, <2>1, LanePriced
  <2>2. CASE EndSession \/ BeginSession \/ UNCHANGED vars
    BY <1>2, <2>2, SessionPriced
  <2>3. CASE \E i \in Ids : EndJob(i)
    BY <1>2, <2>3, SessionPriced
  <2>4. CASE \E r \in Requests : Receive(r)
    BY <1>2, <2>4, SessionPriced
  <2>5. CASE \E e \in EnabledSets : SetEnabled(e)
    BY <1>2, <2>5, SetEnabledPriced
  <2>6. CASE \E i \in Ids : Unload(i) \/ LastJobEnds(i) \/ StartJob(i)
    BY <1>2, <2>6, OutsidePriced
  <2> QED BY <1>2, <2>1, <2>2, <2>3, <2>4, <2>5, <2>6 DEF Next
<1>3. PriceInv /\ [Next]_vars => PriceInv'
  BY <1>2
<1> QED BY <1>1, <1>3, PTL DEF Spec

\* A pool whose price fitted gets all the contexts the hub asked for, whatever its
\* sizes: no load on a quiet machine finds less room than its benchmark said
\* (probe_model_bench, ctx_pool.hpp:111-113).
THEOREM PricesSuffice == Spec => []PricedPoolFits
<1>1. PriceInv => PricedPoolFits
  BY DEF PriceInv
<1> QED BY <1>1, PriceInvariant, PTL
====
