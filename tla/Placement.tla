------------------------------ MODULE Placement ------------------------------
(***************************************************************************)
(* The work of the control lane on the devices: which devices a load may   *)
(* occupy (src/worker_service.cpp), how a context pool grows               *)
(* (src/ctx_pool.cpp), the loads of both kinds of model                    *)
(* (src/chat_model.cpp, src/embedding_model.cpp), the benchmark of a model *)
(* and the benchmark of a device (src/bench.cpp).                          *)
(*                                                                         *)
(* One thread executes these frames in the order they came; meanwhile the  *)
(* receive thread changes the enabled devices and unloads models, and jobs *)
(* on resident models take and give back memory.  Memory is counted in     *)
(* units and what llama.cpp and ggml do with it is marked external.        *)
(***************************************************************************)
EXTENDS Integers, Sequences, FiniteSets, FiniteSetsExt, SequencesExt

CONSTANTS
    Backends,     \* the device lists ggml may enumerate, sequences of Types
    Ids,          \* model ids
    Weights,      \* units a model's weights take of each device it is placed on
    Vision,       \* the models with a projector
    Projector,    \* units a projector takes
    Slot,         \* units a further context takes
    FirstExtra,   \* units the first context takes beyond that
    Graph,        \* units the first decode commits
    Scratch,      \* units a device benchmark takes
    Total,        \* units of a GPU
    HeadroomPct,  \* vram_headroom_pct, after the clamp to 1 .. 100
    EnabledSets,  \* what SetEnabledDevices may carry
    Requests,     \* what the hub may ask of the control lane
    MaxFrames,    \* bound: frames of the control lane
    MaxQueue,     \* bound: frames that wait at once
    MaxSets,      \* bound: changes of the enabled devices
    MaxPool       \* bound: contexts a pool gets on devices that never fill

\* MUTE: a GPU whose backend reports no memory; ACCEL: a device of no placement.
Types == {"CPU", "GPU", "MUTE", "ACCEL"}
DeviceIds == {<<"cpu", 0>>} \cup ({"gpu"} \X Nat)

ASSUME BackendsAssumption == Backends \subseteq Seq(Types)
ASSUME IdsAssumption == IsFiniteSet(Ids) /\ Ids # {}
ASSUME VisionAssumption == Vision \subseteq Ids
ASSUME UnitsAssumption ==
    /\ {Weights, Projector, Slot, FirstExtra, Graph, Scratch, Total} \subseteq Nat
    /\ HeadroomPct \in 1 .. 100 /\ {MaxFrames, MaxQueue, MaxSets, MaxPool} \subseteq Nat
ASSUME EnabledAssumption == EnabledSets \subseteq [all : BOOLEAN, ids : SUBSET DeviceIds]
ASSUME RequestsAssumption ==
    Requests \subseteq [op : {"load", "modelbench", "bench"}, id : Ids, hub : Nat,
                        hints : Nat, layers : Int, dev : DeviceIds \cup {<<>>}]

VARIABLES
    backend,    \* the devices of this machine, in ggml's order
    enabled,    \* enabled_devices_; all: nullopt
    used,       \* memory in use on each device
    models,     \* the registry: what each resident model holds
    dying,      \* what an unloaded model holds while its last job runs
    busy,       \* models with a job running
    queue,      \* frames of the control lane, each with the GPUs enabled since it came
    work,       \* the frame the lane executes
    price,      \* the hub's: what the last benchmark of each model measured
    open,       \* session_open_ and not stopping_
    frames, sets \* bounds

vars == <<backend, enabled, used, models, dying, busy, queue, work, price, open, frames, sets>>

Devices == DOMAIN backend
Nothing == [d \in Devices |-> 0]
Plus(m, n) == [d \in Devices |-> m[d] + n[d]]
Minus(m, n) == [d \in Devices |-> m[d] - n[d]]
On(ds, n) == [d \in Devices |-> IF d \in ds THEN n ELSE 0]

-----------------------------------------------------------------------------
(* Devices and their names.                                                *)

IsGpu(d) == backend[d] \in {"GPU", "MUTE"}

\* The walk over ggml's devices, which keeps those of some types.
Walk(types) ==
    LET kept[n \in 0 .. Len(backend)] ==
            IF n = 0 THEN <<>>
            ELSE IF backend[n] \in types THEN Append(kept[n - 1], n) ELSE kept[n - 1]
    IN kept[Len(backend)]

\* gpu:N is the one at place N + 1.
GpuWalk == Walk({"GPU", "MUTE"})
CpuWalk == Walk({"CPU"})

\* Hardware::Hardware: the host CPU always, then the GPUs.
HardwareIds == <<<<"cpu", 0>>>> \o [i \in DOMAIN GpuWalk |-> <<"gpu", i - 1>>]

\* bench.cpp's resolve_device: the device an id names, 0 for none.
ResolveDevice(id) ==
    CASE id = <<"cpu", 0>> -> IF CpuWalk = <<>> THEN 0 ELSE Head(CpuWalk)
      [] id # <<>> /\ id[1] = "gpu" -> IF id[2] < Len(GpuWalk) THEN GpuWalk[id[2] + 1] ELSE 0
      [] OTHER -> 0

\* enabled_placement_ids: the CPU only when no GPU made the set.
EnabledPlacementIds(e) ==
    LET gpus == {<<"gpu", i - 1>> : i \in DOMAIN GpuWalk}
        wanted == IF e.all THEN gpus ELSE gpus \cap e.ids
    IN CASE wanted # {} -> wanted
         [] wanted = {} /\ CpuWalk # <<>> /\ (e.all \/ <<"cpu", 0>> \in e.ids) -> {<<"cpu", 0>>}
         [] OTHER -> {}

\* Mutant: the devices stay empty, which llama.cpp takes for all of them.
UnrestrictedDevices(e) == {}

\* allowed_load_devices: empty, which llama.cpp takes for all, when nothing is
\* restricted; otherwise the devices of the ids.
AllowedLoadDevices(e) ==
    IF e.all THEN {}
    ELSE {IF id = <<"cpu", 0>> THEN Last(CpuWalk) ELSE GpuWalk[id[2] + 1] :
             id \in EnabledPlacementIds(e)}

\* to_llama_gpu_layers: 0 on the wire is all of them and -1 is none, which for
\* llama.cpp is -1 and 0.
LlamaGpuLayers(wire) ==
    CASE wire = 0  -> -1
      [] wire = -1 -> 0
      [] OTHER     -> wire

\* llama.cpp's placement: where the bytes of a model go (external).
Occupied(allowed, cpuOnly) ==
    CASE cpuOnly -> ToSet(CpuWalk)
      [] ~cpuOnly /\ allowed # {} -> allowed
      [] ~cpuOnly /\ allowed = {} -> IF GpuWalk # <<>> THEN ToSet(GpuWalk) ELSE ToSet(CpuWalk)

\* gpu_usable: whether a projector asks for a GPU.
GpuUsable(allowed) ==
    IF allowed # {} THEN \E d \in allowed : IsGpu(d) ELSE GpuWalk # <<>>

\* mtmd's placement of a projector that asks for a GPU: the first one, it is
\* told of no whitelist (external).
ProjectorDevices(allowed) ==
    IF GpuUsable(allowed) THEN {Head(GpuWalk)} ELSE ToSet(CpuWalk)

-----------------------------------------------------------------------------
(* Memory: what a backend reports (external), and the watermark.           *)

\* A CPU reports all its memory as free, a MUTE device none at all.
Reports(d) == backend[d] \in {"CPU", "GPU"}
Reading == [d \in Devices |-> IF backend[d] = "GPU" THEN used[d] ELSE 0]

\* An allocation on a GPU fails when it does not fit.
Fits(m) == \A d \in Devices : backend[d] = "GPU" => used[d] + m[d] <= Total

\* memory_tracked_devices.
MemoryTracked(allowed) == IF allowed # {} THEN allowed ELSE ToSet(GpuWalk)
Gauged(allowed) == {d \in MemoryTracked(allowed) : Reports(d)}

Crosses(n) == n * 100 >= HeadroomPct * Total

\* Mutant: the next context is assumed to be free.
PredictNothing(ds, cur, worst) == FALSE

\* CtxPoolHeadroom::predict: the worst growth seen on any device, once more.
Predicted(ds, cur, worst) == \E d \in ds : worst[d] > 0 /\ Crosses(cur[d] + worst[d])

\* CtxPoolHeadroom::record, its deltas and its own stop.
WorstDelta(ds, prev, cur, worst) ==
    [d \in Devices |-> IF d \in ds THEN Max({worst[d], cur[d] - prev[d]}) ELSE worst[d]]
Reached(ds, cur) == \E d \in ds : Crosses(cur[d])

\* growth_bytes: the growth of every device that reports, as one number.
GrowthBytes(ds, before, after) ==
    SumFunction([d \in ds |-> Max({0, after[d] - before[d]})])

-----------------------------------------------------------------------------
(* The state.                                                              *)

NoRequest == [op |-> "load", id |-> CHOOSE i \in Ids : TRUE, hub |-> 0, hints |-> 0,
              layers |-> 0, dev |-> <<>>]

\* The locals of the frame in execution.  quiet: history, nobody else's memory
\* changed since it began; fits: history, the hub's price said the pool fits.
Idle == [at |-> "idle", req |-> NoRequest, gpus |-> {}, allowed |-> {}, mem |-> Nothing,
         proj |-> Nothing, pool |-> 0, prev |-> Nothing, worst |-> Nothing,
         before |-> Nothing, base |-> 0, per |-> 0, timed |-> FALSE,
         todo |-> <<>>, done |-> {}, errors |-> {}, phase |-> 0,
         quiet |-> TRUE, fits |-> FALSE]

NotLoaded == [loaded |-> FALSE, mem |-> Nothing, on |-> {}, pool |-> 0, warm |-> FALSE]
Unpriced == [known |-> FALSE, base |-> 0, per |-> 0, devs |-> {}]

\* The GPUs an operator's set names, by the ids of the registration.
EnabledGpus(e) == {d \in ToSet(GpuWalk) :
                      e.all \/ \E i \in DOMAIN GpuWalk : GpuWalk[i] = d /\ <<"gpu", i - 1>> \in e.ids}

Init ==
    /\ backend \in Backends
    /\ enabled = [all |-> TRUE, ids |-> {}]
    /\ used = Nothing /\ queue = <<>> /\ work = Idle /\ open = TRUE
    /\ models = [i \in Ids |-> NotLoaded] /\ dying = [i \in Ids |-> Nothing]
    /\ busy = {} /\ price = [i \in Ids |-> Unpriced]
    /\ frames = 0 /\ sets = 0

-----------------------------------------------------------------------------
(* The receive thread, and the jobs on resident models.                    *)

\* history: memory that is not the lane's changed.
Disturbed == IF work.at = "idle" THEN work ELSE [work EXCEPT !.quiet = FALSE]

Receive(r) ==
    /\ open /\ frames < MaxFrames /\ Len(queue) < MaxQueue /\ frames' = frames + 1
    /\ queue' = Append(queue, [req |-> r, gpus |-> EnabledGpus(enabled)])
    /\ UNCHANGED <<backend, enabled, used, models, dying, busy, work, price, open, sets>>

\* set_enabled_devices, executed as it arrives.
SetEnabled(e) ==
    /\ open /\ sets < MaxSets /\ sets' = sets + 1
    /\ enabled' = e
    /\ queue' = [i \in DOMAIN queue |-> [queue[i] EXCEPT !.gpus = @ \cup EnabledGpus(e)]]
    /\ work' = [work EXCEPT !.gpus = IF work.at = "idle" THEN {} ELSE @ \cup EnabledGpus(e)]
    /\ UNCHANGED <<backend, used, models, dying, busy, price, open, frames>>

\* UnloadModel drops the registry's reference: the memory goes with the last job.
Unload(i) ==
    /\ open /\ models[i].loaded /\ dying[i] = Nothing
    /\ models' = [models EXCEPT ![i] = NotLoaded]
    /\ busy' = busy \ {i}
    /\ IF i \in busy
         THEN dying' = [dying EXCEPT ![i] = models[i].mem] /\ UNCHANGED <<used, work>>
         ELSE used' = Minus(used, models[i].mem) /\ work' = Disturbed /\ UNCHANGED dying
    /\ UNCHANGED <<backend, enabled, queue, price, open, frames, sets>>

LastJobEnds(i) ==
    /\ dying[i] # Nothing
    /\ used' = Minus(used, dying[i]) /\ dying' = [dying EXCEPT ![i] = Nothing]
    /\ work' = Disturbed
    /\ UNCHANGED <<backend, enabled, models, busy, queue, price, open, frames, sets>>

\* The first job's first decode commits the compute buffers, or throws.
StartJob(i) ==
    /\ open /\ models[i].loaded /\ i \notin busy
    /\ busy' = busy \cup {i}
    /\ LET cost == On(models[i].on, Graph)
       IN IF ~models[i].warm /\ Fits(cost)
            THEN /\ used' = Plus(used, cost) /\ work' = Disturbed
                 /\ models' = [models EXCEPT ![i].mem = Plus(@, cost), ![i].warm = TRUE]
            ELSE UNCHANGED <<used, work, models>>
    /\ UNCHANGED <<backend, enabled, dying, queue, price, open, frames, sets>>

EndJob(i) ==
    /\ i \in busy /\ busy' = busy \ {i}
    /\ UNCHANGED <<backend, enabled, used, models, dying, queue, work, price, open, frames, sets>>

\* end_session; the next one begins when the lane is joined.
EndSession ==
    /\ open /\ open' = FALSE
    /\ UNCHANGED <<backend, enabled, used, models, dying, busy, queue, work, price, frames, sets>>

BeginSession ==
    /\ ~open /\ work.at = "idle" /\ queue = <<>> /\ busy = {}
    /\ open' = TRUE
    /\ UNCHANGED <<backend, enabled, used, models, dying, busy, queue, work, price, frames, sets>>

-----------------------------------------------------------------------------
(* The control lane: loads, and the load of a model benchmark.             *)

laneFrame == <<backend, enabled, dying, busy, open, frames, sets>>

Held == Plus(work.mem, work.proj)
MyDevices == Occupied(work.allowed, LlamaGpuLayers(work.req.layers) = 0)

\* resolve_max_concurrent, and the one slot of a benchmark.
PoolPin ==
    CASE work.req.op = "modelbench" -> 1
      [] work.req.op # "modelbench" /\ work.req.hub > 0 -> work.req.hub
      [] OTHER -> work.req.hints

\* The frame is over: answered or abandoned, what it holds given back.
Finished ==
    /\ work' = Idle /\ used' = Minus(used, Held)
    /\ UNCHANGED <<laneFrame, models, queue, price>>

Goes(w, u) ==
    /\ work' = w /\ used' = u
    /\ UNCHANGED <<laneFrame, models, queue, price>>

\* With no device enabled the frame is answered before its fetch.
TakeModelFrame(op) ==
    /\ work.at = "idle" /\ queue # <<>> /\ Head(queue).req.op = op
    /\ queue' = Tail(queue)
    /\ work' = IF EnabledPlacementIds(enabled) = {} THEN Idle
               ELSE [Idle EXCEPT !.at = "fetch", !.req = Head(queue).req,
                        !.gpus = Head(queue).gpus, !.allowed = AllowedLoadDevices(enabled)]
    /\ UNCHANGED <<laneFrame, used, models, price>>

TakeLoad == TakeModelFrame("load")
TakeModelBenchmark == TakeModelFrame("modelbench")

\* Mutant: the fetch does not look at the stream.
FetchImmortal == FALSE

\* The fetch polls whether the stream is gone.
FetchAbandoned == work.at = "fetch" /\ ~open /\ Finished
FetchFails == work.at = "fetch" /\ open /\ Finished

\* The hub's price says that the pool it asks for fits on a lone GPU (external).
Priced ==
    LET p == price[work.req.id]
    IN /\ p.known /\ work.req.hub > 0 /\ p.devs = MyDevices
       /\ \E d \in MyDevices : /\ MyDevices = {d} /\ backend[d] = "GPU"
                                /\ used[d] + p.base + work.req.hub * p.per <= Total

\* A resident model's load is answered as it is.
FetchEnds ==
    /\ work.at = "fetch" /\ work.req.op = "load" /\ open
    /\ IF models[work.req.id].loaded THEN Finished
       ELSE Goes([work EXCEPT !.at = "load", !.before = Reading, !.quiet = TRUE,
                              !.fits = Priced], used)

\* A benchmark loads the model a second time, whether it is resident or not, and
\* reads its floor before.
BenchFetchEnds ==
    /\ work.at = "fetch" /\ work.req.op = "modelbench" /\ open
    /\ Goes([work EXCEPT !.at = "load", !.before = Reading, !.quiet = TRUE], used)

\* The weights, on every device of the placement.
LoadWeights ==
    LET cost == On(MyDevices, Weights)
    IN /\ work.at = "load" /\ Fits(cost)
       /\ Goes([work EXCEPT !.mem = cost,
                   !.at = IF work.req.id \in Vision THEN "projector" ELSE "size"],
               Plus(used, cost))

\* The projector comes before the pool: its cost is fixed, the pool's is not.
LoadProjector ==
    LET cost == On(ProjectorDevices(work.allowed), Projector)
    IN /\ work.at = "projector" /\ Fits(cost)
       /\ Goes([work EXCEPT !.proj = cost, !.at = "size"], Plus(used, cost))

\* Mutant: a load that fails past its projector keeps the projector.
KeepsProjector ==
    /\ work.at \in {"load", "projector", "size"}
    /\ work' = Idle /\ used' = Minus(used, work.mem)
    /\ UNCHANGED <<laneFrame, models, queue, price>>

\* The file, the template, the projector or memory fails the load.
LoadFails == work.at \in {"load", "projector", "size"} /\ Finished

\* grow_ctx_pool: the snapshot the first context is measured against.
HeadroomEnabled == PoolPin = 0 /\ Gauged(work.allowed) # {}

Ceiling == CASE PoolPin > 0 -> PoolPin
             [] PoolPin = 0 /\ HeadroomEnabled -> MaxPool
             [] OTHER -> 1

StartGrowth ==
    /\ work.at = "size"
    /\ Goes([work EXCEPT !.at = "predict", !.prev = Reading, !.worst = Nothing], used)

PredictSlot ==
    /\ work.at = "predict"
    /\ LET stop == \/ work.pool >= Ceiling
                   \/ HeadroomEnabled /\ Predicted(Gauged(work.allowed), Reading, work.worst)
       IN Goes([work EXCEPT !.at = IF stop THEN "grown" ELSE "alloc"], used)

SlotCost == On(MyDevices, IF work.pool = 0 THEN Slot + FirstExtra ELSE Slot)

AllocSlot ==
    /\ work.at = "alloc" /\ Fits(SlotCost)
    /\ Goes([work EXCEPT !.mem = Plus(@, SlotCost), !.pool = @ + 1,
                         !.at = IF HeadroomEnabled THEN "record" ELSE "predict"],
            Plus(used, SlotCost))

\* Past the first a failure only stops the growth.
AllocFails ==
    /\ work.at = "alloc"
    /\ ~Fits(SlotCost) \/ \E d \in MyDevices : backend[d] # "GPU"
    /\ Goes([work EXCEPT !.at = IF work.pool = 0 THEN "noroom" ELSE "grown"], used)

NoRoom == work.at = "noroom" /\ Finished

RecordSlot ==
    /\ work.at = "record"
    /\ LET ds == Gauged(work.allowed)
       IN Goes([work EXCEPT !.worst = WorstDelta(ds, work.prev, Reading, work.worst),
                            !.prev = Reading,
                            !.at = IF Reached(ds, Reading) THEN "grown" ELSE "predict"], used)

\* The registry takes the model and the pool's size is answered.
Register ==
    /\ work.at = "grown" /\ work.req.op = "load"
    /\ models' = [models EXCEPT ![work.req.id] =
          [loaded |-> TRUE, mem |-> Held, on |-> MyDevices, pool |-> work.pool, warm |-> FALSE]]
    /\ work' = Idle
    /\ UNCHANGED <<laneFrame, used, queue, price>>

-----------------------------------------------------------------------------
(* The rest of a model benchmark (run_model_benchmark, probe_model_bench). *)

\* The payload, which commits the compute buffers if it decodes anything.
PayloadEnds ==
    /\ work.at = "grown" /\ work.req.op = "modelbench" /\ open
    /\ \E decodes \in BOOLEAN :
          LET cost == On(MyDevices, IF decodes THEN Graph ELSE 0)
          IN /\ Fits(cost)
             /\ Goes([work EXCEPT !.at = "calibrate", !.mem = Plus(@, cost), !.timed = decodes],
                     Plus(used, cost))

PayloadFails == work.at = "grown" /\ work.req.op = "modelbench" /\ open /\ Finished
PayloadAbandoned == work.at = "grown" /\ work.req.op = "modelbench" /\ ~open /\ Finished

\* The calibration decodes twice; the first decode of all commits the buffers.
Calibrate ==
    LET cost == On(MyDevices, IF work.timed THEN 0 ELSE Graph)
    IN /\ work.at = "calibrate" /\ Fits(cost)
       /\ Goes([work EXCEPT !.at = "price", !.mem = Plus(@, cost), !.timed = TRUE],
               Plus(used, cost))

CalibrationFails ==
    /\ work.at = "calibrate"
    /\ Goes([work EXCEPT !.at = "price", !.timed = FALSE], used)

PriceBase ==
    /\ work.at = "price"
    /\ Goes([work EXCEPT !.at = "probe", !.prev = Reading,
               !.base = GrowthBytes(Gauged(work.allowed), work.before, Reading)], used)

ProbeSlot ==
    LET cost == On(MyDevices, Slot)
    IN /\ work.at = "probe" /\ Fits(cost)
       /\ Goes([work EXCEPT !.at = "priced", !.mem = Plus(@, cost)], Plus(used, cost))

\* Mutant: a slot that does not fit is priced at nothing.
ProbeFailsFree ==
    /\ work.at = "probe"
    /\ ~Fits(On(MyDevices, Slot)) \/ \E d \in MyDevices : backend[d] # "GPU"
    /\ Goes([work EXCEPT !.at = "benched", !.per = 0], used)

\* A slot that does not fit is priced at the whole load.
ProbeFails ==
    /\ work.at = "probe"
    /\ ~Fits(On(MyDevices, Slot)) \/ \E d \in MyDevices : backend[d] # "GPU"
    /\ Goes([work EXCEPT !.at = "benched", !.per = work.base], used)

PriceSlot ==
    LET cost == On(MyDevices, Slot)
    IN /\ work.at = "priced"
       /\ Goes([work EXCEPT !.at = "benched", !.mem = Minus(@, cost),
                  !.per = GrowthBytes(Gauged(work.allowed), work.prev, Reading)],
               Minus(used, cost))

\* Unloaded before the reply; an untimed benchmark measured nothing.
ReplyModelBenchmark ==
    /\ work.at = "benched"
    /\ price' = IF ~work.timed THEN price
                ELSE [price EXCEPT ![work.req.id] =
                        [known |-> work.quiet, base |-> work.base, per |-> work.per,
                         devs |-> MyDevices]]
    /\ work' = Idle /\ used' = Minus(used, Held)
    /\ UNCHANGED <<laneFrame, models, queue>>

-----------------------------------------------------------------------------
(* The benchmark of one device or of all of them (bench_one).              *)

TakeBenchmark ==
    /\ work.at = "idle" /\ queue # <<>> /\ Head(queue).req.op = "bench"
    /\ queue' = Tail(queue)
    /\ work' = [Idle EXCEPT !.at = "device", !.req = Head(queue).req, !.gpus = Head(queue).gpus,
                   !.todo = IF Head(queue).req.dev = <<>> THEN HardwareIds
                            ELSE <<Head(queue).req.dev>>]
    /\ UNCHANGED <<laneFrame, used, models, price>>

ThisDevice == ResolveDevice(Head(work.todo))

\* The device under test has an outcome; the next one is tried whatever it was.
Concludes(ok) ==
    Goes([work EXCEPT !.at = "device", !.todo = Tail(@), !.mem = Nothing, !.phase = 0,
            !.done = IF ok THEN @ \cup {Head(work.todo)} ELSE @,
            !.errors = IF ok THEN @ ELSE @ \cup {Head(work.todo)}],
         Minus(used, work.mem))

\* Unknown here or to ggml, or abandoned before the first allocation.
Testable == /\ Head(work.todo) \in ToSet(HardwareIds) /\ ThisDevice # 0 /\ open

NextDevice ==
    /\ work.at = "device" /\ work.todo # <<>>
    /\ IF Testable THEN Goes([work EXCEPT !.at = "phase", !.phase = 1], used)
       ELSE Concludes(FALSE)

\* Memory, compute, load: each with a backend and buffers of its own.
StartPhase ==
    LET cost == On({ThisDevice}, Scratch)
    IN /\ work.at = "phase" /\ Fits(cost)
       /\ Goes([work EXCEPT !.at = "sampling", !.mem = cost], Plus(used, cost))

\* Mutant: the first device that fails ends the benchmark.
FailureEndsAll ==
    /\ work.at \in {"phase", "sampling"}
    /\ Goes([work EXCEPT !.at = "device", !.todo = <<>>, !.mem = Nothing, !.phase = 0,
               !.errors = @ \cup {Head(work.todo)}], Minus(used, work.mem))

\* A backend or an allocation fails, ggml throws, or the stream closes before
\* a sample.
PhaseFails == work.at \in {"phase", "sampling"} /\ Concludes(FALSE)

\* Enough samples, or the budget of the phase is spent.
EndPhase ==
    /\ work.at = "sampling" /\ work.phase < 3
    /\ Goes([work EXCEPT !.at = "phase", !.phase = @ + 1, !.mem = Nothing],
            Minus(used, work.mem))

\* So does the last one, the upload.
EndLoadPhase == work.at = "sampling" /\ work.phase = 3 /\ Concludes(TRUE)

ReplyBenchmark == work.at = "device" /\ work.todo = <<>> /\ Finished

-----------------------------------------------------------------------------
Lane ==
    \/ TakeLoad \/ TakeModelBenchmark \/ FetchAbandoned \/ FetchFails
    \/ FetchEnds \/ BenchFetchEnds
    \/ LoadWeights \/ LoadProjector \/ LoadFails
    \/ StartGrowth \/ PredictSlot \/ AllocSlot \/ AllocFails \/ NoRoom \/ RecordSlot \/ Register
    \/ PayloadEnds \/ PayloadFails \/ PayloadAbandoned
    \/ Calibrate \/ CalibrationFails \/ PriceBase \/ ProbeSlot \/ ProbeFails \/ PriceSlot
    \/ ReplyModelBenchmark
    \/ TakeBenchmark \/ NextDevice \/ StartPhase \/ PhaseFails
    \/ EndPhase \/ EndLoadPhase \/ ReplyBenchmark

Next ==
    \/ Lane \/ EndSession \/ BeginSession
    \/ \E r \in Requests : Receive(r)
    \/ \E e \in EnabledSets : SetEnabled(e)
    \/ \E i \in Ids : Unload(i) \/ LastJobEnds(i) \/ StartJob(i) \/ EndJob(i)

Spec == Init /\ [][Next]_vars

\* The lane's thread runs: every step of it but the wait for bytes, which ends
\* by itself only when the stream is gone.
LaneRuns == (work.at # "fetch" \/ ~open) /\ Lane

LiveSpec == Spec /\ WF_vars(LaneRuns)

-----------------------------------------------------------------------------
(* Properties.                                                             *)

\* The variables' types: units are never negative, wherever they are given back,
\* and what the lane's frame needs of its locals is there at each of its steps.
Units == [Devices -> Nat]
Steps == {"idle", "fetch", "load", "projector", "size", "predict", "alloc", "record", "noroom",
          "grown", "calibrate", "price", "probe", "priced", "benched",
          "device", "phase", "sampling"}
Locals ==
    [at : Steps, req : Requests \cup {NoRequest}, gpus : SUBSET Devices, allowed : SUBSET Devices,
     mem : Units, proj : Units, pool : Nat, prev : Units, worst : Units,
     before : Units, base : Nat, per : Nat, timed : BOOLEAN,
     todo : Seq(DeviceIds), done : SUBSET DeviceIds, errors : SUBSET DeviceIds, phase : 0 .. 3,
     quiet : BOOLEAN, fits : BOOLEAN]
Resident == [loaded : BOOLEAN, mem : Units, on : SUBSET Devices, pool : Nat, warm : BOOLEAN]
TypeOK ==
    /\ backend \in Backends /\ enabled \in [all : BOOLEAN, ids : SUBSET DeviceIds]
    /\ used \in Units /\ models \in [Ids -> Resident] /\ dying \in [Ids -> Units]
    /\ busy \subseteq Ids /\ queue \in Seq([req : Requests, gpus : SUBSET Devices])
    /\ work \in Locals
    /\ price \in [Ids -> [known : BOOLEAN, base : Nat, per : Nat, devs : SUBSET Devices]]
    /\ open \in BOOLEAN /\ frames \in 0 .. MaxFrames /\ sets \in 0 .. MaxSets

\* What the registry and the models whose last job runs hold of a device.
KeptOn(d) == [i \in Ids |-> models[i].mem[d] + dying[i][d]]

\* Every unit in use is a resident model's, a dying one's or the lane's: no
\* load that fails at any of its steps, no benchmark and no unload leaves
\* memory behind or gives it back twice (initialize, run_model_benchmark).
MemoryAccounted ==
    \A d \in Devices : used[d] = Held[d] + SumFunction(KeptOn(d))

\* A pool nobody pinned, grown while nothing else moved the devices' memory,
\* stops under the watermark on each device it is gauged on, unless its first
\* context was past it already (CtxPoolHeadroom).
GrowthStopsInTime ==
    work.at = "grown" /\ PoolPin = 0 /\ work.quiet /\ work.pool > 1 =>
        \A d \in Gauged(work.allowed) : ~Crosses(Reading[d])

\* A model's weights and contexts only ever take GPUs that were enabled at some
\* moment since the hub's frame came, though the set is read when the frame is
\* taken up and changes while it waits, fetches and loads
\* (allowed_load_devices, worker_service.hpp:318-320).
LoadsStayOnEnabled ==
    work.req.op # "bench" => {d \in Devices : IsGpu(d) /\ work.mem[d] > 0} \subseteq work.gpus

\* What a benchmark on a quiet machine measured is enough: on the same device
\* a pool of n gets its n contexts whenever base and n slots are free
\* (probe_model_bench, ctx_pool.hpp:111-113).
PricedPoolFits ==
    work.fits /\ work.quiet =>
        /\ work.at # "noroom"
        /\ work.at = "grown" => work.pool = work.req.hub

\* The reply of a device benchmark accounts for each device it was asked for
\* once, measured or failed, whatever failed before it (execute, kBenchmark).
EveryDeviceReported ==
    work.at = "device" /\ work.todo = <<>> =>
        /\ work.done \cap work.errors = {}
        /\ work.done \cup work.errors =
              IF work.req.dev = <<>> THEN ToSet(HardwareIds) ELSE {work.req.dev}

\* Once the stream is gone the lane drains: what it runs and what waits behind
\* it end by themselves, which the session's teardown joins on (abandoned()).
AbandonedWorkStops == ~open ~> work.at = "idle" /\ queue = <<>>

\* chat_model.hpp:62-66 of gpu_usable: it drives "the bool-only knobs a device
\* array can't reach - mtmd's use_gpu ... - which would otherwise grab a GPU the
\* model itself is barred from": a load's projector stays on enabled GPUs too.
ProjectorStaysOnEnabled ==
    {d \in Devices : IsGpu(d) /\ work.proj[d] > 0} \subseteq work.gpus
=============================================================================
