------------------------------- MODULE Shares -------------------------------
(* What the jobs of a v1 run hold of one emulated node, load it with, get  *)
(* of it and are charged for it: CPUSlots, GPUSlots, the loads of the next *)
(* step, the ring of peer transfers and the split of the node's energy.    *)
(* Pods, work and events are in WorkloadRun; how much energy a step takes  *)
(* and which transfers it slows is the node's.  A CPU is FullCpu parts, a  *)
(* GPU 2, a request is counted in half CPUs, a utilization in halves, and  *)
(* energy in parts small enough for every split to be whole.               *)
EXTENDS Naturals, Sequences, FiniteSets, SequencesExt, FiniteSetsExt

CONSTANTS
    Hosted,     \* cases: the node [cpus, alloc, gpus, exposure, units, cpuIdle, gpuIdle,
                \* link] and jobs, in run order: [cpu, util, units, gutil, class, peer]
    Spends,     \* what a step may take: <<CPU energy, GPU -> energy>>
    MaxShTicks, ShFaults \* bounds of the model

VARIABLES
    hosted,     \* the case
    jobIs,      \* job -> "waiting", "running" or "over"
    cpuHolds,   \* CPUSlots.held: job -> its CPUs
    unitJob,    \* GPUSlots.unitJob: unit -> its job, 0 for none
    nodeLoad,   \* r.loads: the load of the next step, and whose it is
    loadedBy,   \* r.loaded: the JobLoads of that step
    spent,      \* what the node took that no ledger shows yet
    ledgers, energyPrev, \* [cpu, gpu]; <<>> before the first reading
    first,      \* the ledgers at the first reading
    classJ, jobJ, \* energy by class and by job, [cpu, gpu]
    misdealt,   \* a job was charged or slowed for a step it did not load
    shTicks, shFaults

slotVars == <<jobIs, cpuHolds, unitJob, nodeLoad, loadedBy>>
energyVars == <<spent, ledgers, energyPrev, first, classJ, jobJ>>
shVars == <<hosted, slotVars, energyVars, misdealt, shTicks, shFaults>>

FullCpu == 24
N == hosted.node
Js == DOMAIN hosted.jobs
Total(f) == MapThenSumSet(LAMBDA x : f[x], DOMAIN f)

-----------------------------------------------------------------------------
(* CPUSlots                                                                *)
Cpus == 1 .. N.cpus
Sharers(holds, c) == {j \in Js : c \in holds[j]}
\* The CPUs of the lowest index, however many hold them.
LowestOnly(holds, request) ==
    LET want == IF request <= 2 THEN 1 ELSE (request + 1) \div 2
    IN  {c \in Cpus : c <= want}
(* Assign: ceil(request) CPUs, at least one and at most all: those with    *)
(* the fewest holders, lowest index first.                                 *)
LeastShared(holds, request) ==
    LET want == IF request <= 2 THEN 1 ELSE IF (request + 1) \div 2 < N.cpus THEN (request + 1) \div 2 ELSE N.cpus
        n(c) == Cardinality(Sharers(holds, c))
        Before(a, b) == n(a) < n(b) \/ (n(a) = n(b) /\ a < b)
    IN  {c \in Cpus : Cardinality({b \in Cpus : Before(b, c)}) < want}

(* demand: what the holders of a CPU ask of it; only jobs that run count.  *)
cpuDemand(holds, c) ==
    MapThenSumSet(LAMBDA j : (hosted.jobs[j].util * hosted.jobs[j].cpu * (FullCpu \div 4)) \div Cardinality(holds[j]), Sharers(holds, c))
Asked(holds) == MapThenSumSet(LAMBDA c : cpuDemand(holds, c), Cpus)
(* Util: the excess of a CPU runs where there is time to spare, in         *)
(* proportion to it; num over of.                                          *)
Util(holds) ==
    LET d == [c \in Cpus |-> cpuDemand(holds, c)]
        over == MapThenSumSet(LAMBDA c : IF d[c] > FullCpu THEN d[c] - FullCpu ELSE 0, Cpus)
        spare == MapThenSumSet(LAMBDA c : IF d[c] > FullCpu THEN 0 ELSE FullCpu - d[c], Cpus)
    IN  IF over = 0 THEN [of |-> 1, num |-> d]
        ELSE IF over >= spare THEN [of |-> 1, num |-> [c \in Cpus |-> FullCpu]]
        ELSE [of |-> spare, num |-> [c \in Cpus |-> IF d[c] >= FullCpu THEN FullCpu * spare ELSE d[c] * spare + (FullCpu - d[c]) * over]]
(* Share: the node's CPUs over what all jobs ask for, at most 1.           *)
CpuShare(holds) == IF Asked(holds) > N.cpus * FullCpu THEN <<N.cpus * FullCpu, Asked(holds)>> ELSE <<1, 1>>

-----------------------------------------------------------------------------
(* GPUSlots: unit k is on device (k - 1) \div perDev + 1.                  *)
perDev == CASE N.exposure = "whole" -> 1 [] N.exposure \in {"mig", "timeslice"} -> N.units [] OTHER -> 0
GpuUnits == 1 .. N.gpus * perDev
Devices == IF perDev = 0 THEN {} ELSE 1 .. N.gpus
Device(k) == ((k - 1) \div perDev) + 1
Held(uj, j) == {k \in GpuUnits : uj[k] = j}
(* Assign: the lowest free units, all of them or none.                     *)
GpuAssign(uj, j) ==
    LET free == {k \in GpuUnits : uj[k] = 0}
        want == hosted.jobs[j].units
    IN  IF Cardinality(free) < want THEN uj
        ELSE [k \in GpuUnits |-> IF k \in free /\ Cardinality({m \in free : m <= k}) <= want THEN j ELSE uj[k]]
(* Uses: by device, the job's units there.                                 *)
Uses(uj, j) == [d \in {Device(k) : k \in Held(uj, j)} |-> Cardinality({k \in Held(uj, j) : Device(k) = d})]
deviceSum(uj, d) == MapThenSumSet(LAMBDA k : IF uj[k] = 0 THEN 0 ELSE hosted.jobs[uj[k]].gutil, {k \in GpuUnits : Device(k) = d})
DeviceUtil(uj) ==
    [d \in Devices |-> IF N.exposure = "mig" THEN <<deviceSum(uj, d), perDev>>
                       ELSE <<IF deviceSum(uj, d) < 2 THEN deviceSum(uj, d) ELSE 2, 1>>]
(* Share: of a time-sliced device asked for more than all of it; the worst *)
(* of the job's devices.                                                   *)
GpuShare(uj, j) ==
    LET sums == {deviceSum(uj, d) : d \in DOMAIN Uses(uj, j)}
    IN  IF N.exposure = "timeslice" /\ \E s \in sums : s > 2 THEN <<2, Max(sums)>> ELSE <<1, 1>>

-----------------------------------------------------------------------------
(* computeLoads, peerRing, peerMuls                                        *)

JobLoad(uj, j) == [id |-> j, uses |-> Uses(uj, j)]
JobLoads(is, uj) == FoldLeft(LAMBDA s, j : IF is[j] = "running" THEN Append(s, JobLoad(uj, j)) ELSE s, <<>>, [j \in Js |-> j])
(* peerRing: a job that moves data over two or more of its GPUs sends a    *)
(* ring over them, each to the next and the last to the first.             *)
peerRing(jls) ==
    LET Ring(jl) ==
            LET devs == SetToSortSeq(DOMAIN jl.uses, LAMBDA a, b : a < b)
            IN  IF ~hosted.jobs[jl.id].peer \/ Len(devs) < 2 THEN <<>>
                ELSE [k \in DOMAIN devs |-> [src |-> devs[k], dst |-> devs[(k % Len(devs)) + 1], owner |-> jl.id]]
    IN  IF N.link THEN FoldLeft(LAMBDA s, jl : s \o Ring(jl), <<>>, jls) ELSE <<>>
(* peerMuls: the lowest rate over a job's ring; rates that do not match    *)
(* the ring are not read.                                                  *)
peerMuls(jls, rates) ==
    LET ring == peerRing(jls)
    IN  [j \in Js |-> IF Len(rates) = Len(ring) /\ \E i \in DOMAIN ring : ring[i].owner = j /\ rates[i] = "slow" THEN "slow" ELSE "full"]
Idling == [of |-> {}, cpu |-> <<>>, gpu |-> <<>>, ring |-> <<>>]
computeLoads(is, holds, uj) ==
    LET jls == JobLoads(is, uj)
    IN  IF jls = <<>> THEN Idling
        ELSE [of |-> {jls[i].id : i \in DOMAIN jls}, cpu |-> Util(holds), gpu |-> DeviceUtil(uj), ring |-> peerRing(jls)]

-----------------------------------------------------------------------------
(* Attribute: the idle part of what a device took is shared by what is     *)
(* claimed of it, the rest by what the claims do, or by the claims when    *)
(* nothing does anything, and what nobody claims is no one's.              *)
Split(e, idleW, cap, claim, weight) ==
    LET claims == Total(claim)
        denom == IF claims > cap THEN claims ELSE cap
        idle == IF idleW < e THEN idleW ELSE e
        by == IF Total(weight) > 0 THEN weight ELSE claim
        to == [j \in DOMAIN claim |->
                (IF denom > 0 THEN (idle * claim[j]) \div denom ELSE 0)
                + (IF Total(by) > 0 THEN ((e - idle) * by[j]) \div Total(by) ELSE 0)]
        rest == (IF denom > 0 THEN (idle * (denom - claims)) \div denom ELSE idle) + (IF Total(by) > 0 THEN 0 ELSE e - idle)
    IN  [to |-> to, rest |-> rest]
Growth(a, b) == IF b > a THEN b - a ELSE 0
(* CPU energy by requested CPUs over the allocatable ones, each GPU's by   *)
(* units over those it advertises.                                         *)
Attribute(prev, cur, jls) ==
    LET job(i) == hosted.jobs[jls[i].id]
        use(i, d) == IF d \in DOMAIN jls[i].uses THEN jls[i].uses[d] ELSE 0
        cpu == Split(Growth(prev.cpu, cur.cpu), N.cpuIdle, N.alloc,
                     [i \in DOMAIN jls |-> job(i).cpu], [i \in DOMAIN jls |-> job(i).cpu * job(i).util])
        gpu == [d \in 1 .. N.gpus |-> Split(Growth(prev.gpu[d], cur.gpu[d]), N.gpuIdle, IF perDev > 1 THEN perDev ELSE 1,
                     [i \in DOMAIN jls |-> use(i, d)], [i \in DOMAIN jls |-> use(i, d) * job(i).gutil])]
        OfGpus(F(_)) == MapThenSumSet(F, 1 .. N.gpus)
    IN  [to |-> [i \in DOMAIN jls |-> [cpu |-> cpu.to[i], gpu |-> OfGpus(LAMBDA d : gpu[d].to[i])]],
         rest |-> [cpu |-> cpu.rest, gpu |-> OfGpus(LAMBDA d : gpu[d].rest)]]

ClassOf(j) == IF hosted.jobs[j].class = "" THEN "standard" ELSE hosted.jobs[j].class
Classes == {ClassOf(j) : j \in Js} \cup {"idle"}
Joined(a, b) == [cpu |-> a.cpu + b.cpu, gpu |-> a.gpu + b.gpu]
Nothing == [cpu |-> 0, gpu |-> 0]

NoEnergy == [cpu |-> 0, gpu |-> [d \in 1 .. N.gpus |-> 0]]

-----------------------------------------------------------------------------
ShInit ==
    /\ hosted \in Hosted
    /\ jobIs = [j \in Js |-> "waiting"]
    /\ cpuHolds = [j \in Js |-> {}] /\ unitJob = [k \in GpuUnits |-> 0]
    /\ nodeLoad = Idling /\ loadedBy = <<>> /\ misdealt = FALSE
    /\ spent = NoEnergy
    /\ ledgers = spent /\ energyPrev = <<>> /\ first = spent
    /\ classJ = [k \in Classes |-> Nothing] /\ jobJ = [j \in Js |-> Nothing]
    /\ shTicks = 0 /\ shFaults = 0

AddTo(a, s) == [cpu |-> a.cpu + s[1], gpu |-> [d \in DOMAIN a.gpu |-> a.gpu[d] + s[2][d]]]

(* observePods, startJobs, complete, computeLoads: pods that are gone free *)
(* what they hold, pods that run take theirs in turn, the jobs that are    *)
(* done free theirs, and the rest is the load of the next step.            *)
Rearranged(gone, starts, done) ==
    LET inTurn == SetToSortSeq(starts, LAMBDA a, b : a < b)
        Freed(held, js) == [j \in Js |-> IF j \in js THEN {} ELSE held[j]]
        FreedU(uj, js) == [k \in GpuUnits |-> IF uj[k] \in js THEN 0 ELSE uj[k]]
        holds == Freed(FoldLeft(LAMBDA h, j : [h EXCEPT ![j] = LeastShared(h, hosted.jobs[j].cpu)], Freed(cpuHolds, gone), inTurn), done)
        units == FreedU(FoldLeft(LAMBDA u, j : IF hosted.jobs[j].units > 0 THEN GpuAssign(u, j) ELSE u, FreedU(unitJob, gone), inTurn), done)
        is == [j \in Js |-> IF j \in gone \cup done THEN "over" ELSE IF j \in starts THEN "running" ELSE jobIs[j]]
    IN  <<is, holds, units, computeLoads(is, holds, units), JobLoads(is, units)>>

(* The node steps and takes s; its ledgers follow unless the step could    *)
(* not be recorded.  attribute: the growth since the last reading goes to  *)
(* the jobs of the step.                                                   *)
Charged(s, fails) ==
    LET took == AddTo(spent, s)
        now == IF fails THEN ledgers ELSE AddTo(ledgers, <<took.cpu, took.gpu>>)
        a == Attribute(energyPrev[1], now, loadedBy)
        Of(j) == {i \in DOMAIN loadedBy : loadedBy[i].id = j}
        to == [j \in Js |-> IF energyPrev = <<>> \/ Of(j) = {} THEN Nothing ELSE a.to[CHOOSE i \in Of(j) : TRUE]]
        ToClass(k) ==
            LET mine == {j \in Js : ClassOf(j) = k}
            IN  [cpu |-> MapThenSumSet(LAMBDA j : to[j].cpu, mine), gpu |-> MapThenSumSet(LAMBDA j : to[j].gpu, mine)]
    IN  [late |-> spent.cpu + Total(spent.gpu) > 0, who |-> {j \in Js : to[j] # Nothing},
         next |-> <<IF fails THEN took ELSE NoEnergy, now, <<now>>, IF energyPrev = <<>> THEN now ELSE first,
                    [k \in Classes |-> Joined(Joined(classJ[k], ToClass(k)), IF k = "idle" /\ energyPrev # <<>> THEN a.rest ELSE Nothing)],
                    [j \in Js |-> Joined(jobJ[j], to[j])]>>]

(* The pods that are gone, that started and whose work is done since the   *)
(* last tick: at most one ends (a bound).                                  *)
Moves ==
    LET on == {j \in Js : jobIs[j] = "running"}
        ends == {{}} \cup {{j} : j \in on}
    IN  {x \in ends \X (SUBSET {j \in Js : jobIs[j] = "waiting"}) \X ends : x[1] = {} \/ x[3] = {}}
(* progress reads the rates of the step's transfers by the ring of loaded. *)
RatesMisread(rates) ==
    \E j \in Js : (peerMuls(loadedBy, rates)[j] = "slow")
                   # (\E i \in DOMAIN nodeLoad.ring : nodeLoad.ring[i].owner = j /\ rates[i] = "slow")

(* tick, after a step that slowed the transfers in slow.                   *)
ShTicks ==
    /\ shTicks < MaxShTicks /\ shTicks' = shTicks + 1
    /\ \E fails \in BOOLEAN :
       \E out \in {Charged(<<s[1], SubSeq(s[2], 1, N.gpus)>>, fails) : s \in Spends},
          slots \in {Rearranged(x[1], x[2], x[3]) : x \in Moves},
          rates \in [DOMAIN nodeLoad.ring -> {"full", "slow"}] :
            /\ shFaults' = shFaults + (IF fails THEN 1 ELSE 0) /\ shFaults' <= ShFaults
            /\ jobIs' = slots[1] /\ cpuHolds' = slots[2] /\ unitJob' = slots[3]
            /\ nodeLoad' = slots[4] /\ loadedBy' = slots[5]
            /\ spent' = out.next[1] /\ ledgers' = out.next[2] /\ energyPrev' = out.next[3]
            /\ first' = out.next[4] /\ classJ' = out.next[5] /\ jobJ' = out.next[6]
            /\ misdealt' = (misdealt \/ (~out.late /\ ~(out.who \subseteq nodeLoad.of)) \/ RatesMisread(rates))
    /\ UNCHANGED hosted

ShNext == ShTicks

-----------------------------------------------------------------------------
(* What the classes were charged is what the ledgers grew by since the     *)
(* run's first reading, and a class is its jobs (attribute, Attribute).    *)
EnergyIsAllCharged ==
    /\ MapThenSumSet(LAMBDA k : classJ[k].cpu, Classes) = ledgers.cpu - first.cpu
    /\ MapThenSumSet(LAMBDA k : classJ[k].gpu, Classes) = Total(ledgers.gpu) - Total(first.gpu)
    /\ \A k \in Classes \ {"idle"} :
        /\ classJ[k].cpu = MapThenSumSet(LAMBDA j : jobJ[j].cpu, {j \in Js : ClassOf(j) = k})
        /\ classJ[k].gpu = MapThenSumSet(LAMBDA j : jobJ[j].gpu, {j \in Js : ClassOf(j) = k})
(* The load a node is given is all its jobs ask for and no more than it    *)
(* has, on every CPU and GPU (Util, DeviceUtil).                           *)
LoadIsWhatIsAsked ==
    nodeLoad.cpu # <<>> =>
        LET u == nodeLoad.cpu
            asked == Asked(cpuHolds)
        IN  /\ \A c \in Cpus : u.num[c] <= FullCpu * u.of
            /\ Total(u.num) = u.of * (IF asked < N.cpus * FullCpu THEN asked ELSE N.cpus * FullCpu)
            /\ \A d \in Devices : nodeLoad.gpu[d][1] <= 2 * nodeLoad.gpu[d][2]
(* Slots follow the jobs: who runs holds CPUs and its units or none, who   *)
(* does not run holds nothing, and no CPU is shared while another is free  *)
(* and nobody has left (Assign, Release).                                  *)
SlotsFollowJobs ==
    /\ \A j \in Js :
        IF jobIs[j] = "running"
        THEN cpuHolds[j] # {} /\ Cardinality(Held(unitJob, j)) \in {0, hosted.jobs[j].units}
        ELSE cpuHolds[j] = {} /\ Held(unitJob, j) = {}
    /\ (\A j \in Js : jobIs[j] # "over") =>
        \A c, b \in Cpus : Cardinality(Sharers(cpuHolds, c)) > 1 => Sharers(cpuHolds, b) # {}
(* No CPU or time-sliced GPU gives its jobs more time than it has (Share). *)
SharesFit ==
    /\ CpuShare(cpuHolds)[1] * Asked(cpuHolds) <= CpuShare(cpuHolds)[2] * N.cpus * FullCpu
    /\ N.exposure = "timeslice" => \A d \in Devices :
        LET on == {k \in GpuUnits : Device(k) = d /\ unitJob[k] # 0}
            Got(k) == LET g == GpuShare(unitJob, unitJob[k]) IN (hosted.jobs[unitJob[k]].gutil * g[1] * 60) \div g[2]
        IN  MapThenSumSet(Got, on) <= 2 * 60

(* What the jobs of a node hold, load, get and are charged adds up,        *)
(* whoever starts, ends or is killed and whichever step was not recorded;  *)
(* and while steps are recorded a job is charged for, and slowed by, what  *)
(* it loaded the node with and nothing else (attribute, peerMuls).         *)
SharesAddUp ==
    shTicks > 0 => EnergyIsAllCharged /\ LoadIsWhatIsAsked /\ SlotsFollowJobs /\ SharesFit /\ ~misdealt
=============================================================================
