----------------------------- MODULE Standalone -----------------------------
(***************************************************************************)
(* The simulator's standalone mode (cmd/simulator standalone.go): one loop *)
(* on a virtual clock that places the jobs of a trace on an inventory of   *)
(* nodes, advances them, steps the physics of every node and, under        *)
(* baseline C, applies the power policy every reconcile interval.          *)
(*                                                                         *)
(* Time is counted in ticks and work in units; a job goes Full units a     *)
(* tick at full power and Slow under an eco setting.  A score is a number  *)
(* of tenths of a point times the number of nodes it averages over.        *)
(***************************************************************************)
EXTENDS Policy, Sequences

CONSTANTS
    Inventory,     \* node -> its entry of cluster-nodes.yaml
    SaBaselines,   \* SIM_STANDALONE_BASELINE
    MaxFails,      \* maxFailsPerClass
    Interval,      \* SIM_SA_RECONCILE_INTERVAL, in ticks
    DefaultCores,  \* the cores of an entry that names none
    Full, Slow,    \* units of work a tick
    SaTimeout      \* SIM_SA_TIMEOUT, in ticks

VARIABLES
    trace, baseline,
    track,      \* node -> standaloneNodeTracker
    setting,    \* node -> the power settings of its state
    load,       \* node -> the jobs its utilization counts
    saJob,      \* index of a job -> what is left of it
    at,         \* ticks since the start
    reconciled, \* lastReconcileSec
    over

saVars == <<trace, baseline, track, setting, load, saJob, at, reconciled, over>>

-----------------------------------------------------------------------------
(* The inventory (loadInventory, initStandaloneNodes).                     *)

Cores(n) == IF Inventory[n].cores <= 0 THEN DefaultCores ELSE Inventory[n].cores
GPUs(n) == Inventory[n].gpus

(* How eco reaches a node without GPUs: a profile with a writable PL1 by a *)
(* power cap, a legacy node whose CPU the catalog knows by the watts its   *)
(* pool agent sends, any other node by its frequency.                      *)
ecoBy(n) ==
    LET e == Inventory[n]
    IN  CASE e.gpus > 0 -> "gpu"
          [] e.gpus = 0 /\ e.profile -> IF e.known THEN "pl1" ELSE "freq"
          [] OTHER -> IF e.known THEN "agent" ELSE "freq"

NewTracker == [cpu |-> 0, gpu |-> 0, jobs |-> {}, eco |-> FALSE, draining |-> FALSE, perf |-> 0]

-----------------------------------------------------------------------------
(* Placement.                                                              *)

Fits(t, n, j) ==
    /\ t[n].cpu + j.cpu <= Cores(n)
    /\ j.gpus > 0 => t[n].gpu + j.gpus <= GPUs(n)

(* Performance jobs are kept from eco and from draining nodes.             *)
admits(t, n, j) == Fits(t, n, j) /\ ~(j.perf /\ (t[n].eco \/ t[n].draining))

PerfNodes(t) == {n \in Nodes : ~t[n].eco}
UtilPct(n, cpu) == (100 * cpu) \div Cores(n)
Sum(S, f(_)) ==
    LET sum[T \in SUBSET S] == IF T = {} THEN 0 ELSE LET x == CHOOSE x \in T : TRUE IN f(x) + sum[T \ {x}]
    IN  sum[S]

(* headroom * 0.7 + 15, +10 for a standard job on an eco node, less 0.3    *)
(* times the mean utilization of the performance nodes elsewhere.          *)
score(t, n, j) ==
    LET pc == AtLeast(Cardinality(PerfNodes(t)), 1)
        pressure == Sum(PerfNodes(t), LAMBDA m : UtilPct(m, t[m].cpu))
        base == pc * (7 * (100 - UtilPct(n, t[n].cpu + j.cpu)) + 150)
        raw == base + (IF ~j.perf /\ t[n].eco THEN 100 * pc ELSE 0)
                    - (IF ~j.perf /\ ~t[n].eco THEN 3 * pressure ELSE 0)
    IN  clampInt(raw, 0, 1000 * pc)

(* The best node that admits the job, the first in name order on a tie,    *)
(* or no node.                                                             *)
findNodeForJob(t, j) ==
    {n \in Nodes : admits(t, n, j) /\ \A m \in Nodes : admits(t, m, j) =>
        score(t, n, j) > score(t, m, j) \/ (score(t, n, j) = score(t, m, j) /\ n <= m)}

placeJob(t, n, i, j) ==
    [t EXCEPT ![n].cpu = @ + j.cpu, ![n].gpu = @ + j.gpus, ![n].jobs = @ \cup {i},
              ![n].perf = IF j.perf THEN @ + 1 ELSE @]

ClassKey(j) == <<j.perf, j.gpus > 0>>
ClassKeys == BOOLEAN \X BOOLEAN

(* A job that is due is placed, when its class has not failed MaxFails     *)
(* times in a row.                                                         *)
tryJob(s, i, now) ==
    LET j == trace[i]
        best == findNodeForJob(s.t, j)
    IN  IF j.at > now \/ saJob[i].submitted \/ s.fails[ClassKey(j)] >= MaxFails THEN s
        ELSE [t     |-> IF best = {} THEN s.t ELSE placeJob(s.t, CHOOSE n \in best : TRUE, i, j),
              fails |-> [s.fails EXCEPT ![ClassKey(j)] = IF best = {} THEN @ + 1 ELSE 0]]

(* One pass over the jobs, in trace order.                                 *)
standaloneInjectJobsFast(now) ==
    LET pass[i \in 0..Len(trace)] ==
            IF i = 0 THEN [t |-> track, fails |-> [k \in ClassKeys |-> 0]]
            ELSE tryJob(pass[i - 1], i, now)
    IN  pass[Len(trace)]

-----------------------------------------------------------------------------
(* Progress (standaloneAdvanceJobProgressFast, and the workers of          *)
(* standaloneTickParallel, which do the same on disjoint nodes).           *)

CpuRate(n) == IF setting[n].freq = "eco" \/ setting[n].cpu \in {"pl1", "agent"} THEN Slow ELSE Full
GpuRate(n) == IF setting[n].gpu = "eco" THEN Slow ELSE Full

After(n, w) == [w EXCEPT !.cpu = IF @ > 0 THEN AtLeast(@ - CpuRate(n), 0) ELSE @,
                         !.gpu = IF @ > 0 THEN AtLeast(@ - GpuRate(n), 0) ELSE @]

(* A completed job gives its resources back.                               *)
release(t, done) ==
    [t EXCEPT !.jobs = @ \ done,
              !.cpu = AtLeast(@ - Sum(done, LAMBDA i : trace[i].cpu), 0),
              !.gpu = AtLeast(@ - Sum(done, LAMBDA i : trace[i].gpus), 0),
              !.perf = AtLeast(@ - Cardinality({i \in done : trace[i].perf}), 0)]

(* The jobs after the tick: those on a node have done its work.            *)
worked(t) ==
    [i \in DOMAIN trace |->
        LET on == {n \in Nodes : i \in t[n].jobs}
            w == After(CHOOSE n \in on : TRUE, [cpu |-> saJob[i].cpu, gpu |-> saJob[i].gpu])
        IN  IF on = {} THEN saJob[i]
            ELSE [submitted |-> TRUE, done |-> w.cpu <= 0 /\ w.gpu <= 0, cpu |-> w.cpu, gpu |-> w.gpu]]

(* The trackers after the tick, by one loop or by workers on disjoint      *)
(* nodes.                                                                  *)
standaloneTickParallel(t, jobs) ==
    [n \in Nodes |-> release(t[n], {i \in t[n].jobs : jobs[i].done})]

(* A node whose last job ended is left without load.                       *)
mergedLoad(before, after) ==
    [n \in Nodes |-> IF after[n].jobs = {} THEN {} ELSE before[n].jobs]

-----------------------------------------------------------------------------
(* The power policy (applyPowerPolicy).                                    *)

FamilyOf == [n \in Nodes |-> Inventory[n].family]

(* The count of baseline C; the upper bound is applied last.               *)
HpCount(demand) ==
    LET want == IF baseline = "B" THEN BaseCount(Cardinality(Nodes))
                ELSE AtMost(AtLeast(AtLeast(BaseCount(Cardinality(Nodes)), CeilDiv(demand, PerHPNode)), HpMin), HpMax)
    IN  clampInt(want, 0, Cardinality(Nodes))

(* A draining node is labelled eco by the controller: it is not kept first.*)
performanceNodes(t, hp) ==
    PerformanceSet(Nodes, FamilyOf, {n \in Nodes : ~t[n].eco /\ ~t[n].draining}, hp)

(* Performance jobs on a node and those due that no node has taken.        *)
countPerformanceSensitivePending(t, jobs, now) ==
    Sum(Nodes, LAMBDA n : t[n].perf)
    + Cardinality({i \in DOMAIN trace : trace[i].at <= now /\ ~jobs[i].submitted /\ trace[i].perf})

perfSetting(n) == [freq |-> "full", cpu |-> IF ecoBy(n) = "agent" THEN "top" ELSE "default", gpu |-> "max"]

ecoSetting(n, s) ==
    [freq |-> IF ecoBy(n) = "freq" THEN "eco" ELSE "full",
     cpu |-> CASE ecoBy(n) = "gpu" -> "default" [] ecoBy(n) = "freq" -> s.cpu [] OTHER -> ecoBy(n),
     gpu |-> IF GPUs(n) > 0 THEN "eco" ELSE s.gpu]

DropsTheGuard(t, n, hp) == IF n \in hp THEN "performance" ELSE "eco"

(* A node with performance jobs drains before it goes to eco.              *)
profileOf(t, n, hp) ==
    IF n \in hp THEN "performance" ELSE IF t[n].perf > 0 THEN "draining" ELSE "eco"

applyPowerPolicy(t, s, demand) ==
    LET hp == performanceNodes(t, HpCount(demand))
        p == [n \in Nodes |-> IF baseline = "A" THEN "performance" ELSE profileOf(t, n, hp)]
    IN  /\ track' = [n \in Nodes |-> [t[n] EXCEPT !.eco = p[n] = "eco", !.draining = p[n] = "draining"]]
        /\ setting' = [n \in Nodes |->
              IF p[n] = "eco" THEN ecoSetting(n, s[n])
              ELSE IF baseline = "A" THEN [freq |-> "full", cpu |-> "default", gpu |-> "max"]
              ELSE perfSetting(n)]

-----------------------------------------------------------------------------
(* The loop (runStandalone).                                               *)

AtFirst == [n \in Nodes |-> [freq |-> "full", cpu |-> "default", gpu |-> "max"]]

SaInit(traces) ==
    /\ trace \in traces /\ baseline \in SaBaselines
    /\ saJob = [i \in DOMAIN trace |-> [submitted |-> FALSE, done |-> FALSE, cpu |-> trace[i].cwork, gpu |-> trace[i].gwork]]
    /\ load = [n \in Nodes |-> {}]
    /\ at = 0 /\ reconciled = -1 /\ over = FALSE
    /\ track = [n \in Nodes |-> NewTracker] /\ setting = AtFirst

(* The policy is applied once before the first tick.                       *)
FirstPolicy ==
    /\ reconciled = -1 /\ reconciled' = 0
    /\ applyPowerPolicy(track, setting, 0)
    /\ UNCHANGED <<trace, baseline, load, saJob, at, over>>

(* Jobs are placed, then advanced, and the policy is applied when due.     *)
StandaloneTick ==
    /\ reconciled >= 0 /\ ~over
    /\ \E injected \in {standaloneInjectJobsFast(at + 1).t} :
       \E jobs \in {worked(injected)} : \E t \in {standaloneTickParallel(injected, jobs)} :
         /\ saJob' = jobs /\ load' = mergedLoad(injected, t) /\ at' = at + 1
         /\ IF baseline = "C" /\ at + 1 - reconciled >= Interval
            THEN /\ applyPowerPolicy(t, setting, countPerformanceSensitivePending(t, jobs, at + 1))
                 /\ reconciled' = at + 1
            ELSE track' = t /\ UNCHANGED <<setting, reconciled>>
         /\ over' = (at + 1 >= SaTimeout \/ \A i \in DOMAIN trace : jobs[i].done)
    /\ UNCHANGED <<trace, baseline>>

SaNext == FirstPolicy \/ StandaloneTick

-----------------------------------------------------------------------------
(* Properties.                                                             *)

RunningOn(n) == {i \in DOMAIN trace : i \in track[n].jobs}

(* A performance job runs on a node with its full power settings from its  *)
(* placement to its end, through every change of the split (the filter of  *)
(* findNodeForJob, the draining guard of applyPowerPolicy and the counts   *)
(* placeJob and the job loops keep).                                       *)
PerfKeepsPower ==
    \A n \in Nodes : \A i \in RunningOn(n) : trace[i].perf =>
        CpuRate(n) = Full /\ GpuRate(n) = Full

=============================================================================
