------------------------------ MODULE SimNode -------------------------------
(***************************************************************************)
(* A modelled (non-emulated) node of the simulator in Kubernetes mode: the *)
(* model its labels resolve to (modelresolve.go), the control orders the   *)
(* agent posts (handleControl), the physics loop that moves the node       *)
(* toward its targets (nodephys.go, physloop.go), and the pod poll and the *)
(* telemetry reads that meet it at any time.                               *)
(*                                                                         *)
(* Watts and frequencies are small naturals.  A first-order lag moves half *)
(* of what is left, and at least one unit, in a step; the thermal throttle *)
(* is any fraction a hot CPU may have.                                     *)
(***************************************************************************)
EXTENDS Integers, FiniteSets

CONSTANTS
    SNodes,
    Bases,        \* base models (the environment)
    ClassGpu,     \* the GPU part of the node class of SIM_NODE_CLASS_CONFIG
    CatMin, CatMax,   \* the GPU power range of the catalog
    LabelSets,    \* the labels a node may have
    FMax, FMin,   \* frequency levels
    IdleW, HeadW, \* idle power, RaplHeadW
    HotW,         \* power above which the CPU may throttle
    Caps,         \* watts of an order, CPU or GPU
    Throttles,    \* dvfs percentages of an order, in frequency levels
    Utils,        \* CPU utilizations
    MaxOrders     \* bound: orders, relabellings and load changes

VARIABLES
    base,      \* s.model
    labels,    \* node -> its labels, as the API server has them
    models,    \* s.nodeModels: node -> its model, or the base model
    st,        \* s.state: node -> its state, or NoState
    order,     \* node -> the targets of its last accepted orders
    orders

snVars == <<base, labels, models, st, order, orders>>

NoState == [on |-> FALSE]
Least(a, b) == IF a < b THEN a ELSE b
Most(a, b) == IF a > b THEN a ELSE b
Within(x, lo, hi) == Least(Most(x, lo), hi)

(***************************************************************************)
(* The model of a node.                                                    *)
(***************************************************************************)

(* A field the environment or a class set keeps its value; a default or a  *)
(* value of 0 or less is the catalog's.                                    *)
catalogFills(defaulted, v) == defaulted \/ v <= 0

applyModelOverrides(m) ==
    [m EXCEPT !.gmin = IF ClassGpu.min > 0 THEN ClassGpu.min ELSE @, !.gmax = IF ClassGpu.max > 0 THEN ClassGpu.max ELSE @,
              !.dmin = @ /\ ClassGpu.min <= 0, !.dmax = @ /\ ClassGpu.max <= 0]

applyCatalogModelDefaults(m) ==
    LET max == IF catalogFills(m.dmax, m.gmax) THEN CatMax ELSE m.gmax
        min == IF catalogFills(m.dmin, m.gmin) THEN Least(CatMin, max) ELSE m.gmin
    IN  [m EXCEPT !.gmax = max, !.gmin = min, !.dmin = FALSE, !.dmax = FALSE]

(* A minimum set by hand comes down to the maximum.                        *)
orderCapRanges(m) == IF m.gmax > 0 THEN [m EXCEPT !.gmin = Least(@, m.gmax)] ELSE m

resolveModelForNode(l) ==
    LET classed == IF l.class THEN applyModelOverrides(base) ELSE base
        counted == IF l.gpus > 0 THEN [classed EXCEPT !.gpus = l.gpus] ELSE classed
    IN  orderCapRanges(IF l.known THEN applyCatalogModelDefaults(counted) ELSE counted)

(***************************************************************************)
(* The state of a node.                                                    *)
(***************************************************************************)

(* getNode, and refreshNodeStateFromKubeData for a node it meets first.    *)
NewState(m) ==
    [on |-> TRUE, capT |-> m.cap, cap |-> m.cap, slowT |-> 0, freq |-> FMax, util |-> 0,
     gpuT |-> m.gmax, gpu |-> [d \in 1..m.gpus |-> m.gmax], sat |-> FALSE]

getNode(n) == IF st[n].on THEN st[n] ELSE NewState(models[n])
Targets(s) == [cap |-> s.capT, slow |-> s.slowT, gpu |-> s.gpuT]

SInit ==
    /\ base \in Bases /\ labels \in [SNodes -> LabelSets]
    /\ models = [n \in SNodes |-> base] /\ st = [n \in SNodes |-> NoState]
    /\ order = [n \in SNodes |-> NoState] /\ orders = 0

Bounded == orders < MaxOrders /\ orders' = orders + 1

(* A telemetry or state read creates the node and advances nothing.        *)
Reads(n) ==
    /\ st' = [st EXCEPT ![n] = getNode(n)]
    /\ order' = [order EXCEPT ![n] = IF st[n].on THEN @ ELSE Targets(getNode(n))]
    /\ UNCHANGED <<base, labels, models, orders>>

(* The pod poll resolves the model of every selected node again; a node    *)
(* that is no longer selected goes back to the base model without load.    *)
Polls ==
    /\ \E m \in {[n \in SNodes |-> IF labels[n].selected THEN resolveModelForNode(labels[n]) ELSE base]} :
         /\ models' = m
         /\ st' = [n \in SNodes |->
               IF st[n].on THEN (IF labels[n].selected THEN st[n] ELSE [st[n] EXCEPT !.util = 0])
               ELSE IF labels[n].selected THEN NewState(m[n]) ELSE NoState]
         /\ order' = [n \in SNodes |-> IF ~st[n].on /\ labels[n].selected THEN Targets(NewState(m[n])) ELSE order[n]]
    /\ UNCHANGED <<base, labels, orders>>

Relabels(n) ==
    /\ Bounded /\ \E l \in LabelSets : labels' = [labels EXCEPT ![n] = l]
    /\ UNCHANGED <<base, models, st, order>>

(* The workload sets the load of a node.                                   *)
Loads(n) ==
    /\ st[n].on /\ Bounded /\ \E u \in Utils : st' = [st EXCEPT ![n].util = u]
    /\ UNCHANGED <<base, labels, models, order>>

(***************************************************************************)
(* Control orders: targets only; a cap below the lowest one is refused.    *)
(***************************************************************************)
Set(n, s, accepted) ==
    /\ st' = [st EXCEPT ![n] = s]
    /\ order' = [order EXCEPT ![n] = IF accepted \/ ~st[n].on THEN Targets(s) ELSE @]
    /\ UNCHANGED <<base, labels, models>>

setPowerCapWatts(n, w) ==
    LET m == models[n]
        ok == w > 0 /\ w >= m.floor
    IN  Set(n, IF ok THEN [getNode(n) EXCEPT !.capT = IF m.top > 0 THEN Least(w, m.top) ELSE w] ELSE getNode(n), ok)

setThrottlePct(n, p) == Set(n, [getNode(n) EXCEPT !.slowT = Within(p, 0, FMax)], TRUE)

gpuSetPowerCapWatts(n, w) ==
    LET m == models[n]
        ok == m.gpus > 0 /\ w > 0 /\ w >= m.gmin
        s == getNode(n)
    IN  Set(n, IF ok THEN [s EXCEPT !.gpuT = Least(w, m.gmax),
                                    !.gpu = IF @ = <<>> THEN [d \in 1..m.gpus |-> m.gmax] ELSE @]
               ELSE s, ok)

handleControl(n) ==
    /\ Bounded
    /\ \/ \E w \in Caps : setPowerCapWatts(n, w) \/ gpuSetPowerCapWatts(n, w)
       \/ \E p \in Throttles : setThrottlePct(n, p)

(***************************************************************************)
(* The physics.                                                            *)
(***************************************************************************)
FirstOrderToward(x, target) ==
    IF target >= x THEN x + (target - x + 1) \div 2 ELSE x - (x - target + 1) \div 2

PowerAt(util, freq, hot) == IdleW + util * freq - (IF hot /\ util > 0 THEN 1 ELSE 0)

capInForce(m, s) == LET c == Most(s.cap, m.floor) IN IF m.top > 0 THEN Least(c, m.top) ELSE c

(* The highest frequency, up to the current one, whose power meets the     *)
(* cap, or the lowest.                                                     *)
SolveFreqScaleForCap(util, freq, cap, hot) ==
    LET meets == {f \in FMin..freq : PowerAt(util, f, hot) <= cap}
    IN  IF meets = {} THEN FMin ELSE CHOOSE f \in meets : \A g \in meets : g <= f

cpuPower(m, s, hot) ==
    LET cap == capInForce(m, s)
        over == PowerAt(s.util, s.freq, hot) > cap
        floorW == IF over THEN PowerAt(s.util, FMin, FALSE) ELSE 0
        f == IF over THEN SolveFreqScaleForCap(s.util, s.freq, cap, hot) ELSE s.freq
    IN  [watts |-> Least(PowerAt(s.util, f, hot), Most(cap + HeadW, floorW)), freq |-> f, sat |-> over /\ floorW > cap]

(* The ramp starts each step from the frequency the cap left.              *)
ramped(s) == FirstOrderToward(s.freq, FMax - s.slowT)

gpuTarget(m, s) ==
    LET t == IF s.gpuT <= 0 THEN m.gmax ELSE s.gpuT
        low == IF m.gmin > 0 THEN Most(t, m.gmin) ELSE t
    IN  IF m.gmax > 0 THEN Least(low, m.gmax) ELSE low

(* A substep: the frequency ramp and the lags of the caps.                 *)
lagged(m, s) ==
    [s EXCEPT !.freq = Most(FMin, ramped(s)),
              !.capT = IF @ <= 0 THEN m.cap ELSE @,
              !.cap = FirstOrderToward(@, IF s.capT <= 0 THEN m.cap ELSE s.capT),
              !.gpu = IF @ = <<>> THEN [d \in 1..m.gpus |-> FirstOrderToward(m.gmax, gpuTarget(m, s))]
                      ELSE [d \in DOMAIN @ |-> FirstOrderToward(@[d], gpuTarget(m, s))]]

(* stepLegacyNodes steps every node, then solves its frequency down to the *)
(* cap (stepNodeOnce); a CPU above HotW may throttle.                      *)
stepLegacyNodes ==
    /\ \E hot \in SUBSET {n \in SNodes : st[n].on /\ PowerAt(st[n].util, st[n].freq, FALSE) >= HotW} :
       \E moved \in {[n \in SNodes |-> IF st[n].on THEN lagged(models[n], st[n]) ELSE st[n]]} :
       \E p \in {[n \in {m \in SNodes : st[m].on} |-> cpuPower(models[n], moved[n], n \in hot)]} :
         st' = [n \in SNodes |-> IF st[n].on THEN [moved[n] EXCEPT !.freq = p[n].freq, !.sat = p[n].sat] ELSE st[n]]
    /\ UNCHANGED <<base, labels, models, order, orders>>

SNext ==
    \/ \E n \in SNodes : Reads(n) \/ Relabels(n) \/ Loads(n) \/ handleControl(n)
    \/ Polls \/ stepLegacyNodes

(***************************************************************************)
(* Properties.                                                             *)
(***************************************************************************)

(* In force on node n: the caps and the frequency of its last accepted     *)
(* orders, the caps within the range of its model and the frequency as     *)
(* high as the cap allows.                                                 *)
InForce(n) ==
    LET s == st[n]
        free == PowerAt(s.util, Most(FMin, FMax - order[n].slow), FALSE) <= capInForce(models[n], s)
    IN  /\ s.cap = order[n].cap
        /\ \A d \in DOMAIN s.gpu : s.gpu[d] = gpuTarget(models[n], [gpuT |-> order[n].gpu])
        /\ s.freq <= Most(FMin, FMax - order[n].slow)
        /\ free => s.freq = Most(FMin, FMax - order[n].slow)
        /\ s.sat => s.freq = FMin

(* Once orders, labels and load stand, every node ends in force: a cap     *)
(* that is lifted gives the frequency back, a refused order leaves no      *)
(* target, and no read, poll or change of model loses one (handleControl,  *)
(* stepNodeOnce, cpuPower, refreshNodeStateFromKubeData).                  *)
OrdersInForce == \A n \in SNodes : st[n].on => InForce(n)
=============================================================================
