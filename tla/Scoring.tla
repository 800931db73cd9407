------------------------------- MODULE Scoring -------------------------------
(* The prioritize half of the scheduler extender, cmd/scheduler and            *)
(* pkg/scheduler/powerest.  A request reads the twins and then the hardware    *)
(* through two maps, each rebuilt from the informer at most once per           *)
(* CACHE_TTL; the objects change while it runs.  The score is arithmetic in    *)
(* hundredths of a point, watts are small integers and a GPU counts Slices     *)
(* units.  The filter is modelled in Profiles.                                 *)
EXTENDS Integers, Sequences, FiniteSetsExt, SequencesExt

CONSTANTS
    Hosts,          \* the nodes of a request
    Twins, Hws,     \* the NodeTwin statuses and NodeHardwares that are written
    Pending,        \* the pods that are scheduled
    CacheTTL,       \* CACHE_TTL, in ticks
    StaleT,         \* TWIN_STALENESS_THRESHOLD, in ticks
    CpuCoeff, MemCoeff, MemCap, GpuStd, GpuPerf,   \* Coefficients, in percent
    CoreW, FloorW, GpuNv, GpuAmd, GpuGeneric,      \* fallback watts
    Burst,          \* |clusterTrend| above which the trend weighs more
    Slices,         \* units of one GPU
    MaxEdits,       \* writes of objects in a behaviour
    MaxLists        \* listings that fail in a behaviour

ASSUME ScoringAssumption == CacheTTL \in Nat /\ StaleT \in Nat

VARIABLES
    nt, hw,         \* the objects, as the informer holds them
    synced,         \* the reader is installed
    twCache, hwCache,   \* [at: ticks since the rebuild, map], at = Never before
    req,            \* the request under way
    quiet,          \* ticks since an object last changed
    edits, lists

scVars == <<nt, hw, synced, twCache, hwCache, req, quiet, edits, lists>>

Never == 0 - 1
Top == StaleT + 1
Unread == [at |-> Never, map |-> <<>>]
NoReq == [at |-> "idle", pod |-> CHOOSE p \in Pending : TRUE, states |-> <<>>, scores |-> <<>>]
Bounded(v, lo, hi) == IF v < lo THEN lo ELSE IF v > hi THEN hi ELSE v
Plus(S, f(_)) == MapThenSumSet(f, S)

------------------------------------------------------------------------------
(* powerest.                                                                   *)

\* What a container asks: of requests, else of limits.
extractQuantity(c, key) ==
    IF c.requests[key] > 0 THEN c.requests[key] ELSE c.limits[key]

\* GPUs in units, every resource weighted by its share, and the vendor of the
\* first resource by name.  A section is a sequence in name order.
SectionGPU(sec) ==
    LET used == SelectSeq(sec, LAMBDA r : r.share > 0 /\ r.units > 0)
    IN [units |-> FoldSeq(LAMBDA r, n : n + r.units * r.share, 0, used),
        vendor |-> IF used = <<>> THEN "" ELSE Head(used).vendor]

extractGPU(c) ==
    LET r == SectionGPU(c.requests.gpu)
    IN IF r.units > 0 THEN r ELSE SectionGPU(c.limits.gpu)

\* The containers add up; an init container counts where it asks for more GPUs
\* than all of them.
ExtractPodDemand(pod) ==
    LET gpu(cs) == [i \in DOMAIN cs |-> extractGPU(cs[i])]
        run == gpu(pod.containers)
        sum == FoldSeq(LAMBDA g, n : n + g.units, 0, run)
        named == SelectSeq(Reverse(run) \o gpu(pod.init), LAMBDA g : g.vendor # "")
        cpu == FoldSeq(LAMBDA c, n : n + extractQuantity(c, "cpu"), 0, pod.containers)
    IN [cores |-> IF cpu > 0 THEN cpu ELSE IF pod.class = "performance" THEN 2 ELSE 1,
        mem |-> FoldSeq(LAMBDA c, n : n + extractQuantity(c, "memory"), 0, pod.containers),
        gpu |-> Max({sum} \cup {g.units : g \in ToSet(gpu(pod.init))}),
        vendor |-> IF named = <<>> THEN "" ELSE Head(named).vendor,
        class |-> pod.class]

gpuFallbackWatts(vendor) ==
    CASE vendor = "nvidia" -> GpuNv [] vendor = "amd" -> GpuAmd [] OTHER -> GpuGeneric

EstimateMarginalImpact(d, h) ==
    LET cpuMax == IF h.cpuMax > 0 THEN h.cpuMax ELSE Max({FloorW, h.cores * CoreW})
        cores == Max({h.cores, 1})
        cpu == (cpuMax * CpuCoeff * Min({d.cores, cores})) \div (100 * cores)
        memMod == Bounded(100 + d.mem * MemCoeff, 100, MemCap)
        gpuMax == IF h.gpuMax > 0 THEN h.gpuMax ELSE gpuFallbackWatts(d.vendor)
        coeff == IF d.class = "performance" THEN GpuPerf ELSE GpuStd
    IN (cpu * memMod) \div 100
       + IF d.gpu > 0 /\ h.hasGPU THEN (d.gpu * gpuMax * coeff) \div (100 * Slices) ELSE 0

------------------------------------------------------------------------------
(* Scores of the nodes of a request.                                           *)

\* A status without a time of its last update counts as stale.
isTwinStale(ts) == ts.age = Never \/ ts.age > StaleT

Fresh(states) == {n \in DOMAIN states : ~isTwinStale(states[n])}

computeClusterTrend(states) == Plus(Fresh(states), LAMBDA n : states[n].trend)

computePerfPressure(states) ==
    LET perf == {n \in Fresh(states) : states[n].class = "performance"}
    IN IF perf = {} THEN 0
       ELSE Plus(perf, LAMBDA n : 100 - states[n].head) \div Cardinality(perf)

hwInfoFromObject(h) ==
    [cores |-> h.cores, hasGPU |-> h.gpus > 0 \/ h.gpuPresent,
     cpuMax |-> h.capRange * Max({h.sockets, 1}),
     gpuMax |-> IF h.domains \in 1 .. h.gpus - 1
                THEN (h.gpuRange * h.domains) \div h.gpus ELSE h.gpuRange]

Headroom(s, marginal) ==
    IF s.capped > 0
    THEN Min({100, ((s.capped - s.measured - marginal) * 100) \div s.capped})
    ELSE s.head

trendBonus(s, cluster) ==
    LET scale == IF cluster > Burst \/ cluster < 0 - Burst THEN 2 ELSE 6
    IN 0 - Bounded((100 * s.trend) \div scale, 0 - 2500, 2500)

\* A node the map lacks, or whose twin is stale, gets the neutral score.
scoreNode(n, states, info, pod) ==
    IF n \notin DOMAIN states \/ n \notin Fresh(states) THEN 50
    ELSE LET s == states[n]
             marginal == IF n \in DOMAIN info
                         THEN EstimateMarginalImpact(ExtractPodDemand(pod), info[n]) ELSE 0
             profile == IF pod.class # "standard" THEN 0
                        ELSE IF s.class = "eco" THEN 1000
                        ELSE IF s.class = "performance"
                             THEN 0 - 30 * computePerfPressure(states) ELSE 0
             points == 70 * Headroom(s, marginal) + 15 * (100 - s.cool)
                       + trendBonus(s, computeClusterTrend(states)) + profile
         IN Bounded(points, 0, 10000) \div 100

extenderPriority(score) == (score * 10 + 50) \div 100

------------------------------------------------------------------------------
(* The two maps.                                                               *)

Live(objs) == {n \in Hosts : objs[n].kept}
twinStates == [n \in Live(nt) |-> nt[n].is]
hwInfos == [n \in Live(hw) |-> hwInfoFromObject(hw[n].is)]

Valid(c) == c.at # Never /\ c.at < CacheTTL

\* What a read (getNodeTwinStates, getNodeHardwareInfo) returns and leaves: the
\* map while it is young, else a rebuild where the listing works, else nothing,
\* the old map kept.
Rebuilt(c, now, listed) ==
    IF Valid(c) THEN [map |-> c.map, cache |-> c]
    ELSE IF listed THEN [map |-> now, cache |-> [at |-> 0, map |-> now]]
    ELSE [map |-> <<>>, cache |-> c]

SharesTheStamp(listed) ==
    IF Valid(twCache) /\ hwCache.at # Never THEN [map |-> hwCache.map, cache |-> hwCache]
    ELSE Rebuilt(hwCache, hwInfos, listed)

getNodeHardwareInfo(listed) == Rebuilt(hwCache, hwInfos, listed)

\* A listing may fail; without a reader there is none.
Lists(listed) ==
    \/ listed /\ synced /\ UNCHANGED lists
    \/ ~listed /\ ~synced /\ UNCHANGED lists
    \/ ~listed /\ synced /\ lists < MaxLists /\ lists' = lists + 1

------------------------------------------------------------------------------
Grown(age) == IF age = Never THEN Never ELSE Min({age + 1, Top})

ScInit ==
    /\ nt = [n \in Hosts |-> [kept |-> FALSE, is |-> CHOOSE t \in Twins : TRUE]]
    /\ hw = [n \in Hosts |-> [kept |-> FALSE, is |-> CHOOSE h \in Hws : TRUE]]
    /\ synced = FALSE
    /\ twCache = Unread /\ hwCache = Unread
    /\ req = NoReq
    /\ quiet = 0 /\ edits = 0 /\ lists = 0

\* The controller and the agent write their objects, or remove them.
WritesTwin(n) ==
    /\ edits < MaxEdits
    /\ \/ \E t \in Twins : nt' = [nt EXCEPT ![n] = [kept |-> TRUE, is |-> t]]
       \/ nt[n].kept /\ nt' = [nt EXCEPT ![n].kept = FALSE]
    /\ quiet' = 0 /\ edits' = edits + 1
    /\ UNCHANGED <<hw, synced, twCache, hwCache, req, lists>>

WritesHardware(n) ==
    /\ edits < MaxEdits
    /\ \E h \in Hws : hw' = [hw EXCEPT ![n] = [kept |-> TRUE, is |-> h]]
    /\ quiet' = 0 /\ edits' = edits + 1
    /\ UNCHANGED <<nt, synced, twCache, hwCache, req, lists>>

startReaderInBackground ==
    /\ ~synced /\ synced' = TRUE
    /\ UNCHANGED <<nt, hw, twCache, hwCache, req, quiet, edits, lists>>

OneTick(s) == [s EXCEPT !.age = Grown(@)]

\* A request is short against a tick.
TimePasses ==
    /\ req.at = "idle"
    /\ nt' = [n \in Hosts |-> [nt[n] EXCEPT !.is = OneTick(@)]]
    /\ twCache' = [at |-> Grown(twCache.at),
                   map |-> [n \in DOMAIN twCache.map |-> OneTick(twCache.map[n])]]
    /\ hwCache' = [hwCache EXCEPT !.at = Grown(@)]
    /\ req' = NoReq
    /\ quiet' = Grown(quiet)
    /\ UNCHANGED <<hw, synced, edits, lists>>

\* prioritizeNodes: the twins first.
prioritizeNodes(pod) ==
    /\ req.at = "idle"
    /\ \E listed \in BOOLEAN :
        /\ Lists(listed)
        /\ LET r == Rebuilt(twCache, twinStates, listed)
           IN twCache' = r.cache /\ req' = [NoReq EXCEPT !.at = IF ~listed /\ ~Valid(twCache) THEN "blind" ELSE "twins",
                                                         !.pod = pod, !.states = r.map]
    /\ UNCHANGED <<nt, hw, synced, hwCache, quiet, edits>>

\* Then the hardware, and the scores from both.
handlePrioritize ==
    /\ req.at \in {"twins", "blind"}
    /\ \E listed \in BOOLEAN :
        /\ Lists(listed)
        /\ LET r == getNodeHardwareInfo(listed)
               scores == [n \in Hosts |->
                            extenderPriority(scoreNode(n, req.states, r.map, req.pod))]
           IN /\ hwCache' = r.cache
              /\ req' = [req EXCEPT !.at = "idle", !.states = <<>>,
                         !.scores = IF req.at = "twins" /\ (listed \/ Valid(hwCache))
                                    THEN scores ELSE <<>>]
    /\ UNCHANGED <<nt, hw, synced, twCache, quiet, edits>>

ScNext ==
    \/ \E n \in Hosts : WritesTwin(n) \/ WritesHardware(n)
    \/ startReaderInBackground
    \/ TimePasses
    \/ \E pod \in Pending : prioritizeNodes(pod)
    \/ handlePrioritize

ScSpec == ScInit /\ [][ScNext]_scVars

------------------------------------------------------------------------------
\* An answer given once the objects have been still for longer than the maps
\* live is the answer the objects themselves give, for every node: no map, and
\* no mixture of a map of the twins and an older one of the hardware, keeps an
\* answer wrong (getNodeTwinStates, getNodeHardwareInfo, prioritizeNodes).
\* req.scores is empty where a listing failed: the answer is then neutral.
SettledAnswers ==
    req.scores # <<>> /\ quiet > CacheTTL =>
        \A n \in Hosts :
            req.scores[n] = extenderPriority(scoreNode(n, twinStates, hwInfos, req.pod))
=============================================================================
