------------------------------ MODULE Compat ------------------------------
(* The emulated nodes in the formats of Kepler 0.7, Kepler 0.12, DCGM and  *)
(* the AMD exporter (simulator/pkg/compat): what each makes of the         *)
(* snapshot of every tick, through counters that wrap, steps that fail,    *)
(* files that cannot be read, snapshots that are not later than the last   *)
(* one and restarts.  One node with two RAPL packages and a platform zone, *)
(* its DRAM, and one GPU; an energy of the tree is in counter units.       *)
EXTENDS Naturals, Sequences, FiniteSets, SequencesExt

CONSTANTS
    Span,      \* counts before a RAPL counter wraps (nodeCounterSpan)
    KSteps,    \* times between two ticks, 0 among them
    KPowers,   \* powers a meter may have in a step
    KLoads,    \* CPU loads, of KLoadMax
    KLoadMax,
    MaxKTicks, KFaults   \* bounds of the model

ASSUME CompatAssumption ==
    /\ Span \in Nat /\ Span > 1 /\ KLoadMax \in Nat /\ KLoadMax > 0
    /\ KSteps \subseteq Nat /\ KPowers \subseteq Nat /\ KLoads \subseteq 0..KLoadMax

VARIABLES
    format,   \* the exporter a behaviour follows: "k07", "k012" or "gpu"
    kclock,   \* the time of the last tick
    spent,    \* what each meter of the node has counted
    kshown,   \* what the files of its tree show
    kreading, \* the node in the last snapshot: [e, w, load]
    exporter, \* the exporter's state
    points,   \* the published view: a counter by series
    since,    \* where each counter began: [of the series]
    kticks, kfaults

kxVars == <<format, kclock, spent, kshown, kreading, exporter, points, since, kticks, kfaults>>

Parts == {"package-0", "package-1", "psys"}
Meters == [k07 |-> {"package", "dram", "rest"}, k012 |-> Parts, gpu |-> {"gpu"}]
NoReading(f) == [e |-> [m \in Meters[f] |-> 0], w |-> [m \in Meters[f] |-> 0], load |-> 0]

-----------------------------------------------------------------------------
(* integrate.go                                                            *)

(* compatCounter.delta: the first reading is the baseline; a reading below *)
(* the last one adds nothing.                                              *)
NoCounter == [seen |-> FALSE, last |-> 0]
delta(k, v) == IF k.seen /\ v > k.last THEN v - k.last ELSE 0
Counted(v) == [seen |-> TRUE, last |-> v]

(* k07Split.add: the interval with the lowest load and power so far gives  *)
(* the idle power of the later ones; idle energy is reported in full, and  *)
(* what exceeds the energy measured is counted as excess.                  *)
NoSplit == [seen |-> FALSE, minLoad |-> 0, idleW |-> 0, idleJ |-> 0, dynJ |-> 0, excessJ |-> 0]
k07Increment(s, d, dt, load) ==
    LET lowest == ~s.seen \/ (load <= s.minLoad /\ d \div dt <= s.idleW)
        idle == IF lowest THEN d ELSE s.idleW * dt
    IN  IF d = 0 \/ dt = 0 THEN [idle |-> 0, dyn |-> 0, excess |-> 0, lowest |-> FALSE]
        ELSE [idle |-> idle, dyn |-> IF d > idle THEN d - idle ELSE 0,
              excess |-> IF idle > d THEN idle - d ELSE 0, lowest |-> lowest]
k07Add(s, i, d, dt, load) ==
    LET sum == [s EXCEPT !.idleJ = @ + i.idle, !.dynJ = @ + i.dyn, !.excessJ = @ + i.excess]
    IN  IF i.lowest THEN [sum EXCEPT !.seen = TRUE, !.minLoad = load, !.idleW = d \div dt] ELSE sum

-----------------------------------------------------------------------------
(* A snapshot that is not later than the last one changes nothing.         *)
Later(st, t) == ~st.seen \/ t > st.at

-----------------------------------------------------------------------------
(* kepler07.go: package, dram and platform follow the ledgers (core and    *)
(* uncore read 0 and the node has no NVIDIA GPU).  Other is what platform  *)
(* has beyond the rest, by mode, and never less than nothing.  The idle    *)
(* series of a family is served once the family has moved.                 *)
k07Families == {"package", "dram", "platform"}
EnergyOf(r, f) == IF f = "platform" THEN r.e["package"] + r.e["dram"] + r.e["rest"] ELSE r.e[f]
Kepler07 == [seen |-> FALSE, at |-> 0, otherIdle |-> 0, otherDyn |-> 0,
             series |-> [f \in k07Families |-> [counter |-> NoCounter, split |-> NoSplit]]]
k07Update(st, r, t) ==
    IF ~Later(st, t) THEN st
    ELSE LET dt == IF st.seen THEN t - st.at ELSE 0
             d == [f \in k07Families |-> delta(st.series[f].counter, EnergyOf(r, f))]
             i == [f \in k07Families |-> k07Increment(st.series[f].split, d[f], dt, r.load)]
             Beyond(a, b) == IF a > b THEN a - b ELSE 0
         IN  [seen |-> TRUE, at |-> t,
              otherIdle |-> st.otherIdle + Beyond(i["platform"].idle, i["package"].idle + i["dram"].idle),
              otherDyn |-> st.otherDyn + Beyond(i["platform"].dyn, i["package"].dyn + i["dram"].dyn),
              series |-> [f \in k07Families |-> [counter |-> Counted(EnergyOf(r, f)),
                                              split |-> k07Add(st.series[f].split, i[f], d[f], dt, r.load)]]]
k07Points(st) ==
    [c \in {<<f, "dyn">> : f \in k07Families} \cup {<<f, "idle">> : f \in {g \in k07Families : st.series[g].split.seen}}
           \cup {<<"other", "idle">>, <<"other", "dyn">>} |->
        IF c = <<"other", "idle">> THEN st.otherIdle ELSE IF c = <<"other", "dyn">> THEN st.otherDyn
        ELSE IF c[2] = "idle" THEN st.series[c[1]].split.idleJ ELSE st.series[c[1]].split.dynJ]

-----------------------------------------------------------------------------
(* kepler012.go                                                            *)

(* k012Discover: zones that share a name once their index is stripped are  *)
(* one aggregated zone, which wraps at the sum of its parts' ranges.       *)
Zones == [package |-> <<"package-0", "package-1">>, psys |-> <<"psys">>]
ZoneNames == DOMAIN Zones
Range12 == Span - 1
MaxUJ(z) == Len(Zones[z]) * Range12
NoZone(z) == [has |-> FALSE, last |-> [i \in DOMAIN Zones[z] |-> NoCounter], current |-> 0,
              energy |-> 0, active |-> 0, idle |-> 0]

\* A fall of the counter is no increment.
FallIsNothing(cur, prev, max) == IF cur >= prev THEN cur - prev ELSE 0
(* k012Delta: across one wrap.                                             *)
k012Delta(cur, prev, max) ==
    IF cur >= prev THEN cur - prev ELSE IF max > 0 THEN (max - prev) + cur ELSE 0

(* energy_uj of a part, in the tree the readings come from.                *)
energy_uj(tree, p) == tree[p] % Span
(* energy: a single zone is its file; an aggregated zone adds what each    *)
(* part gained, its first reading whole, until a part that cannot be read: *)
(* the parts before it are updated, and what they gained is not counted.   *)
zoneEnergy(zs, z, tree, bad) ==
    LET ps == Zones[z]
        reads == {i \in DOMAIN ps : \A j \in 1 .. i : ps[j] \notin bad}
        failed == reads # DOMAIN ps
        gain == [i \in DOMAIN ps |-> IF zs.last[i].seen THEN k012Delta(energy_uj(tree, ps[i]), zs.last[i].last, Range12)
                                     ELSE energy_uj(tree, ps[i])]
        last == [i \in DOMAIN ps |-> IF i \in reads THEN Counted(energy_uj(tree, ps[i])) ELSE zs.last[i]]
        current == (zs.current + MapThenSumSet(LAMBDA i : gain[i], DOMAIN ps)) % MaxUJ(z)
    IN  IF Len(ps) = 1 THEN [failed |-> failed, abs |-> energy_uj(tree, ps[1]), zone |-> zs]
        ELSE IF failed THEN [failed |-> TRUE, abs |-> 0, zone |-> [zs EXCEPT !.last = last]]
        ELSE [failed |-> FALSE, abs |-> current, zone |-> [zs EXCEPT !.last = last, !.current = current]]

(* k012Node.update: the first snapshot puts the whole counter in idle; a   *)
(* zone whose last reading failed starts again from nothing; otherwise the *)
(* load's share of the increment is active.                                *)
zoneUpdate(zs, z, first, load, tree, bad) ==
    LET e == zoneEnergy(zs, z, tree, bad)
        d == k012Delta(e.abs, zs.energy, MaxUJ(z))
        active == (d * load) \div KLoadMax
    IN  IF e.failed THEN [e.zone EXCEPT !.has = FALSE]
        ELSE [e.zone EXCEPT !.has = TRUE, !.energy = e.abs,
                !.active = IF first \/ ~zs.has THEN 0 ELSE @ + active,
                !.idle = IF first THEN e.abs ELSE IF ~zs.has THEN 0 ELSE @ + (d - active)]
Kepler012 == [seen |-> FALSE, at |-> 0, found |-> FALSE, zones |-> [z \in ZoneNames |-> NoZone(z)]]
(* observe: the zones are listed until a listing finds some; a range that  *)
(* cannot be read fails the listing, and the node is forgotten.            *)
k012Observe(st, r, t, tree, bad, listed) ==
    IF ~st.found /\ ~listed THEN Kepler012
    ELSE IF ~Later(st, t) THEN [st EXCEPT !.found = TRUE]
    ELSE [seen |-> TRUE, at |-> t, found |-> TRUE,
          zones |-> [z \in ZoneNames |-> zoneUpdate(st.zones[z], z, ~st.seen, r.load, tree, bad)]]
k012Points(st) ==
    [c \in {<<z, m>> : z \in {y \in ZoneNames : st.zones[y].has}, m \in {"active", "idle"}} |-> st.zones[c[1]][c[2]]]

-----------------------------------------------------------------------------
(* A GPU: Kepler 0.12 splits its device energy by the power beyond the     *)
(* lowest seen while it ran nothing; dcgm.go and amd.go report the device  *)
(* counter, AMD not when it is 0.                                          *)
k012Gpu == [seen |-> FALSE, at |-> 0, counter |-> NoCounter, idleSeen |-> FALSE, minIdle |-> 0, active |-> 0, idle |-> 0,
        total |-> 0]
gpuUpdate(st, r, t) ==
    IF ~Later(st, t) THEN st
    ELSE LET p == r.w["gpu"]
             rest == r.load = 0 /\ (~st.idleSeen \/ p < st.minIdle)
             idleW == IF rest THEN p ELSE IF st.idleSeen THEN st.minIdle ELSE 0
             d == delta(st.counter, r.e["gpu"])
             active == IF p = 0 \/ p <= idleW THEN 0 ELSE (d * (p - idleW)) \div p
         IN  [seen |-> TRUE, at |-> t, counter |-> Counted(r.e["gpu"]), idleSeen |-> st.idleSeen \/ rest,
              minIdle |-> IF rest THEN p ELSE st.minIdle, active |-> st.active + active, idle |-> st.idle + (d - active),
              total |-> r.e["gpu"]]
dcgmPoints(st) == [c \in {"dcgm"} |-> st.total]
amdPoints(st) == [c \in IF st.total > 0 THEN {"amd"} ELSE {} |-> st.total]
k012GpuPoints(st) ==
    [c \in {"total", "active", "idle"} |->
        IF c = "total" THEN st.total ELSE IF c = "active" THEN st.active ELSE st.idle]
\* The three formats of the GPU together.
gpuPoints(st) ==
    LET d == dcgmPoints(st)
        a == amdPoints(st)
        k == k012GpuPoints(st)
    IN  [c \in DOMAIN d \cup DOMAIN a \cup DOMAIN k |->
            IF c \in DOMAIN d THEN d[c] ELSE IF c \in DOMAIN a THEN a[c] ELSE k[c]]

-----------------------------------------------------------------------------
NoExporter(f) == CASE f = "k07" -> Kepler07 [] f = "k012" -> Kepler012 [] f = "gpu" -> k012Gpu
(* What a counter is measured against: the first reading of its series, or *)
(* of the run of readings that did not fail.                               *)
Origin(f) ==
    CASE f = "k07" -> [s \in k07Families |-> 0]
      [] f = "k012" -> [z \in ZoneNames |-> [at |-> [p \in Parts |-> 0], base |-> 0, upto |-> [p \in Parts |-> 0]]]
      [] f = "gpu" -> 0

KxInit ==
    /\ format \in {"k07", "k012", "gpu"}
    /\ kclock = 1 /\ kticks = 0 /\ kfaults = 0
    /\ spent = [m \in Meters[format] |-> 0] /\ kshown = spent
    /\ kreading = NoReading(format)
    /\ exporter = NoExporter(format) /\ points = <<>> /\ since = Origin(format)

(* Set.Observe, on the emulator's goroutine, once a snapshot is published: *)
(* the exporter's state, and a view that replaces the last one.            *)
ObserveSnapshot(r, t, bad, listed) ==
    CASE format = "k07" ->
            /\ exporter' = k07Update(exporter, r, t)
            /\ points' = k07Points(exporter')
            /\ since' = IF exporter.seen THEN since ELSE [s \in k07Families |-> EnergyOf(r, s)]
      [] format = "k012" ->
            /\ exporter' = k012Observe(exporter, r, t, kshown', bad, listed)
            /\ points' = k012Points(exporter')
            /\ since' = [z \in ZoneNames |->
                            IF ~exporter'.zones[z].has \/ ~Later(exporter, t) THEN since[z]
                            ELSE IF exporter.zones[z].has THEN [since[z] EXCEPT !.upto = kshown']
                            ELSE [at |-> kshown', base |-> exporter'.zones[z].idle, upto |-> kshown']]
      [] format = "gpu" ->
            /\ exporter' = gpuUpdate(exporter, r, t)
            /\ points' = gpuPoints(exporter')
            /\ since' = IF exporter.seen THEN since ELSE r.e["gpu"]

(* A tick of the emulator and its publication.  A member whose step fails  *)
(* keeps its last reading under the new time, and its tree may or may not  *)
(* have moved; a tick at the time of the last one is taken.                *)
KxTicks ==
    /\ kticks < MaxKTicks /\ kticks' = kticks + 1
    /\ \E dt \in KSteps, w \in [Meters[format] -> KPowers], load \in KLoads,
          ok \in BOOLEAN, moved \in BOOLEAN, bad \in {{}} \cup {{p} : p \in Parts}, listed \in BOOLEAN :
        LET faults == (IF ok THEN 0 ELSE 1) + Cardinality(bad) + (IF listed THEN 0 ELSE 1)
            real == [m \in Meters[format] |-> spent[m] + w[m] * dt]
        IN  /\ kfaults + faults <= KFaults /\ kfaults' = kfaults + faults
            /\ (ok => moved) /\ (format # "k012" => bad = {} /\ listed) /\ (~listed => ~exporter.found)
            /\ kclock' = kclock + dt
            /\ spent' = real
            /\ kshown' = IF moved THEN real ELSE kshown
            /\ kreading' = IF ok THEN [e |-> real, w |-> w, load |-> load] ELSE kreading
            /\ ObserveSnapshot(kreading', kclock', bad, listed)
    /\ UNCHANGED format

\* The series that report a counter of the hardware.
Hardware == IF format = "gpu" THEN {"dcgm", "amd", "total"} ELSE {}

(* A restart: the exporters' own counters start again, the node's counters *)
(* continue from what its files show (nodeNewCounter).  The view of a      *)
(* device counter stays what a scrape last saw.                            *)
KxRestarts ==
    /\ kfaults < KFaults /\ kfaults' = kfaults + 1
    /\ spent' = kshown
    /\ kreading' = [NoReading(format) EXCEPT !.e = kshown]
    /\ exporter' = NoExporter(format) /\ since' = Origin(format)
    /\ points' = [c \in DOMAIN points \cap Hardware |-> points[c]]
    /\ UNCHANGED <<format, kclock, kshown, kticks>>

KxNext == KxTicks \/ KxRestarts
KxSpec == KxInit /\ [][KxNext]_kxVars

-----------------------------------------------------------------------------
(* Kepler 0.7: idle and dynamic are what the series measured since its     *)
(* first reading and the excess the simulator owns up to (k07Split.add).   *)
K07Conserves ==
    format = "k07" /\ exporter.seen =>
        \A f \in k07Families :
            LET s == exporter.series[f]
            IN  s.split.idleJ + s.split.dynJ = (s.counter.last - since[f]) + s.split.excessJ
(* Kepler 0.12: active and idle are what the zone's parts counted since    *)
(* the run of readings began, less one unit for each wrap of a part, which *)
(* upstream's arithmetic loses (k012Delta, k012Zone.energy).               *)
K012Conserves ==
    format = "k012" =>
        \A z \in ZoneNames :
            LET s == exporter.zones[z]
                o == since[z]
                gained == [i \in DOMAIN Zones[z] |-> LET p == Zones[z][i]
                              IN  (o.upto[p] - o.at[p]) - ((o.upto[p] \div Span) - (o.at[p] \div Span))]
            IN  s.has => s.active + s.idle = o.base + MapThenSumSet(LAMBDA i : gained[i], DOMAIN Zones[z])
(* A GPU's active and idle energy are its device energy since its first    *)
(* reading.                                                                *)
GpuConserves == format = "gpu" /\ exporter.seen => exporter.active + exporter.idle = exporter.counter.last - since

(* A series that is served again is never lower than it was: a device      *)
(* counter not even across a restart, an exporter's own counter unless a   *)
(* reading of its zone failed or the simulator restarted.                  *)
SeriesGrow == \A c \in DOMAIN points \cap DOMAIN points' : points'[c] >= points[c]

(* The exporters neither lose nor make energy: the four facts above.       *)
ExportersConserve ==
    /\ [](K07Conserves /\ K012Conserves /\ GpuConserves)
    /\ [][SeriesGrow]_kxVars
=============================================================================
