---------------------------- MODULE PowerReader ----------------------------
(***************************************************************************)
(* Power from an HTTP telemetry endpoint (otlpjson.PowerReader of          *)
(* pkg/otel/otlpjson/power.go), as the agent and the controller manager    *)
(* read it: successive documents with cumulative energy counters become    *)
(* rates.  The producers of a document restart and stall, a document may   *)
(* come late, and the reader runs on a clock of its own.                   *)
(*                                                                         *)
(* Time is a tick, the same for producers and reader.  A power level is a  *)
(* multiple of every interval up to Bound, so that rates are whole.        *)
(***************************************************************************)
EXTENDS Integers, Sequences, FiniteSetsExt

CONSTANTS
    Series,   \* energy series of the node: producers that report a component
    CompOf,   \* the component (hw.type, hw.id) of a series
    Gauges,   \* components with a power gauge
    Starts,   \* series whose points carry a startTimeUnixNano
    Levels,   \* power a component may draw
    Bound,    \* MaxInterval, in ticks
    Lag,      \* documents by which an answer may be late
    MaxT      \* bound on time

Comps == {CompOf[s] : s \in Series} \cup Gauges

ASSUME PowerAssumption ==
    /\ Bound \in Nat \ {0} /\ Lag \in Nat /\ MaxT \in Nat
    /\ Levels \subseteq Nat /\ \A l \in Levels, d \in 1..Bound : l % d = 0
    /\ Starts \subseteq Series

VARIABLES
    power,  \* power[t][k]: what component k drew in tick t; its length is now
    born,   \* born[s]: when the counter of series s last started from zero
    docs,   \* the documents an answer may carry, the latest last
    kept,   \* PowerReader.series of the node: the point kept of each series
    watts   \* what the last read returned

readerVars == <<kept, watts>>
powerVars == <<power, born, docs, readerVars>>

now == Len(power)

\* The energy a component used in the ticks a+1..b.
Energy(k, a, b) == MapThenSumSet(LAMBDA t : power[t][k], (a + 1)..b)

-----------------------------------------------------------------------------
(* Points.  A point is what a producer says of its series: the start of    *)
(* the counter (0 when it sends none), the time, and the energy since.     *)

NoPoint == [start |-> -1, time |-> 0, energy |-> 0]

PointNow(s) ==
    [start  |-> IF s \in Starts THEN born[s] + 1 ELSE 0,
     time   |-> now + 1,
     energy |-> Energy(CompOf[s], born[s], now)]

\* What a document says: a point per series that is in it, and the gauges.
DocNow(present) ==
    [points |-> [s \in Series |-> IF s \in present THEN PointNow(s) ELSE NoPoint],
     gauges |-> [k \in Gauges |-> IF now = 0 THEN 0 ELSE power[now][k]]]

Cold == -1
NoKept == [start |-> -1, time |-> 0, energy |-> 0, rate |-> Cold, at |-> 0]

First(p) == [start |-> p.start, time |-> p.time, energy |-> p.energy, rate |-> Cold, at |-> now]

(* A point that did not advance repeats the last one until it has left the *)
(* window, a decrease or too long an interval starts again.                *)
Advance(old, p) ==
    IF p.time <= old.time THEN IF now - old.at > Bound THEN [old EXCEPT !.rate = Cold] ELSE old
    ELSE IF p.energy < old.energy \/ p.time - old.time > Bound THEN First(p)
    ELSE [First(p) EXCEPT !.rate = (p.energy - old.energy) \div (p.time - old.time)]

\* A decrease is the only sign of a new lifetime.
IgnoresStart(old, p) == IF old = NoKept THEN First(p) ELSE Advance(old, p)

(* A cumulative point: the first of a lifetime has no rate.                *)
KeepPoint(old, p) ==
    IF old = NoKept \/ (old.start # 0 /\ p.start # 0 /\ p.start # old.start) THEN First(p)
    ELSE Advance(old, p)

\* A series that is missing from a document is forgotten.
KeepAll(doc) ==
    [s \in Series |-> IF doc.points[s] = NoPoint THEN NoKept ELSE KeepPoint(kept[s], doc.points[s])]

(* Watts: per component the highest rate of its series, or its gauge while *)
(* they warm up; nothing when a component has neither.                     *)
Reading(doc, series, k) ==
    LET rates == {series[s].rate : s \in {r \in Series : CompOf[r] = k /\ series[r] # NoKept}}
        warm == rates \ {Cold}
    IN  CASE warm # {} -> Max(warm)
          [] warm = {} /\ k \in Gauges -> doc.gauges[k]
          [] OTHER -> Cold

Named(doc) == {k \in Comps : k \in Gauges \/ \E s \in Series : CompOf[s] = k /\ doc.points[s] # NoPoint}

Watts(doc, series) ==
    IF Named(doc) = {} \/ \E k \in Named(doc) : Reading(doc, series, k) = Cold THEN Cold
    ELSE MapThenSumSet(LAMBDA k : Reading(doc, series, k), Named(doc))

-----------------------------------------------------------------------------
(* Steps.                                                                  *)

\* A document of the endpoint: the producers write, all or some of them.
Publish ==
    /\ \E present \in SUBSET Series :
        LET d == Append(docs, DocNow(present))
        IN  docs' = SubSeq(d, Max({1, Len(d) - Lag}), Len(d))
    /\ docs[Len(docs)] # docs'[Len(docs')]
    /\ UNCHANGED <<power, born, readerVars>>

\* A producer starts again, its counter from zero.
ProducerRestart ==
    /\ \E s \in Series : born[s] < now /\ born' = [born EXCEPT ![s] = now]
    /\ UNCHANGED <<power, docs, readerVars>>

PowerTick ==
    /\ now < MaxT
    /\ \E l \in [Comps -> Levels] : power' = Append(power, l)
    /\ UNCHANGED <<born, docs, readerVars>>

\* ReadPower of an OTLP document.
FetchOTLP ==
    /\ \E j \in DOMAIN docs :
        /\ kept' = KeepAll(docs[j])
        /\ watts' = Watts(docs[j], KeepAll(docs[j]))
    /\ UNCHANGED <<power, born, docs>>

\* ReadPower of the legacy JSON, which leaves the reader as it is; zero is no reading.
FetchLegacy ==
    /\ now > 0
    /\ LET w == MapThenSumSet(LAMBDA k : power[now][k], Comps)
       IN  watts' = IF w > 0 THEN w ELSE Cold
    /\ UNCHANGED <<power, born, docs, kept>>

\* FetchTelemetry, or the decoding, fails.
FetchFails == watts' = Cold /\ UNCHANGED <<power, born, docs, kept>>

PowerInit ==
    /\ power = <<>> /\ born = [s \in Series |-> 0]
    /\ docs = <<[points |-> [s \in Series |-> NoPoint], gauges |-> [k \in Gauges |-> 0]]>>
    /\ kept = [s \in Series |-> NoKept] /\ watts = Cold

PowerNext ==
    \/ Publish \/ ProducerRestart \/ PowerTick
    \/ FetchOTLP \/ FetchLegacy \/ FetchFails

-----------------------------------------------------------------------------
(* Properties.                                                             *)

(* A rate is what the component really drew: the mean over an interval    *)
(* within the window that ends at the point kept and lies in one lifetime  *)
(* of the counter, whatever restarts, stalls, gaps and late documents came *)
(* before.  A producer that sends no start time can only be read low       *)
(* (Watts' "a decrease or a new startTimeUnixNano is a reset").            *)
RateIsTrue ==
    \A s \in Series : kept[s].rate # Cold =>
        LET end == kept[s].time - 1
        IN  \E d \in 1..Bound :
                /\ d <= end
                /\ IF s \in Starts THEN kept[s].rate * d = Energy(CompOf[s], end - d, end)
                   ELSE kept[s].rate * d <= Energy(CompOf[s], end - d, end)
============================================================================
