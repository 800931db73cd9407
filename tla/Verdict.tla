------------------------------ MODULE Verdict ------------------------------
(***************************************************************************)
(* How simulator/pkg/scenario judges one variant of a scenario: what each  *)
(* assertion type observes in the records a run left behind (assert*.go),  *)
(* the comparators, and the summaries of a variant and of the whole run.   *)
(*                                                                         *)
(* `d` is a RunData: its trace, start and elapsed time or None, events,    *)
(* metric points and the kinds of its end snapshot.  An observation is     *)
(* NoData or a ratio <<num, den>>.  Names, messages and units are left     *)
(* out.                                                                    *)
(***************************************************************************)
EXTENDS Integers, Sequences, SequencesExt, FiniteSetsExt

CONSTANTS
    Work,        \* the jobs of a trace
    Offset,      \* when each is submitted
    Window       \* the scenario's duration: the submission window

None == -1
NoData == <<>>

Rec(name, file) == [name |-> name, file |-> file, job |-> "", class |-> "", since |-> None, dur |-> None]
Pt(metric, series, start, at, v) == [metric |-> metric, series |-> series, start |-> start, t |-> at, v |-> v]

(* Expectation.Holds: a ratio compared with a whole number.                *)
ExpectHolds(e, o) ==
    CASE e.op = "<=" -> o[1] <= e.val * o[2]
      [] e.op = ">=" -> o[1] >= e.val * o[2]
      [] e.op = "==" -> o[1] = e.val * o[2]

(* Quantile: linear interpolation between order statistics, q a ratio.     *)
Quantile(values, q) ==
    LET v == SortSeq(values, LAMBDA x, y : x < y)
        p == q[1] * (Len(v) - 1)
        lo == 1 + p \div q[2]
        hi == IF p % q[2] = 0 THEN lo ELSE lo + 1
    IN <<v[lo] * q[2] + (v[hi] - v[lo]) * (p % q[2]), q[2]>>

(***************************************************************************)
(* ReadRunData, once its files decode.                                     *)
(***************************************************************************)

(* dropEvaluations: what an earlier evaluate appended is not part of the   *)
(* run; only a promql assertion's observed value is the run's own.         *)
\* Mutant: an earlier evaluation's records are read as the run's.
KeepsAll(d, a) == d
evaluationEvents == {"assertion.evaluated", "scenario.finished"}
dropEvaluations(d, a) ==
    [d EXCEPT !.events = SelectSeq(d.events, LAMBDA e : e.name \notin evaluationEvents),
              !.points = SelectSeq(d.points, LAMBDA p : p.metric = "value" => p.series = "observed" /\ a.type = "promql")]

(* indexJobs: a job as the records tell it.                                *)
Of(d, j, names) == SelectSeq(d.events, LAMBDA e : e.job = j /\ e.name \in names)
indexJobs(d) ==
    [j \in d.trace |->
        LET ends == Of(d, j, {"completed", "failed", "incomplete"})
            binds == Of(d, j, {"scheduled"})
        IN [due |-> Offset[j] < Window /\ (d.elapsed # None => Offset[j] <= d.elapsed),
            outcome |-> IF ends = <<>> THEN "" ELSE Last(ends).name,
            scheduled |-> binds # <<>>,
            dur |-> IF ends = <<>> THEN None ELSE Last(ends).dur]]

hasRunRecords(d) == \E i \in DOMAIN d.events : d.events[i].name = "run.started"

latestPerSeries(d, metric) ==
    LET at(s) == {i \in DOMAIN d.points : d.points[i].metric = metric /\ d.points[i].series = s}
        newest(s) == {i \in at(s) : \A k \in at(s) : d.points[k].t <= d.points[i].t}
    IN {d.points[Max(newest(s))] : s \in {d.points[i].series : i \in {k \in DOMAIN d.points : d.points[k].metric = metric}}}

Joules(ps) == MapThenSumSet(LAMBDA p : p.v, ps)

(***************************************************************************)
(* The observers.                                                          *)
(***************************************************************************)

observeJobs(d, key) ==
    LET jobs == indexJobs(d)
        due == {j \in d.trace : jobs[j].due}
        with(o) == Cardinality({j \in due : jobs[j].outcome = o})
        open == Cardinality(due) - with("completed") - with("failed")
    IN IF ~hasRunRecords(d) \/ due = {} THEN NoData
       ELSE CASE key = "completedFraction" -> <<with("completed"), Cardinality(due)>>
              [] key = "failed" -> <<with("failed"), 1>>
              [] key = "incomplete" -> <<open, 1>>

observeStall(d) ==
    IF ~hasRunRecords(d) THEN NoData
    ELSE <<Len(SelectSeq(d.events, LAMBDA e : e.name = "run.stalled")), 1>>

harnessEvents == {"scenario.started", "scenario.finished", "assertion.evaluated"}
eventSource(event) == IF event \in harnessEvents THEN "harness" ELSE "simulator"
observeEvents(d, event) ==
    LET records == SelectSeq(d.events, LAMBDA e : e.file = eventSource(event))
    IN IF records = <<>> THEN NoData ELSE <<Len(SelectSeq(records, LAMBDA e : e.name = event)), 1>>

\* A bind to a forbidden class is excused only when the node is known to
\* have held that class for less than the grace.
observePlacement(d, forbidden, grace) ==
    LET judged == SelectSeq(d.events, LAMBDA e : e.name = "scheduled" /\ e.class # "")
        wrong == SelectSeq(judged, LAMBDA e : e.class = forbidden /\ (e.since = None \/ e.since >= grace))
    IN IF judged = <<>> THEN NoData ELSE <<Len(wrong), 1>>

observeEnergy(d, perJob) ==
    LET series == latestPerSeries(d, "energy")
        done == Cardinality({j \in d.trace : indexJobs(d)[j].outcome = "completed"})
    IN CASE series = {} -> NoData
         [] series # {} /\ ~perJob -> <<Joules(series), 1>>
         [] series # {} /\ perJob -> IF done = 0 THEN NoData ELSE <<Joules(series), done>>

latencyValues(d) ==
    LET jobs == indexJobs(d)
        in(j) == jobs[j].due /\ jobs[j].outcome = "completed" /\ jobs[j].dur # None
    IN [i \in DOMAIN SelectSeq(SetToSeq(d.trace), in) |-> jobs[SelectSeq(SetToSeq(d.trace), in)[i]].dur]
observeLatency(d, q) == IF latencyValues(d) = <<>> THEN NoData ELSE Quantile(latencyValues(d), q)

\* Jobs are listed among the first four kinds written, pods among five.
SnapshotKinds == <<"nodetwins", "nodehardwares", "nodes", "jobs", "pods", "events">>
objectKinds == [jobsNotComplete |-> 4, strayPodsOnFakeNodes |-> 5]
observeObjects(d, key) == IF d.kinds < objectKinds[key] THEN NoData ELSE <<d.kube[key], 1>>

observePromQL(d) ==
    LET seen == latestPerSeries(d, "value")
    IN IF seen = {} THEN NoData ELSE <<(CHOOSE p \in seen : TRUE).v, 1>>

(***************************************************************************)
(* twinPower: a NodeTwin's measured power against the rate of the node's   *)
(* energy over the window that ends at the sample.  Energy is read at the  *)
(* times some series has a point or starts, each series being linear       *)
(* between its points and 0 up to its start.                               *)
(***************************************************************************)

EnergyPoints(d) == {d.points[i] : i \in {k \in DOMAIN d.points : d.points[k].metric = "energy"}}
CurveAt(ps, at) ==
    LET before == {p \in ps : p.t <= at}
        after == {p \in ps : p.t > at}
        lo == CHOOSE p \in before : \A q \in before : q.t <= p.t
        hi == CHOOSE p \in after : \A q \in after : q.t >= p.t
    IN CASE after = {} -> lo.v
         [] after # {} /\ before # {} -> lo.v + ((at - lo.t) * (hi.v - lo.v)) \div (hi.t - lo.t)
         [] before = {} -> IF at <= hi.start THEN 0 ELSE (hi.v * (at - hi.start)) \div (hi.t - hi.start)

nodeEnergy(d, at) ==
    LET points == EnergyPoints(d)
        times == {p.t : p \in points} \cup {p.start : p \in points}
        seen == {u \in times : u <= at}
        curves == {{p \in points : p.series = s} : s \in {p.series : p \in points}}
    IN IF seen = {} THEN [t |-> None, e |-> 0]
       ELSE [t |-> Max(seen), e |-> MapThenSumSet(LAMBDA c : CurveAt(c, Max(seen)), curves)]

Gap(x, y) == IF x > y THEN x - y ELSE y - x
twinErrors(d, warmup, window) ==
    LET at(p, back) == nodeEnergy(d, p.t - back)
        rated(p) == /\ p.metric = "twin" /\ p.t >= d.start + warmup
                    /\ at(p, window).t # None /\ at(p, 0).t > at(p, window).t
                    /\ at(p, 0).e > at(p, window).e
        err(p) == LET joules == at(p, 0).e - at(p, window).e
                  IN (100 * Gap(p.v * (at(p, 0).t - at(p, window).t), joules)) \div joules
        samples == SelectSeq(d.points, rated)
    IN [i \in DOMAIN samples |-> err(samples[i])]
observeTwinPower(d, warmup, window, q) ==
    IF twinErrors(d, warmup, window) = <<>> THEN NoData ELSE Quantile(twinErrors(d, warmup, window), q)

(***************************************************************************)
(* Evaluate, and the summaries.                                            *)
(***************************************************************************)

Observe(d, a) ==
    CASE a.type = "jobs" -> observeJobs(d, a.key)
      [] a.type = "stall" -> observeStall(d)
      [] a.type = "events" -> observeEvents(d, a.key)
      [] a.type = "placement" -> observePlacement(d, "eco", 2)
      [] a.type = "energy" -> observeEnergy(d, a.key = "perJob")
      [] a.type = "latency" -> observeLatency(d, a.q)
      [] a.type = "objects" -> observeObjects(d, a.key)
      [] a.type = "twinPower" -> observeTwinPower(d, 2, 2, a.q)
      [] a.type = "promql" -> observePromQL(d)

Evaluate(d, a) == LET o == Observe(d, a) IN o # NoData /\ ExpectHolds(a, o)

RunErr(reason) == CASE reason = "deadline" -> "timed_out" [] reason = "interrupted" -> "aborted" [] OTHER -> ""

(* Finish: fails are the failed checks of severity fail, exits the exit    *)
(* codes of the variants, runErr the status of a run that could not be     *)
(* carried out or evaluated.                                               *)
Finish(fails, exits, runErr) ==
    LET checked == IF fails THEN 1 ELSE 0
        worst == Max({checked} \cup exits)
        exit == IF runErr # "" THEN 2 ELSE worst
    IN [exit |-> exit,
        status |-> CASE exit = 0 -> "success" [] exit = 1 -> "failure" [] OTHER -> IF runErr = "timed_out" THEN "timed_out" ELSE "aborted"]

(* VariantSummary's part that a comparison reads: the energy of a class is *)
(* what its series hold.                                                   *)
VariantSummary(d, a, runErr) ==
    Finish(~Evaluate(d, a) /\ a.sev = "fail", {}, runErr) @@ [energy |-> Joules(latestPerSeries(d, "energy"))]
NoSummary == [exit |-> 2, status |-> "none", energy |-> 0]
Aborted == Finish(FALSE, {}, "aborted") @@ [energy |-> 0]

(* EvaluateComparisons: the ratio of two variants' energies; an energy of  *)
(* 0 J is one that is not held.                                            *)
CompareValue(s) == IF s.energy = 0 THEN None ELSE s.energy
EvaluateComparison(c, variant, reference) ==
    /\ CompareValue(variant) # None /\ CompareValue(reference) # None
    /\ ExpectHolds(c, <<CompareValue(variant), CompareValue(reference)>>)

(* TopSummary: a variant without a summary counts as aborted.              *)
TopSummary(c, variant, reference) ==
    Finish(~EvaluateComparison(c, variant, reference) /\ c.sev = "fail", {variant.exit, reference.exit}, "")
=============================================================================
