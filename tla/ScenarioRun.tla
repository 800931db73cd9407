---------------------------- MODULE ScenarioRun ----------------------------
(***************************************************************************)
(* One variant of a scenario: simscenario run drives a run of the          *)
(* simulator and records it (cmd/simscenario, pkg/scenario), the harness   *)
(* script copies the simulator's files out, simscenario evaluate judges    *)
(* the directory and simscenario summarize compares it with a reference.   *)
(*                                                                         *)
(* The simulator and the script are outside: the simulator's files lag     *)
(* behind the run until it ends, and are complete from then on.            *)
(***************************************************************************)
EXTENDS Verdict

CONSTANTS
    Binds,         \* the classes of the nodes a job may be bound to, and for how long they held them
    Compares,      \* the comparison of a scenario
    References,    \* the summaries the reference variant may have left
    Deadline,      \* duration plus drain
    AbortOnStall,  \* abortOnRunStalled
    MaxTick, ScenarioFaults, MaxEvaluations   \* bounds

VARIABLES
    asked,    \* the assertion, and the trace
    tick,
    srun,     \* the run as it took place in the simulator
    har,      \* simscenario: where it is and what it holds
    vdir,     \* the variant directory
    verdict,  \* the exit codes of the commands and of the script
    scenFaults

scenVars == <<asked, tick, srun, har, vdir, verdict, scenFaults>>

NoStatus == [phase |-> "", stalled |-> FALSE, start |-> None, elapsed |-> None]

ScenInit(as) ==
    /\ asked \in as
    /\ tick = 0
    /\ srun = [up |-> TRUE, phase |-> "none", job |-> [j \in asked.trace |-> [st |-> "none", at |-> None, dur |-> None, wrong |-> FALSE]],
               log |-> <<>>, start |-> None, end |-> None, work |-> None, snaps |-> {}, stalled |-> FALSE, everStalled |-> FALSE]
    /\ har = [pc |-> "preflight", now |-> 0, status |-> NoStatus, reason |-> "", since |-> None, sum |-> NoSummary]
    /\ vdir = [log |-> <<>>, points |-> <<>>, kinds |-> 0, kube |-> [jobsNotComplete |-> 0, strayPodsOnFakeNodes |-> 0],
               status |-> NoStatus, reason |-> "", torn |-> FALSE, copied |-> FALSE, sim |-> <<>>, snaps |-> {}, summary |-> NoSummary, evals |-> 0]
    /\ verdict = [run |-> None, first |-> None, script |-> None, top |-> <<>>]
    /\ scenFaults = 0

ScenFault == scenFaults < ScenarioFaults /\ scenFaults' = scenFaults + 1
FailsIf(no) == IF no THEN ScenFault ELSE scenFaults' = scenFaults

-----------------------------------------------------------------------------
(* The simulator (external): WorkloadRun models it; here it is what its    *)
(* run API and its files show.  It moves on where the next step of the     *)
(* harness would see it.                                                   *)
Watched == har.pc \in {"poll", "wait", "snapshot", "finish"}

Elapsed == (IF srun.end # None THEN srun.end ELSE tick) - srun.start
SimLog(e) == [srun EXCEPT !.log = Append(@, e)]
Ended(r, phase) == [r EXCEPT !.phase = phase, !.end = tick, !.stalled = FALSE, !.snaps = @ \cup {tick}]

JobStep(j) ==
    LET b == srun.job[j]
        binds == IF asked.type = "placement" THEN Binds[j] ELSE {<<"performance", 0>>}
    IN /\ Watched /\ srun.up /\ srun.phase = "running"
       /\ \/ /\ b.st = "none" /\ tick - srun.start >= Offset[j]
             /\ \E k \in binds : srun' =
                  [SimLog([Rec("scheduled", "simulator") EXCEPT !.job = j, !.class = k[1], !.since = k[2]]) EXCEPT
                     !.job[j] = [st |-> "bound", at |-> tick, dur |-> None, wrong |-> k[1] = "eco" /\ k[2] # 0],
                     !.work = IF @ = None THEN tick ELSE @]
          \/ /\ b.st = "bound"
             /\ \E o \in {"completed"} \cup (IF asked.type \in {"jobs", "objects"} THEN {"failed"} ELSE {}) : srun' =
                  [SimLog([Rec(o, "simulator") EXCEPT !.job = j, !.dur = IF o = "completed" THEN tick - b.at ELSE None]) EXCEPT
                     !.job[j].st = o, !.job[j].dur = IF o = "completed" THEN tick - b.at ELSE None]
       /\ UNCHANGED <<asked, tick, har, vdir, verdict, scenFaults>>

RunStalls ==
    /\ Watched /\ srun.up /\ srun.phase = "running" /\ ~srun.everStalled /\ asked.type \in {"stall", "events"}
    /\ \E j \in asked.trace : srun.job[j].st = "none"
    /\ srun' = [SimLog(Rec("run.stalled", "simulator")) EXCEPT !.stalled = TRUE, !.everStalled = TRUE]
    /\ UNCHANGED <<asked, tick, har, vdir, verdict, scenFaults>>

RunEnds ==
    /\ Watched /\ srun.up /\ srun.phase = "running" /\ \A j \in asked.trace : srun.job[j].st \in {"completed", "failed"}
    /\ srun' = Ended(SimLog(Rec("run.finished", "simulator")), "finished")
    /\ UNCHANGED <<asked, tick, har, vdir, verdict, scenFaults>>

WritesMetrics ==
    /\ Watched /\ srun.up /\ srun.phase = "running" /\ tick \notin srun.snaps /\ tick > srun.start
    /\ asked.type = "twinPower" \/ asked.key = "total"
    /\ srun' = [srun EXCEPT !.snaps = @ \cup {tick}]
    /\ UNCHANGED <<asked, tick, har, vdir, verdict, scenFaults>>

(* endLocked by request: whatever is not terminal ends incomplete.         *)
Finished(r) ==
    LET left == {j \in asked.trace : r.job[j].st \in {"none", "bound"}}
        log == r.log \o [i \in 1..Cardinality(left) |-> [Rec("incomplete", "simulator") EXCEPT !.job = SetToSeq(left)[i]]]
    IN IF r.phase # "running" THEN r
       ELSE Ended([r EXCEPT !.log = Append(log, Rec("run.finished", "simulator")),
                            !.job = [j \in asked.trace |-> IF j \in left THEN [@[j] EXCEPT !.st = "incomplete"] ELSE @[j]]],
                  IF left = {} THEN "finished" ELSE "aborted")

SimDies ==
    /\ Watched /\ srun.up /\ srun.phase = "running" /\ ScenFault
    /\ srun' = [srun EXCEPT !.up = FALSE]
    /\ UNCHANGED <<asked, tick, har, vdir, verdict>>

StatusOf(r) == [phase |-> r.phase, stalled |-> r.stalled, start |-> r.start, elapsed |-> (IF r.end # None THEN r.end ELSE tick) - r.start]

(* The energy series: an idle one of 2 W from the run's start and the      *)
(* work's, of 1 W from the first bind.                                     *)
SimEnergy(at) == 2 * (at - srun.start) + (IF srun.work = None \/ at < srun.work THEN 0 ELSE at - srun.work)
PointsAt(at) == <<Pt("energy", "idle", srun.start, at, 2 * (at - srun.start))>> \o
                (IF srun.work = None \/ at <= srun.work THEN <<>> ELSE <<Pt("energy", "work", srun.work, at, at - srun.work)>>)

-----------------------------------------------------------------------------
(* runVariant.                                                             *)

Step(pc) == har' = [har EXCEPT !.pc = pc]
RunExits(rc) == har' = [har EXCEPT !.pc = "copy"] /\ verdict' = [verdict EXCEPT !.run = rc]

(* CheckPodCompleteStage, then the start records and the start snapshot.   *)
Preflight ==
    /\ har.pc = "preflight"
    /\ \E stage \in {"annotation", "owner"}, no \in BOOLEAN :
         /\ FailsIf(no)
         /\ IF stage = "owner" \/ no
            THEN RunExits(2) /\ UNCHANGED vdir
            ELSE /\ Step("start") /\ UNCHANGED verdict
                 /\ vdir' = [vdir EXCEPT !.log = <<Rec("scenario.started", "harness")>>]
    /\ UNCHANGED <<asked, tick, srun>>

(* SimClient.Start: 409 while another run is active; the answer of a run   *)
(* that started may be lost.                                               *)
StartRun ==
    /\ har.pc = "start"
    /\ \E lost, down, busy \in BOOLEAN :
         /\ FailsIf(lost \/ down) /\ ~(lost /\ down)
         /\ IF busy \/ down THEN UNCHANGED srun
            ELSE srun' = [SimLog(Rec("run.started", "simulator")) EXCEPT !.phase = "running", !.start = tick]
         /\ IF busy \/ down \/ lost THEN RunExits(2) ELSE Step("capture") /\ UNCHANGED verdict
    /\ UNCHANGED <<asked, tick, vdir>>

(* captureLoop, one iteration: the twins at now, then the run's status.    *)
CaptureTwins ==
    /\ har.pc = "capture"
    /\ \E no \in {"", "list", "write"} :
         /\ FailsIf(no # "")
         /\ har' = [har EXCEPT !.now = tick, !.pc = IF no = "write" THEN "interrupted" ELSE "poll"]
         /\ \E w \in IF asked.type = "twinPower" /\ tick >= srun.start + 2 THEN {2, 3} ELSE {2} :
              vdir' = IF no # "" \/ asked.type # "twinPower" THEN vdir
                      ELSE [vdir EXCEPT !.points = Append(@, Pt("twin", "twin", 0, tick, w))]
    /\ UNCHANGED <<asked, tick, srun, verdict>>

Leaves(reason, st, sn) == [har EXCEPT !.pc = "snapshot", !.reason = reason, !.status = st, !.since = sn]
PollRun ==
    /\ har.pc = "poll"
    /\ \E no \in BOOLEAN :
         /\ FailsIf(no /\ srun.up) /\ (~srun.up => no)
         /\ LET st == IF no THEN har.status ELSE StatusOf(srun)
                since == IF ~st.stalled THEN None ELSE IF har.since = None THEN har.now ELSE har.since
            IN har' = CASE st.phase \in {"finished", "aborted"} -> Leaves("finished", st, har.since)
                        [] st.phase \notin {"finished", "aborted"} /\ har.now >= Deadline -> Leaves("deadline", st, har.since)
                        [] OTHER -> IF since # None /\ har.now - since >= AbortOnStall THEN Leaves("stalled", st, since)
                                    ELSE [har EXCEPT !.pc = "wait", !.status = st, !.since = since]
    /\ UNCHANGED <<asked, tick, srun, vdir, verdict>>

WaitTick == har.pc = "wait" /\ tick > har.now /\ Step("capture") /\ UNCHANGED <<asked, tick, srun, vdir, verdict, scenFaults>>

(* A signal ends the wait; a failed write of the capture ends it as well.  *)
Interrupt ==
    /\ \/ har.pc = "wait" /\ ScenFault
       \/ har.pc = "interrupted" /\ UNCHANGED scenFaults
    /\ har' = [har EXCEPT !.pc = "snapshot", !.reason = "interrupted"]
    /\ UNCHANGED <<asked, tick, srun, vdir, verdict>>

(* The end snapshot, before finish deletes the run's objects: a listing    *)
(* that fails is a warning, a kind that cannot be written ends the run.    *)
EndSnapshot ==
    /\ har.pc = "snapshot"
    /\ LET open == {j \in asked.trace : srun.job[j].st = "bound"}
           bad == {j \in asked.trace : srun.job[j].st \in {"bound", "failed"}}
           kube == [jobsNotComplete |-> Cardinality(bad), strayPodsOnFakeNodes |-> Cardinality(open)]
       IN \/ UNCHANGED scenFaults /\ vdir' = [vdir EXCEPT !.kinds = Len(SnapshotKinds), !.kube = kube] /\ Step("finish") /\ UNCHANGED verdict
          \/ ScenFault /\ Step("finish") /\ UNCHANGED <<vdir, verdict>>
          \/ ScenFault /\ RunExits(2) /\ \E n \in 0..(Len(SnapshotKinds) - 1) : vdir' = [vdir EXCEPT !.kinds = n, !.kube = kube]
    /\ UNCHANGED <<asked, tick, srun>>

FinishRun ==
    /\ har.pc = "finish"
    /\ IF har.status.phase \notin {"running", ""}
       THEN har' = [har EXCEPT !.pc = "status"] /\ UNCHANGED <<srun, verdict, scenFaults>>
       ELSE \E no \in BOOLEAN :
              /\ FailsIf(no /\ srun.up) /\ (~srun.up => no)
              /\ srun' = IF srun.up THEN Finished(srun) ELSE srun
              /\ IF no THEN RunExits(2)
                 ELSE har' = [har EXCEPT !.pc = "status", !.status = StatusOf(Finished(srun))] /\ UNCHANGED verdict
    /\ UNCHANGED <<asked, tick, vdir>>

WriteStatus ==
    /\ har.pc = "status"
    /\ har' = [har EXCEPT !.pc = "end", !.reason = IF @ = "deadline" /\ har.status.phase = "finished" THEN "finished" ELSE @]
    /\ vdir' = [vdir EXCEPT !.status = har.status]
    /\ UNCHANGED <<asked, tick, srun, verdict, scenFaults>>

WriteEnd ==
    /\ har.pc = "end" /\ Step("prom")
    /\ vdir' = [vdir EXCEPT !.reason = har.reason]
    /\ UNCHANGED <<asked, tick, srun, verdict, scenFaults>>

(* recordPrometheus, then the logs: failures are warnings.  The run exits  *)
(* with the loop's error.                                                  *)
RecordPrometheus ==
    /\ har.pc = "prom"
    /\ RunExits(IF har.reason = "interrupted" THEN 2 ELSE 0)
    /\ \E no \in BOOLEAN, v \in IF asked.type = "promql" THEN {0, 2} ELSE {0} :
         /\ FailsIf(no)
         /\ vdir' = IF no \/ asked.type # "promql" THEN vdir
                    ELSE [vdir EXCEPT !.points = Append(@, Pt("value", "observed", 0, tick, v))]
    /\ UNCHANGED <<asked, tick, srun>>

(* The command is killed: what it was writing is torn.                     *)
Writing == {"preflight", "capture", "snapshot", "status", "end", "prom", "eLogs", "eMetrics", "eSummary"}
CommandKilled ==
    /\ har.pc \notin {"copy", "evaluate", "over"} /\ ScenFault
    /\ IF har.pc \in {"eLogs", "eMetrics", "eSummary"}
       THEN Step("evaluate") /\ verdict' = [verdict EXCEPT !.first = 2]
       ELSE RunExits(2)
    /\ \E t \in BOOLEAN : (t => har.pc \in Writing) /\ vdir' = [vdir EXCEPT !.torn = @ \/ t]
    /\ UNCHANGED <<asked, tick, srun>>

-----------------------------------------------------------------------------
(* The script (external) copies the simulator's files, whole once the run  *)
(* has ended.                                                              *)
CopyFiles ==
    /\ har.pc = "copy" /\ Step("evaluate")
    /\ \/ /\ UNCHANGED <<scenFaults, verdict>>
          /\ IF srun.phase = "none" THEN UNCHANGED vdir
             ELSE \E n \in IF srun.phase = "running" THEN {1, Len(srun.log)} ELSE {Len(srun.log)} :
                    vdir' = [vdir EXCEPT !.copied = TRUE, !.sim = SubSeq(srun.log, 1, n), !.snaps = srun.snaps]
       \/ ScenFault /\ UNCHANGED vdir /\ verdict' = [verdict EXCEPT !.first = 2]
    /\ UNCHANGED <<asked, tick, srun>>

(* evaluate: ReadRunData, ReadRunEnd, Evaluate and Finish, then the        *)
(* records of the results, their values and the summary.                   *)
AllPoints == FoldSeq(LAMBDA at, ps : PointsAt(at) \o ps, <<>>, SetToSortSeq(vdir.snaps, LAMBDA x, y : x > y)) \o vdir.points
RunData == [trace |-> asked.trace, start |-> vdir.status.start, elapsed |-> vdir.status.elapsed, events |-> vdir.sim \o vdir.log, points |-> AllPoints,
            kinds |-> vdir.kinds, kube |-> vdir.kube]
ReadRunData == dropEvaluations(RunData, asked)
Judge ==
    IF vdir.torn THEN Aborted
    ELSE VariantSummary(ReadRunData, asked, IF vdir.status.phase = "" THEN "aborted" ELSE RunErr(vdir.reason))

EvaluateRecords ==
    /\ har.pc = "evaluate" /\ vdir.evals < MaxEvaluations
    /\ har' = [har EXCEPT !.pc = IF vdir.torn THEN "eSummary" ELSE "eMetrics", !.sum = Judge]
    /\ vdir' = [vdir EXCEPT !.evals = @ + 1,
                            !.log = IF vdir.torn THEN @ ELSE @ \o <<Rec("assertion.evaluated", "harness"), Rec("scenario.finished", "harness")>>]
    /\ UNCHANGED <<asked, tick, srun, verdict, scenFaults>>

EvaluateValues ==
    /\ har.pc = "eMetrics" /\ Step("eSummary")
    /\ LET o == Observe(ReadRunData, asked)
       IN vdir' = [vdir EXCEPT !.points = @ \o (IF o # NoData /\ asked.type # "promql" THEN <<Pt("value", "observed", 0, tick, o[1])>> ELSE <<>>)
                                          \o <<Pt("value", "expected", 0, tick, asked.val)>>]
    /\ UNCHANGED <<asked, tick, srun, verdict, scenFaults>>

EvaluateSummary ==
    /\ har.pc = "eSummary" /\ Step("evaluate")
    /\ vdir' = [vdir EXCEPT !.summary = har.sum]
    /\ verdict' = [verdict EXCEPT !.first = IF @ = None THEN har.sum.exit ELSE @]
    /\ UNCHANGED <<asked, tick, srun, scenFaults>>

(* summarize, and the script's exit code: a variant that could not be run  *)
(* counts whatever its summary says.                                       *)
Summarize ==
    /\ har.pc = "evaluate" /\ verdict.first # None /\ vdir.evals = MaxEvaluations /\ Step("over")
    /\ \E c \in Compares, ref \in (IF vdir.summary.exit = 0 THEN References ELSE {NoSummary}) :
          LET top == TopSummary(c, vdir.summary, ref)
              variant == IF verdict.run # 0 THEN 2 ELSE verdict.first
          IN verdict' = [verdict EXCEPT !.top = <<top.exit, c, ref>>, !.script = IF variant = 2 THEN 2 ELSE top.exit]
    /\ UNCHANGED <<asked, tick, srun, vdir, scenFaults>>

Ticks ==
    /\ tick < MaxTick /\ tick' = tick + 1 /\ har.pc \in {"poll", "wait", "finish"}
    /\ UNCHANGED <<asked, srun, har, vdir, verdict, scenFaults>>

ScenNext ==
    \/ \E j \in asked.trace : JobStep(j)
    \/ RunStalls \/ RunEnds \/ WritesMetrics \/ SimDies \/ Ticks
    \/ Preflight \/ StartRun \/ CaptureTwins \/ PollRun \/ WaitTick \/ Interrupt \/ EndSnapshot \/ FinishRun
    \/ WriteStatus \/ WriteEnd \/ RecordPrometheus \/ CommandKilled
    \/ CopyFiles \/ EvaluateRecords \/ EvaluateValues \/ EvaluateSummary \/ Summarize

-----------------------------------------------------------------------------
\* Every twin sample that could be judged is the node's average power over
\* the part of its window the metrics cover.
TwinsTrue ==
    \A i \in DOMAIN vdir.points :
        LET p == vdir.points[i]
            times == {srun.start} \cup vdir.snaps \cup (IF srun.work # None /\ \E s \in vdir.snaps : s > srun.work THEN {srun.work} ELSE {})
            upto(x) == {u \in times : u <= x}
        IN p.metric = "twin" /\ p.t >= srun.start + 2 /\ upto(p.t - 2) # {} /\ vdir.snaps # {} /\ Max(upto(p.t)) > Max(upto(p.t - 2))
             => p.v * (Max(upto(p.t)) - Max(upto(p.t - 2))) = SimEnergy(Max(upto(p.t))) - SimEnergy(Max(upto(p.t - 2)))

(* What the assertion says, of the run that took place.                    *)
DueJobs == {j \in asked.trace : Offset[j] < Window /\ Offset[j] <= Elapsed}
DoneJobs == {j \in DueJobs : srun.job[j].st = "completed"}
IsTrue ==
    CASE asked.type = "jobs" /\ asked.key = "completedFraction" -> \A j \in DueJobs : srun.job[j].st = "completed"
      [] asked.type = "jobs" /\ asked.key = "failed" -> \A j \in DueJobs : srun.job[j].st # "failed"
      [] asked.type = "jobs" /\ asked.key = "incomplete" -> \A j \in DueJobs : srun.job[j].st \in {"completed", "failed"}
      [] asked.type = "stall" -> ~srun.everStalled
      [] asked.type = "events" -> asked.key = "run.stalled" => ~srun.everStalled
      [] asked.type = "placement" -> \A j \in asked.trace : ~srun.job[j].wrong
      [] asked.type = "energy" ->
            SimEnergy(srun.end) <= asked.val * (IF asked.key = "perJob" THEN Cardinality({j \in asked.trace : srun.job[j].st = "completed"}) ELSE 1)
      [] asked.type = "latency" -> MapThenSumSet(LAMBDA j : srun.job[j].dur, DoneJobs) <= asked.val * Cardinality(DoneJobs)
      [] asked.type = "twinPower" -> TwinsTrue
      [] OTHER -> TRUE

(* A summary that says success was written of a run whose assertion is     *)
(* true, and the script exits with 0 only for a run that ended by itself   *)
(* or for staying stalled, with a comparison of two energies that were     *)
(* measured (NoData: "an assertion can never pass vacuously").             *)
PassedIsTrue ==
    /\ vdir.summary.status = "success" /\ asked.sev = "fail" => IsTrue
    /\ verdict.script = 0 =>
         /\ har.reason \in {"finished", "stalled"} /\ srun.phase \in {"finished", "aborted"}
         /\ verdict.top[3].exit = 0
         /\ verdict.top[2].sev = "fail" => verdict.top[3].energy > 0 /\ SimEnergy(srun.end) > 0

(* "Evaluating a directory again then reads the run's records only, and    *)
(* gives the same results" (dropEvaluations), unless a killed command      *)
(* left a torn file.                                                       *)
SameVerdict == [][vdir.summary.status # "none" /\ ~vdir.torn => vdir'.summary = vdir.summary]_scenVars

(* A verdict is true of the run, whatever failed on the way to it, and it  *)
(* is the same each time it is asked for (cmdEvaluate, ReadRunData).       *)
VerdictStands == []PassedIsTrue /\ SameVerdict
=============================================================================
