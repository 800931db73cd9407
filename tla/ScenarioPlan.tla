---------------------------- MODULE ScenarioPlan ----------------------------
(***************************************************************************)
(* simscenario plan (simulator/pkg/scenario: validate.go, render.go,       *)
(* load.go): a scenario is validated, its trace and the settings of each   *)
(* variant are written, and its work is refused when it cannot end in      *)
(* time.  The scheduler that later places the jobs is outside: any one of  *)
(* Kubernetes' rules, free to wait as it likes.                            *)
(*                                                                         *)
(* Names are model values or small numbers, a taint is its key, the Helm   *)
(* settings are the keys that plan reads, and times are whole seconds; the *)
(* requests and work of a job are such that its ideal runtime is whole.    *)
(* Assertions and captures are judged in Verdict.                          *)
(***************************************************************************)
EXTENDS Policy, Sequences, SequencesExt, FiniteSetsExt

CONSTANTS
    MaxScenarioDuration, MaxVariants,
    MaxScheduled \* bound: seconds a schedule is followed

VARIABLES
    scn,     \* the scenario file
    pstep,   \* where the command is
    vdirs,   \* the variant directories written
    made,    \* the Plan, once computed
    sched    \* the run of one variant, second by second

spVars == <<scn, pstep, vdirs, made, sched>>

Resources == {"cpu", "nvidia", "amd"}
Extended == {"nvidia", "amd"}
Unset == [policy |-> "", frac |-> -1, managed |-> "", ttl |-> -1, power |-> ""]

-----------------------------------------------------------------------------
(* Variants and defaults.                                                  *)

mergeScalars(base, over) == [k \in DOMAIN base |-> IF over[k] # Unset[k] THEN over[k] ELSE base[k]]

RunVariants(s) == IF s.variants = <<>> THEN <<"">> ELSE [i \in DOMAIN s.variants |-> s.variants[i].name]

\* The settings one variant runs with: the first variant of that name.
ForVariant(s, name) ==
    LET v == s.variants[Min({i \in DOMAIN s.variants : s.variants[i].name = name})]
    IN IF name = "" THEN s.joulie
       ELSE [on |-> IF v.on = "" THEN s.joulie.on ELSE v.on,
             preset |-> IF v.preset = "" THEN s.joulie.preset ELSE v.preset,
             set |-> mergeScalars(s.joulie.set, v.set),
             values |-> s.joulie.values \o v.values]

Enabled(j) == j.on # "no"

Isolation(s) ==
    IF s.isolation # "" THEN s.isolation ELSE IF Len(s.variants) > 1 THEN "cluster" ELSE "reuse"

-----------------------------------------------------------------------------
(* Validate.                                                               *)

AtLeastOne(n) == IF n = 0 THEN 1 ELSE n

validTop(s) ==
    /\ s.duration > 0 /\ s.duration <= MaxScenarioDuration /\ s.drain >= 0
    /\ s.isolation \in {"", "cluster", "reuse"} /\ (s.isolation = "reuse" => Len(s.variants) <= 1)

\* The last group is due before the end of the window.
LastGroupIsDue(s, j) == (AtLeastOne(j.count) - 1) * j.every < s.duration

validJob(s, j) ==
    /\ j.class \in {"performance", "standard"}
    /\ j.count >= 0 /\ j.pods >= 0 /\ j.cpu > 0 /\ j.runtime > 0 /\ j.every >= 0
    /\ j.gpu # "" => j.gpu \in Extended /\ j.gpus > 0
    /\ LastGroupIsDue(s, j)

Has(pools, r) == \E n \in DOMAIN pools : pools[n].alloc[r] > 0
jobRequests(j) == [r \in Resources |-> IF r = "cpu" /\ j.req["cpu"] = 0 THEN 1 ELSE j.req[r]]
missingResources(jobs, has) == {r \in Extended : r \notin has /\ \E j \in jobs : jobRequests(j)[r] > 0}

JobRecords(s) == {j \in s.records : j.type = "job"}
validWorkload(s) ==
    /\ Cardinality({x \in {"jobs", "generate", "trace"} : (x = "jobs" /\ s.jobs # <<>>) \/ x = s.source}) = 1
    /\ s.base > 0
    /\ \A i \in DOMAIN s.jobs : validJob(s, s.jobs[i])
    /\ \A i, k \in DOMAIN s.jobs : i # k => s.jobs[i].name # s.jobs[k].name
    /\ s.source = "trace" => \A j \in JobRecords(s) : j.schema = "v3"
    /\ \A i \in DOMAIN s.jobs : s.jobs[i].gpu # "" => Has(s.pools, s.jobs[i].gpu)
    /\ s.source = "trace" => missingResources(JobRecords(s), {r \in Resources : Has(s.pools, r)}) = {}

\* A scenario reaches the power inputs by a preset only, in --set and in
\* values files.
validJoulie(j) ==
    /\ j.preset \in {"", "otel", "kepler", "kepler-legacy"} /\ j.set.power = ""
    /\ \A i \in DOMAIN j.values : j.values[i].power = ""

validVariants(s) ==
    /\ Len(s.variants) <= MaxVariants
    /\ \A i \in DOMAIN s.variants : s.variants[i].name # "" /\ validJoulie(s.variants[i])
    /\ \A i, k \in DOMAIN s.variants : i # k => s.variants[i].name # s.variants[k].name

validCompare(s) ==
    \A i \in DOMAIN s.compare :
        LET names == {s.variants[k].name : k \in DOMAIN s.variants}
        IN s.compare[i][1] \in names /\ s.compare[i][2] \in names /\ s.compare[i][1] # s.compare[i][2]

ValidScenario(s) == validTop(s) /\ validWorkload(s) /\ validJoulie(s.joulie) /\ validVariants(s) /\ validCompare(s)

-----------------------------------------------------------------------------
(* The trace.                                                              *)

RenderJobs(s) ==
    UNION {LET j == s.jobs[i]
           IN {[type |-> "job", id |-> <<j.name, k, p>>, at |-> k * j.every, class |-> j.class, schema |-> "v3",
                req |-> [r \in Resources |-> IF r = "cpu" THEN j.cpu ELSE IF r = j.gpu THEN j.gpus ELSE 0],
                cwork |-> j.runtime * j.cpu * s.base, gwork |-> IF j.gpu = "" THEN 0 ELSE j.runtime * j.gpus * s.base] :
                   k \in 0..(AtLeastOne(j.count) - 1), p \in 0..(AtLeastOne(j.pods) - 1)} : i \in DOMAIN s.jobs}

\* The records WriteTrace filters; those of a generated trace or of a trace
\* file are given.
TraceSource(s) == IF s.jobs # <<>> THEN RenderJobs(s) ELSE s.records

FilterTrace(records, window) == {j \in records : j.at < window}
BadSchema(records) == \E j \in records : j.schema # "v3"

ReadTrace(records) == {j \in records : j.type = "job"}

-----------------------------------------------------------------------------
(* variant.env.                                                            *)

ModeForPreset(preset) == IF preset \in {"kepler", "kepler-legacy"} THEN preset ELSE "otel"

NewVariantEnv(s, name) ==
    LET v == ForVariant(s, name)
    IN [on |-> Enabled(v), preset |-> v.preset, telemetry |-> ModeForPreset(v.preset), isolation |-> Isolation(s),
        set |-> IF v.preset = "" THEN v.set ELSE [v.set EXCEPT !.power = v.preset], values |-> v.values,
        grace |-> (IF v.set.ttl = Unset.ttl THEN s.timing.ttl ELSE v.set.ttl) + s.timing.reconcile]

-----------------------------------------------------------------------------
(* The load.                                                               *)

\* The simulator loader's default work of a job that gives none.
DefaultUnits == 1000
Units(j) == IF j.cwork <= 0 THEN DefaultUnits ELSE j.cwork
GpusOf(j) == MapThenSumSet(LAMBDA r : jobRequests(j)[r], Extended)
IdealRuntime(j, base) ==
    LET cpuTime == Units(j) \div (jobRequests(j)["cpu"] * base)
        gpuTime == IF GpusOf(j) > 0 /\ j.gwork > 0 THEN j.gwork \div (GpusOf(j) * base) ELSE 0
    IN Max({cpuTime, gpuTime})

nodeUsable(node, selector, tolerated) == (selector # "" => selector \in node.labels) /\ node.taints \subseteq tolerated

\* ExtendedResourceToleration: a pod tolerates the taints of what it requests.
Wants(j) == {r \in Extended : jobRequests(j)[r] > 0}
Capacity(pools, jobs, s) ==
    LET kinds == {{}} \cup {Wants(j) : j \in jobs}
        usable == {n \in DOMAIN pools : \E ext \in kinds : nodeUsable(pools[n], s.selector, s.tolerations \cup ext)}
    IN [r \in Resources |-> MapThenSumSet(LAMBDA n : pools[n].alloc[r], usable)]

WorkOf(jobs, r, base) == MapThenSumSet(LAMBDA j : jobRequests(j)[r] * IdealRuntime(j, base), jobs)

\* Resources whose demand is above 0.9 of the capacity over the window.
Overloaded(jobs, cap, s) == {r \in Resources : 10 * WorkOf(jobs, r, s.base) > 9 * cap[r] * s.duration}

\* The largest of a set of ratios.
MaxRatio(S) == CHOOSE x \in S : \A y \in S : y[1] * x[2] <= x[1] * y[2]

\* Mutant: all the work counted from every due time.
AllWorkFrom(jobs, due) == jobs
DueFrom(jobs, due) == {j \in jobs : j.at >= due}
EarliestEnd(jobs, cap, base) ==
    MaxRatio({<<0, 1>>} \cup {<<j.at + IdealRuntime(j, base), 1>> : j \in jobs}
             \cup {<<j.at * cap[r] + WorkOf(DueFrom(jobs, j.at), r, base), cap[r]>> :
                      j \in jobs, r \in {x \in Resources : cap[x] > 0}})

deadline(s) == s.duration + s.drain
pastDeadline(end, s) == 10 * end[1] > 9 * deadline(s) * end[2]

\* The nodes that static_partition puts in eco, before any is labelled.
Confines(j) == Enabled(j) /\ j.set.policy \in {"", "static_partition"}
HpFrac(j) == IF j.set.frac = Unset.frac THEN 50 ELSE j.set.frac
ManagedLabel(j) == IF j.set.managed = Unset.managed THEN "managed" ELSE j.set.managed
EcoNodes(pools, j) ==
    LET managed == {n \in DOMAIN pools : ManagedLabel(j) \in pools[n].labels}
        hp == (2 * Cardinality(managed) * clampInt(HpFrac(j), 0, 100) + 100) \div 200
    IN managed \ PerformanceSet(managed, [n \in managed |-> pools[n].family], {}, hp)

staticPartitionLeaves(pools, j) ==
    LET left == DOMAIN pools \ EcoNodes(pools, j) IN [n \in left |-> pools[n]]

ConfinedLoad(s, jobs, name) ==
    LET class == {j \in jobs : j.class = "performance"}
        cap == Capacity(staticPartitionLeaves(s.pools, ForVariant(s, name)), class, s)
    IN [over |-> Overloaded(class, cap, s) # {}, end |-> EarliestEnd(class, cap, s.base)]

ConfinedLoads(s, jobs) ==
    LET names == {n \in ToSet(RunVariants(s)) : Confines(ForVariant(s, n)) /\ \E j \in jobs : j.class = "performance"}
    IN [n \in names |-> ConfinedLoad(s, jobs, n)]

\* What MakePlan returns of a trace: the verdict and the earliest ends.
Assess(s, jobs) ==
    LET cap == Capacity(s.pools, jobs, s)
        classes == ConfinedLoads(s, jobs)
        end == EarliestEnd(jobs, cap, s.base)
        over == Overloaded(jobs, cap, s) # {} \/ pastDeadline(end, s)
                \/ \E n \in DOMAIN classes : classes[n].over \/ pastDeadline(classes[n].end, s)
    IN IF missingResources(jobs, {r \in Resources : cap[r] > 0}) # {}
       THEN [verdict |-> "missing", end |-> <<0, 1>>, classes |-> <<>>]
       ELSE [verdict |-> IF over THEN "overload" ELSE "ok", end |-> end, classes |-> classes]

-----------------------------------------------------------------------------
(* The command.                                                            *)

NoPlan == [verdict |-> "none", end |-> <<0, 1>>, classes |-> <<>>]

SpInit(ss) ==
    /\ scn \in ss
    /\ pstep = "read" /\ vdirs = <<>> /\ made = NoPlan
    /\ sched = [variant |-> "", now |-> 0, jobs |-> <<>>, perfEnd |-> 0]

readValid ==
    /\ pstep = "read"
    /\ pstep' = IF ValidScenario(scn) THEN "write" ELSE "refused"
    /\ UNCHANGED <<scn, vdirs, made, sched>>

\* One variant's directory: the first has the trace written, the others copy
\* it.  A write that fails, a bad record or a failing generator ends plan.
WriteVariant ==
    /\ pstep = "write" /\ Len(vdirs) < Len(RunVariants(scn))
    /\ LET name == RunVariants(scn)[Len(vdirs) + 1]
           trace == IF vdirs = <<>> THEN FilterTrace(TraceSource(scn), scn.duration) ELSE vdirs[1].trace
       IN \/ pstep' = "failed" /\ UNCHANGED vdirs
          \/ /\ vdirs = <<>> => ~BadSchema(TraceSource(scn))
             /\ vdirs' = Append(vdirs, [name |-> name, trace |-> trace, env |-> NewVariantEnv(scn, name)])
             /\ UNCHANGED pstep
    /\ UNCHANGED <<scn, made, sched>>

AssessPlan ==
    /\ pstep = "write" /\ Len(vdirs) = Len(RunVariants(scn))
    /\ made' = Assess(scn, ReadTrace(vdirs[1].trace))
    /\ pstep' = "planned"
    /\ UNCHANGED <<scn, vdirs, sched>>

-----------------------------------------------------------------------------
(* A run of a variant at full speed (external): what the refusals and the  *)
(* earliest ends are about, whether plan refused or not.                   *)

DirOf(name) == vdirs[CHOOSE i \in DOMAIN vdirs : vdirs[i].name = name]
JobsOf(name) == ReadTrace(DirOf(name).trace)
Queued == 0
Over == [node |-> Queued, cpu |-> 0, gpu |-> 0]

StartsRun ==
    /\ pstep = "planned" /\ pstep' = "running" /\ made.verdict # "missing"
    /\ \E i \in DOMAIN vdirs :
         sched' = [variant |-> vdirs[i].name, now |-> 0, perfEnd |-> 0,
                   jobs |-> [j \in JobsOf(vdirs[i].name) |-> [node |-> Queued, cpu |-> Units(j), gpu |-> IF GpusOf(j) > 0 THEN j.gwork ELSE 0]]]
    /\ UNCHANGED <<scn, vdirs, made>>

Done(j) == sched.jobs[j] = Over

\* The extender keeps performance pods off the eco nodes of the variant.
Admits(j, n) ==
    LET v == DirOf(sched.variant).env
    IN /\ nodeUsable(scn.pools[n], scn.selector, scn.tolerations \cup Wants(j))
       /\ j.class = "performance" /\ Confines([on |-> IF v.on THEN "yes" ELSE "no", set |-> v.set])
              => n \notin EcoNodes(scn.pools, [set |-> v.set])

\* Where the jobs run this second: those bound stay, any of those due are
\* bound to nodes that have the room.
Placements ==
    LET open == {j \in DOMAIN sched.jobs : sched.jobs[j].node = Queued /\ j.at <= sched.now}
        runs == {j \in DOMAIN sched.jobs : ~Done(j) /\ sched.jobs[j].node # Queued}
        wanted == [j \in open |-> {Queued} \cup {n \in DOMAIN scn.pools : Admits(j, n)}]
        on(p, n) == {j \in runs : sched.jobs[j].node = n} \cup {j \in open : p[j] = n}
    IN {p \in {f \in [open -> {Queued} \cup DOMAIN scn.pools] : \A j \in open : f[j] \in wanted[j]} :
           \A n \in DOMAIN scn.pools, r \in Resources :
               MapThenSumSet(LAMBDA j : jobRequests(j)[r], on(p, n)) <= scn.pools[n].alloc[r]}

Worked(j, run) ==
    LET left == [run EXCEPT !.cpu = @ - jobRequests(j)["cpu"] * scn.base, !.gpu = @ - GpusOf(j) * scn.base]
    IN IF run = Over \/ run.node = Queued THEN run ELSE IF left.cpu <= 0 /\ left.gpu <= 0 THEN Over ELSE left

SecondPasses ==
    /\ pstep = "running" /\ sched.now < MaxScheduled /\ \E j \in DOMAIN sched.jobs : ~Done(j)
    /\ \E p \in Placements :
         LET bound == [j \in DOMAIN sched.jobs |-> IF j \in DOMAIN p THEN [sched.jobs[j] EXCEPT !.node = p[j]] ELSE sched.jobs[j]]
             after == [j \in DOMAIN bound |-> Worked(j, bound[j])]
             ends == \E j \in DOMAIN bound : j.class = "performance" /\ bound[j] # Over /\ after[j] = Over
         IN sched' = [sched EXCEPT !.now = @ + 1, !.jobs = after, !.perfEnd = IF ends THEN sched.now + 1 ELSE @]
    /\ UNCHANGED <<scn, pstep, vdirs, made>>

SpNext == readValid \/ WriteVariant \/ AssessPlan \/ StartsRun \/ SecondPasses

-----------------------------------------------------------------------------
(* Properties.                                                             *)

NoLater(ratio, end) == ratio[1] <= end * ratio[2]
AllDone(class) == \A j \in DOMAIN sched.jobs : j.class \in class => Done(j)

\* No schedule ends before the earliest end, on all nodes or, for the
\* performance jobs of a variant that confines them, on those left to them.
EndsAreBounds ==
    pstep = "running" =>
      /\ AllDone({"performance", "standard"}) => NoLater(made.end, sched.now)
      /\ AllDone({"performance"}) /\ sched.variant \in DOMAIN made.classes => NoLater(made.classes[sched.variant].end, sched.perfEnd)

\* Every job of a valid scenario's own list is submitted, once, in every
\* variant; and each variant has its own directory.
TracesAreWhole ==
    /\ \A i, k \in DOMAIN vdirs : vdirs[i].trace = vdirs[k].trace /\ (i # k => vdirs[i].name # vdirs[k].name)
    /\ scn.jobs # <<>> => \A i \in DOMAIN vdirs : \A k \in DOMAIN scn.jobs :
         Cardinality({j \in vdirs[i].trace : j.id[1] = scn.jobs[k].name}) = AtLeastOne(scn.jobs[k].count) * AtLeastOne(scn.jobs[k].pods)

\* Joulie's power preset, as Helm merges the values files and --set, is the
\* one the telemetry of the cluster serves.
HelmPower(env) ==
    LET files == {i \in DOMAIN env.values : env.values[i].power # ""}
    IN IF env.set.power # "" THEN env.set.power ELSE IF files # {} THEN env.values[Max(files)].power ELSE "otel"
ReadsWhatIsServed ==
    \A i \in DOMAIN vdirs : vdirs[i].env.on => ModeForPreset(HelmPower(vdirs[i].env)) = vdirs[i].env.telemetry

\* A job of an accepted plan finds what it asks for on a node it can use.
AskedForExists ==
    made.verdict = "ok" => \A j \in JobsOf(vdirs[1].name) : \A r \in Wants(j) :
        \E n \in DOMAIN scn.pools : nodeUsable(scn.pools[n], scn.selector, scn.tolerations \cup Wants(j)) /\ scn.pools[n].alloc[r] > 0

(* A plan is sound: "a run ends later, never earlier" than EarliestEnd     *)
(* whatever the scheduler does (EarliestEnd, ConfinedLoads), a validated   *)
(* scenario loses no job to the window (validate job, FilterTrace), every  *)
(* variant runs the same trace in a directory of its own (MakePlan) with   *)
(* Joulie reading the telemetry that is installed (NewVariantEnv), and an  *)
(* accepted job has the resource it asks for (checkTraceResources).        *)
PlanIsSound == EndsAreBounds /\ TracesAreWhole /\ ReadsWhatIsServed /\ AskedForExists
=============================================================================
