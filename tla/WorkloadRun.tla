---------------------------- MODULE WorkloadRun ----------------------------
(***************************************************************************)
(* One run of the simulator's v1 workload engine                          *)
(* (simulator/cmd/simulator/workload_v1.go and workload_run.go): a tick on *)
(* the emulator's goroutine, the workers that make its Kubernetes calls,   *)
(* its pod informer, and the finish request of the run API, against a      *)
(* cluster whose scheduler, Job controller and KWOK Stage are external.    *)
(*                                                                         *)
(* A tick takes the answers and pod changes that came in, moves the jobs   *)
(* and queues its calls; the workers answer in any order, before or after  *)
(* the informer saw what the call did.  Work is counted in ticks at full   *)
(* speed; the GPU units a job holds are a number.                          *)
(***************************************************************************)
EXTENDS Integers, FiniteSets, SequencesExt

CONSTANTS
    Jobs,            \* the jobs of the trace
    Group,           \* job -> the number of the object it belongs to, in submit order
    Work,            \* job -> ticks of work
    Needs,           \* job -> GPU units it requests
    Offset,          \* group -> the tick it is due at
    GpuNodes,           \* the emulated nodes
    Scenes,          \* what a run may be given: the gang of each job ({} for none), the GPU
                     \* units of each node, SIM_WORKLOAD_COMPLETION, and (a bound) how many
                     \* calls the API server fails and pods something else ends
    MaxCreates,      \* SIM_WORKLOAD_MAX_CREATES_PER_TICK
    Report,          \* SIM_WORKLOAD_STALL_REPORT in ticks
    v1CompletionAttempts,  \* 3 in the code
    MaxPods          \* bound: pods the Job controller makes for one job

ASSUME RunConstants ==
    /\ \A j \in Jobs : Work[j] \in Nat /\ Needs[j] \in Nat
    /\ \A s \in Scenes : s.gangOf \in [Jobs -> SUBSET Jobs] /\ s.units \in [GpuNodes -> Nat] /\ s.faults \in Nat
    /\ {MaxCreates, Report, v1CompletionAttempts, MaxPods} \subseteq Nat
    /\ Report > 0 /\ v1CompletionAttempts > 0 /\ IsFiniteSet(Jobs)

VARIABLES
    scene,           \* the settings of this run
    phase,           \* none, running, finished, aborted
    clock,           \* ticks since the first, up to the last offset
    job,             \* job -> v1Job
    grp,             \* group -> waiting, queued (create in flight) or created
    creates, completions,   \* the queued commands of runKube
    results,         \* the answers of calls no tick has taken yet
    obs,             \* job -> its pods as the informer last saw them, not taken yet
    deferred,        \* job -> observations that wait for the create's answer
    loaded,          \* the jobs that load their nodes in the present step
    blockedFor,      \* ticks every submitted job is blocked for, 0 when one is not
    cleaning,        \* cleanup: none, asked or done
    object,          \* group -> its object exists in the cluster
    pods,            \* job -> its latest pod in the cluster
    errs, hit        \* failed calls so far; jobs whose pod or object the cluster refused or ended

engineVars == <<phase, clock, job, grp, deferred, loaded, blockedFor>>
kubeVars == <<creates, completions, results>>
clusterVars == <<object, pods, errs, hit>>
runVars == <<scene, engineVars, kubeVars, obs, cleaning, clusterVars>>

Groups == {Group[j] : j \in Jobs}
InGroup(g) == {j \in Jobs : Group[j] = g}
NoNode == "no node"
NoPod == [uid |-> 0, phase |-> "none", node |-> NoNode]
LastOffset == CHOOSE t \in {Offset[g] : g \in Groups} : \A g \in Groups : Offset[g] <= t

v1State == {"Waiting", "Submitted", "Scheduled", "Running", "Completing",
            "Completed", "Failed", "Incomplete"}
Terminal(st) == st \in {"Completed", "Failed", "Incomplete"}
Ended == phase \in {"finished", "aborted"}

NewJob(j) == [st |-> "Waiting", uid |-> 0, seen |-> FALSE, node |-> NoNode, unsched |-> FALSE,
              held |-> 0, work |-> Work[j], tries |-> 0, idle |-> 0]

RunInit ==
    /\ scene \in Scenes
    /\ phase = "none" /\ clock = 0 /\ job = [j \in Jobs |-> NewJob(j)]
    /\ grp = [g \in Groups |-> "waiting"] /\ deferred = [j \in Jobs |-> {}]
    /\ loaded = {} /\ blockedFor = 0
    /\ creates = {} /\ completions = {} /\ results = {}
    /\ obs = [j \in Jobs |-> {}] /\ cleaning = "none"
    /\ object = [g \in Groups |-> FALSE] /\ pods = [j \in Jobs |-> NoPod]
    /\ errs = 0 /\ hit = {}

(***************************************************************************)
(* The cluster.  Every change of a pod reaches the informer, which keeps   *)
(* the latest of each pod (observePod).                                    *)
(***************************************************************************)

(* The informers of a run that has ended are stopped.                      *)
observePod(seen, j, p) ==
    IF Ended THEN seen ELSE [seen EXCEPT ![j] = {o \in @ : o.uid # p.uid} \cup {p}]

PodIs(j, p) == pods' = [pods EXCEPT ![j] = p] /\ obs' = observePod(obs, j, p)

OnNode(n) == {j \in Jobs : pods[j].node = n /\ pods[j].phase \in {"Bound", "Running", "Annotated"}}
Used(n) == FoldSet(LAMBDA j, sum : sum + Needs[j], 0, OnNode(n))
HasRoom(n, j) == Used(n) + Needs[j] <= scene.units[n]

Faults == errs + Cardinality(hit)

(* External: the Job controller makes a missing pod of a Job object, and   *)
(* may replace one that went away.                                         *)
PodAppears(j) ==
    /\ object[Group[j]] /\ ~Ended
    /\ pods[j].phase = "none" \/ (pods[j].phase = "Gone" /\ pods[j].uid < MaxPods /\ ~Terminal(job[j].st))
    /\ PodIs(j, [uid |-> pods[j].uid + 1, phase |-> "Pending", node |-> NoNode])
    /\ UNCHANGED <<scene, engineVars, kubeVars, cleaning, object, errs, hit>>

(* External: the scheduler binds a pod where its units fit, or says that   *)
(* it fits nowhere; KWOK runs a bound pod and ends one that is annotated.  *)
PodMoves(j) ==
    /\ ~Ended
    /\ \/ /\ pods[j].phase \in {"Pending", "Unschedulable"}
          /\ \E n \in GpuNodes : HasRoom(n, j) /\ PodIs(j, [pods[j] EXCEPT !.phase = "Bound", !.node = n])
       \/ /\ pods[j].phase = "Pending" /\ \A n \in GpuNodes : ~HasRoom(n, j)
          /\ PodIs(j, [pods[j] EXCEPT !.phase = "Unschedulable"])
       \/ pods[j].phase = "Bound" /\ PodIs(j, [pods[j] EXCEPT !.phase = "Running"])
       \/ pods[j].phase = "Annotated" /\ PodIs(j, [pods[j] EXCEPT !.phase = "Succeeded"])
    /\ UNCHANGED <<scene, engineVars, kubeVars, cleaning, object, errs, hit>>

(* External: something other than the run ends a pod.                      *)
PodKilled(j) ==
    /\ Faults < scene.faults /\ j \notin hit /\ ~Ended
    /\ pods[j].phase \in {"Pending", "Unschedulable", "Bound", "Running", "Annotated"}
    /\ \E p \in {"Failed", "Gone"} : PodIs(j, [pods[j] EXCEPT !.phase = p])
    /\ hit' = hit \cup {j}
    /\ UNCHANGED <<scene, engineVars, kubeVars, cleaning, object, errs>>

(***************************************************************************)
(* The workers (runKube).                                                  *)
(***************************************************************************)

Answer(kind, id, err) == [kind |-> kind, id |-> id, err |-> err]

(* A create takes effect and answers, is found to exist already, is refused*)
(* for good, or fails, with or without effect.                             *)
ExecCreate(g) ==
    /\ g \in creates /\ completions = {}
    /\ creates' = creates \ {g}
    /\ \/ /\ results' = IF Ended THEN results ELSE results \cup {Answer("create", g, IF object[g] THEN "exists" ELSE "ok")}
          /\ object' = [object EXCEPT ![g] = TRUE] /\ UNCHANGED <<errs, hit>>
       \/ /\ Faults < scene.faults /\ ~Ended
          /\ \/ \E done \in BOOLEAN :
                  /\ errs' = errs + 1
                  /\ object' = [object EXCEPT ![g] = done \/ @]
                  /\ results' = results \cup {Answer("create", g, "error")} /\ UNCHANGED hit
             \/ /\ results' = results \cup {Answer("create", g, "rejected")}
                /\ hit' = hit \cup InGroup(g) /\ UNCHANGED <<object, errs>>
    /\ UNCHANGED <<scene, engineVars, completions, obs, cleaning, pods>>

(* The completion call of job j: the annotation, which the KWOK Stage      *)
(* answers, or the delete, for which a missing pod is success.             *)
ExecCompletion(j) ==
    /\ j \in completions
    /\ completions' = completions \ {j}
    /\ LET there == pods[j].uid = job[j].uid /\ pods[j].phase # "Gone"
           took == IF ~there THEN pods[j]
                   ELSE IF scene.completion = "delete" THEN [pods[j] EXCEPT !.phase = "Gone"]
                   ELSE IF pods[j].phase = "Running" THEN [pods[j] EXCEPT !.phase = "Annotated"]
                   ELSE pods[j]
           err == IF there \/ scene.completion = "delete" THEN "ok" ELSE "notfound"
       IN \/ /\ results' = results \cup {Answer("complete", j, err)}
             /\ pods' = [pods EXCEPT ![j] = took]
             /\ obs' = IF took = pods[j] THEN obs ELSE observePod(obs, j, took)
             /\ UNCHANGED errs
          \/ /\ Faults < scene.faults /\ errs' = errs + 1 /\ ~Ended
             /\ results' = results \cup {Answer("complete", j, "error")}
             /\ \/ UNCHANGED <<pods, obs>>
                \/ took # pods[j] /\ pods' = [pods EXCEPT ![j] = took] /\ obs' = observePod(obs, j, took)
    /\ UNCHANGED <<scene, engineVars, creates, cleaning, object, hit>>

(***************************************************************************)
(* The tick.                                                               *)
(***************************************************************************)

(* endJob: the job is terminal and holds nothing.                          *)
endJob(r, to) == [r EXCEPT !.st = to, !.held = 0, !.idle = 0]

AnswersFor(in, j) == {a \in in : a.kind = "complete" /\ a.id = j} \cup
                     {a \in in : a.kind = "create" /\ a.id = Group[j]}

(* The answer of the completion call in flight.                            *)
applyCompletion(r, a) ==
    CASE a.err = "ok" -> endJob(r, "Completed")
      [] a.err = "notfound" -> endJob(r, "Failed")
      [] OTHER -> IF r.tries + 1 >= v1CompletionAttempts THEN endJob([r EXCEPT !.tries = @ + 1], "Failed")
                  ELSE [r EXCEPT !.tries = @ + 1]

(* The answer of the create of the job's group; any other error leaves the *)
(* group to the next submit.                                               *)
applyCreate(r, a) ==
    CASE a.err \in {"ok", "exists"} /\ r.st = "Waiting" -> [r EXCEPT !.st = "Submitted"]
      [] a.err = "rejected" /\ ~Terminal(r.st) -> endJob(r, "Failed")
      [] OTHER -> r

applyResult(a, r) ==
    CASE a.kind = "create" -> applyCreate(r, a)
      [] a.kind = "complete" /\ r.st = "Completing" -> applyCompletion(r, a)
      [] OTHER -> r

applyResults(in, j) == FoldSet(applyResult, job[j], AnswersFor(in, j))

NeverRetries(J) == {}

(* A completion call that failed is tried again.                           *)
Retries(J) == {j \in Jobs : J[j].st = "Completing" /\ J[j].tries > job[j].tries}

GroupAfter(in, g) ==
    LET answers == {a \in in : a.kind = "create" /\ a.id = g} IN
    IF answers = {} THEN grp[g]
    ELSE IF \E a \in answers : a.err \in {"ok", "exists"} THEN "created" ELSE "waiting"

(* submit: the groups due, in submit order, up to the cap.                 *)
submit(G, J) ==
    LET due == {g \in Groups : /\ G[g] = "waiting" /\ Offset[g] <= clock
                               /\ \E j \in InGroup(g) : ~Terminal(J[j].st)}
    IN {g \in due : Cardinality({h \in due : h < g}) < MaxCreates}

Changes(j) == obs[j] \cup {o \in deferred[j] : \A n \in obs[j] : n.uid # o.uid}

ForgetsCompleting(r, o) ==
    IF Terminal(r.st) \/ (r.uid # 0 /\ o.uid # r.uid) THEN r
    ELSE LET s == [r EXCEPT !.uid = o.uid, !.seen = TRUE] IN
         IF o.phase \in {"Gone", "Failed", "Succeeded"} THEN endJob(s, "Failed")
         ELSE LET u == [s EXCEPT !.unsched = (o.phase = "Unschedulable")]
                  b == IF o.node # NoNode /\ u.node = NoNode THEN [u EXCEPT !.node = o.node, !.st = "Scheduled"] ELSE u
              IN IF o.phase \in {"Running", "Annotated"} /\ b.st \in {"Submitted", "Scheduled"} /\ b.node # NoNode
                 THEN [b EXCEPT !.st = "Starting"] ELSE b

(* One pod change: another pod of the job is ignored, and what happens to  *)
(* a pod whose completion is in flight no longer counts.                   *)
applyPod(r, o) ==
    IF Terminal(r.st) \/ (r.uid # 0 /\ o.uid # r.uid) THEN r
    ELSE LET s == [r EXCEPT !.uid = o.uid, !.seen = TRUE] IN
         IF o.phase \in {"Gone", "Failed", "Succeeded"}
         THEN IF s.st = "Completing" THEN s ELSE endJob(s, "Failed")
         ELSE LET u == [s EXCEPT !.unsched = (o.phase = "Unschedulable")]
                  b == IF o.node # NoNode /\ u.node = NoNode THEN [u EXCEPT !.node = o.node, !.st = "Scheduled"] ELSE u
              IN IF o.phase \in {"Running", "Annotated"} /\ b.st \in {"Submitted", "Scheduled"} /\ b.node # NoNode
                 THEN [b EXCEPT !.st = "Starting"] ELSE b

(* observePods: in the order of the pods' names, which need not be the     *)
(* order they were made in; a job whose create has no answer yet waits.    *)
observePods(J, byName) ==
    [j \in Jobs |-> IF J[j].st = "Waiting" THEN J[j] ELSE FoldLeft(applyPod, J[j], byName[j])]

(* The orders the names may put the pods of each job in.                   *)
ByName == {s \in [Jobs -> UNION {SetToSeqs(Changes(j)) : j \in Jobs}] :
             \A j \in Jobs : s[j] \in SetToSeqs(Changes(j))}

(* GPUSlots.Assign: all the units it asks for, or none.                    *)
Assign(J, j) ==
    LET free == scene.units[J[j].node] - FoldSet(LAMBDA m, s : s + J[m].held, 0, {m \in Jobs : J[m].node = J[j].node})
    IN IF Needs[j] <= free THEN Needs[j] ELSE 0

startJob(j, K) == [K EXCEPT ![j] = [@ EXCEPT !.st = "Running", !.held = Assign(K, j), !.idle = 0]]

startJobs(J) == FoldSet(startJob, J, {j \in Jobs : J[j].st = "Starting"})

gangHeld(J, j) == \E m \in scene.gangOf[j] : J[m].st \notin {"Running", "Completing", "Completed"}

(* The jobs that work in this step: Running since an earlier tick, with    *)
(* their gang, on hardware that leaves them any throughput.                *)
Progressing(J, slow) ==
    {j \in Jobs \ slow : job[j].st = "Running" /\ J[j].st = "Running" /\ ~gangHeld(J, j) /\ J[j].work > 0}

progress(J, working) ==
    [j \in Jobs |->
        IF J[j].st # "Running" \/ job[j].st # "Running" THEN J[j]
        ELSE IF j \in working THEN [J[j] EXCEPT !.work = @ - 1, !.idle = 0]
        ELSE [J[j] EXCEPT !.idle = IF @ < Report THEN @ + 1 ELSE @]]

CompletesAtOnce(J) ==
    [j \in Jobs |-> IF J[j].st = "Running" /\ J[j].work = 0 THEN endJob(J[j], "Completed") ELSE J[j]]

(* complete: a job without work left frees what it holds; its completion   *)
(* call follows.                                                           *)
complete(J) ==
    [j \in Jobs |-> IF J[j].st = "Running" /\ J[j].work = 0
                    THEN [J[j] EXCEPT !.st = "Completing", !.held = 0, !.idle = 0] ELSE J[j]]

(* stalls: how long every submitted job is blocked.                        *)
Blocked(J, active) ==
    /\ \E j \in Jobs : J[j].st \in {"Submitted", "Running"}
    /\ \A j \in Jobs : /\ J[j].st \notin {"Scheduled", "Completing"}
                       /\ J[j].st = "Submitted" => (~J[j].seen \/ J[j].unsched)
    /\ ~active

stalls(J, active) == IF Blocked(J, active) THEN IF blockedFor <= Report THEN blockedFor + 1 ELSE blockedFor ELSE 0
runStalled == blockedFor > Report

(* take: the answers kept so far, of which a call that is still returning *)
(* is not one, and every pod change.                                       *)
TickWith(in, slow, byName) ==
    /\ phase = "running"
    /\ \E J1 \in {[j \in Jobs |-> applyResults(in, j)]} :
       \E G \in {[g \in Groups |-> GroupAfter(in, g)]} :
       \E J2 \in {observePods(J1, byName)} :
       \E J3 \in {startJobs(J2)} :
       \E working \in {Progressing(J3, slow)} :
       \E J4 \in {progress(J3, working)} :
       \E J5 \in {complete(J4)} :
          LET created == submit(G, J1)
              done == {j \in Jobs : J4[j].st = "Running" /\ J5[j].st = "Completing"}
              active == \/ working # {} \/ done # {}
                        \/ \E j \in Jobs : J2[j].st = "Starting"
                        \/ \E j \in Jobs : job[j].st = "Completing" /\ J1[j].st = "Completed"
          IN /\ job' = J5
             /\ grp' = [g \in Groups |-> IF g \in created THEN "queued" ELSE G[g]]
             /\ creates' = creates \cup created
             /\ completions' = completions \cup Retries(J1) \cup done
             /\ deferred' = [j \in Jobs |-> IF J1[j].st = "Waiting" THEN Changes(j) ELSE {}]
             /\ loaded' = {j \in Jobs : J5[j].st = "Running"}
             /\ blockedFor' = stalls(J5, active)
             /\ phase' = IF \A j \in Jobs : Terminal(J5[j].st) THEN "finished" ELSE "running"
    /\ clock' = IF clock < LastOffset THEN clock + 1 ELSE clock
    /\ results' = results \ in /\ obs' = [j \in Jobs |-> {}]
    /\ UNCHANGED <<scene, cleaning, clusterVars>>

tick == \E in \in SUBSET results, slow \in SUBSET {j \in Jobs : job[j].st = "Running"}, byName \in ByName :
            TickWith(in, slow, byName)

(* Every call returns, and the hardware does not leave a job without       *)
(* throughput for ever.                                                    *)
FullTick == \E byName \in ByName : TickWith(results, {}, byName)

(***************************************************************************)
(* The run API.                                                            *)
(***************************************************************************)

(* start: refused while a run is active or when the run has results.       *)
start ==
    /\ phase = "none" /\ phase' = "running"
    /\ UNCHANGED <<scene, clock, job, grp, deferred, loaded, blockedFor, kubeVars, obs, cleaning, clusterVars>>

(* endLocked: a job whose completion is in flight has done its work.  The  *)
(* calls are cancelled and nothing takes their answers; a create that a    *)
(* worker has sent may still take effect.                                  *)
endLocked ==
    /\ job' = [j \in Jobs |-> CASE job[j].st = "Completing" -> endJob(job[j], "Completed")
                                [] Terminal(job[j].st) -> job[j]
                                [] OTHER -> endJob(job[j], "Incomplete")]
    /\ phase' = IF \E j \in Jobs : job'[j].st = "Incomplete" THEN "aborted" ELSE "finished"
    /\ \E sent \in SUBSET creates : creates' = sent
    /\ completions' = {} /\ results' = {}
    /\ obs' = [j \in Jobs |-> {}] /\ deferred' = obs'
    /\ UNCHANGED <<clock, grp, loaded, blockedFor>>

(* finish: ends a run that has not ended; with cleanup, its objects go.    *)
finish ==
    /\ phase # "none"
    /\ IF Ended THEN UNCHANGED <<engineVars, kubeVars, obs>> ELSE endLocked
    /\ \/ cleaning = "none" /\ cleaning' = "asked"
       \/ ~Ended /\ UNCHANGED cleaning
    /\ UNCHANGED <<scene, clusterVars>>

(* cleanup: one deletecollection by the run's label, which takes the pods  *)
(* with the objects.                                                       *)
cleanup ==
    /\ cleaning = "asked" /\ cleaning' = "done"
    /\ object' = [g \in Groups |-> FALSE]
    /\ pods' = [j \in Jobs |-> IF pods[j].phase = "none" THEN NoPod ELSE [pods[j] EXCEPT !.phase = "Gone"]]
    /\ UNCHANGED <<scene, engineVars, kubeVars, obs, errs, hit>>

Working == \/ \E g \in Groups : ExecCreate(g)
           \/ \E j \in Jobs : ExecCompletion(j)

RunNext == \/ start \/ tick \/ finish \/ cleanup \/ Working
           \/ \E j \in Jobs : PodAppears(j) \/ PodMoves(j) \/ PodKilled(j)

RunSpec == RunInit /\ [][RunNext]_runVars

(***************************************************************************)
(* Properties.                                                             *)
(***************************************************************************)

(* A job fails only for a fault of its own: something ended its pod or     *)
(* refused its object, or its completion call failed as often as it is     *)
(* tried.  A lost answer, a pod that ends before the answer of the call    *)
(* that ended it, and the order of the pods' names make no job fail        *)
(* (applyResults, observePods).                                            *)
FailedForACause ==
    \A j \in Jobs : job[j].st = "Failed" => j \in hit \/ job[j].tries = v1CompletionAttempts

(* The completed event of a job is written after the energy of the last    *)
(* step the job loaded was attributed to it (complete, attribute,          *)
(* completeJob).                                                           *)
EnergyBeforeTheEvent ==
    [][\A j \in Jobs : job'[j].st = "Completed" /\ job[j].st # "Completed" => j \notin loaded]_runVars

(* A started run ends, or it reports that every submitted job is blocked:  *)
(* it is never left waiting for a call, a pod or a gang without a word.    *)
EndsOrReports == (phase = "running") ~> (Ended \/ runStalled)
=============================================================================
