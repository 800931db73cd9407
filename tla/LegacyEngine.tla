---------------------------- MODULE LegacyEngine ----------------------------
(***************************************************************************)
(* The legacy workload engine of the simulator (cmd/simulator main.go):    *)
(* every tick creates the pods that are due (injectTraceJobs), lists the   *)
(* pods, sets the load of each node from its jobs and advances them        *)
(* (advanceJobProgress), and ends jobs that stand still                    *)
(* (detectStalledJobs), while the pod poll sets the load of nodes without  *)
(* jobs (pollOnce), the scheduler binds pods and API calls fail.           *)
(*                                                                         *)
(* A job's work is counted in ticks at full rate; a node's load is the set *)
(* of jobs it counts, or Others for pods outside the workload.             *)
(***************************************************************************)
EXTENDS Integers, FiniteSets

CONSTANTS
    EJobs, ENodes,
    Gangs,           \* the gangs of the trace: sets of jobs that run together
    EWork,           \* ticks of work of a job
    Stall,           \* stallForceComplete, in ticks
    ECreates,      \* maxCreatesPerTick
    EFaults          \* bound: failed calls, evictions, ticks cut short

VARIABLES
    gang,      \* the gang of this run
    ejob,      \* what the engine keeps of a job
    pod,       \* job -> its pod: none, unbound, or its node
    sim,       \* node -> HasJobs, the load and OtherPods
    other,     \* nodes with a pod outside the workload
    poll,      \* what the poll listed and has not applied
    step,      \* where the workload tick is, what it listed and the nodes left
    eFaults

eVars == <<gang, ejob, pod, sim, other, poll, step, eFaults>>

Others == "others"
Absent == "none"
Unbound == "unbound"
NoPoll == [on |-> FALSE, other |-> {}]
Idle == [at |-> "idle", listed |-> [j \in EJobs |-> Absent], sub |-> {}, did |-> {}, todo |-> {}, cut |-> FALSE]

EInit ==
    /\ gang \in Gangs
    /\ ejob = [j \in EJobs |-> [submitted |-> FALSE, left |-> EWork, done |-> FALSE, still |-> 0, asked |-> FALSE]]
    /\ pod = [j \in EJobs |-> Absent]
    /\ sim = [n \in ENodes |-> [jobs |-> FALSE, load |-> {}, other |-> FALSE]]
    /\ other = {} /\ poll = NoPoll /\ step = Idle /\ eFaults = 0

MayFail(k) == eFaults + k <= EFaults /\ eFaults' = eFaults + k

(* What the engine's list shows: pods bound to a node.                     *)
Bound(p) == p \in ENodes

(***************************************************************************)
(* The load of a node.                                                     *)
(***************************************************************************)
setNoJobLoad(st) == [st EXCEPT !.jobs = FALSE, !.load = IF st.other THEN {Others} ELSE {}]

PollLists ==
    /\ ~poll.on /\ poll' = [on |-> TRUE, other |-> other]
    /\ UNCHANGED <<gang, ejob, pod, sim, other, step, eFaults>>

(* refreshNodeStateFromKubeData: a node with jobs keeps the load the tick  *)
(* gave it.                                                                *)
PollRefreshes ==
    /\ poll.on /\ poll' = NoPoll
    /\ sim' = [n \in ENodes |-> LET st == [sim[n] EXCEPT !.other = n \in poll.other]
                                IN IF st.jobs THEN st ELSE setNoJobLoad(st)]
    /\ UNCHANGED <<gang, ejob, pod, other, step, eFaults>>

(***************************************************************************)
(* The tick.                                                               *)
(***************************************************************************)

(* Jobs whose pod is created, in trace order, at most ECreates; a create *)
(* that fails, with or without effect, leaves the job to the next tick.    *)
injectTraceJobs(failed, landed) ==
    LET due == {j \in EJobs : ~ejob[j].submitted}
    IN \E made \in SUBSET (due \ failed) :
         /\ landed \subseteq failed /\ failed \subseteq due
         /\ Cardinality(made) <= ECreates
         /\ (made # due \ failed) => Cardinality(made) = ECreates
         /\ pod' = [j \in EJobs |-> IF j \in made \cup landed /\ pod[j] = Absent THEN Unbound ELSE pod[j]]
         /\ ejob' = [j \in EJobs |-> [ejob[j] EXCEPT
                      !.submitted = @ \/ j \in made, !.asked = FALSE,
                      !.still = IF ~ejob[j].done /\ (ejob[j].submitted \/ ejob[j].left < EWork) /\ @ <= Stall THEN @ + 1 ELSE @]]
         /\ step' = [Idle EXCEPT !.at = "list"]
         /\ MayFail(Cardinality(failed))
    /\ UNCHANGED <<gang, sim, other, poll>>

TickBegins ==
    /\ step.at = "idle"
    /\ \E failed \in SUBSET EJobs : \E landed \in SUBSET failed : injectTraceJobs(failed, landed)

(* A delete that fails is asked again two ticks later.                     *)
Deletes(S, failed) ==
    LET asked == {j \in S : ~ejob[j].asked}
    IN [j \in EJobs |-> IF j \in asked \ failed THEN Absent ELSE pod[j]]

NeverCleans(listed) == {}

(* Completed jobs whose pods the list still shows.                         *)
cleanupDue(listed) == {j \in EJobs : ejob[j].done /\ Bound(listed[j])}

(* The list, the pods of completed jobs deleted, and nodes without jobs    *)
(* set to their load.                                                      *)
Lists(failed) ==
    /\ step.at = "list"
    /\ LET listed == [j \in EJobs |-> IF Bound(pod[j]) THEN pod[j] ELSE Absent]
           due == cleanupDue(listed)
           byNode(n) == {j \in EJobs : listed[j] = n /\ ~ejob[j].done}
       IN /\ failed \subseteq due
          /\ pod' = Deletes(due, failed)
          /\ ejob' = [j \in EJobs |-> IF j \in due THEN [ejob[j] EXCEPT !.asked = TRUE] ELSE ejob[j]]
          /\ sim' = [n \in ENodes |-> IF byNode(n) = {} THEN setNoJobLoad(sim[n]) ELSE sim[n]]
          /\ step' = [at |-> "nodes", listed |-> listed, sub |-> {j \in EJobs : ejob[j].submitted},
                      did |-> {j \in EJobs : ejob[j].done}, todo |-> {n \in ENodes : byNode(n) # {}}, cut |-> FALSE]
    /\ MayFail(Cardinality(failed))
    /\ UNCHANGED <<gang, other, poll>>

(* The list fails, or the tick's deadline passes before the next node.     *)
CutShort ==
    /\ step.at \in {"list", "nodes"} /\ (step.at = "nodes" => step.todo # {})
    /\ MayFail(1) /\ step' = [step EXCEPT !.at = "nodes", !.todo = {}, !.cut = TRUE]
    /\ UNCHANGED <<gang, ejob, pod, sim, other, poll>>

(* A gang waits for all of its pods.                                       *)
gangWaits(j) ==
    j \in gang /\ \E i \in gang : i \notin step.sub \/ ~(Bound(step.listed[i]) \/ i \in step.did)

(* A node whose last job ended runs no load from now on.                   *)
loadAfter(st, active) == IF active = {} THEN setNoJobLoad(st) ELSE st

(* One node of advanceJobProgress.                                         *)
Advances(n, failed) ==
    /\ step.at = "nodes" /\ n \in step.todo
    /\ LET here == {j \in EJobs : step.listed[j] = n /\ j \notin step.did}
           runs == {j \in here : ~gangWaits(j)}
           over == {j \in runs : ejob[j].left = 1}
           busy == [sim[n] EXCEPT !.jobs = TRUE, !.load = here]
       IN /\ ejob' = [j \in EJobs |->
                       IF j \in runs THEN [ejob[j] EXCEPT !.left = @ - 1, !.still = 0, !.done = j \in over, !.asked = @ \/ j \in over]
                       ELSE ejob[j]]
          /\ sim' = [sim EXCEPT ![n] = loadAfter(busy, here \ over)]
          /\ failed \subseteq over /\ pod' = Deletes(over, failed)
          /\ step' = [step EXCEPT !.todo = @ \ {n}]
    /\ MayFail(Cardinality(failed))
    /\ UNCHANGED <<gang, other, poll>>

(* No progress since the submission, or since the last progress.           *)
stalled(j) == ejob[j].submitted /\ ~ejob[j].done /\ ejob[j].still > Stall

(* detectStalledJobs, which runs also when the list failed.                *)
TickEnds(failed) ==
    /\ step.at = "nodes" /\ step.todo = {}
    /\ LET over == {j \in EJobs : stalled(j)}
       IN /\ ejob' = [j \in EJobs |-> IF j \in over THEN [ejob[j] EXCEPT !.left = 0, !.done = TRUE, !.still = 0, !.asked = TRUE] ELSE ejob[j]]
          /\ failed \subseteq over /\ pod' = Deletes(over, failed)
    /\ step' = Idle /\ MayFail(Cardinality(failed))
    /\ UNCHANGED <<gang, sim, other, poll>>

TickSteps ==
    \/ TickBegins \/ CutShort
    \/ \E failed \in SUBSET EJobs : Lists(failed) \/ TickEnds(failed)
    \/ \E n \in ENodes, failed \in SUBSET EJobs : Advances(n, failed)

(***************************************************************************)
(* External: the scheduler, evictions, and pods of others.                 *)
(***************************************************************************)
Binds(j, n) ==
    /\ pod[j] = Unbound /\ pod' = [pod EXCEPT ![j] = n]
    /\ UNCHANGED <<gang, ejob, sim, other, poll, step, eFaults>>
Evicted(j) ==
    /\ pod[j] # Absent /\ MayFail(1) /\ pod' = [pod EXCEPT ![j] = Absent]
    /\ UNCHANGED <<gang, ejob, sim, other, poll, step>>
OtherPods(n) ==
    /\ MayFail(1) /\ other' = (other \ {n}) \cup ({n} \ other)
    /\ UNCHANGED <<gang, ejob, pod, sim, poll, step>>

ENext ==
    \/ TickSteps \/ PollLists \/ PollRefreshes
    \/ \E j \in EJobs : Evicted(j) \/ \E n \in ENodes : Binds(j, n)
    \/ \E n \in ENodes : OtherPods(n)

(***************************************************************************)
(* Properties.                                                             *)
(***************************************************************************)

(* Every job ends, by its work or by detectStalledJobs, and no pod of an   *)
(* ended job stays on a node, whatever calls failed, pods were evicted or  *)
(* gangs never fit.                                                        *)
JobsEnded == \A j \in EJobs : ejob[j].done /\ ~Bound(pod[j])
=============================================================================
