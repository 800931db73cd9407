------------------------------ MODULE Profiles ------------------------------
(***************************************************************************)
(* Power profiles end to end: the controller manager's reconcile (plan,    *)
(* downgrade guard, then NodeTwin spec, node label and NodeTwin status of  *)
(* one node after the other), the agents that enforce the caps, the        *)
(* scheduler extender's filter, and performance-sensitive pods.            *)
(*                                                                         *)
(* A NodeTwin spec is its profile, with "draining" for eco with            *)
(* scheduling.draining set; that word is also the schedulableClass the     *)
(* twin computes from it.  Caps are those of a profile.  Only              *)
(* performance-sensitive pods are modelled: others are filtered nowhere.   *)
(***************************************************************************)
EXTENDS Policy

CONSTANTS
    SecondFamily, \* nodes of the second hardware family; the others are the first
    Agents,       \* nodes an agent runs on
    Pods,
    Selecting,    \* pods with a node selector in place of the annotation
    PolicyType,
    ListErrors,   \* a list of pods may fail
    WriteErrors,  \* API writes may fail, or be made and answered with an error
    Crashes,      \* the controller manager may restart
    Reserving     \* nodes may be reserved or cordoned, and come back

ASSUME ProfilesAssumption ==
    /\ SecondFamily \subseteq Nodes /\ Agents \subseteq Nodes
    /\ IsFiniteSet(Pods) /\ Selecting \subseteq Pods
    /\ PolicyType \in {"static_partition", "queue_aware_v1"}
    /\ {ListErrors, WriteErrors, Crashes, Reserving} \subseteq BOOLEAN

VARIABLES
    eligible, \* nodes the reconcile plans
    label,    \* joulie.io/power-profile of every node
    spec,     \* NodeTwin spec
    class,    \* NodeTwin status.schedulableClass
    caps,     \* caps the agent last enforced
    pods,     \* phase and node of every pod
    view,     \* the extender's cached classes
    pass,     \* the reconcile under way
    calm      \* nothing fails, is submitted or is reserved any more

clusterVars == <<label, spec, class>>
vars == <<eligible, clusterVars, caps, pods, view, pass, calm>>

family == [n \in Nodes |-> IF n \in SecondFamily THEN 2 ELSE 1]

\* "none" is no label, no NodeTwin, no caps or not in the map.
Profiles == {"none", "performance", "eco"}
Classes == Profiles \cup {"draining"}

Stages == {"idle", "guard", "spec", "label", "status"}
NoNode == -1
Idle == [stage |-> "idle", todo |-> {}, plan |-> [n \in Nodes |-> "none"], since |-> {}]

Least(S) == CHOOSE n \in S : \A m \in S : n <= m

-----------------------------------------------------------------------------
(* The controller manager.                                                 *)

CountPerformanceDemand ==
    Cardinality({p \in Pods : pods[p].phase \in {"pending", "placed", "running"}})

\* Pods the guard counts: bound, past Pending, not being deleted.
RunningOn(n) == {p \in Pods : pods[p].phase = "running" /\ pods[p].node = n}

planByPolicy(listed) ==
    LET size == Cardinality(eligible)
        hp == IF PolicyType = "queue_aware_v1" /\ listed
              THEN QueueCount(size, CountPerformanceDemand)
              ELSE StaticCount(size)
        kept == {n \in Nodes : label[n] = "performance"}
    IN  PerformanceSet(eligible, family, kept, hp)

(* since: the pods running when the pass begins and ever since, auxiliary. *)
StartReconcile(listed) ==
    /\ pass.stage = "idle" /\ eligible # {}
    /\ listed \/ (~calm /\ ListErrors)
    /\ LET perf == planByPolicy(listed)
       IN  pass' = [stage |-> "guard", todo |-> eligible,
                    plan |-> [n \in Nodes |-> IF n \notin eligible THEN "none"
                                              ELSE IF n \in perf THEN "performance" ELSE "eco"],
                    since |-> {p \in Pods : pods[p].phase = "running"}]
    /\ UNCHANGED <<eligible, clusterVars, caps, pods, view, calm>>

\* The guard when the label it leaves is performance only.
GuardLeaving(desired, count, n) ==
    IF desired = "eco" /\ count > 0 /\ label[n] = "performance" THEN "draining" ELSE desired

ComputeDesiredLabels(desired, count, n) ==
    IF desired = "eco" /\ count > 0 THEN "draining" ELSE desired

\* A pod list that fails leaves the node planned in eco, not draining.
Guard(listed) ==
    /\ pass.stage = "guard"
    /\ listed \/ (~calm /\ ListErrors)
    /\ LET n == Least(pass.todo)
           left == pass.todo \ {n}
           guarded == ComputeDesiredLabels(pass.plan[n], Cardinality(RunningOn(n)), n)
       IN  pass' = [pass EXCEPT
                       !.plan[n] = IF listed THEN guarded ELSE @,
                       !.stage = IF left = {} THEN "spec" ELSE @,
                       !.todo = IF left = {} THEN {m \in Nodes : pass.plan[m] # "none"} ELSE left]
    /\ UNCHANGED <<eligible, clusterVars, caps, pods, view, calm>>

(* How an API write ends: made, refused, or made and answered with an      *)
(* error (a timeout).                                                      *)
Answers == {"made", "refused", "lost"}
AnswerOf(a) == a = "made" \/ (~calm /\ WriteErrors)

Settled(n) == [pass EXCEPT
    !.stage = IF pass.todo = {n} THEN "idle" ELSE "spec",
    !.todo = @ \ {n},
    !.plan = IF pass.todo = {n} THEN Idle.plan ELSE @,
    !.since = IF pass.todo = {n} THEN {} ELSE @]

\* An unchanged spec ends the node's turn, label and status unwritten.
SpecSkips(a) ==
    /\ pass.stage = "spec" /\ AnswerOf(a)
    /\ LET n == Least(pass.todo)
       IN  /\ spec' = [spec EXCEPT ![n] = IF a = "refused" THEN @ ELSE pass.plan[n]]
           /\ pass' = IF a # "made" THEN Idle
                      ELSE IF spec[n] = pass.plan[n] THEN Settled(n)
                      ELSE [pass EXCEPT !.stage = "label"]
    /\ UNCHANGED <<eligible, label, class, caps, pods, view, calm>>

\* An error ends the reconcile: the nodes after this one are not written.
upsertNodeTwinSpec(a) ==
    /\ pass.stage = "spec" /\ AnswerOf(a)
    /\ LET n == Least(pass.todo)
       IN  /\ spec' = [spec EXCEPT ![n] = IF a = "refused" THEN @ ELSE pass.plan[n]]
           /\ pass' = IF a = "made" THEN [pass EXCEPT !.stage = "label"] ELSE Idle
    /\ UNCHANGED <<eligible, label, class, caps, pods, view, calm>>

ProfileOf(c) == IF c = "draining" THEN "eco" ELSE c

upsertNodeLabels(a) ==
    /\ pass.stage = "label" /\ AnswerOf(a)
    /\ LET n == Least(pass.todo)
       IN  /\ label' = [label EXCEPT ![n] = IF a = "refused" THEN @ ELSE ProfileOf(pass.plan[n])]
           /\ pass' = IF a = "made" THEN [pass EXCEPT !.stage = "status"] ELSE Idle
    /\ UNCHANGED <<eligible, spec, class, caps, pods, view, calm>>

\* A failed status write is a warning only.
reconcileNodeTwin(a) ==
    /\ pass.stage = "status" /\ AnswerOf(a)
    /\ LET n == Least(pass.todo)
       IN  /\ class' = [class EXCEPT ![n] = IF a = "refused" THEN @ ELSE pass.plan[n]]
           /\ pass' = Settled(n)
    /\ UNCHANGED <<eligible, label, spec, caps, pods, view, calm>>

Crash ==
    /\ Crashes /\ ~calm /\ pass.stage # "idle"
    /\ pass' = Idle
    /\ UNCHANGED <<eligible, clusterVars, caps, pods, view, calm>>

-----------------------------------------------------------------------------
(* The agents, the extender and the pods.                                  *)

CapProfile(s) == IF s = "draining" THEN "performance" ELSE s

AgentReconcile(n) ==
    /\ spec[n] # "none"
    /\ caps' = [caps EXCEPT ![n] = CapProfile(spec[n])]
    /\ UNCHANGED <<eligible, clusterVars, pods, view, pass, calm>>

\* A map within the TTL may be this old.  Pods with a selector do not depend on it.
getNodeTwinStates ==
    /\ Selecting # Pods
    /\ view' = class
    /\ UNCHANGED <<eligible, clusterVars, caps, pods, pass, calm>>

\* A list that fails answers with an empty map: the label alone decides.
shouldFilterNode(n, listed) ==
    \/ listed /\ view[n] \in {"eco", "draining"}
    \/ label[n] = "eco"

\* kube-scheduler's own node selector check, or the extender's filter.
Passes(p, n, listed) ==
    IF p \in Selecting THEN label[n] = "performance" ELSE ~shouldFilterNode(n, listed)

MovePod(p, phase, n) ==
    /\ pods' = [pods EXCEPT ![p] = [phase |-> phase, node |-> n]]
    /\ UNCHANGED <<eligible, clusterVars, caps, view, calm>>

Submit(p) ==
    /\ ~calm /\ pods[p].phase = "absent"
    /\ MovePod(p, "pending", NoNode) /\ UNCHANGED pass

\* Filtered and picked; bound later, and Pending until it runs.
Filter(p, n, listed) ==
    /\ listed \/ (~calm /\ ListErrors)
    /\ pods[p].phase = "pending" /\ Passes(p, n, listed)
    /\ MovePod(p, "placed", n) /\ UNCHANGED pass

Run(p) ==
    /\ pods[p].phase = "placed"
    /\ MovePod(p, "running", pods[p].node) /\ UNCHANGED pass

\* Deleted, with its grace period to run.
Terminate(p) ==
    /\ pods[p].phase = "running"
    /\ MovePod(p, "terminating", pods[p].node)
    /\ pass' = [pass EXCEPT !.since = @ \ {p}]

Finish(p) ==
    /\ pods[p].phase \in {"running", "terminating"}
    /\ MovePod(p, "absent", NoNode)
    /\ pass' = [pass EXCEPT !.since = @ \ {p}]

\* Reserved or cordoned, or planned again.
Reserve(n) ==
    /\ Reserving /\ ~calm
    /\ eligible' = IF n \in eligible THEN eligible \ {n} ELSE eligible \cup {n}
    /\ UNCHANGED <<clusterVars, caps, pods, view, pass, calm>>

CalmDown ==
    /\ ~calm /\ calm' = TRUE
    /\ UNCHANGED <<eligible, clusterVars, caps, pods, view, pass>>

-----------------------------------------------------------------------------

Init ==
    /\ eligible = Nodes /\ calm = FALSE /\ pass = Idle
    /\ label = [n \in Nodes |-> "none"] /\ spec = label /\ class = label
    /\ caps = label /\ view = label
    /\ pods = [p \in Pods |-> [phase |-> "absent", node |-> NoNode]]

Manager ==
    \/ \E listed \in BOOLEAN : StartReconcile(listed) \/ Guard(listed)
    \/ \E a \in Answers : upsertNodeTwinSpec(a) \/ upsertNodeLabels(a) \/ reconcileNodeTwin(a)

PodStep(p) ==
    \/ Submit(p) \/ Run(p) \/ Terminate(p) \/ Finish(p)
    \/ \E n \in Nodes, listed \in BOOLEAN : Filter(p, n, listed)

Next ==
    \/ Manager \/ Crash
    \/ \E n \in Agents : AgentReconcile(n)
    \/ \E n \in Nodes : Reserve(n)
    \/ getNodeTwinStates
    \/ \E p \in Pods : PodStep(p)
    \/ CalmDown

(* reconcileLoop, the agents' loop and the kubelet go on; a pod in the     *)
(* scheduling queue is tried again, after a refresh of the classes.        *)
Fairness ==
    /\ WF_vars(Manager) /\ WF_vars(getNodeTwinStates)
    /\ \A n \in Agents : WF_vars(AgentReconcile(n))
    /\ \A p \in Pods : WF_vars(\E n \in Nodes : Filter(p, n, TRUE)) /\ WF_vars(Run(p))

Spec == Init /\ [][Next]_vars
FairSpec == Spec /\ Fairness

-----------------------------------------------------------------------------
(* Properties.                                                             *)

(* Every variable keeps its type, and the reconcile works on nodes it      *)
(* has planned: one of the two profiles, or draining, and never eco turned *)
(* into a word the label does not have.                                    *)
TypeOK ==
    /\ eligible \subseteq Nodes /\ calm \in BOOLEAN
    /\ label \in [Nodes -> Profiles] /\ caps \in [Nodes -> Profiles]
    /\ {spec, class, view} \subseteq [Nodes -> Classes]
    /\ pods \in [Pods -> [phase : {"absent", "pending", "placed", "running", "terminating"},
                          node : Nodes \cup {NoNode}]]
    /\ pass \in [stage : Stages, todo : SUBSET Nodes, plan : [Nodes -> Classes], since : SUBSET Pods]
    /\ (pass.stage = "idle") = (pass.todo = {})
    /\ \A n \in pass.todo : pass.plan[n] # "none"

(* The downgrade guard, across everything that happens between its count   *)
(* and the write: no reconcile takes a node from performance caps to eco   *)
(* caps under a performance pod that has been running on it all along.     *)
GuardHolds ==
    [][ \A n \in Nodes :
            (CapProfile(spec[n]) = "performance" /\ CapProfile(spec'[n]) = "eco")
                => \A p \in pass.since : pods[p].node # n ]_vars

(* Whatever a reconcile leaves undone (an error half way, a crash), a      *)
(* hardware family that has a node labelled performance keeps one.         *)
Serving(f, l) == \E n \in eligible : family[n] = f /\ l[n] = "performance"

(* Once nothing fails any more, what a node's NodeTwin spec, label and     *)
(* status say agrees for good, whatever the aborted reconciles left.       *)
Agrees(n) == label[n] = ProfileOf(spec[n]) /\ class[n] = spec[n]

RecordsAgree == <>[]calm => <>[](\A n \in eligible : Agrees(n))

(* Once nodes are no longer reserved or given back and nothing fails, every *)
(* hardware family among the planned nodes has one labelled performance,    *)
(* for good, whichever node was taken while a reconcile was under way.      *)
FamilyServed ==
    <>[]calm => <>[](\A f \in FamiliesOf(eligible, family) : Serving(f, label))

(* Once nothing fails any more and every node is planned, a performance    *)
(* pod is not throttled for good: wherever it runs, the node ends up with  *)
(* performance caps, also when it slipped onto a node that had turned eco. *)
Unthrottled(p) == pods[p].phase = "running" => caps[pods[p].node] # "eco"

CapsReachPods ==
    <>[](calm /\ eligible = Nodes) => <>[](\A p \in Pods : Unthrottled(p))

(* Once nothing fails any more and some node is planned, every waiting      *)
(* performance pod is placed: the demand it adds, the floor of the split,   *)
(* the label and the cached class come together on some node.               *)
PodsArePlaced ==
    <>[](calm /\ eligible # {}) => \A p \in Pods : [](pods[p].phase = "pending" => <>(pods[p].phase # "pending"))

(* Performance pods are placed and end up under performance caps, whatever *)
(* failed, was lost or restarted before.                                   *)
PodsAreServed == CapsReachPods /\ PodsArePlaced

=============================================================================
