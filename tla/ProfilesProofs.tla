--------------------------- MODULE ProfilesProofs ---------------------------
(***************************************************************************)
(* What PerformanceSet's choice within a family guarantees whatever the    *)
(* split across families is; and that the downgrade guard holds for every  *)
(* fleet, every set of pods, every policy and every pattern of failed      *)
(* writes and restarts, as long as its list of pods does not fail; and     *)
(* that the extender's scores come to follow the objects.                  *)
(***************************************************************************)
EXTENDS Profiles, Scoring, TLAPS, FiniteSetTheorems

-----------------------------------------------------------------------------
(* The choice within a family.                                             *)

(* Of two nodes of a family, the one in performance comes first, and       *)
(* whatever is ahead of it is ahead of the other too.                      *)
LEMMA KeptComeFirst ==
    ASSUME NEW nodes, NEW fam, NEW perf,
           NEW m \in nodes, NEW n \in nodes, fam[m] = fam[n],
           m \in perf, n \notin perf
    PROVE  Ahead(nodes, fam, perf, m) \subseteq Ahead(nodes, fam, perf, n)
  BY DEF Ahead, Members, Precedes

(* PerformanceSet never swaps two nodes of a family, for every fleet, every *)
(* labelling and every split of the slots: if it takes m out of performance *)
(* it puts no other node of m's family in.                                  *)
THEOREM ChoiceNeverSwaps ==
    ASSUME NEW nodes \in SUBSET Nodes, NEW fam, NEW perf,
           NEW slots, \A f \in FamiliesOf(nodes, fam) : slots[f] \in Int,
           NEW m \in nodes, NEW n \in nodes, fam[m] = fam[n],
           m \in perf, m \notin Chosen(nodes, fam, perf, slots),
           n \notin perf
    PROVE  n \notin Chosen(nodes, fam, perf, slots)
  <1> DEFINE A == Ahead(nodes, fam, perf, m)
             B == Ahead(nodes, fam, perf, n)
  <1>1. A \subseteq B
    BY KeptComeFirst
  <1>2. IsFiniteSet(nodes)
    BY PolicyAssumption, FS_Subset
  <1>3. IsFiniteSet(B)
    <2>1. B \subseteq nodes
      BY DEF Ahead, Members
    <2> QED
      BY <2>1, <1>2, FS_Subset
  <1>4. Cardinality(A) \in Nat /\ Cardinality(B) \in Nat /\ Cardinality(A) <= Cardinality(B)
    <2>1. IsFiniteSet(A) /\ Cardinality(A) <= Cardinality(B)
      BY <1>1, <1>3, FS_Subset
    <2> QED
      BY <2>1, <1>3, FS_CardinalityType
  <1>5. slots[fam[m]] \in Int
    BY DEF FamiliesOf
  <1>6. ~(Cardinality(A) < slots[fam[m]])
    BY DEF Chosen
  <1>7. ~(Cardinality(B) < slots[fam[n]])
    BY <1>4, <1>5, <1>6
  <1> QED
    BY <1>7 DEF Chosen

-----------------------------------------------------------------------------
(* The guard.                                                              *)

Phases == {"absent", "pending", "placed", "running", "terminating"}

PodType == [phase : Phases, node : Nodes \cup {NoNode}]
PassType == [stage : Stages, todo : SUBSET Nodes, plan : [Nodes -> Classes], since : SUBSET Pods]

(* What the argument needs of the types.                                   *)
GuardType ==
    /\ eligible \subseteq Nodes
    /\ pods \in [Pods -> PodType]
    /\ spec \in [Nodes -> Classes]
    /\ pass \in PassType

(* The pods of since are still running, and a node whose turn before the   *)
(* guard has come is planned in eco only if it holds none of them.         *)
Judged(n) ==
    \/ pass.stage \in {"spec", "label", "status"}
    \/ pass.stage = "guard" /\ n \notin pass.todo

GuardInv ==
    /\ \A p \in pass.since : pods[p].phase = "running"
    /\ \A n \in Nodes : Judged(n) /\ pass.plan[n] = "eco" => \A p \in pass.since : pods[p].node # n

IInv == GuardType /\ GuardInv

(* A pass that is idle is a pass, and knows no pods.                       *)
LEMMA IdleType ==
    Idle \in PassType /\ Idle.stage = "idle" /\ Idle.since = {}
  BY DEF Idle, PassType, Stages, Classes, Profiles

(* A node that holds a running pod is planned draining, never eco.         *)
LEMMA CountSeesRunning ==
    ASSUME NEW n, NEW p \in Pods, pods[p].phase = "running", pods[p].node = n, NEW desired
    PROVE  ComputeDesiredLabels(desired, Cardinality(RunningOn(n)), n) # "eco"
  <1>1. p \in RunningOn(n)
    BY DEF RunningOn
  <1>2. IsFiniteSet(RunningOn(n))
    <2>1. RunningOn(n) \subseteq Pods
      BY DEF RunningOn
    <2> QED
      BY <2>1, ProfilesAssumption, FS_Subset
  <1>3. Cardinality(RunningOn(n)) \in Nat /\ Cardinality(RunningOn(n)) # 0
    BY <1>1, <1>2, FS_CardinalityType, FS_EmptySet
  <1>4. Cardinality(RunningOn(n)) > 0
    BY <1>3
  <1> QED
    BY <1>4 DEF ComputeDesiredLabels

(* No pass runs at first.                                                  *)
LEMMA InitInv == Init => IInv
  BY IdleType, PolicyAssumption
     DEF Init, IInv, GuardType, GuardInv, Judged, PodType, Phases, Classes, Profiles

(* A reconcile starts with the pods that run now.                          *)
LEMMA StartKeeps ==
    ASSUME IInv, NEW listed \in BOOLEAN, StartReconcile(listed)
    PROVE  IInv'
  <1> DEFINE planned(S) == [n \in Nodes |-> IF n \notin eligible THEN "none"
                                            ELSE IF n \in S THEN "performance" ELSE "eco"]
             running == {p \in Pods : pods[p].phase = "running"}
  <1>1. PICK S : pass' = [stage |-> "guard", todo |-> eligible, plan |-> planned(S), since |-> running]
    BY DEF StartReconcile
  <1>2. planned(S) \in [Nodes -> Classes]
    BY DEF Classes, Profiles
  <1> HIDE DEF planned
  <1>3. pass' \in PassType
    BY <1>1, <1>2 DEF PassType, Stages, IInv, GuardType
  <1>4. UNCHANGED <<eligible, pods, spec>>
    BY DEF StartReconcile, clusterVars
  <1>5. GuardType'
    BY <1>3, <1>4 DEF IInv, GuardType
  <1>6. \A n \in Nodes : pass'.plan[n] = "eco" => n \in pass'.todo
    BY <1>1 DEF planned
  <1>7. pass'.stage = "guard" /\ \A p \in pass'.since : pods'[p].phase = "running"
    BY <1>1, <1>4
  <1>8. GuardInv'
    BY <1>6, <1>7 DEF GuardInv, Judged
  <1> QED
    BY <1>5, <1>8 DEF IInv

(* The guard judges one node after it has listed the node's pods.          *)
LEMMA GuardKeeps ==
    ASSUME IInv, ~ListErrors, NEW listed \in BOOLEAN, Guard(listed)
    PROVE  IInv'
  <1> DEFINE n == Least(pass.todo)
             left == pass.todo \ {n}
             guarded == ComputeDesiredLabels(pass.plan[n], Cardinality(RunningOn(n)), n)
             planned == {m \in Nodes : pass.plan[m] # "none"}
  <1>1. listed /\ pass.stage = "guard" /\ UNCHANGED <<eligible, pods, spec>>
    BY DEF Guard, clusterVars
  <1>2. pass' = [pass EXCEPT !.plan[n] = guarded,
                             !.stage = IF left = {} THEN "spec" ELSE @,
                             !.todo = IF left = {} THEN planned ELSE left]
    BY <1>1 DEF Guard
  <1>3. pass \in PassType
    BY DEF IInv, GuardType
  <1>4. \A p \in pass.since : p \in Pods /\ pods[p].phase = "running"
    BY <1>3 DEF IInv, GuardInv, PassType
  <1>5. n \in Nodes /\ guarded = "eco" => \A p \in pass.since : pods[p].node # n
    BY <1>4, CountSeesRunning
  <1>6. n \in Nodes => guarded \in Classes
    BY <1>3 DEF PassType, ComputeDesiredLabels, Classes
  <1> HIDE DEF n, guarded
  <1>7. /\ pass' \in PassType
        /\ pass'.since = pass.since
        /\ pass'.plan = [pass.plan EXCEPT ![n] = guarded]
        /\ left = {} \/ (pass'.stage = "guard" /\ pass'.todo = left)
    BY <1>1, <1>2, <1>3, <1>6 DEF PassType, Stages
  <1>8. GuardType'
    BY <1>1, <1>7 DEF IInv, GuardType
  <1>9. ASSUME NEW m \in Nodes, Judged(m)', pass'.plan[m] = "eco", NEW p \in pass'.since
        PROVE  pods'[p].node # m
    <2>1. CASE m = n
      <3>1. pass'.plan[m] = guarded
        BY <1>3, <1>7, <2>1 DEF PassType
      <3> QED
        BY <3>1, <2>1, <1>1, <1>5, <1>7, <1>9
    <2>2. CASE m # n
      <3>1. pass.plan[m] = "eco"
        BY <1>3, <1>7, <1>9, <2>2 DEF PassType
      <3>2. m \notin pass.todo
        BY <1>7, <1>9, <2>2 DEF Judged
      <3> QED
        BY <3>1, <3>2, <1>1, <1>7, <1>9 DEF IInv, GuardInv, Judged
    <2> QED
      BY <2>1, <2>2
  <1>10. GuardInv'
    BY <1>1, <1>4, <1>7, <1>9 DEF GuardInv
  <1> QED
    BY <1>8, <1>10 DEF IInv

(* A step that leaves the pods alone and either ends the pass or goes on   *)
(* to write keeps the invariant.                                           *)
LEMMA WritingKeeps ==
    ASSUME IInv, UNCHANGED <<eligible, pods>>, spec' \in [Nodes -> Classes],
           pass.stage \in {"spec", "label", "status"}, pass' \in PassType,
           \/ pass'.stage = "idle" /\ pass'.since = {}
           \/ pass'.since = pass.since /\ pass'.plan = pass.plan
    PROVE  IInv'
  <1>1. GuardType'
    BY DEF IInv, GuardType
  <1>2. CASE pass'.stage = "idle" /\ pass'.since = {}
    BY <1>1, <1>2 DEF IInv, GuardInv, Judged
  <1>3. CASE pass'.since = pass.since /\ pass'.plan = pass.plan
    BY <1>1, <1>3 DEF IInv, GuardInv, Judged
  <1> QED
    BY <1>2, <1>3

(* A pass that is done with a node goes on with the same plan, or ends.    *)
LEMMA SettledPass ==
    ASSUME IInv, NEW n
    PROVE  /\ Settled(n) \in PassType
           /\ \/ Settled(n).stage = "idle" /\ Settled(n).since = {}
              \/ Settled(n).since = pass.since /\ Settled(n).plan = pass.plan
  <1>1. pass \in PassType /\ Idle.plan \in [Nodes -> Classes]
    BY IdleType DEF IInv, GuardType, PassType
  <1>2. CASE pass.todo = {n}
    BY <1>1, <1>2 DEF Settled, PassType, Stages
  <1>3. CASE pass.todo # {n}
    BY <1>1, <1>3 DEF Settled, PassType, Stages
  <1> QED
    BY <1>2, <1>3

(* The write of a spec follows the plan.                                   *)
LEMMA SpecKeeps ==
    ASSUME IInv, NEW a \in Answers, upsertNodeTwinSpec(a)
    PROVE  IInv'
  <1> DEFINE n == Least(pass.todo)
  <1>1. /\ pass.stage = "spec" /\ UNCHANGED <<eligible, pods>>
        /\ spec' = [spec EXCEPT ![n] = IF a = "refused" THEN @ ELSE pass.plan[n]]
        /\ pass' = IF a = "made" THEN [pass EXCEPT !.stage = "label"] ELSE Idle
    BY DEF upsertNodeTwinSpec
  <1> HIDE DEF n
  <1>2. spec \in [Nodes -> Classes] /\ pass \in PassType
    BY DEF IInv, GuardType
  <1>3. spec' \in [Nodes -> Classes]
    BY <1>1, <1>2 DEF PassType
  <1>4. CASE a = "made"
    <2>1. pass' \in PassType /\ pass'.since = pass.since /\ pass'.plan = pass.plan
      BY <1>1, <1>2, <1>4 DEF PassType, Stages
    <2> QED
      BY <1>1, <1>3, <2>1, WritingKeeps
  <1>5. CASE a # "made"
    BY <1>1, <1>3, <1>5, IdleType, WritingKeeps
  <1> QED
    BY <1>4, <1>5

(* The write of a label changes no spec.                                   *)
LEMMA LabelKeeps ==
    ASSUME IInv, NEW a \in Answers, upsertNodeLabels(a)
    PROVE  IInv'
  <1>1. /\ pass.stage = "label" /\ UNCHANGED <<eligible, pods, spec>>
        /\ pass' = IF a = "made" THEN [pass EXCEPT !.stage = "status"] ELSE Idle
    BY DEF upsertNodeLabels
  <1>2. spec' \in [Nodes -> Classes] /\ pass \in PassType
    BY <1>1 DEF IInv, GuardType
  <1>3. CASE a = "made"
    <2>1. pass' \in PassType /\ pass'.since = pass.since /\ pass'.plan = pass.plan
      BY <1>1, <1>2, <1>3 DEF PassType, Stages
    <2> QED
      BY <1>1, <1>2, <2>1, WritingKeeps
  <1>4. CASE a # "made"
    BY <1>1, <1>2, <1>4, IdleType, WritingKeeps
  <1> QED
    BY <1>3, <1>4

(* The write of a status changes no spec.                                  *)
LEMMA StatusKeeps ==
    ASSUME IInv, NEW a \in Answers, reconcileNodeTwin(a)
    PROVE  IInv'
  <1>1. PICK n : pass' = Settled(n)
    BY DEF reconcileNodeTwin
  <1>2. pass.stage = "status" /\ UNCHANGED <<eligible, pods, spec>>
    BY DEF reconcileNodeTwin
  <1>3. spec' \in [Nodes -> Classes]
    BY <1>2 DEF IInv, GuardType
  <1> QED
    BY <1>1, <1>2, <1>3, SettledPass, WritingKeeps

(* A crash ends the pass.                                                  *)
LEMMA CrashKeeps ==
    ASSUME IInv, Crash
    PROVE  IInv'
  BY IdleType DEF Crash, clusterVars, IInv, GuardType, GuardInv, Judged

(* A pod that moves leaves since unless it was not in it or stays where    *)
(* it is.                                                                  *)
LEMMA PodKeeps ==
    ASSUME IInv, NEW p \in Pods, NEW phase \in Phases, NEW n \in Nodes \cup {NoNode},
           MovePod(p, phase, n),
           \/ pass' = pass /\ pods[p].phase # "running"
           \/ pass' = [pass EXCEPT !.since = @ \ {p}]
    PROVE  IInv'
  <1>1. pods' = [pods EXCEPT ![p] = [phase |-> phase, node |-> n]] /\ UNCHANGED <<eligible, spec>>
    BY DEF MovePod, clusterVars
  <1>2. pods \in [Pods -> PodType] /\ pass \in PassType
    BY DEF IInv, GuardType
  <1>3. pods' \in [Pods -> PodType]
    BY <1>1, <1>2 DEF PodType
  <1>4. /\ pass' \in PassType
        /\ pass'.stage = pass.stage /\ pass'.todo = pass.todo /\ pass'.plan = pass.plan
        /\ pass'.since \subseteq pass.since \ {p}
    BY <1>2 DEF PassType, IInv, GuardInv
  <1>5. \A q \in pass'.since : pods'[q] = pods[q]
    BY <1>1, <1>2, <1>4 DEF PassType
  <1>6. GuardType'
    BY <1>1, <1>3, <1>4 DEF IInv, GuardType
  <1>7. GuardInv'
    BY <1>4, <1>5 DEF IInv, GuardInv, Judged
  <1> QED
    BY <1>6, <1>7 DEF IInv

(* The steps of a pod leave no pod in since that no longer runs there.     *)
LEMMA PodStepKeeps ==
    ASSUME IInv, NEW p \in Pods, PodStep(p)
    PROVE  IInv'
  <1>1. pods[p].node \in Nodes \cup {NoNode}
    BY DEF IInv, GuardType, PodType
  <1>2. CASE Submit(p)
    BY <1>2, PodKeeps DEF Submit, Phases
  <1>3. CASE Run(p)
    BY <1>1, <1>3, PodKeeps DEF Run, Phases
  <1>4. CASE Terminate(p)
    BY <1>1, <1>4, PodKeeps DEF Terminate, Phases
  <1>5. CASE Finish(p)
    BY <1>5, PodKeeps DEF Finish, Phases
  <1>6. CASE \E n \in Nodes, listed \in BOOLEAN : Filter(p, n, listed)
    BY <1>6, PodKeeps DEF Filter, Phases
  <1> QED
    BY <1>2, <1>3, <1>4, <1>5, <1>6 DEF PodStep

(* Every step keeps the invariant when lists do not fail.                  *)
LEMMA NextKeeps ==
    ASSUME ~ListErrors, IInv, [Next]_vars
    PROVE  IInv'
  <1>1. CASE Manager
    BY <1>1, StartKeeps, GuardKeeps, SpecKeeps, LabelKeeps, StatusKeeps DEF Manager
  <1>2. CASE Crash
    BY <1>2, CrashKeeps
  <1>3. ASSUME UNCHANGED <<pods, spec, pass>>, eligible' \subseteq Nodes
        PROVE  IInv'
    BY <1>3 DEF IInv, GuardType, GuardInv, Judged
  <1>4. eligible \subseteq Nodes
    BY DEF IInv, GuardType
  <1>5. CASE \E n \in Agents : AgentReconcile(n)
    BY <1>5, <1>3, <1>4 DEF AgentReconcile, clusterVars
  <1>6. CASE \E n \in Nodes : Reserve(n)
    BY <1>6, <1>3, <1>4 DEF Reserve, clusterVars
  <1>7. CASE getNodeTwinStates
    BY <1>7, <1>3, <1>4 DEF getNodeTwinStates, clusterVars
  <1>8. CASE \E p \in Pods : PodStep(p)
    BY <1>8, PodStepKeeps
  <1>9. CASE CalmDown
    BY <1>9, <1>3, <1>4 DEF CalmDown, clusterVars
  <1>10. CASE UNCHANGED vars
    BY <1>10, <1>3, <1>4 DEF vars, clusterVars
  <1> QED
    BY <1>1, <1>2, <1>5, <1>6, <1>7, <1>8, <1>9, <1>10 DEF Next

(* Only upsertNodeTwinSpec changes a spec, to the plan of the node whose   *)
(* turn it is.                                                             *)
LEMMA SpecFollowsPlan ==
    ASSUME IInv, [Next]_vars, NEW n \in Nodes, spec'[n] # spec[n]
    PROVE  pass.stage = "spec" /\ spec'[n] = pass.plan[n]
  <1>1. ASSUME NEW a \in Answers, upsertNodeTwinSpec(a)
        PROVE  pass.stage = "spec" /\ spec'[n] = pass.plan[n]
    <2> DEFINE m == Least(pass.todo)
    <2>1. /\ pass.stage = "spec"
          /\ spec' = [spec EXCEPT ![m] = IF a = "refused" THEN @ ELSE pass.plan[m]]
      BY <1>1 DEF upsertNodeTwinSpec
    <2> HIDE DEF m
    <2> QED
      BY <2>1 DEF IInv, GuardType
  <1>2. \/ UNCHANGED spec
        \/ \E a \in Answers : upsertNodeTwinSpec(a)
    BY DEF Next, vars, clusterVars, Manager, StartReconcile, Guard, upsertNodeLabels,
           reconcileNodeTwin, Crash, AgentReconcile, Reserve, getNodeTwinStates,
           PodStep, Submit, Filter, Run, Terminate, Finish, MovePod, CalmDown
  <1> QED
    BY <1>1, <1>2

(* A node goes from performance to eco only without a pod of since.        *)
LEMMA StepHolds ==
    ASSUME IInv, [Next]_vars
    PROVE  \A n \in Nodes :
              (CapProfile(spec[n]) = "performance" /\ CapProfile(spec'[n]) = "eco")
                  => \A p \in pass.since : pods[p].node # n
  <1> SUFFICES ASSUME NEW n \in Nodes,
                      CapProfile(spec[n]) = "performance", CapProfile(spec'[n]) = "eco"
               PROVE  \A p \in pass.since : pods[p].node # n
    OBVIOUS
  <1>1. spec'[n] # spec[n] /\ spec'[n] = "eco"
    BY DEF CapProfile
  <1>2. pass.stage = "spec" /\ pass.plan[n] = "eco"
    BY <1>1, SpecFollowsPlan
  <1> QED
    BY <1>2 DEF IInv, GuardInv, Judged

(* For every fleet, policy and set of pods, with any failed writes and     *)
(* restarts: while ApplyDowngradeGuards can list pods, no reconcile puts   *)
(* eco caps on a node under a performance pod that has run there since     *)
(* before the reconcile began.                                             *)
THEOREM GuardIsKept ==
    ASSUME ~ListErrors
    PROVE  Spec => GuardHolds
  <1>1. Init => IInv
    BY InitInv
  <1>2. IInv /\ [Next]_vars => IInv'
    BY NextKeeps
  <1>3. IInv /\ [Next]_vars =>
            [\A n \in Nodes :
                (CapProfile(spec[n]) = "performance" /\ CapProfile(spec'[n]) = "eco")
                    => \A p \in pass.since : pods[p].node # n]_vars
    BY StepHolds
  <1> QED
    BY <1>1, <1>2, <1>3, PTL DEF Spec, GuardHolds

-----------------------------------------------------------------------------
(* The scores of the scheduler extender.                                   *)

(* A map, once the objects have been still for longer than it is old, is   *)
(* what the objects are: a rebuild finds them as they are, and both age    *)
(* alike.                                                                  *)
Tells(k, now) == k.at # Never /\ k.at < quiet => k.map = now

CacheOK(k) == k = [at |-> k.at, map |-> k.map] /\ k.at \in Nat \cup {Never}

(* The inductive invariant of SettledAnswers.  A request between its two   *)
(* reads holds the twins of the first.                                     *)
SettledInv ==
    /\ nt = [n \in Hosts |-> [kept |-> nt[n].kept, is |-> nt[n].is]]
    /\ quiet \in Nat
    /\ CacheOK(twCache) /\ CacheOK(hwCache)
    /\ Tells(twCache, twinStates) /\ Tells(hwCache, hwInfos)
    /\ req = [at |-> req.at, pod |-> req.pod, states |-> req.states, scores |-> req.scores]
    /\ req.at = "twins" /\ quiet > CacheTTL => req.states = twinStates
    /\ SettledAnswers

(* An age grows by one up to a bound past which nothing tells it apart.    *)
LEMMA GrownIs ==
    ASSUME NEW age \in Nat
    PROVE  Grown(age) = (IF age + 1 <= Top THEN age + 1 ELSE Top) /\ Grown(age) \in Nat
  <1>1. Top \in Nat /\ age + 1 \in Nat
    BY ScoringAssumption DEF Top
  <1>2. PICK x \in {age + 1, Top} : \A y \in {age + 1, Top} : x <= y
    BY <1>1
  <1>3. /\ Min({age + 1, Top}) \in {age + 1, Top}
        /\ \A y \in {age + 1, Top} : Min({age + 1, Top}) <= y
    BY <1>2 DEF Min
  <1>4. Grown(age) = Min({age + 1, Top})
    BY DEF Grown, Never
  <1> QED
    BY <1>1, <1>3, <1>4

(* A map that was never built stays so.                                    *)
LEMMA NeverGrows == Grown(Never) = Never
  BY DEF Grown

(* The twins of the next tick are the twins of this one, a tick older.     *)
LEMMA TwinsAge ==
    ASSUME nt = [n \in Hosts |-> [kept |-> nt[n].kept, is |-> nt[n].is]],
           nt' = [n \in Hosts |-> [nt[n] EXCEPT !.is = OneTick(@)]]
    PROVE  twinStates' = [n \in DOMAIN twinStates |-> OneTick(twinStates[n])]
  <1>1. \A n \in Hosts : nt'[n].kept = nt[n].kept /\ nt'[n].is = OneTick(nt[n].is)
    <2> TAKE n \in Hosts
    <2>1. nt[n] = [kept |-> nt[n].kept, is |-> nt[n].is]
      OBVIOUS
    <2>2. nt'[n] = [nt[n] EXCEPT !.is = OneTick(nt[n].is)]
      OBVIOUS
    <2> HIDE DEF OneTick
    <2> QED
      BY <2>1, <2>2
  <1>2. Live(nt)' = Live(nt)
    BY <1>1 DEF Live
  <1>3. \A n \in Live(nt) : n \in Hosts
    BY DEF Live
  <1>4. DOMAIN twinStates = Live(nt) /\ \A n \in Live(nt) : twinStates[n] = nt[n].is
    BY DEF twinStates
  <1>5. twinStates' = [n \in Live(nt) |-> nt'[n].is]
    BY <1>2 DEF twinStates
  <1> QED
    BY <1>1, <1>3, <1>4, <1>5

(* The objects change only with quiet at zero, and zero is older than no   *)
(* map.                                                                    *)
LEMMA EditSettles ==
    ASSUME SettledInv, quiet' = 0, UNCHANGED <<twCache, hwCache, req>>,
           nt' = [n \in Hosts |-> [kept |-> nt'[n].kept, is |-> nt'[n].is]]
    PROVE  SettledInv'
  <1>1. ~(quiet' > CacheTTL) /\ ~(twCache'.at # Never /\ twCache'.at < quiet')
        /\ ~(hwCache'.at # Never /\ hwCache'.at < quiet')
    BY ScoringAssumption DEF SettledInv, CacheOK, Never
  <1>2. Tells(twCache, twinStates)' /\ Tells(hwCache, hwInfos)' /\ SettledAnswers'
    BY <1>1 DEF Tells, SettledAnswers
  <1> QED
    BY <1>1, <1>2 DEF SettledInv, CacheOK

(* A write of a twin, or its removal.                                      *)
LEMMA TwinWriteSettles ==
    ASSUME NEW n \in Hosts, SettledInv, WritesTwin(n) PROVE SettledInv'
  <1>1. nt = [m \in Hosts |-> [kept |-> nt[m].kept, is |-> nt[m].is]]
    BY DEF SettledInv
  <1>2. CASE \E t \in Twins : nt' = [nt EXCEPT ![n] = [kept |-> TRUE, is |-> t]]
    <2>1. nt' = [m \in Hosts |-> [kept |-> nt'[m].kept, is |-> nt'[m].is]]
      BY <1>1, <1>2
    <2> QED
      BY <2>1, EditSettles DEF WritesTwin
  <1>3. CASE nt' = [nt EXCEPT ![n].kept = FALSE]
    <2>1. nt'[n] = [nt[n] EXCEPT !.kept = FALSE] /\ nt[n] = [kept |-> nt[n].kept, is |-> nt[n].is]
      BY <1>1, <1>3
    <2>2. nt'[n] = [kept |-> FALSE, is |-> nt[n].is]
      BY <2>1
    <2>3. nt' = [m \in Hosts |-> [kept |-> nt'[m].kept, is |-> nt'[m].is]]
      BY <1>1, <1>3, <2>2
    <2> QED
      BY <2>3, EditSettles DEF WritesTwin
  <1> QED
    BY <1>2, <1>3 DEF WritesTwin

(* A tick ages the twins and both maps, and no request is under way.       *)
LEMMA TickSettles == ASSUME SettledInv, TimePasses PROVE SettledInv'
  <1> USE DEF Never
  <1>1. quiet' \in Nat /\ quiet' = (IF quiet + 1 <= Top THEN quiet + 1 ELSE Top)
    BY GrownIs DEF SettledInv, TimePasses
  <1>2. ASSUME NEW k, NEW j, CacheOK(k), j.at = Grown(k.at), j = [at |-> j.at, map |-> j.map]
        PROVE  CacheOK(j) /\ (j.at # Never /\ j.at < quiet' => k.at # Never /\ k.at < quiet)
    <2>1. CASE k.at = Never
      BY <1>2, <2>1, NeverGrows DEF CacheOK
    <2>2. CASE k.at \in Nat
      <3>1. Grown(k.at) = (IF k.at + 1 <= Top THEN k.at + 1 ELSE Top) /\ Grown(k.at) \in Nat
        BY <2>2, GrownIs
      <3>2. Top \in Nat /\ quiet \in Nat
        BY ScoringAssumption DEF Top, SettledInv
      <3> HIDE DEF Top, Grown
      <3> QED
        BY <1>1, <1>2, <2>2, <3>1, <3>2 DEF CacheOK
    <2> QED
      BY <1>2, <2>1, <2>2 DEF CacheOK
  <1>3. CacheOK(twCache) /\ CacheOK(hwCache) /\ Tells(twCache, twinStates) /\ Tells(hwCache, hwInfos)
    BY DEF SettledInv
  <1>4. CacheOK(twCache)' /\ Tells(twCache, twinStates)'
    <2>1. /\ twCache'.at = Grown(twCache.at) /\ twCache' = [at |-> twCache'.at, map |-> twCache'.map]
          /\ twCache'.map = [n \in DOMAIN twCache.map |-> OneTick(twCache.map[n])]
      BY DEF TimePasses
    <2>2. CacheOK(twCache') /\ (twCache'.at # Never /\ twCache'.at < quiet' => twCache.at # Never /\ twCache.at < quiet)
      BY <1>2, <1>3, <2>1
    <2>3. twinStates' = [n \in DOMAIN twinStates |-> OneTick(twinStates[n])]
      BY TwinsAge DEF SettledInv, TimePasses
    <2>4. twCache.map = twinStates => twCache'.map = twinStates'
      BY <2>1, <2>3
    <2> QED
      BY <1>3, <2>2, <2>4 DEF Tells, CacheOK
  <1>5. CacheOK(hwCache)' /\ Tells(hwCache, hwInfos)'
    <2>1. hwCache' = [hwCache EXCEPT !.at = Grown(hwCache.at)] /\ hwCache = [at |-> hwCache.at, map |-> hwCache.map]
      BY <1>3 DEF TimePasses, CacheOK
    <2>2. hwCache'.at = Grown(hwCache.at) /\ hwCache' = [at |-> hwCache'.at, map |-> hwCache'.map]
          /\ hwCache'.map = hwCache.map
      BY <2>1
    <2>3. CacheOK(hwCache') /\ (hwCache'.at # Never /\ hwCache'.at < quiet' => hwCache.at # Never /\ hwCache.at < quiet)
      BY <1>2, <1>3, <2>2
    <2>4. hwInfos' = hwInfos
      BY DEF TimePasses, hwInfos, Live
    <2> QED
      BY <1>3, <2>2, <2>3, <2>4 DEF Tells, CacheOK
  <1>6. nt' = [n \in Hosts |-> [kept |-> nt'[n].kept, is |-> nt'[n].is]]
    <2>1. \A n \in Hosts : nt'[n] = [nt[n] EXCEPT !.is = OneTick(nt[n].is)]
                           /\ nt[n] = [kept |-> nt[n].kept, is |-> nt[n].is]
      BY DEF TimePasses, SettledInv
    <2>2. \A n \in Hosts : nt'[n] = [kept |-> nt[n].kept, is |-> OneTick(nt[n].is)]
      BY <2>1
    <2> QED
      BY <2>2 DEF TimePasses
  <1>7. req' = NoReq
    BY DEF TimePasses
  <1>8. req'.at = "idle" /\ req'.scores = <<>>
        /\ req' = [at |-> req'.at, pod |-> req'.pod, states |-> req'.states, scores |-> req'.scores]
    BY <1>7 DEF NoReq
  <1> QED
    BY <1>1, <1>4, <1>5, <1>6, <1>8 DEF SettledInv, SettledAnswers

(* What a read returns once the objects have been still for longer than a  *)
(* map lives, unless its listing failed, is what the objects are.          *)
LEMMA ReadTells ==
    ASSUME NEW k, NEW now, NEW listed \in BOOLEAN, CacheOK(k), Tells(k, now), quiet \in Nat
    PROVE  /\ CacheOK(Rebuilt(k, now, listed).cache)
           /\ Tells(Rebuilt(k, now, listed).cache, now)
           /\ quiet > CacheTTL /\ (listed \/ Valid(k)) => Rebuilt(k, now, listed).map = now
  <1>1. CASE Valid(k)
    BY <1>1, ScoringAssumption DEF Rebuilt, Valid, Tells, CacheOK, Never
  <1>2. CASE ~Valid(k) /\ listed
    <2> DEFINE r == [map |-> now, cache |-> [at |-> 0, map |-> now]]
    <2>1. Rebuilt(k, now, listed) = r
      BY <1>2 DEF Rebuilt
    <2>2. r.map = now /\ r.cache = [at |-> 0, map |-> now] /\ r.cache.at = 0 /\ r.cache.map = now
      OBVIOUS
    <2> QED
      BY <2>1, <2>2 DEF Tells, CacheOK, Never
  <1>3. CASE ~Valid(k) /\ ~listed
    BY <1>3 DEF Rebuilt
  <1> QED
    BY <1>1, <1>2, <1>3

(* The twins are read.                                                     *)
LEMMA TwinReadSettles ==
    ASSUME NEW pod \in Pending, SettledInv, prioritizeNodes(pod) PROVE SettledInv'
  <1>1. PICK listed \in BOOLEAN :
            /\ twCache' = Rebuilt(twCache, twinStates, listed).cache
            /\ req' = [NoReq EXCEPT !.at = IF ~listed /\ ~Valid(twCache) THEN "blind" ELSE "twins",
                                    !.pod = pod, !.states = Rebuilt(twCache, twinStates, listed).map]
    BY DEF prioritizeNodes
  <1>2. UNCHANGED <<nt, hw, hwCache, quiet, twinStates, hwInfos>>
    BY DEF prioritizeNodes, twinStates, hwInfos, Live
  <1>3. /\ CacheOK(Rebuilt(twCache, twinStates, listed).cache)
        /\ Tells(Rebuilt(twCache, twinStates, listed).cache, twinStates)
        /\ quiet > CacheTTL /\ (listed \/ Valid(twCache)) => Rebuilt(twCache, twinStates, listed).map = twinStates
    BY ReadTells DEF SettledInv
  <1>4. /\ req'.at = (IF ~listed /\ ~Valid(twCache) THEN "blind" ELSE "twins")
        /\ req'.scores = <<>> /\ req'.states = Rebuilt(twCache, twinStates, listed).map
        /\ req' = [at |-> req'.at, pod |-> req'.pod, states |-> req'.states, scores |-> req'.scores]
    BY <1>1 DEF NoReq
  <1>5. CacheOK(twCache)' /\ Tells(twCache, twinStates)' /\ CacheOK(hwCache)' /\ Tells(hwCache, hwInfos)'
    BY <1>1, <1>2, <1>3 DEF SettledInv, CacheOK, Tells
  <1>6. req'.at = "twins" /\ quiet' > CacheTTL => req'.states = twinStates'
    BY <1>2, <1>3, <1>4
  <1> QED
    BY <1>2, <1>4, <1>5, <1>6 DEF SettledInv, SettledAnswers

(* The hardware is read, and the answer given.                             *)
LEMMA AnswerSettles == ASSUME SettledInv, handlePrioritize PROVE SettledInv'
  <1> DEFINE r(listed) == Rebuilt(hwCache, hwInfos, listed)
             scores(listed) == [n \in Hosts |->
                        extenderPriority(scoreNode(n, req.states, r(listed).map, req.pod))]
  <1>1. PICK listed \in BOOLEAN :
            /\ hwCache' = r(listed).cache
            /\ req' = [req EXCEPT !.at = "idle", !.states = <<>>,
                       !.scores = IF req.at = "twins" /\ (listed \/ Valid(hwCache))
                                  THEN scores(listed) ELSE <<>>]
    BY DEF handlePrioritize, getNodeHardwareInfo
  <1>2. UNCHANGED <<nt, hw, twCache, quiet, twinStates, hwInfos>>
    BY DEF handlePrioritize, twinStates, hwInfos, Live
  <1>3. /\ CacheOK(r(listed).cache) /\ Tells(r(listed).cache, hwInfos)
        /\ quiet > CacheTTL /\ (listed \/ Valid(hwCache)) => r(listed).map = hwInfos
    BY ReadTells DEF SettledInv
  <1>4. req = [at |-> req.at, pod |-> req.pod, states |-> req.states, scores |-> req.scores]
    BY DEF SettledInv
  <1> HIDE DEF scores, r
  <1>5. /\ req'.at = "idle" /\ req'.pod = req.pod
        /\ req'.scores = IF req.at = "twins" /\ (listed \/ Valid(hwCache)) THEN scores(listed) ELSE <<>>
        /\ req' = [at |-> req'.at, pod |-> req'.pod, states |-> req'.states, scores |-> req'.scores]
    BY <1>1, <1>4
  <1>6. CacheOK(twCache)' /\ Tells(twCache, twinStates)' /\ CacheOK(hwCache)' /\ Tells(hwCache, hwInfos)'
    BY <1>1, <1>2, <1>3 DEF SettledInv, CacheOK, Tells
  <1>7. SettledAnswers'
    <2> SUFFICES ASSUME req'.scores # <<>>, quiet' > CacheTTL, NEW n \in Hosts
                 PROVE  req'.scores[n] = extenderPriority(scoreNode(n, twinStates', hwInfos', req'.pod))
      BY DEF SettledAnswers
    <2>1. req.at = "twins" /\ (listed \/ Valid(hwCache)) /\ req'.scores = scores(listed)
      BY <1>5
    <2>2. req.states = twinStates /\ r(listed).map = hwInfos
      BY <1>2, <1>3, <2>1 DEF SettledInv
    <2>3. scores(listed)[n] = extenderPriority(scoreNode(n, req.states, r(listed).map, req.pod))
      BY DEF scores
    <2> QED
      BY <1>2, <1>5, <2>1, <2>2, <2>3
  <1> QED
    BY <1>2, <1>5, <1>6, <1>7 DEF SettledInv

(* An answer of the extender, given once the objects have been still for   *)
(* longer than CACHE_TTL, is the answer the objects themselves give: for   *)
(* every fleet, every objects and pods, every age, every pattern of edits, *)
(* failed listings and requests.                                           *)
THEOREM AnswersSettle == ScSpec => []SettledAnswers
  <1>1. ScInit => SettledInv
    <2> SUFFICES ASSUME ScInit PROVE SettledInv
      OBVIOUS
    <2>1. nt = [n \in Hosts |-> [kept |-> nt[n].kept, is |-> nt[n].is]]
      BY DEF ScInit
    <2>2. CacheOK(Unread) /\ Unread.at = Never
      BY DEF CacheOK, Unread
    <2>3. NoReq.at = "idle" /\ NoReq.scores = <<>>
          /\ NoReq = [at |-> NoReq.at, pod |-> NoReq.pod, states |-> NoReq.states, scores |-> NoReq.scores]
      BY DEF NoReq
    <2>4. twCache = Unread /\ hwCache = Unread /\ req = NoReq /\ quiet = 0
      BY DEF ScInit
    <2> QED
      BY <2>1, <2>2, <2>3, <2>4 DEF SettledInv, SettledAnswers, Tells
  <1>2. SettledInv /\ [ScNext]_scVars => SettledInv'
    <2> SUFFICES ASSUME SettledInv, [ScNext]_scVars PROVE SettledInv'
      OBVIOUS
    <2>1. ASSUME NEW n \in Hosts, WritesTwin(n) PROVE SettledInv'
      BY <2>1, TwinWriteSettles
    <2>2. ASSUME NEW n \in Hosts, WritesHardware(n) PROVE SettledInv'
      BY <2>2, EditSettles DEF WritesHardware, SettledInv
    <2>3. CASE startReaderInBackground
      BY <2>3 DEF startReaderInBackground, SettledInv, CacheOK, Tells, SettledAnswers, twinStates, hwInfos, Live
    <2>4. CASE TimePasses
      BY <2>4, TickSettles
    <2>5. ASSUME NEW pod \in Pending, prioritizeNodes(pod) PROVE SettledInv'
      BY <2>5, TwinReadSettles
    <2>6. CASE handlePrioritize
      BY <2>6, AnswerSettles
    <2>7. CASE UNCHANGED scVars
      BY <2>7 DEF scVars, SettledInv, CacheOK, Tells, SettledAnswers, twinStates, hwInfos, Live
    <2> QED
      BY <2>1, <2>2, <2>3, <2>4, <2>5, <2>6, <2>7 DEF ScNext
  <1>3. SettledInv => SettledAnswers
    BY DEF SettledInv
  <1> QED
    BY <1>1, <1>2, <1>3, PTL DEF ScSpec

=============================================================================
