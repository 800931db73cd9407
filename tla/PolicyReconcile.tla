-------------------------- MODULE PolicyReconcile --------------------------
(***************************************************************************)
(* A fleet under a policy, one reconcile at a time: nodes join, leave and  *)
(* report other hardware, labels are edited by hand, demand rises and      *)
(* falls, and each reconcile plans from the labels it finds and writes     *)
(* them all.  The subject is the policy; the controller manager's          *)
(* partial writes are in Profiles.                                         *)
(***************************************************************************)
EXTENDS Policy

CONSTANTS
    Families,   \* keys of hardware families
    MaxDemand,  \* bound: most performance pods at once
    PolicyTypes \* policies the fleet may run under

ASSUME FleetAssumption ==
    /\ Families \subseteq Nat /\ MaxDemand \in Nat
    /\ PolicyTypes \subseteq {"static_partition", "queue_aware_v1", "rule_swap_v1"}

VARIABLES
    policyType,
    eligible,  \* nodes the manager plans
    family,    \* NodeFamily of every node
    perf,      \* nodes labelled performance
    demand,    \* performance-sensitive pods
    phase,     \* rule_swap_v1's phase of the clock
    granted    \* auxiliary: slots of the last reconcile, or Disturbed

fleetVars == <<eligible, family>>
planVars == <<policyType, fleetVars, perf, demand, phase, granted>>

\* The nodes, their hardware or a label have changed since the last reconcile.
Disturbed == -1

\* performancePodDemand answers, or the plan falls back to the fraction.
hpCount(listed) ==
    IF policyType = "queue_aware_v1" /\ listed
    THEN QueueCount(Cardinality(eligible), demand)
    ELSE StaticCount(Cardinality(eligible))

\* The nodes planned in performance.
buildPlanByPolicy(listed) ==
    IF policyType = "rule_swap_v1" THEN RuleSwapSet(eligible, phase)
    ELSE PerformanceSet(eligible, family, perf, hpCount(listed))

\* hpCount as PerformanceSet clamps it.
Granted(listed) ==
    LET families == FamiliesOf(eligible, family)
    IN  Cardinality(families) + FurtherSlots(hpCount(listed), eligible, families)

Reconcile(listed) ==
    /\ eligible # {}
    /\ perf' = (perf \ eligible) \cup buildPlanByPolicy(listed)
    /\ granted' = IF policyType = "rule_swap_v1" THEN Disturbed ELSE Granted(listed)
    /\ UNCHANGED <<policyType, fleetVars, demand, phase>>

\* A node joins, is uncordoned, is reserved or is gone.
NodeChanges(n) ==
    /\ eligible' = IF n \in eligible THEN eligible \ {n} ELSE eligible \cup {n}
    /\ granted' = Disturbed
    /\ UNCHANGED <<policyType, family, perf, demand, phase>>

\* The agent's NodeHardware names another model than the labels did.
HardwareReported(n, f) ==
    /\ family[n] # f
    /\ family' = [family EXCEPT ![n] = f]
    /\ granted' = Disturbed
    /\ UNCHANGED <<policyType, eligible, perf, demand, phase>>

LabelEdited(n) ==
    /\ perf' = IF n \in perf THEN perf \ {n} ELSE perf \cup {n}
    /\ granted' = Disturbed
    /\ UNCHANGED <<policyType, fleetVars, demand, phase>>

DemandMoves ==
    /\ policyType = "queue_aware_v1"
    /\ demand' \in {demand - 1, demand + 1} \cap 0..MaxDemand
    /\ UNCHANGED <<policyType, fleetVars, perf, phase, granted>>

PhaseFlips ==
    /\ policyType = "rule_swap_v1"
    /\ phase' = 1 - phase
    /\ UNCHANGED <<policyType, fleetVars, perf, demand, granted>>

\* The manager starts before its nodes, or on a cluster that has them.
PlanInit ==
    /\ policyType \in PolicyTypes
    /\ eligible \in {{}, Nodes} /\ family \in [Nodes -> Families]
    /\ perf = {} /\ demand = 0 /\ phase = 0
    /\ granted = Disturbed

PlanNext ==
    \/ \E listed \in BOOLEAN : Reconcile(listed)
    \/ DemandMoves \/ PhaseFlips
    \/ \E n \in Nodes : NodeChanges(n) \/ LabelEdited(n)
    \/ \E n \in Nodes, f \in Families : HardwareReported(n, f)

-----------------------------------------------------------------------------
(* Properties.                                                             *)

(* The greedy loop of PerformanceSet is the Sainte-Lague method as it is   *)
(* defined: beyond one slot each, the families hold the largest quotients  *)
(* size/(2j+1) of the fleet, equal ones to the smaller key.                *)
Quotients(nodes) ==
    {q \in FamiliesOf(nodes, family) \X (1..Cardinality(nodes)) :
        q[2] < Cardinality(Members(nodes, family, q[1]))}

Outranks(nodes, q, r) ==
    LET a == Cardinality(Members(nodes, family, q[1])) * (2 * r[2] + 1)
        b == Cardinality(Members(nodes, family, r[1])) * (2 * q[2] + 1)
    IN  a > b \/ (a = b /\ (q[1] < r[1] \/ (q[1] = r[1] /\ q[2] < r[2])))

SainteLagueSlots(f, further) ==
    LET all == Quotients(eligible)
    IN  1 + Cardinality({q \in all : q[1] = f /\
                Cardinality({r \in all : Outranks(eligible, r, q)}) < further})

SplitIsSainteLague ==
    LET families == FamiliesOf(eligible, family)
        further == FurtherSlots(hpCount(TRUE), eligible, families)
        slots == Slots(eligible, family, hpCount(TRUE))
    IN  \A f \in families : slots[f] = SainteLagueSlots(f, further)

(* When the slot count moves by k while the fleet and the labels are as    *)
(* the last reconcile left them, exactly k nodes change profile: none at   *)
(* constant demand, and never a reshuffle.  (The split of PerformanceSet   *)
(* is house monotone and keeps nodes already in performance first.)        *)
Distance(a, b) == IF a > b THEN a - b ELSE b - a

OneNodePerSlot ==
    [][ granted # Disturbed /\ granted' # Disturbed
            => Cardinality((perf \ perf') \cup (perf' \ perf)) = Distance(granted, granted') ]_planVars

=============================================================================
