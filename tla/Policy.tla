------------------------------- MODULE Policy -------------------------------
(***************************************************************************)
(* The power profile policies (pkg/controller/policy): how many nodes stay *)
(* in performance, and which.                                              *)
(*                                                                         *)
(* A node is the position of its name in name order and a hardware family  *)
(* (NodeFamily) the position of its key in key order, so "sort by name"    *)
(* and "ties to the smaller key" are < on naturals.  A fraction such as    *)
(* STATIC_HP_FRAC is a number of percent.                                  *)
(***************************************************************************)
EXTENDS Integers, FiniteSets

CONSTANTS
    Nodes,     \* every node the cluster may have
    FracPct,   \* STATIC_HP_FRAC or QUEUE_HP_BASE_FRAC, in percent
    HpMin,     \* QUEUE_HP_MIN
    HpMax,     \* QUEUE_HP_MAX
    PerHPNode  \* QUEUE_PERF_PER_HP_NODE

ASSUME PolicyAssumption ==
    /\ Nodes \subseteq Nat /\ IsFiniteSet(Nodes)
    /\ FracPct \in Int /\ HpMin \in Int /\ HpMax \in Int /\ PerHPNode \in Int

AtMost(v, m) == IF v > m THEN m ELSE v
AtLeast(v, m) == IF v < m THEN m ELSE v

\* The lower bound is tested first, so it wins over an upper one below it.
clampInt(v, min, max) == IF v < min THEN min ELSE AtMost(v, max)

-----------------------------------------------------------------------------
(* How many.                                                               *)

\* math.Round of n nodes times the fraction, clamped to [0, 1].
BaseCount(n) == (2 * n * clampInt(FracPct, 0, 100) + 100) \div 200

StaticCount(n) == BaseCount(n)

CeilDiv(a, b) == (a + b - 1) \div b

QueueCount(n, pods) ==
    LET min == AtLeast(HpMin, 0)
        max == AtLeast(IF HpMax <= 0 THEN n ELSE HpMax, min)
        need == CeilDiv(pods, IF PerHPNode <= 0 THEN 1 ELSE PerHPNode)
    IN  clampInt(AtLeast(need, BaseCount(n)), min, max)

-----------------------------------------------------------------------------
(* Which: PerformanceSet.                                                  *)

Members(nodes, family, f) == {n \in nodes : family[n] = f}
FamiliesOf(nodes, family) == {family[n] : n \in nodes}

\* Slots beyond the one every family has.
FurtherSlots(hp, nodes, families) ==
    clampInt(hp, Cardinality(families), Cardinality(nodes)) - Cardinality(families)

\* The quotient n/(q+1) of d'Hondt's method.
DHondtFirst(na, qa, nb, qb) == na * (qb + 1) > nb * (qa + 1)

\* Family a has strictly the larger quotient n/(2q+1).
deservesNextSlot(na, qa, nb, qb) == na * (2 * qb + 1) > nb * (2 * qa + 1)

(* The family the next slot goes to, given the slots q so far: of those    *)
(* with a node left, the first in key order that no later one outbids.     *)
NextFamily(families, size, q) ==
    LET open == {f \in families : q[f] < size[f]}
    IN  CHOOSE f \in open : \A g \in open \ {f} :
            \/ deservesNextSlot(size[f], q[f], size[g], q[g])
            \/ ~deservesNextSlot(size[g], q[g], size[f], q[f]) /\ f < g

Slots(nodes, family, hp) ==
    LET families == FamiliesOf(nodes, family)
        size == [f \in families |-> Cardinality(Members(nodes, family, f))]
        after[k \in Int] ==
            IF k <= 0 THEN [f \in families |-> 1]
            ELSE [after[k - 1] EXCEPT ![NextFamily(families, size, after[k - 1])] = @ + 1]
    IN  after[FurtherSlots(hp, nodes, families)]

\* The comparison turned around: nodes in eco are taken first.
EcoFirst(perf, m, n) ==
    \/ m \notin perf /\ n \in perf
    \/ (m \in perf <=> n \in perf) /\ m < n

\* Nodes labelled performance come before the others, then name order.
Precedes(perf, m, n) ==
    \/ m \in perf /\ n \notin perf
    \/ (m \in perf <=> n \in perf) /\ m < n

Ahead(nodes, family, perf, n) ==
    {m \in Members(nodes, family, family[n]) : Precedes(perf, m, n)}

\* One node short of the slots.
OneShort(nodes, family, perf, slots) ==
    {n \in nodes : Cardinality(Ahead(nodes, family, perf, n)) < slots[family[n]] - 1}

Chosen(nodes, family, perf, slots) ==
    {n \in nodes : Cardinality(Ahead(nodes, family, perf, n)) < slots[family[n]]}

\* perf is the set of nodes whose current label is performance.
PerformanceSet(nodes, family, perf, hp) ==
    Chosen(nodes, family, perf, Slots(nodes, family, hp))

\* BuildRuleSwapPlan: the first node is in eco in phase 0, the second in phase 1.
RuleSwapSet(nodes, phase) ==
    {n \in nodes : Cardinality({m \in nodes : m < n}) # phase}
=============================================================================
