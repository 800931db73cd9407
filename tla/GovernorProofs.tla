--------------------------- MODULE GovernorProofs ---------------------------
(***************************************************************************)
(* What the governor control guarantees for every set of presets, every    *)
(* number of policies, every boost scope, every limit, and whatever other  *)
(* writers, drivers, the API server, deletions of the NodeTwin and         *)
(* restarts do: a status "applied" is true when it is written, and a       *)
(* setting the agent gave up is left alone; and, without other writers,    *)
(* the agent never takes a value of its own for the node's baseline.       *)
(***************************************************************************)
EXTENDS GovernorControl, SequenceTheorems, TLAPS

(***************************************************************************)
(* The component: what each method does to the fields the proof is about.  *)
(***************************************************************************)

(* The fields of governorComponent.                                        *)
Fields == {"intent", "expect", "changed", "boostWritten", "globalSeen", "verified", "drifted", "drifts",
           "contended", "refused", "retry", "sinceApply", "status", "good", "statusWritten"}
IsComponent(k) == k = [f \in Fields |-> k[f]]

(* Every attribute that plan i writes is watched for the value it gets.    *)
Watched(k, i) ==
    \A j \in 1..Len(PlanCPU(i)) : [file |-> PlanCPU(i)[j].file, value |-> PlanCPU(i)[j].value] \in k.expect

(* What the status of an intent says of the component.                     *)
StatusInv(k) ==
    /\ k.refused => k.status.result # "applied"
    /\ k.intent \in Asks =>
          /\ k.contended <=> k.status.result = "contended"
          /\ k.retry # NoRetry => k.status.result # "applied"
          /\ k.drifted => k.status.result # "applied"
          /\ k.good.result = "applied" => Watched(k, k.intent)
          /\ k.good.result # "contended" /\ "result" \in DOMAIN k.good
          /\ k.status.result = "applied" => k.good.result = "applied"

(* A status the agent published earlier is trusted before its first intent *)
(* only, and is removed after its last.                                    *)
AppliedInv ==
    /\ IsComponent(c) /\ StatusInv(c)
    /\ ~loaded => pc = "idle" /\ c.intent = NoIntent /\ ~c.refused
    /\ pc = "remove" => c.intent = NoIntent

(* An intent that was given up stays the one the component is contended    *)
(* over, until the agent prepares for another one or stops.                *)
GaveUpInv ==
    /\ exiting /\ pc = "act" => want = NoIntent
    /\ ~exiting /\ pc = "act" => disc
    /\ gaveUp \in Asks /\ ~exiting =>
          /\ mode = "write" /\ c.contended /\ c.intent = gaveUp
          /\ pc = "act" => want = gaveUp

(* startIntent forgets what belonged to the intent before.                 *)
LEMMA StartIntent ==
    ASSUME NEW k, IsComponent(k), NEW i
    PROVE  /\ IsComponent(startIntent(k, i)) /\ startIntent(k, i).intent = i
           /\ startIntent(k, i).refused = k.refused
           /\ startIntent(k, i).contended = FALSE
  BY DEF IsComponent, Fields, startIntent

(* applyNow takes the status of the writes.                                *)
LEMMA ApplyNow ==
    ASSUME NEW k, IsComponent(k), NEW st, NEW wrote
    PROVE  LET n == applyNow(k, st, wrote)
           IN  /\ IsComponent(n) /\ n.status = st /\ n.good = st /\ n.intent = k.intent /\ n.expect = k.expect
               /\ ~n.drifted /\ n.contended = k.contended
               /\ n.refused => k.refused \/ st.result = "refused"
               /\ n.retry # NoRetry => st.result \in {"unsupported", "not-applied"}
  BY DEF IsComponent, Fields, applyNow

(* applyCPU watches what it wrote once every write is in force.            *)
LEMMA ApplyCPU ==
    ASSUME NEW k, IsComponent(k), NEW i, NEW ws, NEW e
    PROVE  LET n == applyCPU(k, i, ws, e)
           IN  /\ IsComponent(n) /\ n.intent = k.intent /\ n.refused = k.refused /\ n.contended = k.contended
               /\ e.result = "ok" => n.expect = Expected(ws)
  BY DEF IsComponent, Fields, applyCPU

(* A check that holds.                                                     *)
LEMMA CheckHoldsIs ==
    ASSUME NEW k, IsComponent(k)
    PROVE  LET n == checkHolds(k)
           IN  /\ IsComponent(n) /\ n.intent = k.intent /\ n.expect = k.expect /\ n.contended = k.contended
               /\ n.refused = k.refused /\ n.retry = k.retry /\ n.good = k.good /\ ~n.drifted
               /\ n.status = (IF k.status.result = "drift" THEN k.good ELSE k.status)
  BY DEF IsComponent, Fields, checkHolds

(* A first check that fails: not applied.                                  *)
LEMMA CheckDroppedIs ==
    ASSUME NEW k, IsComponent(k)
    PROVE  LET n == checkDropped(k)
           IN  /\ IsComponent(n) /\ n.intent = k.intent /\ n.expect = k.expect /\ n.contended = k.contended
               /\ n.refused = k.refused /\ n.good = k.good
               /\ n.status = [k.good EXCEPT !.result = "not-applied"]
  BY DEF IsComponent, Fields, checkDropped

(* A drift: reported, and at the limit given up.                           *)
LEMMA CheckDriftIs ==
    ASSUME NEW k, IsComponent(k)
    PROVE  \E limit \in BOOLEAN :
             LET n == checkDrift(k)
             IN  /\ IsComponent(n) /\ n.intent = k.intent /\ n.expect = k.expect /\ n.contended = limit
                 /\ n.refused = k.refused /\ n.good = k.good /\ n.retry = k.retry
                 /\ n.status = [k.good EXCEPT !.result = IF limit THEN "contended" ELSE "drift"]
  <1> DEFINE ds == Append(recentDrifts(k), 0)
             limit == Len(ds) >= DriftLimit
  <1>1. checkDrift(k) = [k EXCEPT !.drifted = TRUE, !.drifts = ds, !.contended = limit,
                           !.status = [k.good EXCEPT !.result = IF limit THEN "contended" ELSE "drift"]]
    BY DEF checkDrift
  <1>2. limit \in BOOLEAN
    OBVIOUS
  <1> HIDE DEF ds, limit
  <1> QED
    BY <1>1, <1>2 DEF IsComponent, Fields

(* release: no intent is left, whatever the restore came to.               *)
LEMMA ReleasedIs ==
    ASSUME NEW k, IsComponent(k)
    PROVE  LET n == Released(k)
           IN  IsComponent(n) /\ n.intent = k.intent /\ n.refused = k.refused /\ n.status = k.status
  BY DEF IsComponent, Fields, Released

(* A restore ends restored, or with the result of the write that failed.   *)
LEMMA RestoreDoneIs ==
    ASSUME NEW k, IsComponent(k), NEW e
    PROVE  LET n == restoreDone(k, e)
           IN  /\ IsComponent(n) /\ n.intent = NoIntent
               /\ n.status.result = (IF e.result = "ok" THEN "restored" ELSE e.result)
               /\ n.refused = (k.refused \/ (e.result # "ok" /\ e.result = "refused"))
  <1> DEFINE r == IF e.result = "ok" THEN "restored" ELSE e.result
             st == Status(r, IF e.result = "ok" THEN "governor" ELSE "none")
             n == releaseDone(k, NoIntent, st)
  <1>1. st.result = r
    BY DEF Status
  <1>2. restoreDone(k, e) = [n EXCEPT !.boostWritten = k.boostWritten /\ ~(e.result = "ok"),
                                      !.globalSeen = IF e.result = "ok" THEN "unset" ELSE k.globalSeen]
    BY DEF restoreDone
  <1> HIDE DEF st
  <1>3. IsComponent(n) /\ n.intent = NoIntent /\ n.status = st /\ n.refused = (k.refused \/ st.result = "refused")
    BY DEF IsComponent, Fields, releaseDone, endIntent
  <1> HIDE DEF n
  <1>4. /\ IsComponent(restoreDone(k, e)) /\ restoreDone(k, e).intent = NoIntent
        /\ restoreDone(k, e).status = st /\ restoreDone(k, e).refused = (k.refused \/ st.result = "refused")
    BY <1>2, <1>3 DEF IsComponent, Fields
  <1> QED
    BY <1>1, <1>4

(* A status read back after a restart brings no intent with it.            *)
LEMMA SeedIs ==
    ASSUME NEW k, IsComponent(k), NEW st
    PROVE  IsComponent(seed(k, st)) /\ seed(k, st).intent = k.intent /\ seed(k, st).refused = k.refused
  BY DEF IsComponent, Fields, seed

(* A tick moves the times only.                                            *)
LEMMA AgedIs ==
    ASSUME NEW k, IsComponent(k)
    PROVE  LET n == Aged(k)
           IN  /\ IsComponent(n) /\ n.intent = k.intent /\ n.expect = k.expect /\ n.contended = k.contended
               /\ n.refused = k.refused /\ n.good = k.good /\ n.status = k.status /\ n.drifted = k.drifted
               /\ n.retry # NoRetry => k.retry # NoRetry
  <1> DEFINE r == IF k.retry \in 1..Retry THEN k.retry - 1 ELSE k.retry
             a == Older(k.sinceApply, Reapply)
             ds == [j \in DOMAIN k.drifts |-> Older(k.drifts[j], Window)]
  <1>1. Aged(k) = [k EXCEPT !.retry = r, !.sinceApply = a, !.drifts = ds]
    BY DEF Aged
  <1>2. r # NoRetry => k.retry # NoRetry
    BY ComponentAssumption DEF NoRetry
  <1> HIDE DEF r, a, ds
  <1> QED
    BY <1>1, <1>2 DEF IsComponent, Fields

(* A new process starts without an intent.                                 *)
LEMMA NewComponentIs ==
    /\ IsComponent(newComponent) /\ newComponent.intent = NoIntent
    /\ newComponent.refused = FALSE
  BY DEF IsComponent, Fields, newComponent

(* No intent is an intent of the controller manager.                       *)
LEMMA NoIntentIsNone == NoIntent \notin Asks
  BY GovernorAssumption DEF NoIntent, Intent, Asks

(***************************************************************************)
(* Plans: what the writes of an apply put in force.                        *)
(***************************************************************************)

(* Boost attributes are no governor attributes.                            *)
LEMMA FileFacts ==
    /\ \A n \in Policies : <<"governor", n>> \in GovFiles
    /\ \A n \in Policies : <<"boost", n>> \notin GovFiles
    /\ GlobalBoost \notin GovFiles
    /\ GovFiles \subseteq Files /\ BoostFiles \subseteq Files
    /\ Scope = "per-cpu" => GlobalBoost \in Files /\ \A n \in Policies : <<"boost", n>> \in BoostFiles
    /\ Scope = "global" => GlobalBoost \in BoostFiles
    /\ Scope \in {"none", "global", "per-cpu"}
  BY GovernorAssumption DEF GovFiles, BoostFiles, BaseFiles, Files, GlobalBoost

(* Writes of a set of attributes, values of a set.                         *)
WritesTo(F, V) == {w \in [file : F, value : V, always : BOOLEAN] : TRUE}
Given(i) == {i.preset, BoostBit(i.boost)}
BoostAttributes == {GlobalBoost} \cup {<<"boost", n>> : n \in Policies}

(* Each member of a concatenation is a member of one of its parts.         *)
LEMMA ConcatIs ==
    ASSUME NEW S, NEW s \in Seq(S), NEW t \in Seq(S)
    PROVE  /\ s \o t \in Seq(S) /\ Len(s \o t) = Len(s) + Len(t)
           /\ \A j \in 1..Len(s \o t) : \/ j \in 1..Len(s) /\ (s \o t)[j] = s[j]
                                        \/ j - Len(s) \in 1..Len(t) /\ (s \o t)[j] = t[j - Len(s)]
           /\ \A j \in 1..Len(s) : j \in 1..Len(s \o t) /\ (s \o t)[j] = s[j]
           /\ \A j \in 1..Len(t) : j + Len(s) \in 1..Len(s \o t) /\ (s \o t)[j + Len(s)] = t[j]
  OBVIOUS

(* One write for each policy.                                              *)
LEMMA PerPolicy ==
    ASSUME NEW S, NEW h, h = [n \in Policies |-> h[n]], \A n \in Policies : h[n] \in S
    PROVE  h \in Seq(S) /\ Len(h) = NPol
  <1>1. NPol \in Nat
    BY GovernorAssumption
  <1> QED
    BY <1>1 DEF Policies

(* The plan: its governors first, then its boost.                          *)
LEMMA PlanIs ==
    ASSUME NEW i \in Asks
    PROVE  /\ PlanCPU(i) \in Seq(WritesTo(Files, Given(i)))
           /\ \A j \in 1..Len(PlanCPU(i)) :
                /\ PlanCPU(i)[j].always /\ PlanCPU(i)[j].file \in Files
                /\ PlanCPU(i)[j].file \in GovFiles => PlanCPU(i)[j].value = i.preset
                /\ PlanCPU(i)[j].file \notin GovFiles =>
                      i.boost # "unset" /\ PlanCPU(i)[j].value = BoostBit(i.boost)
  <1> DEFINE g == [n \in Policies |-> Write(<<"governor", n>>, i.preset)]
             b == IF i.boost = "unset" THEN <<>> ELSE CPUBoostWrites(i.boost)
             Gs == {w \in WritesTo(Files, Given(i)) : w.always /\ w.file \in GovFiles /\ w.value = i.preset}
             Bs == {w \in WritesTo(Files, Given(i)) :
                       w.always /\ w.file \notin GovFiles /\ i.boost # "unset" /\ w.value = BoostBit(i.boost)}
  <1>1. g \in Seq(Gs)
    <2>1. \A n \in Policies : Write(<<"governor", n>>, i.preset) \in Gs
      BY FileFacts DEF Write, WritesTo, Given
    <2> HIDE DEF Gs
    <2> QED
      BY <2>1, PerPolicy
  <1>2. b \in Seq(Bs)
    <2>1. CASE i.boost = "unset"
      BY <2>1
    <2>2. CASE i.boost # "unset" /\ Scope = "none"
      BY <2>2 DEF CPUBoostWrites
    <2>3. CASE i.boost # "unset" /\ Scope = "global"
      <3>1. Write(GlobalBoost, BoostBit(i.boost)) \in Bs
        BY <2>3, FileFacts DEF Write, WritesTo, Given
      <3>2. b = <<Write(GlobalBoost, BoostBit(i.boost))>>
        BY <2>3 DEF CPUBoostWrites
      <3> HIDE DEF Bs, b
      <3> QED
        BY <3>1, <3>2
    <2>4. CASE i.boost # "unset" /\ Scope = "per-cpu"
      <3>1. \A n \in Policies : Write(<<"boost", n>>, BoostBit(i.boost)) \in Bs
        BY <2>4, FileFacts DEF Write, WritesTo, Given
      <3>2. b = [n \in Policies |-> Write(<<"boost", n>>, BoostBit(i.boost))]
        BY <2>4 DEF CPUBoostWrites
      <3> HIDE DEF Bs, b
      <3> QED
        BY <3>1, <3>2, PerPolicy
    <2> QED
      BY <2>1, <2>2, <2>3, <2>4, FileFacts
  <1>3. PlanCPU(i) = g \o b
    BY DEF PlanCPU
  <1>4. Gs \subseteq Gs \cup Bs /\ Bs \subseteq Gs \cup Bs
    OBVIOUS
  <1>5. \A w \in Gs \cup Bs : /\ w \in WritesTo(Files, Given(i)) /\ w.always /\ w.file \in Files
                              /\ w.file \in GovFiles => w.value = i.preset
                              /\ w.file \notin GovFiles => i.boost # "unset" /\ w.value = BoostBit(i.boost)
    BY DEF WritesTo
  <1> HIDE DEF g, b, Gs, Bs
  <1>6. g \in Seq(Gs \cup Bs) /\ b \in Seq(Gs \cup Bs)
    BY <1>1, <1>2, <1>4
  <1>7. PlanCPU(i) \in Seq(Gs \cup Bs)
    BY <1>3, <1>6
  <1>8. \A j \in 1..Len(PlanCPU(i)) : PlanCPU(i)[j] \in Gs \cup Bs
    BY <1>7
  <1>9. Gs \cup Bs \subseteq WritesTo(Files, Given(i))
    BY <1>5
  <1>10. PlanCPU(i) \in Seq(WritesTo(Files, Given(i)))
    BY <1>7, <1>9
  <1> QED
    BY <1>5, <1>8, <1>10

(* The baseline's boost writes touch boost attributes only.                *)
LEMMA BaselineBoostIs ==
    ASSUME NEW b, NEW seen
    PROVE  \E V : cpuBaselineBoostWrites(b, seen) \in Seq(WritesTo(BoostAttributes, V))
  <1> DEFINE V == {b[f] : f \in BoostAttributes} \cup {seen}
             W == WritesTo(BoostAttributes, V)
             t == IF seen # "unset" /\ Scope = "per-cpu" THEN <<Write(GlobalBoost, seen)>> ELSE <<>>
             s == BaselineBoost(b)
  <1>1. Write(GlobalBoost, seen) \in W /\ Write(GlobalBoost, b[GlobalBoost]) \in W
        /\ \A n \in Policies : Write(<<"boost", n>>, b[<<"boost", n>>]) \in W
    BY DEF Write, WritesTo, BoostAttributes
  <1> HIDE DEF W
  <1>2. t \in Seq(W)
    BY <1>1
  <1>3. s \in Seq(W)
    <2>1. CASE Scope = "none"
      BY <2>1 DEF BaselineBoost
    <2>2. CASE Scope = "global"
      <3>1. s = <<Write(GlobalBoost, b[GlobalBoost])>>
        BY <2>2 DEF BaselineBoost
      <3> HIDE DEF s
      <3> QED
        BY <1>1, <3>1
    <2>3. CASE Scope = "per-cpu"
      <3>1. s = [n \in Policies |-> Write(<<"boost", n>>, b[<<"boost", n>>])]
        BY <2>3 DEF BaselineBoost
      <3> HIDE DEF s
      <3> QED
        BY <1>1, <3>1, PerPolicy
    <2> QED
      BY <2>1, <2>2, <2>3, FileFacts
  <1>4. cpuBaselineBoostWrites(b, seen) = differing(s \o t)
    BY DEF cpuBaselineBoostWrites
  <1> HIDE DEF s, t
  <1> DEFINE u == s \o t
  <1>5. u \in Seq(W)
    BY <1>2, <1>3
  <1>u. cpuBaselineBoostWrites(b, seen) = differing(u)
    BY <1>4
  <1> HIDE DEF u
  <1>6. differing(u) = [j \in 1..Len(u) |-> [u[j] EXCEPT !.always = FALSE]] /\ Len(u) \in Nat
    <2>1. DOMAIN u = 1..Len(u) /\ Len(u) \in Nat
      BY <1>5
    <2> QED
      BY <2>1 DEF differing
  <1>7. \A w \in W : [w EXCEPT !.always = FALSE] \in W
    BY DEF W, WritesTo
  <1>8. \A j \in 1..Len(u) : [u[j] EXCEPT !.always = FALSE] \in W
    BY <1>5, <1>7
  <1>9. differing(u) \in Seq(W)
    BY <1>6, <1>8
  <1> QED
    BY <1>u, <1>9 DEF W

(* The writes of an apply have every write of the plan, and give no        *)
(* attribute of the plan another value.                                    *)
LEMMA ApplyWritesIs ==
    ASSUME NEW k, NEW i \in Asks
    PROVE  LET ws == ApplyWrites(k, i)
           IN  /\ Len(ws) \in Nat /\ DOMAIN ws = 1..Len(ws)
               /\ \A j \in 1..Len(ws) : /\ ws[j].file \in GovFiles => ws[j].value = i.preset
                                        /\ ws[j].file \notin GovFiles /\ i.boost # "unset" => ws[j].value = BoostBit(i.boost)
               /\ \A j \in 1..Len(PlanCPU(i)) : \E m \in 1..Len(ws) : ws[m] = PlanCPU(i)[j]
  <1> DEFINE P == PlanCPU(i)
             ws == ApplyWrites(k, i)
             G(w) == /\ w.file \in GovFiles => w.value = i.preset
                     /\ w.file \notin GovFiles /\ i.boost # "unset" => w.value = BoostBit(i.boost)
             Goal == /\ Len(ws) \in Nat /\ DOMAIN ws = 1..Len(ws)
                     /\ \A j \in 1..Len(ws) : G(ws[j])
                     /\ \A j \in 1..Len(P) : \E m \in 1..Len(ws) : ws[m] = P[j]
  <1>1. P \in Seq(WritesTo(Files, Given(i))) /\ \A j \in 1..Len(P) : G(P[j])
    BY PlanIs
  <1> HIDE DEF P
  <1>2. ASSUME GlobalFirst(i) PROVE Goal
    <2> DEFINE w == Write(GlobalBoost, "1")
               S == WritesTo(Files, Given(i)) \cup {w}
    <2>1. ws = <<w>> \o P
      BY <1>2 DEF ApplyWrites, P, GlobalFirst
    <2>2. G(w)
      BY <1>2, FileFacts DEF GlobalFirst, Write, BoostBit
    <2> HIDE DEF w, ws, S
    <2>3. <<w>> \in Seq(S) /\ P \in Seq(S) /\ Len(<<w>>) = 1 /\ <<w>>[1] = w
      BY <1>1 DEF S
    <2>4. /\ ws \in Seq(S) /\ Len(ws) = 1 + Len(P)
          /\ \A j \in 1..Len(ws) : ws[j] = w \/ (j - 1 \in 1..Len(P) /\ ws[j] = P[j - 1])
          /\ \A j \in 1..Len(P) : j + 1 \in 1..Len(ws) /\ ws[j + 1] = P[j]
      BY <2>1, <2>3
    <2>5. \A j \in 1..Len(ws) : G(ws[j])
      BY <1>1, <2>2, <2>4
    <2>6. Len(ws) \in Nat /\ DOMAIN ws = 1..Len(ws)
      BY <2>4
    <2>7. \A j \in 1..Len(P) : \E m \in 1..Len(ws) : ws[m] = P[j]
      BY <2>4
    <2> QED
      BY <2>5, <2>6, <2>7
  <1>3. ASSUME ~GlobalFirst(i) /\ i.boost = "unset" /\ k.boostWritten PROVE Goal
    <2> DEFINE t == cpuBaselineBoostWrites(base, k.globalSeen)
    <2>1. ws = P \o t
      BY <1>3 DEF ApplyWrites, P
    <2>2. PICK V : t \in Seq(WritesTo(BoostAttributes, V))
      BY BaselineBoostIs
    <2> DEFINE S == WritesTo(Files, Given(i)) \cup WritesTo(BoostAttributes, V)
    <2>3. \A w \in WritesTo(BoostAttributes, V) : G(w)
      BY <1>3, FileFacts DEF WritesTo, BoostAttributes
    <2> HIDE DEF t, ws
    <2>4. \A j \in 1..Len(t) : G(t[j])
      <3>1. \A j \in 1..Len(t) : t[j] \in WritesTo(BoostAttributes, V)
        BY <2>2
      <3> QED
        BY <2>3, <3>1
    <2> HIDE DEF S, G
    <2>5. P \in Seq(S) /\ t \in Seq(S)
      BY <1>1, <2>2 DEF S
    <2>6. /\ ws \in Seq(S) /\ Len(ws) = Len(P) + Len(t)
          /\ \A j \in 1..Len(ws) : \/ j \in 1..Len(P) /\ ws[j] = P[j]
                                   \/ j - Len(P) \in 1..Len(t) /\ ws[j] = t[j - Len(P)]
          /\ \A j \in 1..Len(P) : j \in 1..Len(ws) /\ ws[j] = P[j]
      BY <2>1, <2>5, ConcatIs
    <2>7. \A j \in 1..Len(ws) : G(ws[j])
      BY <1>1, <2>4, <2>6
    <2>8. Len(ws) \in Nat /\ DOMAIN ws = 1..Len(ws)
      BY <2>6
    <2>9. \A j \in 1..Len(P) : \E m \in 1..Len(ws) : ws[m] = P[j]
      BY <2>6
    <2> QED
      BY <2>7, <2>8, <2>9 DEF G
  <1>4. ASSUME ~GlobalFirst(i) /\ ~(i.boost = "unset" /\ k.boostWritten) PROVE Goal
    <2>1. ws = P
      BY <1>4 DEF ApplyWrites, P
    <2> HIDE DEF ws
    <2>2. Len(P) \in Nat /\ DOMAIN P = 1..Len(P)
      BY <1>1
    <2> QED
      BY <1>1, <2>1, <2>2
  <1>5. Goal
    <2> HIDE DEF Goal
    <2> QED
      BY <1>2, <1>3, <1>4
  <1> QED
    BY <1>5 DEF P

(* A node holds the setting of an intent.                                  *)
InForceIn(s, i) == \A j \in 1..Len(PlanCPU(i)) : s[PlanCPU(i)[j].file] = PlanCPU(i)[j].value

(* Writes that were all read back leave the plan in force and watched.     *)
LEMMA WritesTake ==
    ASSUME NEW k, NEW i \in Asks, NEW e, e.n = Len(ApplyWrites(k, i))
    PROVE  /\ InForceIn(SysAfter(ApplyWrites(k, i), e), i)
           /\ \A j \in 1..Len(PlanCPU(i)) :
                 [file |-> PlanCPU(i)[j].file, value |-> PlanCPU(i)[j].value] \in Expected(ApplyWrites(k, i))
  <1> DEFINE P == PlanCPU(i)
             ws == ApplyWrites(k, i)
             s == SysAfter(ws, e)
  <1>1. \A j \in 1..Len(P) : /\ P[j].always /\ P[j].file \in Files
                             /\ P[j].file \in GovFiles => P[j].value = i.preset
                             /\ P[j].file \notin GovFiles => i.boost # "unset" /\ P[j].value = BoostBit(i.boost)
    BY PlanIs
  <1>2. /\ Len(ws) \in Nat /\ DOMAIN ws = 1..Len(ws)
        /\ \A j \in 1..Len(ws) : /\ ws[j].file \in GovFiles => ws[j].value = i.preset
                                 /\ ws[j].file \notin GovFiles /\ i.boost # "unset" => ws[j].value = BoostBit(i.boost)
        /\ \A j \in 1..Len(P) : \E m \in 1..Len(ws) : ws[m] = P[j]
    BY ApplyWritesIs
  <1>3. s = [f \in Files |-> IF \E j \in 1..Len(ws) : ws[j].file = f
                             THEN ws[CHOOSE j \in 1..Len(ws) : ws[j].file = f].value ELSE sys[f]]
    BY DEF SysAfter
  <1>4. Expected(ws) = {[file |-> ws[j].file, value |-> ws[j].value] : j \in {m \in 1..Len(ws) : Due(ws[m])}}
    BY <1>2 DEF Expected
  <1> HIDE DEF P, ws, s
  <1>5. ASSUME NEW j \in 1..Len(P)
        PROVE  s[P[j].file] = P[j].value /\ [file |-> P[j].file, value |-> P[j].value] \in Expected(ws)
    <2>1. PICK m \in 1..Len(ws) : ws[m] = P[j]
      BY <1>2
    <2>2. Due(ws[m])
      BY <1>1, <2>1 DEF Due
    <2>3. [file |-> P[j].file, value |-> P[j].value] \in Expected(ws)
      BY <1>4, <2>1, <2>2
    <2> DEFINE d == CHOOSE d \in 1..Len(ws) : ws[d].file = P[j].file
    <2>4. d \in 1..Len(ws) /\ ws[d].file = P[j].file
      BY <2>1
    <2>5. s[P[j].file] = ws[d].value
      BY <1>1, <1>3, <2>1
    <2> HIDE DEF d
    <2>6. ws[d].value = P[j].value
      BY <1>1, <1>2, <2>4
    <2> QED
      BY <2>3, <2>5, <2>6
  <1> QED
    BY <1>5 DEF InForceIn, P, ws, s

(* An apply: a status applied means that the plan is in force and watched. *)
LEMMA ApplyKeeps ==
    ASSUME NEW k, IsComponent(k), want \in Asks, k.intent = want, ~k.refused, ~k.contended, Apply(k)
    PROVE  /\ IsComponent(c') /\ StatusInv(c') /\ c'.intent = want
           /\ c'.status.result = "applied" => InForceIn(sys', want)
  <1> DEFINE Goal == /\ IsComponent(c') /\ StatusInv(c') /\ c'.intent = want
                     /\ c'.status.result = "applied" => InForceIn(sys', want)
  <1>1. ASSUME ~Supported(want) PROVE Goal
    <2> DEFINE st == Status("unsupported", "none")
    <2>1. c' = applyNow(k, st, FALSE)
      BY <1>1 DEF Apply
    <2>2. st.result = "unsupported" /\ "result" \in DOMAIN st
      BY DEF Status
    <2> HIDE DEF st
    <2>3. /\ IsComponent(c') /\ c'.status = st /\ c'.good = st /\ c'.intent = k.intent
          /\ c'.contended = k.contended /\ (c'.refused => k.refused \/ st.result = "refused")
      <3> DEFINE wrote == FALSE
                 m == applyNow(k, st, wrote)
      <3>2. c' = m
        BY <2>1
      <3> HIDE DEF wrote
      <3>1. /\ IsComponent(m) /\ m.status = st /\ m.good = st /\ m.intent = k.intent
            /\ m.contended = k.contended /\ (m.refused => k.refused \/ st.result = "refused")
        BY ApplyNow
      <3> HIDE DEF m
      <3> QED
        BY <3>1, <3>2
    <2> QED
      BY <2>2, <2>3 DEF StatusInv
  <1>2. ASSUME Supported(want) PROVE Goal
    <2> DEFINE ws == ApplyWrites(k, want)
    <2>1. PICK e \in WriteEnds(ws) : /\ sys' = SysAfter(ws, e)
                                     /\ c' = applyNow(applyCPU(k, want, ws, e), ApplyStatus(want, ws, e), Wrote(ws, e))
      BY <1>2 DEF Apply
    <2>2. (e.result = "ok" /\ e.n = Len(ws)) \/ e.result \in Failing
      BY <2>1 DEF WriteEnds
    <2> DEFINE st == ApplyStatus(want, ws, e)
               n == applyCPU(k, want, ws, e)
    <2>3. IsComponent(n) /\ n.intent = k.intent /\ n.refused = k.refused /\ n.contended = k.contended
          /\ (e.result = "ok" => n.expect = Expected(ws))
      BY ApplyCPU
    <2>4. /\ "result" \in DOMAIN st
          /\ st.result = (IF e.result = "ok" THEN "applied" ELSE e.result)
      BY DEF ApplyStatus, Status
    <2>5. e.n = Len(ws) => InForceIn(SysAfter(ws, e), want)
                           /\ \A j \in 1..Len(PlanCPU(want)) :
                                [file |-> PlanCPU(want)[j].file, value |-> PlanCPU(want)[j].value] \in Expected(ws)
      BY WritesTake
    <2>6. /\ IsComponent(c') /\ c'.status = st /\ c'.good = st /\ c'.intent = n.intent /\ c'.expect = n.expect
          /\ ~c'.drifted /\ c'.contended = n.contended /\ (c'.refused => n.refused \/ st.result = "refused")
          /\ c'.retry # NoRetry => st.result \in {"unsupported", "not-applied"}
      <3> HIDE DEF st, n
      <3> DEFINE wrote == Wrote(ws, e)
                 m == applyNow(n, st, wrote)
      <3>1. c' = m
        BY <2>1 DEF st, n
      <3> HIDE DEF wrote
      <3>2. /\ IsComponent(m) /\ m.status = st /\ m.good = st /\ m.intent = n.intent /\ m.expect = n.expect
            /\ ~m.drifted /\ m.contended = n.contended /\ (m.refused => n.refused \/ st.result = "refused")
            /\ m.retry # NoRetry => st.result \in {"unsupported", "not-applied"}
        BY <2>3, ApplyNow
      <3> HIDE DEF m
      <3> QED
        BY <3>1, <3>2
    <2> HIDE DEF st, n, ws
    <2>7. Failing \subseteq {"refused", "unsupported", "error", "not-applied"}
      BY GovernorAssumption
    <2>8. ASSUME e.result = "ok" PROVE Goal
      <3>1. st.result = "applied" /\ e.n = Len(ws)
        BY <2>2, <2>4, <2>7, <2>8
      <3>2. Watched(c', want)
        BY <2>3, <2>5, <2>6, <2>8, <3>1 DEF Watched
      <3>3. StatusInv(c')
        BY <2>3, <2>4, <2>6, <3>1, <3>2 DEF StatusInv
      <3> QED
        BY <2>1, <2>3, <2>5, <2>6, <3>1, <3>3
    <2>9. ASSUME e.result # "ok" PROVE Goal
      <3>1. st.result \in {"refused", "unsupported", "error", "not-applied"}
        BY <2>2, <2>4, <2>7, <2>9
      <3>2. StatusInv(c')
        BY <2>3, <2>4, <2>6, <3>1 DEF StatusInv
      <3> QED
        BY <2>3, <2>6, <3>1, <3>2
    <2> HIDE DEF Goal
    <2> QED
      BY <2>8, <2>9
  <1> HIDE DEF Goal
  <1>3. Goal
    BY <1>1, <1>2
  <1> QED
    BY <1>3 DEF Goal

(***************************************************************************)
(* A status applied is true.                                               *)
(***************************************************************************)

(* What an act step leaves of the component.                               *)
LEMMA ActKeeps ==
    ASSUME AppliedInv, Act
    PROVE  /\ IsComponent(c') /\ StatusInv(c')
           /\ pc' = "remove" => c'.intent = NoIntent
           /\ pc' = "publish" /\ c'.status.result = "applied" => want \in Asks /\ InForceIn(sys', want)
  <1> DEFINE Goal == /\ IsComponent(c') /\ StatusInv(c')
                     /\ pc' = "remove" => c'.intent = NoIntent
                     /\ pc' = "publish" /\ c'.status.result = "applied" => want \in Asks /\ InForceIn(sys', want)
  <1>1. IsComponent(c) /\ StatusInv(c)
    BY DEF AppliedInv
  <1>2. NoIntent \notin Asks
    BY NoIntentIsNone
  <1>3. Stepping => want \in Asks
    BY DEF Stepping, Releasing
  <1>4. ASSUME ActReleaseWait PROVE Goal
    <2>1. Released(c) = c
      BY <1>1, <1>4 DEF ActReleaseWait, Released, IsComponent, Fields
    <2> QED
      BY <1>1, <1>4, <2>1 DEF ActReleaseWait
  <1>5. ASSUME ActRestore PROVE Goal
    <2>1. PICK e \in WriteEnds(RestoreWrites) : c' = restoreDone(c, e)
      BY <1>5 DEF ActRestore
    <2>2. e.result = "ok" \/ e.result \in Failing
      BY <2>1 DEF WriteEnds
    <2> DEFINE m == restoreDone(c, e)
    <2>3. /\ IsComponent(m) /\ m.intent = NoIntent
          /\ m.status.result = (IF e.result = "ok" THEN "restored" ELSE e.result)
      BY <1>1, RestoreDoneIs
    <2>4. c' = m
      BY <2>1
    <2> HIDE DEF m
    <2>5. c'.status.result # "applied"
      BY <2>2, <2>3, <2>4, GovernorAssumption
    <2> QED
      BY <1>2, <2>3, <2>4, <2>5 DEF StatusInv
  <1>6. ASSUME ActForget PROVE Goal
    <2> DEFINE r == Released(c)
    <2>1. IsComponent(r) /\ r.refused = c.refused /\ r.status = c.status
      BY <1>1, ReleasedIs
    <2>2. c' = [endIntent(r, NoIntent) EXCEPT !.retry = NoRetry] /\ pc' # "publish"
      BY <1>6 DEF ActForget
    <2> HIDE DEF r
    <2>3. IsComponent(c') /\ c'.intent = NoIntent /\ c'.refused = r.refused /\ c'.status = r.status
      BY <2>1, <2>2 DEF IsComponent, Fields, endIntent
    <2> QED
      BY <1>1, <1>2, <2>1, <2>2, <2>3 DEF StatusInv
  <1>7. ASSUME hold PROVE Goal
    <2>1. c' = [c EXCEPT !.intent = NoIntent, !.status = blockedStatus] /\ pc' = "publish"
      BY <1>7 DEF hold
    <2>2. blockedStatus.result # "applied"
      BY DEF blockedStatus, Status
    <2>3. IsComponent(c') /\ c'.intent = NoIntent /\ c'.status = blockedStatus
      BY <1>1, <2>1 DEF IsComponent, Fields
    <2> QED
      BY <1>2, <2>1, <2>2, <2>3 DEF StatusInv
  <1>8. ASSUME StepWait PROVE Goal
    <2>1. c' = c /\ pc' = "publish" /\ want \in Asks
      BY <1>3, <1>8 DEF StepWait
    <2>2. c.status.result # "applied"
      <3>1. c.retry \in 1..Retry => c.retry # NoRetry
        BY ComponentAssumption DEF NoRetry
      <3> QED
        BY <1>1, <1>8, <2>1, <3>1 DEF StepWait, StatusInv
    <2> QED
      BY <1>1, <2>1, <2>2
  <1>9. ASSUME StepNewIntent PROVE Goal
    <2> DEFINE k == startIntent(c, want)
    <2>1. IsComponent(k) /\ k.intent = want /\ k.refused = c.refused /\ k.contended = FALSE
      BY <1>1, StartIntent
    <2>2. Apply(k) /\ ~c.refused /\ pc' = "publish" /\ want \in Asks
      BY <1>3, <1>9 DEF StepNewIntent
    <2> HIDE DEF k
    <2> QED
      BY <2>1, <2>2, ApplyKeeps
  <1>10. ASSUME StepRetry PROVE Goal
    <2>1. Apply(c) /\ ~c.refused /\ ~c.contended /\ c.intent = want /\ pc' = "publish" /\ want \in Asks
      BY <1>3, <1>10 DEF StepRetry
    <2> QED
      BY <1>1, <2>1, ApplyKeeps
  <1>11. Checking => /\ want \in Asks /\ c.intent = want /\ ~c.contended /\ ~c.refused /\ pc' = "publish"
                     /\ c.retry = NoRetry
    BY <1>3 DEF Checking
  <1>12. ASSUME CheckHolds PROVE Goal
    <2> DEFINE m == checkHolds(c)
    <2>1. /\ IsComponent(m) /\ m.intent = c.intent /\ m.expect = c.expect /\ m.contended = c.contended
          /\ m.refused = c.refused /\ m.retry = c.retry /\ m.good = c.good /\ ~m.drifted
          /\ m.status = (IF c.status.result = "drift" THEN c.good ELSE c.status)
      BY <1>1, CheckHoldsIs
    <2>2. c' = m /\ sys' = sys /\ checkWrites(c) /\ want \in Asks /\ c.intent = want /\ ~c.contended
          /\ ~c.refused /\ c.retry = NoRetry
      BY <1>11, <1>12 DEF CheckHolds, nodeVars
    <2> HIDE DEF m
    <2>3. Watched(m, want) = Watched(c, want)
      BY <2>1 DEF Watched
    <2>4. StatusInv(m)
      BY <1>1, <2>1, <2>2, <2>3 DEF StatusInv
    <2>5. ASSUME m.status.result = "applied" PROVE InForceIn(sys, want)
      <3>1. Watched(c, want)
        BY <1>1, <2>1, <2>2, <2>5 DEF StatusInv
      <3>2. \A w \in c.expect : sys[w.file] = w.value
        BY <2>2 DEF checkWrites
      <3>3. ASSUME NEW j \in 1..Len(PlanCPU(want)) PROVE sys[PlanCPU(want)[j].file] = PlanCPU(want)[j].value
        <4> DEFINE w == [file |-> PlanCPU(want)[j].file, value |-> PlanCPU(want)[j].value]
        <4>1. w \in c.expect
          BY <3>1 DEF Watched
        <4>2. w.file = PlanCPU(want)[j].file /\ w.value = PlanCPU(want)[j].value
          OBVIOUS
        <4> HIDE DEF w
        <4> QED
          BY <3>2, <4>1, <4>2
      <3> QED
        BY <3>3 DEF InForceIn
    <2> QED
      BY <1>11, <1>12, <2>1, <2>2, <2>4, <2>5 DEF CheckHolds
  <1>13. ASSUME CheckDropped PROVE Goal
    <2> DEFINE m == checkDropped(c)
    <2>1. /\ IsComponent(m) /\ m.intent = c.intent /\ m.expect = c.expect /\ m.contended = c.contended
          /\ m.refused = c.refused /\ m.good = c.good
          /\ m.status = [c.good EXCEPT !.result = "not-applied"]
      BY <1>1, CheckDroppedIs
    <2>2. c' = m /\ want \in Asks /\ c.intent = want /\ ~c.contended /\ pc' = "publish"
      BY <1>11, <1>13 DEF CheckDropped
    <2> HIDE DEF m
    <2>3. m.status.result = "not-applied"
      BY <1>1, <2>1, <2>2 DEF StatusInv
    <2>4. Watched(m, want) = Watched(c, want)
      BY <2>1 DEF Watched
    <2>5. StatusInv(m)
      BY <1>1, <2>1, <2>2, <2>3, <2>4 DEF StatusInv
    <2> QED
      BY <2>1, <2>2, <2>3, <2>5
  <1>14. ASSUME CheckDrifts PROVE Goal
    <2> DEFINE k == IF c.drifted THEN c ELSE checkDrift(c)
    <2>1. /\ want \in Asks /\ c.intent = want /\ ~c.contended /\ ~c.refused /\ pc' = "publish"
          /\ IF ~k.contended /\ k.sinceApply >= Reapply THEN Apply(k) ELSE c' = k
      BY <1>11, <1>14 DEF CheckDrifts
    <2>2. IsComponent(k) /\ StatusInv(k) /\ k.intent = want /\ ~k.refused /\ k.status.result # "applied"
      <3>1. CASE c.drifted
        <4>1. k = c
          BY <3>1
        <4> HIDE DEF k
        <4> QED
          BY <1>1, <2>1, <3>1, <4>1 DEF StatusInv
      <3>2. CASE ~c.drifted
        <4> DEFINE m == checkDrift(c)
        <4>1. PICK limit \in BOOLEAN :
                 /\ IsComponent(m) /\ m.intent = c.intent /\ m.expect = c.expect /\ m.contended = limit
                 /\ m.refused = c.refused /\ m.good = c.good /\ m.retry = c.retry
                 /\ m.status = [c.good EXCEPT !.result = IF limit THEN "contended" ELSE "drift"]
          BY <1>1, CheckDriftIs
        <4>2. k = m
          BY <3>2
        <4> HIDE DEF m, k
        <4>3. m.status.result = (IF limit THEN "contended" ELSE "drift")
          BY <1>1, <2>1, <4>1 DEF StatusInv
        <4>4. Watched(m, want) = Watched(c, want)
          BY <4>1 DEF Watched
        <4>5. StatusInv(m)
          BY <1>1, <2>1, <4>1, <4>3, <4>4 DEF StatusInv
        <4> QED
          BY <2>1, <4>1, <4>2, <4>3, <4>5
      <3> QED
        BY <3>1, <3>2
    <2> HIDE DEF k
    <2>3. CASE ~k.contended /\ k.sinceApply >= Reapply
      BY <2>1, <2>2, <2>3, ApplyKeeps
    <2>4. CASE ~(~k.contended /\ k.sinceApply >= Reapply)
      BY <2>1, <2>2, <2>4
    <2> QED
      BY <2>3, <2>4
  <1> HIDE DEF Goal
  <1>15. Goal
    BY <1>4, <1>5, <1>6, <1>7, <1>8, <1>9, <1>10, <1>12, <1>13, <1>14 DEF Act
  <1> QED
    BY <1>15 DEF Goal

(* What publishing leaves of the component.                                *)
LEMMA PublishKeeps ==
    ASSUME IsComponent(c), StatusInv(c), pc = "remove" => c.intent = NoIntent, Publish
    PROVE  /\ IsComponent(c') /\ StatusInv(c')
           /\ c'.intent = c.intent /\ c'.refused = c.refused /\ c'.contended = c.contended
  <1> DEFINE Goal == /\ IsComponent(c') /\ StatusInv(c')
                     /\ c'.intent = c.intent /\ c'.refused = c.refused /\ c'.contended = c.contended
  <1>1. \/ c' = c
        \/ c' = [c EXCEPT !.statusWritten = TRUE]
        \/ /\ c' = [c EXCEPT !.statusWritten = FALSE, !.status = NoStatus]
           /\ pc = "remove" \/ c.status = Removed
    BY DEF Publish, Patch
  <1>2. NoStatus.result = "unset" /\ Removed.result = "removed"
    BY DEF NoStatus, Removed, Status
  <1>3. ASSUME c' = [c EXCEPT !.statusWritten = TRUE] PROVE Goal
    <2>1. /\ IsComponent(c') /\ c'.intent = c.intent /\ c'.expect = c.expect /\ c'.contended = c.contended
          /\ c'.refused = c.refused /\ c'.retry = c.retry /\ c'.good = c.good /\ c'.drifted = c.drifted
          /\ c'.status = c.status
      BY <1>3 DEF IsComponent, Fields
    <2>2. Watched(c', c.intent) = Watched(c, c.intent)
      BY <2>1 DEF Watched
    <2> QED
      BY <2>1, <2>2 DEF StatusInv
  <1>4. ASSUME c' = [c EXCEPT !.statusWritten = FALSE, !.status = NoStatus],
               pc = "remove" => c.intent = NoIntent, pc = "remove" \/ c.status = Removed
        PROVE  Goal
    <2>1. /\ IsComponent(c') /\ c'.intent = c.intent /\ c'.expect = c.expect /\ c'.contended = c.contended
          /\ c'.refused = c.refused /\ c'.retry = c.retry /\ c'.good = c.good /\ c'.drifted = c.drifted
          /\ c'.status = NoStatus
      BY <1>4 DEF IsComponent, Fields
    <2>2. Watched(c', c.intent) = Watched(c, c.intent)
      BY <2>1 DEF Watched
    <2>3. c.intent \in Asks => ~c.contended
      BY <1>2, <1>4, NoIntentIsNone DEF StatusInv
    <2> QED
      BY <1>2, <2>1, <2>2, <2>3 DEF StatusInv
  <1>5. ASSUME c' = c PROVE Goal
    BY <1>5
  <1> HIDE DEF Goal
  <1>6. Goal
    BY <1>1, <1>3, <1>4, <1>5
  <1> QED
    BY <1>6 DEF Goal

(* A new process knows nothing of an intent.                               *)
LEMMA StartKeeps ==
    ASSUME NEW m, Start(m)
    PROVE  AppliedInv' /\ gaveUp' = NoIntent /\ ~exiting' /\ pc' = "idle"
  <1>1. /\ c' = newComponent /\ ~loaded' /\ pc' = "idle" /\ gaveUp' = NoIntent /\ ~exiting'
    BY DEF Start
  <1>2. IsComponent(c') /\ c'.intent = NoIntent /\ ~c'.refused
    BY <1>1, NewComponentIs
  <1> QED
    BY <1>1, <1>2, NoIntentIsNone DEF AppliedInv, StatusInv

(* A component that differs in its times and in what was published only.   *)
LEMMA SameKeeps ==
    ASSUME NEW k, NEW n, StatusInv(k),
           n.intent = k.intent, n.expect = k.expect, n.contended = k.contended, n.refused = k.refused,
           n.good = k.good, n.status = k.status, n.drifted = k.drifted, n.retry # NoRetry => k.retry # NoRetry
    PROVE  StatusInv(n)
  <1>1. Watched(n, n.intent) = Watched(k, k.intent)
    BY DEF Watched
  <1> QED
    BY <1>1 DEF StatusInv

(* Preparing trusts the last status only before the first intent.          *)
LEMMA PrepareKeeps ==
    ASSUME AppliedInv, Prepare
    PROVE  AppliedInv' /\ c'.intent = c.intent /\ (loaded => c' = c)
  <1>1. c' = LoadedComponent /\ loaded' /\ pc' = "act"
    BY DEF Prepare
  <1>2. IsComponent(c) /\ StatusInv(c)
    BY DEF AppliedInv
  <1>3. CASE ~loaded /\ spec # NoTwin
    <2> DEFINE m == seed(c, published)
    <2>1. IsComponent(m) /\ m.intent = c.intent /\ m.refused = c.refused
      BY <1>2, SeedIs
    <2>2. c' = m
      BY <1>1, <1>3 DEF LoadedComponent
    <2> HIDE DEF m
    <2>3. c.intent = NoIntent /\ ~c.refused
      BY <1>3 DEF AppliedInv
    <2> QED
      BY <1>1, <1>3, <2>1, <2>2, <2>3, NoIntentIsNone DEF AppliedInv, StatusInv
  <1>4. CASE ~(~loaded /\ spec # NoTwin)
    <2>1. c' = c
      BY <1>1, <1>4 DEF LoadedComponent
    <2> QED
      BY <1>1, <1>2, <2>1 DEF AppliedInv
  <1> QED
    BY <1>3, <1>4

(* Time passes.                                                            *)
LEMMA TickKeeps ==
    ASSUME AppliedInv, Tick
    PROVE  AppliedInv' /\ c'.intent = c.intent /\ c'.contended = c.contended
  <1> DEFINE m == Aged(c)
  <1>1. c' = m /\ loaded' = loaded /\ pc' = pc
    BY DEF Tick, agentVars
  <1>2. IsComponent(c) /\ StatusInv(c)
    BY DEF AppliedInv
  <1>3. /\ IsComponent(m) /\ m.intent = c.intent /\ m.expect = c.expect /\ m.contended = c.contended
        /\ m.refused = c.refused /\ m.good = c.good /\ m.status = c.status /\ m.drifted = c.drifted
        /\ (m.retry # NoRetry => c.retry # NoRetry)
    BY <1>2, AgedIs
  <1> HIDE DEF m
  <1>4. StatusInv(m)
    BY <1>2, <1>3, SameKeeps
  <1> QED
    BY <1>1, <1>3, <1>4 DEF AppliedInv

(* A signal to stop.                                                       *)
LEMMA TerminateKeeps ==
    ASSUME AppliedInv, Terminate
    PROVE  AppliedInv'
  <1>1. IsComponent(c) /\ StatusInv(c) /\ pc = "idle"
    BY DEF AppliedInv, Terminate
  <1>2. CASE OnExit /\ loaded /\ c.changed
    <2>1. c' = [c EXCEPT !.retry = NoRetry] /\ loaded' = loaded /\ pc' = "act"
      BY <1>2 DEF Terminate
    <2>2. /\ IsComponent(c') /\ c'.intent = c.intent /\ c'.expect = c.expect /\ c'.contended = c.contended
          /\ c'.refused = c.refused /\ c'.good = c.good /\ c'.status = c.status /\ c'.drifted = c.drifted
          /\ c'.retry = NoRetry
      BY <1>1, <2>1 DEF IsComponent, Fields
    <2>3. StatusInv(c')
      BY <1>1, <2>2, SameKeeps
    <2> QED
      BY <1>2, <2>1, <2>2, <2>3 DEF AppliedInv
  <1>3. CASE ~(OnExit /\ loaded /\ c.changed)
    <2>1. c' = c /\ loaded' = loaded /\ pc' = pc
      BY <1>3 DEF Terminate
    <2> QED
      BY <2>1 DEF AppliedInv
  <1> QED
    BY <1>2, <1>3

(* Every step keeps what a status says of the component true.              *)
LEMMA AppliedStep ==
    ASSUME AppliedInv, [Next]_vars
    PROVE  AppliedInv'
  <1>1. ASSUME Prepare PROVE AppliedInv'
    BY <1>1, PrepareKeeps
  <1>2. ASSUME Act PROVE AppliedInv'
    <2>1. pc = "act" /\ loaded' = loaded
      BY <1>2 DEF Act, ActReleaseWait, ActRestore, ActForget, hold, StepWait, StepNewIntent, StepRetry,
                  CheckHolds, CheckDropped, CheckDrifts, Checking, Acting, agentVars
    <2>2. loaded
      BY <2>1 DEF AppliedInv
    <2> QED
      BY <1>2, <2>1, <2>2, ActKeeps DEF AppliedInv
  <1>3. ASSUME Publish PROVE AppliedInv'
    <2>1. pc # "idle" /\ loaded' = loaded /\ pc' = "idle"
      BY <1>3 DEF Publish, agentVars
    <2>2. IsComponent(c) /\ StatusInv(c) /\ (pc = "remove" => c.intent = NoIntent) /\ loaded
      BY <2>1 DEF AppliedInv
    <2> QED
      BY <1>3, <2>1, <2>2, PublishKeeps DEF AppliedInv
  <1>4. ASSUME Crash \/ Restart PROVE AppliedInv'
    BY <1>4, StartKeeps DEF Crash, Restart
  <1>5. ASSUME Terminate PROVE AppliedInv'
    BY <1>5, TerminateKeeps
  <1>6. ASSUME SpecChanges \/ RivalWrites \/ CalmDown \/ UNCHANGED vars PROVE AppliedInv'
    <2>1. c' = c /\ loaded' = loaded /\ pc' = pc
      BY <1>6 DEF SpecChanges, RivalWrites, CalmDown, vars, agentVars
    <2> QED
      BY <2>1 DEF AppliedInv
  <1>7. ASSUME Tick PROVE AppliedInv'
    BY <1>7, TickKeeps
  <1> QED
    BY <1>1, <1>2, <1>3, <1>4, <1>5, <1>6, <1>7 DEF Next, Agent

(* The inductive invariant behind AppliedIsInForce holds in every state.   *)
LEMMA AppliedHolds == Spec => []AppliedInv
  <1>1. Init => AppliedInv
    <2> SUFFICES ASSUME Init PROVE AppliedInv
      OBVIOUS
    <2>1. c = newComponent /\ ~loaded /\ pc = "idle"
      BY DEF Init
    <2>2. IsComponent(c) /\ c.intent = NoIntent /\ ~c.refused
      BY <2>1, NewComponentIs
    <2> QED
      BY <2>1, <2>2, NoIntentIsNone DEF AppliedInv, StatusInv
  <1> QED
    BY <1>1, AppliedStep, PTL DEF Spec

(* The steps that leave the act phase are those of Act, and a crash.       *)
LEMMA ActStepIs ==
    ASSUME ActStep, [Next]_vars
    PROVE  Act \/ (pc' = "idle" /\ sys' = sys)
  <1>1. pc = "act" /\ pc' # "act"
    BY DEF ActStep
  <1>2. Crash \/ Restart => pc' = "idle" /\ sys' = sys
    BY DEF Crash, Restart, Start, nodeVars
  <1>3. SpecChanges \/ RivalWrites \/ CalmDown \/ UNCHANGED vars => pc' = pc
    BY DEF SpecChanges, RivalWrites, CalmDown, vars
  <1>4. Prepare \/ Publish \/ Terminate \/ Tick => pc # "act"
    BY DEF Prepare, Publish, Terminate, Tick
  <1> QED
    BY <1>1, <1>2, <1>3, <1>4 DEF Next, Agent

(* A status "applied" is true when it is written (reconcileCPU, step,      *)
(* applyNow, checkNow): the step that leaves it leaves every attribute of  *)
(* the plan of the current intent at the plan's value, for any number of   *)
(* policies and any boost scope, after any history of failed writes,       *)
(* drifts, other writers, lost status writes, deletions of the NodeTwin    *)
(* and restarts in any mode.                                               *)
THEOREM AppliedIsInForce == Spec => AppliedMeansInForce
  <1> DEFINE A == (ActStep /\ pc' = "publish" /\ c'.status.result = "applied")
                     => \A j \in 1..Len(PlanCPU(want)) :
                           sys'[PlanCPU(want)[j].file] = PlanCPU(want)[j].value
  <1>1. ASSUME AppliedInv, [Next]_vars PROVE A
    <2> SUFFICES ASSUME ActStep, pc' = "publish", c'.status.result = "applied"
                 PROVE  InForceIn(sys', want)
      BY DEF InForceIn
    <2>1. Act
      BY <1>1, ActStepIs
    <2> QED
      BY <1>1, <2>1, ActKeeps
  <1>2. AppliedInv /\ [Next]_vars => [A]_vars
    BY <1>1
  <1> HIDE DEF A
  <1>3. Spec => [][A]_vars
    BY <1>2, AppliedHolds, PTL DEF Spec
  <1> QED
    BY <1>3 DEF A, AppliedMeansInForce

(***************************************************************************)
(* A setting that was given up is left alone.                              *)
(***************************************************************************)

(* A contended setting is only waited for.                                 *)
LEMMA ContendedWaits ==
    ASSUME Act, mode = "write", disc, want \in Asks, c.intent = want, c.contended
    PROVE  StepWait
  <1>1. ~Releasing
    BY DEF Releasing, restoreWritesOff
  <1> QED
    BY <1>1 DEF Act, ActReleaseWait, ActRestore, ActForget, hold, StepNewIntent, StepRetry,
                CheckHolds, CheckDropped, CheckDrifts, Checking, Stepping

(* While no discovery comes back empty, an intent that was given up stays  *)
(* the one the component is contended over.                                *)
LEMMA GaveUpStep ==
    ASSUME ~Gaps, AppliedInv, GaveUpInv, [Next]_vars
    PROVE  GaveUpInv'
  <1>0. NoIntent \notin Asks /\ IsComponent(c) /\ StatusInv(c)
    BY NoIntentIsNone DEF AppliedInv
  <1>1. ASSUME Prepare PROVE GaveUpInv'
    <2>1. /\ ~exiting /\ exiting' = exiting /\ mode' = mode /\ disc' = TRUE /\ want' = spec /\ pc' = "act"
          /\ gaveUp' = (IF gaveUp = spec THEN gaveUp ELSE NoIntent)
      BY <1>1 DEF Prepare
    <2>2. c'.intent = c.intent /\ (loaded => c' = c) /\ (~loaded => c.intent = NoIntent)
      BY <1>1, PrepareKeeps DEF AppliedInv
    <2> QED
      BY <1>0, <2>1, <2>2 DEF GaveUpInv
  <1>2. ASSUME Act PROVE GaveUpInv'
    <2>1. /\ pc = "act" /\ pc' # "act" /\ exiting' = exiting /\ mode' = mode
      BY <1>2 DEF Act, ActReleaseWait, ActRestore, ActForget, hold, StepWait, StepNewIntent, StepRetry,
                  CheckHolds, CheckDropped, CheckDrifts, Checking, Acting, agentVars
    <2>2. CASE gaveUp \in Asks /\ ~exiting
      <3>1. StepWait
        BY <1>2, <2>1, <2>2, ContendedWaits DEF GaveUpInv
      <3>2. c' = c /\ gaveUp' = gaveUp
        BY <3>1 DEF StepWait
      <3> QED
        BY <2>1, <2>2, <3>2 DEF GaveUpInv
    <2>3. CASE gaveUp \notin Asks /\ ~exiting
      <3>1. CASE gaveUp' = gaveUp
        BY <2>1, <2>3, <3>1 DEF GaveUpInv
      <3>2. CASE gaveUp' # gaveUp
        <4>1. CheckDrifts
          BY <1>2, <3>2 DEF Act, ActReleaseWait, ActRestore, ActForget, hold, StepWait, StepNewIntent,
                            StepRetry, CheckHolds, CheckDropped
        <4> DEFINE k == IF c.drifted THEN c ELSE checkDrift(c)
        <4>2. /\ IF ~k.contended /\ k.sinceApply >= Reapply THEN Apply(k) ELSE c' = k
              /\ gaveUp' = (IF k.status.result = "contended" THEN want ELSE gaveUp)
          BY <4>1 DEF CheckDrifts
        <4>3. want \in Asks /\ c.intent = want /\ ~c.contended /\ mode = "write"
          BY <4>1 DEF CheckDrifts, Checking, Stepping, Releasing
        <4>4. k.contended /\ k.intent = want
          <5>1. CASE c.drifted
            <6>1. k = c
              BY <5>1
            <6> HIDE DEF k
            <6> QED
              BY <1>0, <3>2, <4>2, <4>3, <6>1 DEF StatusInv
          <5>2. CASE ~c.drifted
            <6> DEFINE m == checkDrift(c)
            <6>1. PICK limit \in BOOLEAN :
                     /\ m.intent = c.intent /\ m.contended = limit
                     /\ m.status = [c.good EXCEPT !.result = IF limit THEN "contended" ELSE "drift"]
              BY <1>0, CheckDriftIs
            <6>2. k = m
              BY <5>2
            <6> HIDE DEF m, k
            <6>3. m.status.result = (IF limit THEN "contended" ELSE "drift")
              BY <1>0, <4>3, <6>1 DEF StatusInv
            <6> QED
              BY <3>2, <4>2, <4>3, <6>1, <6>2, <6>3
          <5> QED
            BY <5>1, <5>2
        <4> HIDE DEF k
        <4>5. c' = k /\ gaveUp' = want
          BY <3>2, <4>2, <4>4
        <4> QED
          BY <2>1, <2>3, <4>3, <4>4, <4>5 DEF GaveUpInv
      <3> QED
        BY <3>1, <3>2
    <2>4. CASE exiting
      BY <2>1, <2>4 DEF GaveUpInv
    <2> QED
      BY <2>2, <2>3, <2>4
  <1>3. ASSUME Publish PROVE GaveUpInv'
    <2>1. pc' = "idle" /\ exiting' = exiting /\ mode' = mode /\ gaveUp' = gaveUp
      BY <1>3 DEF Publish, agentVars
    <2>2. c'.intent = c.intent /\ c'.contended = c.contended
      BY <1>0, <1>3, PublishKeeps DEF AppliedInv
    <2> QED
      BY <2>1, <2>2 DEF GaveUpInv
  <1>4. ASSUME Crash \/ Restart PROVE GaveUpInv'
    BY <1>0, <1>4, StartKeeps DEF Crash, Restart, GaveUpInv
  <1>5. ASSUME Terminate PROVE GaveUpInv'
    BY <1>5 DEF Terminate, GaveUpInv
  <1>6. ASSUME SpecChanges \/ RivalWrites \/ CalmDown \/ UNCHANGED vars PROVE GaveUpInv'
    <2>1. /\ c' = c /\ pc' = pc /\ exiting' = exiting /\ mode' = mode /\ gaveUp' = gaveUp
          /\ want' = want /\ disc' = disc
      BY <1>6 DEF SpecChanges, RivalWrites, CalmDown, vars, agentVars
    <2> QED
      BY <2>1 DEF GaveUpInv
  <1>7. ASSUME Tick PROVE GaveUpInv'
    <2>1. /\ pc' = pc /\ pc = "idle" /\ exiting' = exiting /\ mode' = mode /\ gaveUp' = gaveUp
      BY <1>7 DEF Tick, agentVars
    <2>2. c'.intent = c.intent /\ c'.contended = c.contended
      BY <1>7, TickKeeps
    <2> QED
      BY <2>1, <2>2 DEF GaveUpInv
  <1> QED
    BY <1>1, <1>2, <1>3, <1>4, <1>5, <1>6, <1>7 DEF Next, Agent

(* Once an intent is contended (checkNow's third drift within the window)  *)
(* the agent writes no attribute for it until the controller manager asks  *)
(* for something else, whatever it reads, whatever time passes and         *)
(* whatever status writes are lost.  The premise is needed: a discovery    *)
(* that comes back empty makes hold forget the intent, and the next        *)
(* reconcile takes it for a new one.                                       *)
THEOREM ContendedIsLeftAlone == ~Gaps => (Spec => GivesWay)
  <1> SUFFICES ASSUME ~Gaps PROVE Spec => GivesWay
    OBVIOUS
  <1> DEFINE A == (ActStep /\ want \in Asks /\ gaveUp = want) => sys' = sys
  <1>1. Init => GaveUpInv
    BY NoIntentIsNone DEF Init, GaveUpInv
  <1>2. AppliedInv /\ GaveUpInv /\ [Next]_vars => GaveUpInv'
    BY GaveUpStep
  <1>3. ASSUME AppliedInv, GaveUpInv, [Next]_vars PROVE A
    <2> SUFFICES ASSUME ActStep, want \in Asks, gaveUp = want PROVE sys' = sys
      OBVIOUS
    <2>1. CASE Act
      <3>1. ~exiting /\ pc = "act"
        BY <1>3, NoIntentIsNone DEF GaveUpInv, ActStep
      <3>2. StepWait
        BY <1>3, <2>1, <3>1, ContendedWaits DEF GaveUpInv
      <3> QED
        BY <3>2 DEF StepWait, nodeVars
    <2> QED
      BY <1>3, <2>1, ActStepIs
  <1>4. AppliedInv /\ GaveUpInv /\ [Next]_vars => [A]_vars
    BY <1>3
  <1> HIDE DEF A
  <1>5. Spec => [][A]_vars
    BY <1>1, <1>2, <1>4, AppliedHolds, PTL DEF Spec
  <1> QED
    BY <1>5 DEF A, GivesWay

(***************************************************************************)
(* The baseline holds no value of the agent's own.                         *)
(***************************************************************************)

(* What makes the last status and the stored baseline tell a new process   *)
(* all it must know: the NodeTwin stays, every discovery and every write   *)
(* to the API server succeeds, a kill comes only once all is published,    *)
(* and no status hides what is in force.                                   *)
Remembered ==
    /\ Restarts = "synced" /\ ~TwinGone /\ ~Gaps /\ ~APIErrors
    /\ Modes \subseteq {"write", "readonly"}
    /\ Failing \subseteq {"error", "not-applied"}
    /\ Unsupported = {} /\ Boosts \subseteq {"unset"}

(* An attribute of the baseline holds a value the agent wrote.             *)
Own == \E f \in BaseFiles : sys[f] # was[f]

(* The component knows what of the node is the agent's.                    *)
Known(k) == \A f \in BaseFiles : sys[f] # was[f] => k.changed /\ (f \in BoostFiles => k.boostWritten)

(* Without another writer nothing drifts, and the agent knows what it      *)
(* wrote for as long as the process lives.                                 *)
RunInv ==
    /\ IsComponent(c) /\ ~c.contended /\ checkWrites(c)
    /\ c.intent \in Asks /\ c.expect # {} => c.retry = NoRetry /\ c.status.result # "error"
    /\ c.intent \in Asks => c.status.result # "drift"
    /\ ~loaded => pc = "idle" /\ c.intent = NoIntent /\ c.expect = {}
    /\ loaded /\ disc => base # NoBaseline
    /\ loaded => Known(c) /\ (Own => base # NoBaseline)

(* What the API server knows of it, when processes come and go.            *)
ApiInv ==
    /\ spec \in Specs /\ (want \in Asks \/ want = NoIntent)
    /\ mode \in Modes /\ ~c.refused
    /\ exiting /\ pc = "act" => want = NoIntent
    /\ \A f \in BoostFiles : sys[f] = was[f]
    /\ hwMemo = NoMemo
    /\ memo = [payload |-> memo.payload, age |-> memo.age]
    /\ memo.payload # <<>> => published = (IF memo.payload[1] = Removed THEN NoStatus ELSE memo.payload[1])
    /\ c.status.result \notin {"drift", "removed"} /\ published.result \notin {"drift", "removed"}
    /\ loaded => stored = base /\ disc
    /\ Own /\ loaded => governorResultWrote(c.status) /\ pc # "remove"
    /\ Own /\ pc \in {"idle", "act"} => governorResultWrote(published)
    /\ Own /\ ~loaded => stored # NoBaseline

(* In a run without an end the process alone has to know.                  *)
OnceInv == ~exiting /\ (~loaded => ~Own)

OwnInv == RunInv /\ IF Restarts = "never" THEN OnceInv ELSE ApiInv

(* The fields an apply and a new intent leave.                             *)
LEMMA StartOwn ==
    ASSUME NEW k, IsComponent(k), NEW i
    PROVE  LET n == startIntent(k, i)
           IN  /\ IsComponent(n) /\ n.intent = i /\ n.expect = {} /\ ~n.contended
               /\ n.changed = k.changed /\ n.boostWritten = k.boostWritten /\ n.refused = k.refused
  BY DEF IsComponent, Fields, startIntent

(* applyNow adds what was written.                                         *)
LEMMA ApplyNowOwn ==
    ASSUME NEW k, IsComponent(k), NEW st, NEW wrote
    PROVE  LET n == applyNow(k, st, wrote)
           IN  /\ IsComponent(n) /\ n.intent = k.intent /\ n.expect = k.expect /\ n.contended = k.contended
               /\ n.changed = (k.changed \/ wrote) /\ n.boostWritten = k.boostWritten /\ n.status = st
               /\ n.refused = (k.refused \/ st.result = "refused")
               /\ n.retry = IF st.result \in {"unsupported", "not-applied"} THEN Retry ELSE NoRetry
  BY DEF IsComponent, Fields, applyNow

(* applyCPU keeps track of boost.                                          *)
LEMMA ApplyCPUOwn ==
    ASSUME NEW k, IsComponent(k), NEW i, NEW ws, NEW e
    PROVE  LET n == applyCPU(k, i, ws, e)
           IN  /\ IsComponent(n) /\ n.intent = k.intent /\ n.refused = k.refused /\ n.contended = k.contended
               /\ n.changed = k.changed
               /\ n.boostWritten = ((k.boostWritten \/ (Wrote(ws, e) /\ i.boost # "unset"))
                                    /\ ~(e.result = "ok" /\ i.boost = "unset"))
               /\ n.expect = IF e.result = "ok" THEN Expected(ws) ELSE k.expect
  BY DEF IsComponent, Fields, applyCPU

(* A restore that is complete leaves nothing changed.                      *)
LEMMA RestoreOwn ==
    ASSUME NEW k, IsComponent(k), NEW e
    PROVE  LET n == restoreDone(k, e)
           IN  /\ IsComponent(n) /\ n.intent = NoIntent /\ n.expect = {} /\ n.contended = k.contended
               /\ n.status.result = (IF e.result = "ok" THEN "restored" ELSE e.result)
               /\ n.changed = (n.status.result # "restored")
               /\ n.boostWritten = (k.boostWritten /\ ~(e.result = "ok"))
               /\ n.refused = (k.refused \/ (e.result # "ok" /\ e.result = "refused"))
  <1> DEFINE r == IF e.result = "ok" THEN "restored" ELSE e.result
             st == Status(r, IF e.result = "ok" THEN "governor" ELSE "none")
             n == releaseDone(k, NoIntent, st)
  <1>1. st.result = r
    BY DEF Status
  <1>2. restoreDone(k, e) = [n EXCEPT !.boostWritten = k.boostWritten /\ ~(e.result = "ok"),
                                      !.globalSeen = IF e.result = "ok" THEN "unset" ELSE k.globalSeen]
    BY DEF restoreDone
  <1> HIDE DEF st
  <1>3. /\ IsComponent(n) /\ n.intent = NoIntent /\ n.expect = {} /\ n.contended = k.contended
        /\ n.status = st /\ n.changed = (st.result # "restored") /\ n.refused = (k.refused \/ st.result = "refused")
    BY DEF IsComponent, Fields, releaseDone, endIntent
  <1> HIDE DEF n
  <1>4. /\ IsComponent(restoreDone(k, e)) /\ restoreDone(k, e).intent = NoIntent /\ restoreDone(k, e).expect = {}
        /\ restoreDone(k, e).contended = k.contended /\ restoreDone(k, e).changed = (st.result # "restored")
        /\ restoreDone(k, e).status = st /\ restoreDone(k, e).refused = (k.refused \/ st.result = "refused")
        /\ restoreDone(k, e).boostWritten = (k.boostWritten /\ ~(e.result = "ok"))
    BY <1>2, <1>3 DEF IsComponent, Fields
  <1> QED
    BY <1>1, <1>4

(* A tick changes nothing that was written.                                *)
LEMMA AgedOwn ==
    ASSUME NEW k, IsComponent(k)
    PROVE  LET n == Aged(k)
           IN  /\ IsComponent(n) /\ n.intent = k.intent /\ n.expect = k.expect /\ n.contended = k.contended
               /\ n.refused = k.refused /\ n.status = k.status /\ n.changed = k.changed
               /\ n.boostWritten = k.boostWritten /\ (k.retry = NoRetry => n.retry = NoRetry)
  <1> DEFINE r == IF k.retry \in 1..Retry THEN k.retry - 1 ELSE k.retry
             a == Older(k.sinceApply, Reapply)
             ds == [j \in DOMAIN k.drifts |-> Older(k.drifts[j], Window)]
  <1>1. Aged(k) = [k EXCEPT !.retry = r, !.sinceApply = a, !.drifts = ds]
    BY DEF Aged
  <1>2. k.retry = NoRetry => r = NoRetry
    BY ComponentAssumption DEF NoRetry
  <1> HIDE DEF r, a, ds
  <1> QED
    BY <1>1, <1>2 DEF IsComponent, Fields

(* What is written, with or without an error, of an attribute of the       *)
(* baseline: the value is the agent's only where it was before, or where a *)
(* write that was due gave it another value than the baseline's.           *)
LEMMA WritesOwn ==
    ASSUME NEW ws, NEW e, NEW f \in BaseFiles
    PROVE  /\ (\E j \in 1..e.n : ws[j].file = f /\ ws[j].value = base[f])
                  => SysAfter(ws, e)[f] = WasAfter(ws, e)[f]
           /\ SysAfter(ws, e)[f] # WasAfter(ws, e)[f] =>
                 \/ sys[f] # was[f]
                 \/ \E j \in 1..e.n : Due(ws[j]) /\ ws[j].file = f /\ ws[j].value # base[f]
  <1> DEFINE to == {j \in 1..e.n : ws[j].file = f}
             d == CHOOSE j \in 1..e.n : ws[j].file = f
  <1>1. f \in Files
    BY DEF Files
  <1>2. SysAfter(ws, e)[f] = IF to # {} THEN ws[d].value ELSE sys[f]
    BY <1>1 DEF SysAfter
  <1>3. WasAfter(ws, e)[f] = IF \E j \in to : ws[j].value = base[f] THEN SysAfter(ws, e)[f] ELSE was[f]
    BY <1>1 DEF WasAfter
  <1>4. to # {} => d \in 1..e.n /\ ws[d].file = f
    OBVIOUS
  <1> HIDE DEF d
  <1>5. to # {} /\ ~Due(ws[d]) => ws[d].value = sys[f]
    BY <1>4 DEF Due
  <1> QED
    BY <1>2, <1>3, <1>4, <1>5

(* differing changes neither the attributes nor the values.                *)
LEMMA DifferingIs ==
    ASSUME NEW F, NEW V, NEW u \in Seq(WritesTo(F, V))
    PROVE  /\ Len(differing(u)) = Len(u) /\ differing(u) \in Seq(WritesTo(F, V))
           /\ \A j \in 1..Len(u) : differing(u)[j].file = u[j].file /\ differing(u)[j].value = u[j].value
  <1> DEFINE W == WritesTo(F, V)
             v == differing(u)
  <1>1. \A w \in W : LET x == [w EXCEPT !.always = FALSE]
                     IN  x \in W /\ x.file = w.file /\ x.value = w.value
    BY DEF WritesTo
  <1> HIDE DEF W
  <1>2. DOMAIN u = 1..Len(u) /\ Len(u) \in Nat /\ \A j \in 1..Len(u) : u[j] \in W
    BY DEF W
  <1>3. v = [j \in 1..Len(u) |-> [u[j] EXCEPT !.always = FALSE]]
    BY <1>2 DEF differing
  <1> HIDE DEF v
  <1>4. \A j \in 1..Len(u) : v[j] \in W /\ v[j].file = u[j].file /\ v[j].value = u[j].value
    BY <1>1, <1>2, <1>3
  <1>5. v \in Seq(W) /\ Len(v) = Len(u)
    BY <1>2, <1>3, <1>4
  <1> QED
    BY <1>4, <1>5 DEF v, W

(* A write of the baseline's value, or of the global boost that was found. *)
Returns(w, b, seen) ==
    \/ w.file \in BaseFiles /\ w.value = b[w.file]
    \/ w.file = GlobalBoost /\ Scope = "per-cpu" /\ w.value = seen

(* The global boost beside the policies' own is no part of a baseline.     *)
LEMMA GlobalIsApart == Scope = "per-cpu" => GlobalBoost \notin BaseFiles /\ GlobalBoost \in Files
  <1>1. 0 \notin Policies
    BY GovernorAssumption DEF Policies
  <1> QED
    BY <1>1, FileFacts DEF BaseFiles, BoostFiles, GlobalBoost

(* The baseline's boost writes return every boost attribute.               *)
LEMMA BoostReturns ==
    ASSUME NEW b, NEW seen
    PROVE  \E V : LET t == cpuBaselineBoostWrites(b, seen)
           IN  /\ t \in Seq(WritesTo(BoostAttributes, V))
               /\ \A j \in 1..Len(t) : Returns(t[j], b, seen) /\ t[j].file \in Files \ GovFiles
               /\ \A f \in BoostFiles : \E j \in 1..Len(t) : t[j].file = f
  <1> DEFINE V == {b[f] : f \in BoostAttributes} \cup {seen}
             W == WritesTo(BoostAttributes, V)
             R(w) == Returns(w, b, seen) /\ w.file \in Files \ GovFiles
             s == BaselineBoost(b)
             t == IF seen # "unset" /\ Scope = "per-cpu" THEN <<Write(GlobalBoost, seen)>> ELSE <<>>
             u == s \o t
             Good(x) == x \in Seq(W) /\ \A j \in 1..Len(x) : R(x[j])
             Covers(x) == \A f \in BoostFiles : \E j \in 1..Len(x) : x[j].file = f
  <1>1. Write(GlobalBoost, seen) \in W /\ Write(GlobalBoost, b[GlobalBoost]) \in W
        /\ \A n \in Policies : Write(<<"boost", n>>, b[<<"boost", n>>]) \in W
    BY DEF Write, WritesTo, BoostAttributes
  <1>2. Scope = "per-cpu" => R(Write(GlobalBoost, seen)) /\ \A n \in Policies : R(Write(<<"boost", n>>, b[<<"boost", n>>]))
    BY FileFacts DEF Returns, Write, BaseFiles
  <1>3. Scope = "global" => R(Write(GlobalBoost, b[GlobalBoost]))
    BY FileFacts DEF Returns, Write, BaseFiles
  <1>4. \A v : \A n \in Policies : Write(<<"boost", n>>, v).file = <<"boost", n>> /\ Write(GlobalBoost, v).file = GlobalBoost
    BY DEF Write
  <1> HIDE DEF W, R
  <1>5. Good(t)
    <2>1. CASE seen # "unset" /\ Scope = "per-cpu"
      <3> DEFINE w == Write(GlobalBoost, seen)
      <3>1. t = <<w>> /\ w \in W /\ R(w)
        BY <1>1, <1>2, <2>1
      <3> HIDE DEF w, t
      <3> QED
        BY <3>1
    <2>2. CASE ~(seen # "unset" /\ Scope = "per-cpu")
      BY <2>2
    <2> QED
      BY <2>1, <2>2
  <1>6. Good(s) /\ Covers(s)
    <2>1. CASE Scope = "none"
      BY <2>1 DEF BaselineBoost, BoostFiles
    <2>2. CASE Scope = "global"
      <3> DEFINE w == Write(GlobalBoost, b[GlobalBoost])
      <3>1. s = <<w>> /\ w \in W /\ R(w) /\ w.file = GlobalBoost /\ BoostFiles = {GlobalBoost}
        BY <1>1, <1>3, <2>2 DEF BaselineBoost, BoostFiles, Write
      <3> HIDE DEF w, s
      <3> QED
        BY <3>1
    <2>3. CASE Scope = "per-cpu"
      <3>1. s = [n \in Policies |-> Write(<<"boost", n>>, b[<<"boost", n>>])] /\ BoostFiles = {<<"boost", n>> : n \in Policies}
        BY <2>3 DEF BaselineBoost, BoostFiles
      <3> HIDE DEF s
      <3>2. \A n \in Policies : s[n] \in W /\ R(s[n]) /\ s[n].file = <<"boost", n>>
        BY <1>1, <1>2, <1>4, <2>3, <3>1
      <3>3. s \in Seq(W) /\ Len(s) = NPol /\ Policies = 1..NPol
        BY <3>1, <3>2, PerPolicy DEF Policies
      <3>4. Good(s)
        BY <3>2, <3>3
      <3>5. Covers(s)
        BY <3>1, <3>2, <3>3
      <3> QED
        BY <3>4, <3>5
    <2> QED
      BY <2>1, <2>2, <2>3, FileFacts
  <1>7. cpuBaselineBoostWrites(b, seen) = differing(u)
    BY DEF cpuBaselineBoostWrites
  <1> HIDE DEF s, t
  <1>8. /\ u \in Seq(W) /\ Len(u) = Len(s) + Len(t)
        /\ \A j \in 1..Len(u) : \/ j \in 1..Len(s) /\ u[j] = s[j]
                                \/ j - Len(s) \in 1..Len(t) /\ u[j] = t[j - Len(s)]
        /\ \A j \in 1..Len(s) : j \in 1..Len(u) /\ u[j] = s[j]
    BY <1>5, <1>6, ConcatIs
  <1> HIDE DEF u
  <1>9. (\A j \in 1..Len(u) : R(u[j])) /\ Covers(u)
    BY <1>5, <1>6, <1>8
  <1> DEFINE d == differing(u)
  <1>10. /\ Len(d) = Len(u) /\ d \in Seq(W)
         /\ \A j \in 1..Len(u) : d[j].file = u[j].file /\ d[j].value = u[j].value
    BY <1>8, DifferingIs DEF W
  <1> HIDE DEF d
  <1>11. (\A j \in 1..Len(d) : R(d[j])) /\ Covers(d)
    BY <1>9, <1>10 DEF R, Returns
  <1>12. cpuBaselineBoostWrites(b, seen) = d
    BY <1>7 DEF d
  <1> QED
    BY <1>10, <1>11, <1>12 DEF W, R

(* The writes of an apply without a boost word return the boost, and the   *)
(* values an attribute gets are one.                                       *)
LEMMA ApplyReturns ==
    ASSUME NEW k, NEW i \in Asks
    PROVE  LET ws == ApplyWrites(k, i)
           IN  /\ Len(ws) \in Nat /\ DOMAIN ws = 1..Len(ws)
               /\ \A j \in 1..Len(ws) : ws[j].file \in Files
               /\ \A j, m \in 1..Len(ws) : ws[j].file = ws[m].file => ws[j].value = ws[m].value
               /\ i.boost = "unset" => \A j \in 1..Len(ws) : ws[j].file \in BoostFiles => ws[j].value = base[ws[j].file]
               /\ i.boost = "unset" /\ k.boostWritten => \A f \in BoostFiles : \E j \in 1..Len(ws) : ws[j].file = f
  <1> DEFINE P == PlanCPU(i)
             ws == ApplyWrites(k, i)
             t == cpuBaselineBoostWrites(base, k.globalSeen)
             G(w) == /\ w.file \in Files
                     /\ w.file \in GovFiles => w.value = i.preset
                     /\ w.file \notin GovFiles =>
                           IF i.boost # "unset" THEN w.value = BoostBit(i.boost)
                           ELSE k.boostWritten /\ Returns(w, base, k.globalSeen)
             Goal == /\ Len(ws) \in Nat /\ DOMAIN ws = 1..Len(ws)
                     /\ \A j \in 1..Len(ws) : G(ws[j])
                     /\ i.boost = "unset" /\ k.boostWritten => \A f \in BoostFiles : \E j \in 1..Len(ws) : ws[j].file = f
  <1>1. P \in Seq(WritesTo(Files, Given(i))) /\ \A j \in 1..Len(P) : G(P[j])
    BY PlanIs
  <1> HIDE DEF P
  <1>2. ASSUME GlobalFirst(i) PROVE Goal
    <2> DEFINE w == Write(GlobalBoost, "1")
               S == WritesTo(Files, Given(i)) \cup {w}
    <2>1. ws = <<w>> \o P /\ i.boost # "unset"
      BY <1>2 DEF ApplyWrites, P, GlobalFirst
    <2>2. G(w)
      BY <1>2, FileFacts DEF GlobalFirst, Write, BoostBit
    <2> HIDE DEF w, ws, S, G
    <2>3. <<w>> \in Seq(S) /\ P \in Seq(S) /\ Len(<<w>>) = 1 /\ <<w>>[1] = w
      BY <1>1 DEF S
    <2>4. /\ ws \in Seq(S) /\ Len(ws) = 1 + Len(P)
          /\ \A j \in 1..Len(ws) : ws[j] = w \/ (j - 1 \in 1..Len(P) /\ ws[j] = P[j - 1])
      BY <2>1, <2>3
    <2>5. \A j \in 1..Len(ws) : G(ws[j])
      BY <1>1, <2>2, <2>4
    <2>6. Len(ws) \in Nat /\ DOMAIN ws = 1..Len(ws)
      BY <2>4
    <2> QED
      BY <2>1, <2>5, <2>6
  <1>3. ASSUME ~GlobalFirst(i) /\ i.boost = "unset" /\ k.boostWritten PROVE Goal
    <2>1. ws = P \o t
      BY <1>3 DEF ApplyWrites, P
    <2>2. PICK V : /\ t \in Seq(WritesTo(BoostAttributes, V))
                   /\ \A j \in 1..Len(t) : Returns(t[j], base, k.globalSeen) /\ t[j].file \in Files \ GovFiles
                   /\ \A f \in BoostFiles : \E j \in 1..Len(t) : t[j].file = f
      BY BoostReturns
    <2> DEFINE S == WritesTo(Files, Given(i)) \cup WritesTo(BoostAttributes, V)
    <2> HIDE DEF t, ws
    <2>3. \A j \in 1..Len(t) : G(t[j])
      BY <1>3, <2>2
    <2> HIDE DEF S, G
    <2>4. P \in Seq(S) /\ t \in Seq(S)
      BY <1>1, <2>2 DEF S
    <2>5. /\ ws \in Seq(S) /\ Len(ws) = Len(P) + Len(t)
          /\ \A j \in 1..Len(ws) : \/ j \in 1..Len(P) /\ ws[j] = P[j]
                                   \/ j - Len(P) \in 1..Len(t) /\ ws[j] = t[j - Len(P)]
          /\ \A j \in 1..Len(t) : j + Len(P) \in 1..Len(ws) /\ ws[j + Len(P)] = t[j]
      BY <2>1, <2>4, ConcatIs
    <2>6. \A j \in 1..Len(ws) : G(ws[j])
      BY <1>1, <2>3, <2>5
    <2>7. Len(ws) \in Nat /\ DOMAIN ws = 1..Len(ws)
      BY <2>5
    <2>8. \A f \in BoostFiles : \E j \in 1..Len(ws) : ws[j].file = f
      BY <2>2, <2>5
    <2> QED
      BY <2>6, <2>7, <2>8
  <1>4. ASSUME ~GlobalFirst(i) /\ ~(i.boost = "unset" /\ k.boostWritten) PROVE Goal
    <2>1. ws = P
      BY <1>4 DEF ApplyWrites, P
    <2> HIDE DEF ws, G
    <2>2. Len(P) \in Nat /\ DOMAIN P = 1..Len(P)
      BY <1>1
    <2> QED
      BY <1>1, <1>4, <2>1, <2>2
  <1>5. Goal
    <2> HIDE DEF Goal
    <2> QED
      BY <1>2, <1>3, <1>4
  <1>6. \A f \in BoostFiles : f \in BaseFiles /\ f \notin GovFiles
    BY FileFacts DEF BaseFiles, BoostFiles
  <1> HIDE DEF ws
  <1>7. \A j, m \in 1..Len(ws) : ws[j].file = ws[m].file => ws[j].value = ws[m].value
    <2> SUFFICES ASSUME NEW j \in 1..Len(ws), NEW m \in 1..Len(ws), ws[j].file = ws[m].file
                 PROVE  ws[j].value = ws[m].value
      OBVIOUS
    <2>1. G(ws[j]) /\ G(ws[m])
      BY <1>5
    <2> QED
      BY <2>1, GlobalIsApart DEF Returns
  <1>8. i.boost = "unset" => \A j \in 1..Len(ws) : ws[j].file \in BoostFiles => ws[j].value = base[ws[j].file]
    BY <1>5, <1>6, GlobalIsApart DEF Returns
  <1> QED
    BY <1>5, <1>7, <1>8 DEF ws

(* What an apply leaves: the agent knows what it wrote, watches only what  *)
(* it put in force, and watches nothing it may write again.                *)
LEMMA ApplyOwns ==
    ASSUME NEW k, IsComponent(k), want \in Asks, k.intent = want, ~k.contended, k.expect = {}, Known(k), Apply(k)
    PROVE  /\ IsComponent(c') /\ c'.intent = want /\ ~c'.contended
           /\ \A w \in c'.expect : sys'[w.file] = w.value
           /\ c'.expect # {} => c'.retry = NoRetry /\ c'.status.result # "error"
           /\ c'.status.result # "drift"
           /\ \A f \in BaseFiles : sys'[f] # was'[f] => c'.changed /\ (f \in BoostFiles => c'.boostWritten)
           /\ want.boost = "unset" /\ (\A f \in BoostFiles : sys[f] = was[f]) => \A f \in BoostFiles : sys'[f] = was'[f]
           /\ c'.refused => k.refused \/ "refused" \in Failing
           /\ Supported(want) => c'.status.result \in {"applied"} \cup Failing
  <1> DEFINE Goal == /\ IsComponent(c') /\ c'.intent = want /\ ~c'.contended
                     /\ \A w \in c'.expect : sys'[w.file] = w.value
                     /\ c'.expect # {} => c'.retry = NoRetry /\ c'.status.result # "error"
                     /\ c'.status.result # "drift"
                     /\ \A f \in BaseFiles : sys'[f] # was'[f] => c'.changed /\ (f \in BoostFiles => c'.boostWritten)
                     /\ want.boost = "unset" /\ (\A f \in BoostFiles : sys[f] = was[f]) => \A f \in BoostFiles : sys'[f] = was'[f]
                     /\ c'.refused => k.refused \/ "refused" \in Failing
                     /\ Supported(want) => c'.status.result \in {"applied"} \cup Failing
  <1>1. ASSUME ~Supported(want) PROVE Goal
    <2> DEFINE st == Status("unsupported", "none")
               wrote == FALSE
               m == applyNow(k, st, wrote)
    <2>1. c' = m /\ sys' = sys /\ was' = was
      BY <1>1 DEF Apply, nodeVars
    <2>2. st.result = "unsupported"
      BY DEF Status
    <2>3. ~wrote
      OBVIOUS
    <2> HIDE DEF st, wrote
    <2>4. /\ IsComponent(m) /\ m.intent = k.intent /\ m.expect = k.expect /\ m.contended = k.contended
          /\ m.changed = (k.changed \/ wrote) /\ m.boostWritten = k.boostWritten /\ m.status = st
          /\ m.refused = (k.refused \/ st.result = "refused")
      BY ApplyNowOwn
    <2> HIDE DEF m
    <2> QED
      BY <1>1, <2>1, <2>2, <2>3, <2>4 DEF Known
  <1>2. ASSUME Supported(want) PROVE Goal
    <2> DEFINE ws == ApplyWrites(k, want)
    <2>1. PICK e \in WriteEnds(ws) : /\ sys' = SysAfter(ws, e) /\ was' = WasAfter(ws, e)
                                     /\ c' = applyNow(applyCPU(k, want, ws, e), ApplyStatus(want, ws, e), Wrote(ws, e))
      BY <1>2 DEF Apply
    <2>2. /\ Len(ws) \in Nat /\ DOMAIN ws = 1..Len(ws)
          /\ \A j \in 1..Len(ws) : ws[j].file \in Files
          /\ \A j, m \in 1..Len(ws) : ws[j].file = ws[m].file => ws[j].value = ws[m].value
          /\ want.boost = "unset" => \A j \in 1..Len(ws) : ws[j].file \in BoostFiles => ws[j].value = base[ws[j].file]
          /\ want.boost = "unset" /\ k.boostWritten => \A f \in BoostFiles : \E j \in 1..Len(ws) : ws[j].file = f
      BY ApplyReturns
    <2> HIDE DEF ws
    <2>3. (e.result = "ok" /\ e.n = Len(ws)) \/ (e.result \in Failing /\ e.n \in Nat /\ e.n <= Len(ws))
      BY <2>1, <2>2 DEF WriteEnds
    <2> DEFINE st == ApplyStatus(want, ws, e)
               n == applyCPU(k, want, ws, e)
               wrote == Wrote(ws, e)
               m == applyNow(n, st, wrote)
    <2>4. st.result = (IF e.result = "ok" THEN "applied" ELSE e.result)
      BY DEF ApplyStatus, Status
    <2>5. c' = m
      BY <2>1
    <2>6. /\ IsComponent(n) /\ n.intent = k.intent /\ n.refused = k.refused /\ n.contended = k.contended
          /\ n.changed = k.changed
          /\ n.boostWritten = ((k.boostWritten \/ (wrote /\ want.boost # "unset"))
                               /\ ~(e.result = "ok" /\ want.boost = "unset"))
          /\ n.expect = IF e.result = "ok" THEN Expected(ws) ELSE k.expect
      BY ApplyCPUOwn
    <2> HIDE DEF st, n, wrote
    <2>7. /\ IsComponent(m) /\ m.intent = n.intent /\ m.expect = n.expect /\ m.contended = n.contended
          /\ m.changed = (n.changed \/ wrote) /\ m.boostWritten = n.boostWritten /\ m.status = st
          /\ m.refused = (n.refused \/ st.result = "refused")
          /\ m.retry = IF st.result \in {"unsupported", "not-applied"} THEN Retry ELSE NoRetry
      BY <2>6, ApplyNowOwn
    <2> HIDE DEF m
    <2>8. Failing \subseteq {"refused", "unsupported", "error", "not-applied"}
      BY GovernorAssumption
    <2>9. \A w \in c'.expect : sys'[w.file] = w.value
      <3>1. CASE e.result = "ok"
        <4> SUFFICES ASSUME NEW j \in 1..Len(ws) PROVE sys'[ws[j].file] = ws[j].value
          BY <2>2, <2>5, <2>6, <2>7, <3>1 DEF Expected
        <4> DEFINE f == ws[j].file
                   d == CHOOSE x \in 1..e.n : ws[x].file = f
        <4>1. e.n = Len(ws)
          BY <2>3, <2>8, <3>1
        <4>2. d \in 1..Len(ws) /\ ws[d].file = f
          BY <4>1
        <4>3. sys'[f] = ws[d].value
          BY <2>1, <2>2, <4>1 DEF SysAfter
        <4> HIDE DEF d
        <4> QED
          BY <2>2, <4>2, <4>3
      <3>2. CASE e.result # "ok"
        BY <2>5, <2>6, <2>7, <3>2
      <3> QED
        BY <3>1, <3>2
    <2>10. c'.expect # {} => c'.retry = NoRetry /\ c'.status.result # "error"
      BY <2>4, <2>5, <2>6, <2>7
    <2>11. ASSUME NEW f \in BaseFiles, sys'[f] # was'[f]
           PROVE  /\ c'.changed /\ (f \in BoostFiles => c'.boostWritten)
                  /\ f \in BoostFiles /\ want.boost = "unset" => sys[f] # was[f]
      <3>1. ~\E j \in 1..e.n : ws[j].file = f /\ ws[j].value = base[f]
        BY <2>1, <2>11, WritesOwn
      <3>2. sys[f] # was[f] \/ \E j \in 1..e.n : Due(ws[j]) /\ ws[j].file = f /\ ws[j].value # base[f]
        BY <2>1, <2>11, WritesOwn
      <3>3. (\E j \in 1..e.n : Due(ws[j]) /\ ws[j].file = f) => wrote
        BY DEF wrote, Wrote
      <3>4. c'.changed
        BY <2>5, <2>6, <2>7, <3>2, <3>3 DEF Known
      <3>5. ASSUME f \in BoostFiles
            PROVE c'.boostWritten /\ (want.boost = "unset" => sys[f] # was[f])
        <4>1. CASE want.boost = "unset"
          <5>1. \A j \in 1..e.n : ws[j].file = f => ws[j].value = base[f]
            BY <2>2, <2>3, <3>5, <4>1
          <5>2. sys[f] # was[f] /\ k.boostWritten
            BY <3>2, <3>5, <5>1 DEF Known
          <5>3. PICK j \in 1..Len(ws) : ws[j].file = f
            BY <2>2, <3>5, <4>1, <5>2
          <5>4. ws[j].value = base[f]
            BY <2>2, <3>5, <4>1, <5>3
          <5>5. e.result # "ok"
            BY <2>3, <2>8, <3>1, <5>3, <5>4
          <5> QED
            BY <2>5, <2>6, <2>7, <5>2, <5>5
        <4>2. CASE want.boost # "unset"
          BY <2>5, <2>6, <2>7, <3>2, <3>3, <3>5, <4>2 DEF Known
        <4> QED
          BY <4>1, <4>2
      <3> QED
        BY <3>4, <3>5
    <2>12. \A f \in BoostFiles : f \in BaseFiles
      BY DEF BaseFiles
    <2>13. c'.refused => k.refused \/ "refused" \in Failing
      BY <2>3, <2>4, <2>5, <2>6, <2>7
    <2>14. c'.status.result \in {"applied"} \cup Failing
      BY <2>3, <2>4, <2>5, <2>7
    <2>15. IsComponent(c') /\ c'.intent = want /\ ~c'.contended
      BY <2>5, <2>6, <2>7
    <2>16. c'.status.result # "drift"
      BY <2>8, <2>14
    <2> QED
      BY <2>16, <2>9, <2>10, <2>11, <2>12, <2>13, <2>14, <2>15
  <1> HIDE DEF Goal
  <1>3. Goal
    BY <1>1, <1>2
  <1> QED
    BY <1>3 DEF Goal

(* A restore returns what it writes, and when it is complete nothing of    *)
(* the agent's is left.                                                    *)
LEMMA RestoreReturns ==
    ASSUME NEW e \in WriteEnds(RestoreWrites), Known(c), NEW f \in BaseFiles,
           SysAfter(RestoreWrites, e)[f] # WasAfter(RestoreWrites, e)[f]
    PROVE  sys[f] # was[f] /\ e.result # "ok" /\ e.result \in Failing
  <1> DEFINE ws == RestoreWrites
             all == c.boostWritten \/ c.globalSeen # "unset"
             g == BaselineGovernors(base)
             s == differing(g)
             t == IF all THEN cpuBaselineBoostWrites(base, c.globalSeen) ELSE <<>>
             A == {base[x] : x \in GovFiles}
  <1>1. /\ g \in Seq(WritesTo(GovFiles, A)) /\ Len(g) = NPol
        /\ \A n \in Policies : g[n].file = <<"governor", n>> /\ g[n].value = base[<<"governor", n>>]
    <2>1. \A n \in Policies : /\ Write(<<"governor", n>>, base[<<"governor", n>>]) \in WritesTo(GovFiles, A)
                              /\ Write(<<"governor", n>>, base[<<"governor", n>>]).file = <<"governor", n>>
                              /\ Write(<<"governor", n>>, base[<<"governor", n>>]).value = base[<<"governor", n>>]
      BY FileFacts DEF Write, WritesTo
    <2>2. g = [n \in Policies |-> Write(<<"governor", n>>, base[<<"governor", n>>])]
      BY DEF BaselineGovernors
    <2> HIDE DEF g, A
    <2>3. \A n \in Policies : g[n] = Write(<<"governor", n>>, base[<<"governor", n>>])
      BY <2>2
    <2>4. g \in Seq(WritesTo(GovFiles, A)) /\ Len(g) = NPol
      BY <2>1, <2>2, <2>3, PerPolicy
    <2> QED
      BY <2>1, <2>3, <2>4
  <1> HIDE DEF g
  <1>2. /\ s \in Seq(WritesTo(GovFiles, A)) /\ Len(s) = NPol
        /\ \A n \in Policies : s[n].file = <<"governor", n>> /\ s[n].value = base[<<"governor", n>>]
    <2>1. /\ Len(s) = Len(g) /\ s \in Seq(WritesTo(GovFiles, A))
          /\ \A j \in 1..Len(g) : s[j].file = g[j].file /\ s[j].value = g[j].value
      BY <1>1, DifferingIs
    <2> HIDE DEF s
    <2> QED
      BY <1>1, <2>1 DEF Policies
  <1>3. PICK V : /\ t \in Seq(WritesTo(BoostAttributes, V))
                 /\ \A j \in 1..Len(t) : Returns(t[j], base, c.globalSeen)
                 /\ all => \A x \in BoostFiles : \E j \in 1..Len(t) : t[j].file = x
    <2>1. PICK V : LET u == cpuBaselineBoostWrites(base, c.globalSeen)
                   IN  /\ u \in Seq(WritesTo(BoostAttributes, V))
                       /\ \A j \in 1..Len(u) : Returns(u[j], base, c.globalSeen)
                       /\ \A x \in BoostFiles : \E j \in 1..Len(u) : u[j].file = x
      BY BoostReturns
    <2>2. CASE all
      BY <2>1, <2>2
    <2>3. CASE ~all
      <3>1. t = <<>>
        BY <2>3
      <3> HIDE DEF t, all
      <3> QED
        BY <2>3, <3>1
    <2> QED
      BY <2>2, <2>3
  <1>4. ws = s \o t
    BY DEF RestoreWrites, g
  <1> DEFINE S == WritesTo(GovFiles, A) \cup WritesTo(BoostAttributes, V)
  <1> HIDE DEF ws, s, t, all, A
  <1>5. s \in Seq(S) /\ t \in Seq(S)
    BY <1>2, <1>3 DEF S
  <1> HIDE DEF S
  <1>6. /\ ws \in Seq(S) /\ Len(ws) = Len(s) + Len(t)
        /\ \A j \in 1..Len(ws) : \/ j \in 1..Len(s) /\ ws[j] = s[j]
                                 \/ j - Len(s) \in 1..Len(t) /\ ws[j] = t[j - Len(s)]
        /\ \A j \in 1..Len(s) : j \in 1..Len(ws) /\ ws[j] = s[j]
        /\ \A j \in 1..Len(t) : j + Len(s) \in 1..Len(ws) /\ ws[j + Len(s)] = t[j]
    BY <1>4, <1>5, ConcatIs
  <1>7. \A j \in 1..Len(s) : s[j].value = base[s[j].file]
    BY <1>2 DEF Policies
  <1>8. \A j \in 1..Len(t) : t[j].file \in BaseFiles => t[j].value = base[t[j].file]
    BY <1>3, GlobalIsApart DEF Returns
  <1>9. ASSUME NEW j \in 1..Len(ws), ws[j].file = f PROVE ws[j].value = base[f]
    <2>1. CASE j \in 1..Len(s) /\ ws[j] = s[j]
      BY <1>7, <1>9, <2>1
    <2>2. CASE j - Len(s) \in 1..Len(t) /\ ws[j] = t[j - Len(s)]
      BY <1>8, <1>9, <2>2
    <2> QED
      BY <1>6, <2>1, <2>2
  <1>10. \A x \in GovFiles : \E j \in 1..Len(ws) : ws[j].file = x
    <2>1. \A n \in Policies : n \in 1..Len(s) /\ s[n].file = <<"governor", n>>
      BY <1>2 DEF Policies
    <2>2. \A n \in Policies : \E j \in 1..Len(ws) : ws[j].file = <<"governor", n>>
      BY <1>6, <2>1
    <2> QED
      BY <2>2 DEF GovFiles
  <1>11. all => \A x \in BoostFiles : \E j \in 1..Len(ws) : ws[j].file = x
    BY <1>3, <1>6
  <1>12. (e.result = "ok" /\ e.n = Len(ws)) \/ (e.result \in Failing /\ e.n \in Nat /\ e.n <= Len(ws))
    <2>1. Len(ws) \in Nat /\ DOMAIN ws = 1..Len(ws)
      BY <1>6
    <2>2. e \in WriteEnds(ws)
      BY DEF ws
    <2> QED
      BY <2>1, <2>2 DEF WriteEnds
  <1>13. ~\E j \in 1..e.n : ws[j].file = f /\ ws[j].value = base[f]
    BY WritesOwn DEF ws
  <1>14. sys[f] # was[f] \/ \E j \in 1..e.n : Due(ws[j]) /\ ws[j].file = f /\ ws[j].value # base[f]
    BY WritesOwn DEF ws
  <1>15. sys[f] # was[f]
    BY <1>9, <1>12, <1>14
  <1>16. "ok" \notin Failing
    BY GovernorAssumption
  <1>17. e.result # "ok"
    <2> SUFFICES ASSUME e.result = "ok" PROVE FALSE
      OBVIOUS
    <2>1. e.n = Len(ws)
      BY <1>12, <1>16
    <2>2. f \in GovFiles \/ (f \in BoostFiles /\ all)
      BY <1>15 DEF Known, BaseFiles, all
    <2> QED
      BY <1>9, <1>10, <1>11, <1>13, <2>1, <2>2
  <1> QED
    BY <1>12, <1>15, <1>17

(* A baseline of a discovery is a baseline.                                *)
LEMMA BaselineIsSome == BaselineOf(sys) # NoBaseline
  <1>1. <<"governor", 1>> \in BaseFiles
    BY GovernorAssumption DEF BaseFiles, GovFiles, Policies
  <1>2. DOMAIN BaselineOf(sys) = BaseFiles /\ DOMAIN NoBaseline = {}
    BY DEF BaselineOf, NoBaseline
  <1> QED
    BY <1>1, <1>2

(* Nothing that the invariant looks at differs.                            *)
LEMMA SameRun ==
    ASSUME RunInv, sys' = sys, was' = was, loaded' = loaded, base' = base, disc' = disc,
           IsComponent(c'), ~c'.contended, c'.expect \in {c.expect, {}},
           c'.intent \in Asks /\ c'.expect # {} => c'.retry = NoRetry /\ c'.status.result # "error",
           c'.intent \in Asks => c'.status.result # "drift",
           c'.changed = c.changed, c'.boostWritten = c.boostWritten,
           ~loaded => pc' = "idle" /\ c'.intent = NoIntent /\ c'.expect = {}
    PROVE  RunInv'
  <1>1. checkWrites(c)'
    BY DEF RunInv, checkWrites
  <1>2. loaded' => Known(c)' /\ (Own' => base' # NoBaseline)
    BY DEF RunInv, Known, Own
  <1> QED
    BY <1>1, <1>2 DEF RunInv

(* An act step that applies.                                               *)
LEMMA ApplyRun ==
    ASSUME NEW k, RunInv, Acting, Stepping, IsComponent(k), k.intent = want, ~k.contended, k.expect = {},
           k.changed = c.changed, k.boostWritten = c.boostWritten, Apply(k)
    PROVE  RunInv'
  <1>1. loaded /\ disc /\ base # NoBaseline /\ want \in Asks /\ Known(k)
    BY DEF RunInv, Acting, Stepping, Releasing, Known
  <1>2. /\ IsComponent(c') /\ c'.intent = want /\ ~c'.contended
        /\ \A w \in c'.expect : sys'[w.file] = w.value
        /\ c'.expect # {} => c'.retry = NoRetry /\ c'.status.result # "error"
        /\ c'.status.result # "drift"
        /\ \A f \in BaseFiles : sys'[f] # was'[f] => c'.changed /\ (f \in BoostFiles => c'.boostWritten)
    BY <1>1, ApplyOwns
  <1>3. UNCHANGED <<loaded, base, disc>>
    BY DEF Acting, agentVars
  <1>4. checkWrites(c)' /\ Known(c)'
    BY <1>2 DEF checkWrites, Known
  <1> QED
    BY <1>1, <1>2, <1>3, <1>4 DEF RunInv

(* A restore that is not complete leaves the setting changed.              *)
LEMMA RestoreRun == ASSUME RunInv, ActRestore PROVE RunInv'
  <1>1. PICK e \in WriteEnds(RestoreWrites) :
            sys' = SysAfter(RestoreWrites, e) /\ was' = WasAfter(RestoreWrites, e) /\ c' = restoreDone(c, e)
    BY DEF ActRestore
  <1>2. loaded /\ IsComponent(c) /\ ~c.contended /\ Known(c) /\ (Own => base # NoBaseline)
        /\ UNCHANGED <<loaded, base, disc>> /\ (disc => base # NoBaseline)
    BY DEF ActRestore, Acting, RunInv, agentVars
  <1> DEFINE n == restoreDone(c, e)
  <1>3. /\ IsComponent(n) /\ n.intent = NoIntent /\ n.expect = {} /\ n.contended = c.contended
        /\ n.status.result = (IF e.result = "ok" THEN "restored" ELSE e.result)
        /\ n.changed = (n.status.result # "restored")
        /\ n.boostWritten = (c.boostWritten /\ ~(e.result = "ok"))
    BY <1>2, RestoreOwn
  <1>4. c' = n
    BY <1>1
  <1> HIDE DEF n
  <1>5. \A f \in BaseFiles : sys'[f] # was'[f] => sys[f] # was[f] /\ e.result # "ok" /\ e.result \in Failing
    BY <1>1, <1>2, RestoreReturns
  <1>6. "restored" \notin Failing
    BY GovernorAssumption
  <1>7. Known(c)' /\ (Own' => Own)
    BY <1>2, <1>3, <1>4, <1>5, <1>6 DEF Known, Own
  <1>8. checkWrites(c)'
    BY <1>3, <1>4 DEF checkWrites
  <1> QED
    BY <1>2, <1>3, <1>4, <1>7, <1>8, NoIntentIsNone DEF RunInv

(* Every act step.                                                         *)
LEMMA ActRun == ASSUME RunInv, Act PROVE RunInv'
  <1>1. /\ loaded /\ IsComponent(c) /\ ~c.contended /\ checkWrites(c) /\ UNCHANGED <<loaded, base, disc>>
        /\ c.intent \in Asks /\ c.expect # {} => c.retry = NoRetry /\ c.status.result # "error"
        /\ c.intent \in Asks => c.status.result # "drift"
        /\ c.expect \in {c.expect, {}} /\ {} \in {c.expect, {}}
    BY DEF RunInv, Act, ActReleaseWait, ActRestore, ActForget, hold, StepWait, StepNewIntent, StepRetry,
           CheckHolds, CheckDropped, CheckDrifts, Checking, Acting, agentVars
  <1>2. Released(c) = c
    BY <1>1 DEF Released
  <1>3. NoIntent \notin Asks
    BY NoIntentIsNone
  <1>4. CASE ActReleaseWait
    BY <1>1, <1>2, <1>4, SameRun DEF ActReleaseWait, nodeVars
  <1>5. CASE ActRestore
    BY <1>5, RestoreRun
  <1>6. CASE ActForget
    <2>1. c' = [endIntent(c, NoIntent) EXCEPT !.retry = NoRetry] /\ sys' = sys /\ was' = was
      BY <1>2, <1>6 DEF ActForget, nodeVars
    <2>2. /\ IsComponent(c') /\ c'.intent = NoIntent /\ c'.expect = {} /\ c'.contended = c.contended
          /\ c'.changed = c.changed /\ c'.boostWritten = c.boostWritten
      BY <1>1, <2>1 DEF endIntent, IsComponent, Fields
    <2> QED
      BY <1>1, <1>3, <2>1, <2>2, SameRun
  <1>7. CASE hold
    <2>1. c' = [c EXCEPT !.intent = NoIntent, !.status = blockedStatus] /\ sys' = sys /\ was' = was
      BY <1>7 DEF hold, nodeVars
    <2> DEFINE st == blockedStatus
    <2> HIDE DEF st
    <2>2. /\ IsComponent(c') /\ c'.intent = NoIntent /\ c'.expect = c.expect /\ c'.contended = c.contended
          /\ c'.changed = c.changed /\ c'.boostWritten = c.boostWritten
      BY <1>1, <2>1 DEF IsComponent, Fields
    <2> QED
      BY <1>1, <1>3, <2>1, <2>2, SameRun
  <1>8. CASE StepWait
    BY <1>1, <1>8, SameRun DEF StepWait, nodeVars
  <1>9. CASE StepNewIntent
    <2> DEFINE k == startIntent(c, want)
    <2>1. /\ IsComponent(k) /\ k.intent = want /\ k.expect = {} /\ ~k.contended
          /\ k.changed = c.changed /\ k.boostWritten = c.boostWritten
      BY <1>1, StartOwn
    <2>2. Acting /\ Stepping /\ Apply(k)
      BY <1>9 DEF StepNewIntent
    <2> HIDE DEF k
    <2> QED
      BY <2>1, <2>2, ApplyRun
  <1>10. CASE StepRetry
    <2>1. Acting /\ Stepping /\ Apply(c) /\ want = c.intent /\ c.intent \in Asks
          /\ (c.retry = 0 \/ c.status.result = "error")
      BY <1>10 DEF StepRetry, Stepping, Releasing
    <2>2. c.expect = {}
      BY <1>1, <2>1, ComponentAssumption DEF NoRetry
    <2> QED
      BY <1>1, <2>1, <2>2, ApplyRun
  <1>11. CASE CheckHolds
    <2>1. c' = checkHolds(c) /\ sys' = sys /\ was' = was
          /\ want = c.intent /\ want \in Asks /\ c.retry = NoRetry /\ c.status.result # "error"
      BY <1>11 DEF CheckHolds, Checking, Stepping, Releasing, nodeVars
    <2>2. /\ IsComponent(c') /\ c'.intent = c.intent /\ c'.expect = c.expect /\ c'.contended = c.contended
          /\ c'.changed = c.changed /\ c'.boostWritten = c.boostWritten /\ c'.retry = c.retry
          /\ c'.status = (IF c.status.result = "drift" THEN c.good ELSE c.status)
      BY <1>1, <2>1 DEF checkHolds, IsComponent, Fields
    <2> QED
      BY <1>1, <2>1, <2>2, SameRun
  <1>12. CASE CheckDropped \/ CheckDrifts
    BY <1>1, <1>12 DEF CheckDropped, CheckDrifts
  <1> QED
    BY <1>4, <1>5, <1>6, <1>7, <1>8, <1>9, <1>10, <1>11, <1>12 DEF Act

(* What is asked for and how the agent runs, when it remembers.            *)
LEMMA RememberedIs ==
    ASSUME Remembered
    PROVE  /\ APIOutcomes = {"ok"} /\ Specs = Asks \cup {NoIntent} /\ NoTwin \notin Specs
           /\ \A i \in Asks : Supported(i) /\ i.boost = "unset"
           /\ Restarts # "never" /\ {"refused", "removed", "drift", "restored", "unsupported"} \cap Failing = {}
           /\ \A s \in {"applied"} \cup Failing : \A x : governorResultWrote(Status(s, x))
  <1>1. /\ Restarts = "synced" /\ ~TwinGone /\ ~APIErrors
        /\ Failing \subseteq {"error", "not-applied"}
        /\ Unsupported = {} /\ Boosts \subseteq {"unset"}
    BY DEF Remembered
  <1>2. APIOutcomes = {"ok"}
    BY <1>1 DEF APIOutcomes
  <1>3. Specs = Asks \cup {NoIntent}
    BY <1>1 DEF Specs
  <1>4. \A i \in Asks : Supported(i) /\ i.boost = "unset" /\ i.preset \in Presets
    BY <1>1 DEF Asks, Supported
  <1>5. NoTwin \notin Asks /\ NoTwin # NoIntent
    BY <1>4 DEF NoTwin, NoIntent, Intent
  <1>6. \A s \in {"applied"} \cup Failing : \A x : governorResultWrote(Status(s, x))
    BY <1>1 DEF governorResultWrote, Status
  <1> QED
    BY <1>1, <1>2, <1>3, <1>4, <1>5, <1>6

(* An act step changes only the component, the node and where the agent is.*)
LEMMA ActApiFrame ==
    ASSUME RunInv, ApiInv, Acting, pc' \in {"idle", "publish", "remove"}, ~c'.refused,
           \A f \in BoostFiles : sys'[f] = was'[f],
           c'.status.result \notin {"drift", "removed"},
           Own' => governorResultWrote(c'.status) /\ pc' # "remove" /\ (pc' = "idle" => Own)
    PROVE  ApiInv'
  <1>1. loaded /\ pc = "act"
    BY DEF RunInv, Acting
  <1>2. UNCHANGED <<spec, mode, exiting, want, disc, loaded, base, stored, published, memo, hwMemo>>
    BY DEF Acting, agentVars, apiVars
  <1>3. governorResultWrote(c'.status) = governorResultWrote(c.status)'
    BY DEF governorResultWrote
  <1>4. governorResultWrote(published)' = governorResultWrote(published)
    BY <1>2 DEF governorResultWrote
  <1> HIDE DEF Own, governorResultWrote
  <1> QED
    BY <1>1, <1>2, <1>3, <1>4 DEF ApiInv

(* An act step that applies: its status says so.                           *)
LEMMA ApplyApi ==
    ASSUME NEW k, Remembered, RunInv, ApiInv, Acting, Stepping, IsComponent(k), k.intent = want, ~k.contended,
           k.expect = {}, k.changed = c.changed, k.boostWritten = c.boostWritten, ~k.refused, Apply(k), pc' = "publish"
    PROVE  ApiInv'
  <1>1. loaded /\ want \in Asks /\ Known(k)
    BY DEF RunInv, Acting, Stepping, Releasing, Known
  <1>2. Supported(want) /\ want.boost = "unset" /\ "refused" \notin Failing
    BY <1>1, RememberedIs
  <1>3. \A f \in BoostFiles : sys[f] = was[f]
    BY DEF ApiInv
  <1>4. /\ \A f \in BoostFiles : sys'[f] = was'[f]
        /\ ~c'.refused /\ c'.status.result \in {"applied"} \cup Failing
    BY <1>1, <1>2, <1>3, ApplyOwns
  <1>5. c'.status.result \in {"applied", "error", "not-applied"}
    BY <1>4 DEF Remembered
  <1>6. governorResultWrote(c'.status)
    BY <1>5 DEF governorResultWrote
  <1> QED
    BY <1>4, <1>5, <1>6, ActApiFrame

(* Every act step, of an agent that remembers.                             *)
LEMMA ActApi == ASSUME Remembered, RunInv, ApiInv, Act PROVE ApiInv'
  <1>1. /\ Acting /\ loaded /\ IsComponent(c) /\ ~c.contended /\ checkWrites(c) /\ Known(c)
        /\ c.intent \in Asks /\ c.expect # {} => c.retry = NoRetry /\ c.status.result # "error"
    BY DEF RunInv, Act, ActReleaseWait, ActRestore, ActForget, hold, StepWait, StepNewIntent, StepRetry,
           CheckHolds, CheckDropped, CheckDrifts, Checking, Acting, agentVars
  <1>2. Released(c) = c
    BY <1>1 DEF Released
  <1>3. /\ disc /\ mode \in {"write", "readonly"} /\ ~c.refused
        /\ \A f \in BoostFiles : sys[f] = was[f]
        /\ c.status.result \notin {"drift", "removed"}
        /\ Own => governorResultWrote(c.status)
    BY <1>1 DEF ApiInv, Remembered
  <1>4. mayRestore
    BY <1>3 DEF mayRestore
  <1>5. ~c.changed => ~Own
    BY <1>1 DEF Own, Known
  <1>6. nodeVars' = nodeVars => Own' = Own /\ \A f \in BoostFiles : sys'[f] = was'[f]
    BY <1>3 DEF Own, nodeVars
  <1>7. CASE ActReleaseWait
    <2>1. c' = c /\ pc' = "idle" /\ nodeVars' = nodeVars
      BY <1>2, <1>7 DEF ActReleaseWait
    <2> QED
      BY <1>1, <1>3, <1>6, <2>1, ActApiFrame
  <1>8. CASE ActRestore
    <2>1. PICK e \in WriteEnds(RestoreWrites) :
              sys' = SysAfter(RestoreWrites, e) /\ was' = WasAfter(RestoreWrites, e) /\ c' = restoreDone(c, e)
      BY <1>8 DEF ActRestore
    <2>2. /\ c'.status.result = (IF e.result = "ok" THEN "restored" ELSE e.result)
          /\ c'.refused = (c.refused \/ (e.result # "ok" /\ e.result = "refused"))
      BY <1>1, <2>1, RestoreOwn
    <2>3. \A f \in BaseFiles : sys'[f] # was'[f] => sys[f] # was[f] /\ e.result # "ok" /\ e.result \in Failing
      BY <1>1, <2>1, RestoreReturns
    <2>4. e.result = "ok" \/ e.result \in Failing
      BY DEF WriteEnds
    <2>5. Failing \subseteq {"error", "not-applied"}
      BY DEF Remembered
    <2>6. \A f \in BoostFiles : sys'[f] = was'[f]
      BY <1>3, <2>3 DEF BaseFiles
    <2>7. Own' => c'.status.result \in {"error", "not-applied"}
      BY <2>2, <2>3, <2>5 DEF Own
    <2>8. Own' => governorResultWrote(c'.status)
      BY <2>7 DEF governorResultWrote
    <2>9. ~c'.refused /\ c'.status.result \notin {"drift", "removed"} /\ pc' = "publish"
      BY <1>3, <1>8, <2>2, <2>4, <2>5 DEF ActRestore
    <2> QED
      BY <1>1, <2>6, <2>8, <2>9, ActApiFrame
  <1>9. CASE ActForget
    <2>1. c' = [endIntent(c, NoIntent) EXCEPT !.retry = NoRetry] /\ nodeVars' = nodeVars /\ ~c.changed
          /\ pc' \in {"idle", "remove"}
      BY <1>2, <1>4, <1>9 DEF ActForget
    <2>2. c'.status = c.status /\ c'.refused = c.refused
      BY <1>1, <2>1 DEF endIntent, IsComponent, Fields
    <2> QED
      BY <1>1, <1>3, <1>5, <1>6, <2>1, <2>2, ActApiFrame
  <1>10. CASE hold
    <2>1. /\ c' = [c EXCEPT !.intent = NoIntent, !.status = blockedStatus] /\ nodeVars' = nodeVars
          /\ mode = "readonly" /\ ~c.changed /\ pc' = "publish"
      BY <1>1, <1>3, <1>4, <1>10 DEF hold, Stepping, Releasing, restoreWritesOff
    <2>2. c'.status = blockedStatus /\ c'.refused = c.refused
      BY <1>1, <2>1 DEF IsComponent, Fields
    <2>3. blockedStatus.result = "disabled"
      BY <2>1 DEF blockedStatus, Status
    <2> QED
      BY <1>1, <1>3, <1>5, <1>6, <2>1, <2>2, <2>3, ActApiFrame
  <1>11. CASE StepWait
    <2>1. c' = c /\ pc' = "publish" /\ nodeVars' = nodeVars
      BY <1>11 DEF StepWait, nodeVars
    <2> QED
      BY <1>1, <1>3, <1>6, <2>1, ActApiFrame
  <1>12. CASE StepNewIntent
    <2> DEFINE k == startIntent(c, want)
    <2>1. /\ IsComponent(k) /\ k.intent = want /\ k.expect = {} /\ ~k.contended
          /\ k.changed = c.changed /\ k.boostWritten = c.boostWritten /\ k.refused = c.refused
      BY <1>1, StartOwn
    <2>2. Acting /\ Stepping /\ Apply(k) /\ pc' = "publish"
      BY <1>12 DEF StepNewIntent
    <2> HIDE DEF k
    <2> QED
      BY <1>3, <2>1, <2>2, ApplyApi
  <1>13. CASE StepRetry
    <2>1. Acting /\ Stepping /\ Apply(c) /\ want = c.intent /\ c.intent \in Asks
          /\ (c.retry = 0 \/ c.status.result = "error") /\ pc' = "publish"
      BY <1>13 DEF StepRetry, Stepping, Releasing
    <2>2. c.expect = {}
      BY <1>1, <2>1, ComponentAssumption DEF NoRetry
    <2> QED
      BY <1>1, <1>3, <2>1, <2>2, ApplyApi
  <1>14. CASE CheckHolds
    <2>1. c' = checkHolds(c) /\ nodeVars' = nodeVars /\ pc' = "publish"
      BY <1>14 DEF CheckHolds, Checking, nodeVars
    <2>2. c'.status = c.status /\ c'.refused = c.refused
      BY <1>1, <1>3, <2>1 DEF checkHolds, IsComponent, Fields
    <2> QED
      BY <1>1, <1>3, <1>6, <2>1, <2>2, ActApiFrame
  <1>15. CASE CheckDropped \/ CheckDrifts
    BY <1>1, <1>15 DEF CheckDropped, CheckDrifts
  <1> QED
    BY <1>7, <1>8, <1>9, <1>10, <1>11, <1>12, <1>13, <1>14, <1>15 DEF Act

(* A status written to the NodeTwin is the component's.                    *)
LEMMA PublishOwn ==
    ASSUME RunInv, Publish
    PROVE  /\ RunInv' /\ loaded /\ c'.refused = c.refused
           /\ Remembered /\ ApiInv => ApiInv'
  <1> DEFINE entry == IF pc = "remove" THEN Removed ELSE c.status
             out == IF entry = Removed THEN [c EXCEPT !.statusWritten = FALSE, !.status = NoStatus]
                    ELSE [c EXCEPT !.statusWritten = TRUE]
  <1>1. loaded /\ IsComponent(c) /\ pc \in {"publish", "remove"} /\ pc' = "idle"
        /\ UNCHANGED <<spec, sys, was, stored, mode, exiting, loaded, base, want, disc, hwMemo>>
    BY DEF Publish, RunInv, nodeVars, agentVars
  <1>2. Patch(entry)
    BY DEF Publish
  <1>3. out.status = (IF entry = Removed THEN NoStatus ELSE c.status)
        /\ \A n \in {c, out} : /\ IsComponent(n) /\ n.status \in {c.status, NoStatus}
                               /\ n.intent = c.intent /\ n.expect = c.expect /\ n.contended = c.contended
                               /\ n.changed = c.changed /\ n.boostWritten = c.boostWritten
                               /\ n.retry = c.retry /\ n.refused = c.refused
    BY <1>1 DEF IsComponent, Fields
  <1> HIDE DEF entry, out
  <1>4. c' \in {c, out}
    <2>1. CASE ShouldWrite(memo, entry)
      BY <1>2, <2>1 DEF Patch, out
    <2>2. CASE ~ShouldWrite(memo, entry)
      BY <1>2, <2>2 DEF Patch, out
    <2> QED
      BY <2>1, <2>2
  <1>5. NoStatus.result = "unset"
    BY DEF NoStatus, Status
  <1>6. RunInv'
    <2>1. c'.status.result \in {c.status.result, "unset"} /\ c'.expect \in {c.expect, {}}
      BY <1>3, <1>4, <1>5
    <2> QED
      BY <1>1, <1>3, <1>4, <2>1, SameRun DEF RunInv
  <1>7. ASSUME Remembered, ApiInv PROVE ApiInv'
    <2>1. APIOutcomes = {"ok"} /\ spec # NoTwin
      BY <1>7, RememberedIs DEF ApiInv
    <2> DEFINE text == IF entry = Removed THEN NoStatus ELSE entry
    <2>2. c' = out /\ published' = text /\ memo' = [payload |-> memo'.payload, age |-> memo'.age]
          /\ (memo'.payload = <<entry>>)
      <3>1. CASE ShouldWrite(memo, entry)
        BY <1>2, <2>1, <3>1 DEF Patch, Remember, out
      <3>2. CASE ~ShouldWrite(memo, entry)
        <4>1. memo.payload = <<entry>> /\ memo' = memo /\ published' = published /\ c' = out
          BY <1>2, <3>2 DEF Patch, ShouldWrite, out
        <4>2. memo.payload # <<>> /\ memo.payload[1] = entry
          BY <4>1
        <4> QED
          BY <1>7, <4>1, <4>2 DEF ApiInv
      <3> QED
        BY <3>1, <3>2
    <2>3. c.status.result # "removed" /\ c.status.result # "drift" /\ Removed.result = "removed"
      BY <1>7 DEF ApiInv, Removed, Status
    <2>4. IF pc = "remove" THEN entry = Removed ELSE entry = c.status /\ entry # Removed
      BY <2>3 DEF entry
    <2>5. published' = c'.status /\ c'.status = (IF pc = "remove" THEN NoStatus ELSE c.status)
      BY <1>3, <2>2, <2>4
    <2>6. c'.status.result \notin {"drift", "removed"}
      BY <1>5, <2>3, <2>5
    <2>7. memo'.payload[1] = entry
      BY <2>2
    <2>8. Own' = Own
      BY <1>1 DEF Own
    <2>9. Own => governorResultWrote(c.status) /\ pc # "remove"
      BY <1>1, <1>7 DEF ApiInv
    <2>10. Own' => governorResultWrote(c.status)' /\ governorResultWrote(published)'
      BY <2>5, <2>8, <2>9 DEF governorResultWrote
    <2>11. ~c'.refused /\ ~c.refused
      BY <1>3, <1>4, <1>7 DEF ApiInv
    <2> HIDE DEF Own, governorResultWrote
    <2>12. \A f \in BoostFiles : sys'[f] = was'[f]
      BY <1>1, <1>7 DEF ApiInv
    <2> QED
      BY <1>1, <1>7, <2>2, <2>5, <2>6, <2>7, <2>10, <2>11, <2>12 DEF ApiInv
  <1> QED
    BY <1>1, <1>3, <1>4, <1>6, <1>7

(* What a prepare starts from knows all that is the agent's.               *)
LEMMA PrepareKnows ==
    ASSUME Restarts = "never" \/ Remembered, OwnInv, Prepare
    PROVE  LET k == LoadedComponent
           IN  /\ IsComponent(k) /\ k.intent = c.intent /\ k.expect = c.expect /\ ~k.contended /\ k.retry = c.retry
               /\ k.refused = c.refused
               /\ (Own \/ loaded) => Known(k)
               /\ Own => k.changed /\ (IF loaded THEN base ELSE stored) # NoBaseline
               /\ k.status \in {c.status, published} /\ (loaded => k = c)
               /\ Remembered /\ ~loaded => k.status = published
  <1> DEFINE k == LoadedComponent
             wr == governorResultWrote(published)
             bw == wr /\ published.applied = "boost"
             sw == published # NoStatus
  <1>1. RunInv /\ IsComponent(c) /\ ~c.contended /\ pc = "idle"
    BY DEF OwnInv, RunInv, Prepare
  <1>2. CASE loaded
    <2>1. k = c
      BY <1>2 DEF LoadedComponent
    <2>2. Known(c) /\ (Own => base # NoBaseline)
      BY <1>1, <1>2 DEF RunInv
    <2>3. Own => c.changed
      BY <2>2 DEF Own, Known
    <2> QED
      BY <1>1, <1>2, <2>1, <2>2, <2>3
  <1>3. CASE ~loaded /\ Restarts = "never"
    <2>1. ~Own
      BY <1>3 DEF OwnInv, OnceInv
    <2>2. k = c \/ k = seed(c, published)
      BY DEF LoadedComponent
    <2>3. seed(c, published) = [c EXCEPT !.status = published, !.statusWritten = sw, !.changed = wr, !.boostWritten = bw]
      BY DEF seed
    <2>4. ~Remembered
      BY <1>3, RememberedIs
    <2> HIDE DEF k, wr, bw, sw, Own
    <2>5. IsComponent(k) /\ k.intent = c.intent /\ k.expect = c.expect /\ ~k.contended /\ k.retry = c.retry
          /\ k.refused = c.refused /\ k.status \in {c.status, published}
      <3>1. CASE k = c
        BY <1>1, <3>1
      <3>2. CASE k = seed(c, published)
        BY <1>1, <2>3, <3>2 DEF IsComponent, Fields
      <3> QED
        BY <2>2, <3>1, <3>2
    <2> QED
      BY <1>3, <2>1, <2>4, <2>5 DEF k
  <1>4. CASE ~loaded /\ Remembered
    <2>1. ApiInv /\ spec # NoTwin
      BY <1>4, RememberedIs DEF OwnInv, ApiInv
    <2>2. k = [c EXCEPT !.status = published, !.statusWritten = sw, !.changed = wr, !.boostWritten = bw]
      BY <1>4, <2>1 DEF LoadedComponent, seed
    <2>3. (Own => wr /\ stored # NoBaseline) /\ \A f \in BoostFiles : sys[f] = was[f]
      BY <1>1, <1>4, <2>1 DEF ApiInv
    <2> HIDE DEF k, wr, bw, sw
    <2>4. IsComponent(k) /\ k.intent = c.intent /\ k.expect = c.expect /\ ~k.contended /\ k.retry = c.retry
          /\ k.refused = c.refused /\ k.status = published /\ k.changed = wr
      BY <1>1, <2>2 DEF IsComponent, Fields
    <2>5. Own => Known(k)
      BY <2>3, <2>4 DEF Known
    <2> QED
      BY <1>4, <2>3, <2>4, <2>5 DEF k
  <1> QED
    BY <1>2, <1>3, <1>4

(* A prepare: the baseline follows the node only while nothing on it is    *)
(* the agent's.                                                            *)
LEMMA PrepareOwn ==
    ASSUME Restarts = "never" \/ Remembered, OwnInv, Prepare
    PROVE  /\ OwnInv'
           /\ base' # (IF loaded THEN base ELSE stored) => \A f \in BaseFiles : base'[f] = was[f]
  <1> DEFINE k == LoadedComponent
             old == IF loaded THEN base ELSE stored
  <1>1. PICK found \in IF Gaps /\ ~calm THEN BOOLEAN ELSE {TRUE} :
            /\ base' = NextBaseline(k, old, found) /\ c' = k /\ disc' = found
            /\ UpsertNodeHardware(NextBaseline(k, old, found), found, ~k.refused)
    BY DEF Prepare
  <1>2. /\ IsComponent(k) /\ k.intent = c.intent /\ k.expect = c.expect /\ ~k.contended /\ k.retry = c.retry
        /\ k.refused = c.refused
        /\ (Own \/ loaded) => Known(k)
        /\ Own => k.changed /\ old # NoBaseline
        /\ k.status \in {c.status, published} /\ (loaded => k = c)
        /\ Remembered /\ ~loaded => k.status = published
    BY PrepareKnows
  <1>3. /\ pc = "idle" /\ ~exiting /\ loaded' = TRUE /\ want' = spec /\ pc' = "act"
        /\ UNCHANGED <<spec, sys, was, published, mode, exiting, memo>>
    BY DEF Prepare, nodeVars
  <1> HIDE DEF k, old
  <1>4. /\ base' = old \/ (base' = BaselineOf(sys) /\ (old = NoBaseline \/ ~k.changed))
        /\ disc' => base' # NoBaseline
    BY <1>1, BaselineIsSome DEF NextBaseline
  <1>5. base' # old => ~Own /\ base' = BaselineOf(sys)
    BY <1>2, <1>4
  <1>6. base' # old => \A f \in BaseFiles : base'[f] = was[f]
    BY <1>5 DEF BaselineOf, Own
  <1>7. Own' = Own /\ (Own => base' # NoBaseline)
    <2>1. Own' = Own
      BY <1>3 DEF Own
    <2> HIDE DEF Own
    <2> QED
      BY <1>2, <1>5, <2>1
  <1>8. RunInv'
    <2>1. Known(c)'
      <3>1. CASE Own \/ loaded
        BY <1>1, <1>2, <1>3, <3>1 DEF Known
      <3>2. CASE ~Own
        BY <1>3, <3>2 DEF Known, Own
      <3> QED
        BY <3>1, <3>2
    <2>2. checkWrites(c)'
      BY <1>1, <1>2, <1>3 DEF checkWrites, OwnInv, RunInv
    <2>3. /\ c'.intent \in Asks /\ c'.expect # {} => c'.retry = NoRetry /\ c'.status.result # "error"
          /\ c'.intent \in Asks => c'.status.result # "drift"
      BY <1>1, <1>2, NoIntentIsNone DEF OwnInv, RunInv
    <2> HIDE DEF Own
    <2> QED
      BY <1>1, <1>2, <1>3, <1>4, <1>7, <2>1, <2>2, <2>3 DEF RunInv
  <1>9. ASSUME Restarts = "never" PROVE OnceInv'
    <2>1. ~exiting
      BY <1>3
    <2> QED
      BY <1>3, <2>1 DEF OnceInv
  <1>10. ASSUME Remembered PROVE ApiInv'
    <2>1. ApiInv /\ Specs = Asks \cup {NoIntent} /\ APIOutcomes = {"ok"} /\ ~Gaps
      BY <1>10, RememberedIs DEF OwnInv, Remembered
    <2>2. disc' /\ found /\ hwMemo = NoMemo
      BY <1>1, <2>1 DEF ApiInv
    <2> DEFINE b == NextBaseline(k, old, found)
               block == IF found THEN <<b, BaselineOf(sys), ~k.refused>> ELSE <<>>
    <2>3. base' = b /\ UpsertNodeHardware(b, found, ~k.refused)
      BY <1>1
    <2>4. ShouldWrite(hwMemo, block)
      <3> HIDE DEF block
      <3>1. NoMemo.payload = <<>>
        BY DEF NoMemo
      <3> QED
        BY <2>2, <3>1 DEF ShouldWrite
    <2> HIDE DEF b
    <2>5. hwMemo' = NoMemo /\ stored' = b
      BY <2>1, <2>2, <2>3, <2>4 DEF UpsertNodeHardware
    <2>6. c'.status.result \notin {"drift", "removed"} /\ ~c'.refused /\ ~c.refused
      BY <1>1, <1>2, <2>1 DEF ApiInv
    <2>7. Own => governorResultWrote(published) /\ (loaded => governorResultWrote(c.status))
      BY <1>3, <2>1 DEF ApiInv
    <2>8. Own' => governorResultWrote(c.status)' /\ governorResultWrote(published)'
      <3>1. c'.status = (IF loaded THEN c.status ELSE published) /\ published' = published
        BY <1>1, <1>2, <1>3, <1>10
      <3> QED
        BY <1>7, <2>7, <3>1 DEF governorResultWrote
    <2>9. \A f \in BoostFiles : sys'[f] = was'[f]
      BY <1>3, <2>1 DEF ApiInv
    <2> HIDE DEF Own, governorResultWrote
    <2> QED
      BY <1>3, <2>1, <2>2, <2>3, <2>5, <2>6, <2>8, <2>9 DEF ApiInv
  <1>11. OwnInv'
    BY <1>8, <1>9, <1>10, RememberedIs DEF OwnInv
  <1> QED
    BY <1>6, <1>11 DEF old

(* A new process knows nothing, and needs to know nothing yet.             *)
LEMMA StartOwns ==
    ASSUME Remembered, OwnInv, pc = "idle", NEW m \in Modes, Start(m)
    PROVE  OwnInv'
  <1>1. /\ mode' = m /\ pc' = "idle" /\ exiting' = FALSE /\ loaded' = FALSE /\ disc' = FALSE /\ want' = NoIntent
        /\ c' = newComponent /\ memo' = NoMemo /\ hwMemo' = NoMemo
        /\ UNCHANGED <<spec, sys, was, stored, published>>
    BY DEF Start, nodeVars, apiVars
  <1>2. /\ IsComponent(newComponent) /\ ~newComponent.contended /\ newComponent.expect = {} /\ ~newComponent.refused
        /\ newComponent.intent = NoIntent /\ newComponent.status.result = "unset"
    BY DEF newComponent, IsComponent, Fields, NoStatus, Status
  <1>3. RunInv'
    BY <1>1, <1>2, NoIntentIsNone DEF RunInv, checkWrites
  <1>4. RunInv /\ ApiInv
    BY RememberedIs DEF OwnInv
  <1>5. Own' = Own /\ governorResultWrote(published)' = governorResultWrote(published)
    BY <1>1 DEF Own, governorResultWrote
  <1>6. Own => stored # NoBaseline /\ governorResultWrote(published)
    BY <1>4 DEF RunInv, ApiInv
  <1>7. NoMemo = [payload |-> NoMemo.payload, age |-> NoMemo.age] /\ NoMemo.payload = <<>>
    BY DEF NoMemo
  <1>8. \A f \in BoostFiles : sys'[f] = was'[f]
    BY <1>1, <1>4 DEF ApiInv
  <1> HIDE DEF Own, governorResultWrote
  <1>9. ApiInv'
    BY <1>1, <1>2, <1>4, <1>5, <1>6, <1>7, <1>8 DEF ApiInv
  <1> QED
    BY <1>3, <1>9, RememberedIs DEF OwnInv

(* SIGTERM.                                                                *)
LEMMA TerminateOwns ==
    ASSUME Remembered, OwnInv, Terminate
    PROVE  OwnInv'
  <1>1. RunInv /\ ApiInv /\ IsComponent(c)
    BY RememberedIs DEF OwnInv, RunInv
  <1>2. /\ pc = "idle" /\ exiting' = TRUE
        /\ UNCHANGED <<spec, sys, was, stored, published, mode, loaded, base, disc, hwMemo, memo>>
        /\ \/ loaded /\ pc' = "act" /\ want' = NoIntent /\ c' = [c EXCEPT !.retry = NoRetry]
           \/ pc' = pc /\ want' = want /\ c' = c
    BY DEF Terminate, nodeVars, apiVars
  <1>3. /\ IsComponent(c') /\ c'.intent = c.intent /\ c'.expect = c.expect /\ c'.contended = c.contended
        /\ c'.status = c.status /\ c'.changed = c.changed /\ c'.boostWritten = c.boostWritten /\ c'.refused = c.refused
        /\ c.retry = NoRetry => c'.retry = NoRetry
    BY <1>1, <1>2 DEF IsComponent, Fields
  <1>4. RunInv'
    <2>1. c'.expect \in {c.expect, {}}
      BY <1>3
    <2>2. /\ c'.intent \in Asks /\ c'.expect # {} => c'.retry = NoRetry /\ c'.status.result # "error"
          /\ c'.intent \in Asks => c'.status.result # "drift"
          /\ ~loaded => pc' = "idle" /\ c'.intent = NoIntent /\ c'.expect = {}
          /\ ~c'.contended
      BY <1>1, <1>2, <1>3 DEF RunInv
    <2> QED
      BY <1>1, <1>2, <1>3, <2>1, <2>2, SameRun
  <1>5. /\ Own' = Own /\ governorResultWrote(published)' = governorResultWrote(published)
        /\ governorResultWrote(c.status)' = governorResultWrote(c.status)
    BY <1>2, <1>3 DEF Own, governorResultWrote
  <1>6. \A f \in BoostFiles : sys'[f] = was'[f]
    BY <1>1, <1>2 DEF ApiInv
  <1> HIDE DEF Own, governorResultWrote
  <1>7. ApiInv'
    BY <1>1, <1>2, <1>3, <1>5, <1>6 DEF ApiInv
  <1> QED
    BY <1>4, <1>7, RememberedIs DEF OwnInv

(* A tick, a change of the intent and a world at rest.                     *)
LEMMA QuietOwns ==
    ASSUME Restarts = "never" \/ Remembered, OwnInv, Tick \/ SpecChanges \/ CalmDown
    PROVE  OwnInv'
  <1>1. RunInv /\ IsComponent(c)
    BY DEF OwnInv, RunInv
  <1>2. /\ UNCHANGED <<sys, was, stored, mode, exiting, loaded, base, want, disc, pc>>
        /\ c' = c \/ c' = Aged(c)
    BY DEF Tick, SpecChanges, CalmDown, nodeVars, apiVars, agentVars
  <1>3. /\ IsComponent(c') /\ c'.intent = c.intent /\ c'.expect = c.expect /\ c'.contended = c.contended
        /\ c'.refused = c.refused /\ c'.status = c.status /\ c'.changed = c.changed
        /\ c'.boostWritten = c.boostWritten /\ (c.retry = NoRetry => c'.retry = NoRetry)
    BY <1>1, <1>2, AgedOwn
  <1>4. RunInv'
    <2>1. c'.expect \in {c.expect, {}}
      BY <1>3
    <2>2. /\ c'.intent \in Asks /\ c'.expect # {} => c'.retry = NoRetry /\ c'.status.result # "error"
          /\ c'.intent \in Asks => c'.status.result # "drift"
          /\ ~loaded => pc' = "idle" /\ c'.intent = NoIntent /\ c'.expect = {}
          /\ ~c'.contended
      BY <1>1, <1>2, <1>3 DEF RunInv
    <2> QED
      BY <1>1, <1>2, <1>3, <2>1, <2>2, SameRun
  <1>5. Own' = Own
    BY <1>2 DEF Own
  <1>6. ASSUME Restarts = "never" PROVE OnceInv'
    <2>1. OnceInv
      BY <1>6 DEF OwnInv
    <2> HIDE DEF Own
    <2> QED
      BY <1>2, <1>5, <2>1 DEF OnceInv
  <1>7. ASSUME Remembered PROVE ApiInv'
    <2>1. ApiInv /\ NoTwin \notin Specs
      BY <1>7, RememberedIs DEF OwnInv
    <2>2. published' = published /\ spec' \in Specs
      BY <2>1 DEF ApiInv, Tick, SpecChanges, CalmDown, apiVars
    <2>3. hwMemo' = NoMemo
      BY <2>1 DEF ApiInv, Tick, SpecChanges, CalmDown
    <2>4. memo' = [payload |-> memo'.payload, age |-> memo'.age] /\ memo'.payload = memo.payload
      <3> DEFINE a == Older(memo.age, Rewrite)
      <3>1. memo' = memo \/ memo' = [memo EXCEPT !.age = a]
        BY DEF Tick, SpecChanges, CalmDown
      <3>2. memo = [payload |-> memo.payload, age |-> memo.age]
        BY <2>1 DEF ApiInv
      <3> HIDE DEF a
      <3> QED
        BY <3>1, <3>2
    <2>5. /\ governorResultWrote(published)' = governorResultWrote(published)
          /\ governorResultWrote(c.status)' = governorResultWrote(c.status)
      BY <1>3, <2>2 DEF governorResultWrote
    <2>6. \A f \in BoostFiles : sys'[f] = was'[f]
      BY <1>2, <2>1 DEF ApiInv
    <2> HIDE DEF Own, governorResultWrote
    <2> QED
      BY <1>2, <1>3, <1>5, <2>1, <2>2, <2>3, <2>4, <2>5, <2>6 DEF ApiInv
  <1> QED
    BY <1>4, <1>6, <1>7, RememberedIs DEF OwnInv

(* Every step.                                                             *)
LEMMA OwnStep ==
    ASSUME ~Rivals, Restarts = "never" \/ Remembered, OwnInv, [Next]_vars
    PROVE  OwnInv'
  <1>1. CASE Prepare
    BY <1>1, PrepareOwn
  <1>2. CASE Act
    <2>1. RunInv'
      BY <1>2, ActRun DEF OwnInv
    <2>2. Restarts = "never" => OnceInv'
      <3>1. RunInv /\ pc = "act" /\ UNCHANGED <<exiting, loaded>>
        BY <1>2 DEF OwnInv, Act, ActReleaseWait, ActRestore, ActForget, hold, StepWait, StepNewIntent, StepRetry,
                    CheckHolds, CheckDropped, CheckDrifts, Checking, Acting, agentVars
      <3> QED
        BY <3>1 DEF OwnInv, RunInv, OnceInv
    <2>3. Remembered => ApiInv'
      BY <1>2, ActApi, RememberedIs DEF OwnInv
    <2> QED
      BY <2>1, <2>2, <2>3, RememberedIs DEF OwnInv
  <1>3. CASE Publish
    <2>1. RunInv' /\ loaded /\ UNCHANGED <<exiting, loaded>>
      BY <1>3, PublishOwn DEF OwnInv, Publish, agentVars
    <2>2. Restarts = "never" => OnceInv'
      BY <2>1 DEF OwnInv, OnceInv
    <2>3. Remembered => ApiInv'
      BY <1>3, PublishOwn, RememberedIs DEF OwnInv
    <2> QED
      BY <2>1, <2>2, <2>3, RememberedIs DEF OwnInv
  <1>4. CASE Crash
    <2>1. Restarts # "never" /\ Remembered
      BY <1>4 DEF Crash
    <2>2. pc = "idle" /\ \E m \in Modes : Start(m)
      BY <1>4, <2>1 DEF Crash, Synced, Remembered
    <2> QED
      BY <2>1, <2>2, StartOwns
  <1>5. CASE Restart
    <2>1. Remembered
      BY <1>5 DEF Restart, OwnInv, OnceInv
    <2> QED
      BY <1>5, <2>1, StartOwns DEF Restart
  <1>6. CASE Terminate
    <2>1. Remembered
      BY <1>6 DEF Terminate
    <2> QED
      BY <1>6, <2>1, TerminateOwns
  <1>7. CASE Tick \/ SpecChanges \/ CalmDown
    BY <1>7, QuietOwns
  <1>8. CASE RivalWrites
    BY <1>8 DEF RivalWrites
  <1>9. CASE UNCHANGED vars
    BY <1>9 DEF vars, nodeVars, apiVars, agentVars, OwnInv, RunInv, ApiInv, OnceInv, Known, Own, IsComponent,
                checkWrites, governorResultWrote
  <1> QED
    BY <1>1, <1>2, <1>3, <1>4, <1>5, <1>6, <1>7, <1>8, <1>9 DEF Next, Agent

(* At the start nothing on the node is the agent's.                        *)
LEMMA OwnStarts ==
    ASSUME Init
    PROVE  OwnInv
  <1>1. /\ IsComponent(newComponent) /\ ~newComponent.contended /\ newComponent.expect = {} /\ ~newComponent.refused
        /\ newComponent.intent = NoIntent /\ newComponent.status.result = "unset"
    BY DEF newComponent, IsComponent, Fields, NoStatus, Status
  <1>2. ~Own /\ \A f \in BoostFiles : sys[f] = was[f]
    BY DEF Init, Own
  <1>3. RunInv
    BY <1>1, NoIntentIsNone DEF Init, RunInv, checkWrites
  <1>4. NoMemo = [payload |-> NoMemo.payload, age |-> NoMemo.age] /\ NoMemo.payload = <<>> /\ NoStatus.result = "unset"
    BY DEF NoMemo, NoStatus, Status
  <1> HIDE DEF Own
  <1>5. ApiInv /\ OnceInv
    BY <1>1, <1>2, <1>4 DEF Init, ApiInv, OnceInv
  <1> QED
    BY <1>3, <1>5 DEF OwnInv

(* Without another writer, and with processes that either never end or can *)
(* learn from the API server what they must know, a baseline taken from a  *)
(* discovery never holds a value the agent itself wrote: however applies,  *)
(* failed restores, retries, kills and restarts follow each other.         *)
THEOREM OwnIsNeverRecorded ==
    ASSUME ~Rivals, Restarts = "never" \/ Remembered
    PROVE  Spec => NeverRecordsOwn
  <1> DEFINE Taken == (pc = "idle" /\ pc' = "act" /\ loaded' /\ base' # (IF loaded THEN base ELSE stored))
                          => \A f \in BaseFiles : base'[f] = was[f]
  <1>1. Init => OwnInv
    BY OwnStarts
  <1>2. OwnInv /\ [Next]_vars => OwnInv'
    BY OwnStep
  <1>3. OwnInv /\ [Next]_vars => [Taken]_vars
    <2> SUFFICES ASSUME OwnInv, Next, pc = "idle", pc' = "act", loaded',
                        base' # (IF loaded THEN base ELSE stored)
                 PROVE  \A f \in BaseFiles : base'[f] = was[f]
      OBVIOUS
    <2>1. CASE Prepare
      BY <2>1, PrepareOwn
    <2>2. CASE ~Prepare
      <3>1. ~Act /\ ~Publish /\ ~Tick /\ ~SpecChanges /\ ~RivalWrites /\ ~CalmDown
        BY DEF Act, ActReleaseWait, ActRestore, ActForget, hold, StepWait, StepNewIntent, StepRetry, CheckHolds,
               CheckDropped, CheckDrifts, Checking, Acting, Publish, Tick, SpecChanges, RivalWrites, CalmDown
      <3>2. ~Crash /\ ~Restart
        BY DEF Crash, Restart, Start
      <3>3. Terminate
        BY <2>2, <3>1, <3>2 DEF Next, Agent
      <3>4. base' = base /\ loaded
        BY <3>3 DEF Terminate
      <3> QED
        BY <3>4
    <2> QED
      BY <2>1, <2>2
  <1> HIDE DEF Taken
  <1>4. Spec => [][Taken]_vars
    BY <1>1, <1>2, <1>3, PTL DEF Spec
  <1> QED
    BY <1>4 DEF Taken, NeverRecordsOwn

=============================================================================
