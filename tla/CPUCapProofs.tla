---------------------------- MODULE CPUCapProofs ----------------------------
(***************************************************************************)
(* Theorems about the agent's CPU cap, for any number of CPUs and          *)
(* packages, any caps, any trip count, cooldown and control mode, with     *)
(* failures and restarts.                                                  *)
(***************************************************************************)
EXTENDS CPUCap, TLAPS

\* The absent intents are intents.
LEMMA NoCapIntents == NoTwin \in Intents /\ NoCap \in Intents
  BY DEF Intents

\* A backend and a result make a status.
LEMMA StatusType ==
  ASSUME NEW b \in {"none", "rapl", "dvfs"}, NEW r \in {"none", "applied", "blocked", "error"}
  PROVE  Status(b, r) \in Statuses
  BY DEF Status, Statuses

\* The initial state is of the right type.
LEMMA InitTypeOK == Init => TypeOK
  <1> SUFFICES ASSUME Init PROVE TypeOK
    OBVIOUS
  <1>1. twin \in Intents /\ httpLimit \in Intents /\ limit \in [Packages -> Intents]
    BY NoCapIntents DEF Init
  <1>2. power \in Sides \cup {"none"} /\ seen \in Seq(Sides)
    BY DEF Init
  <1>3. status \in Statuses
    BY StatusType DEF Init
  <1>4. /\ httpThrottle \in 0..100 /\ throttlePct \in 0..100
        /\ above \in 0..(TripCount - 1) /\ below \in 0..(TripCount - 1)
        /\ cool \in 0..Cooldown /\ specAge \in 0..(SpecTimeout + 1)
    BY CPUCapAssumption DEF Init
  <1>5. QED
    BY <1>1, <1>2, <1>3, <1>4 DEF Init, TypeOK

\* A throttle step stays within 0..100.
LEMMA NextThrottlePctRange ==
  ASSUME TypeOK, NEW dir \in {"up", "down"}
  PROVE  NextThrottlePct(dir) \in 0..100
  BY CPUCapAssumption DEF TypeOK, NextThrottlePct

\* What the percent fallback leaves.
LEMMA PercentFallbackType ==
  ASSUME TypeOK, NEW pct \in Pcts, applyCPUPercentFallback(pct)
  PROVE  /\ throttled' \in SUBSET CPUs
         /\ throttlePct' \in 0..100
         /\ httpThrottle' \in 0..100
         /\ httpThrottleCleared' \in BOOLEAN
         /\ status' \in Statuses
         /\ UNCHANGED <<limit, above, below, cool, seen>>
  <1>1. 100 - pct \in 0..100
    BY CPUCapAssumption
  <1>2. \A n : ThrottleFiles(100 - pct, n) \in SUBSET CPUs
    BY DEF ThrottleFiles
  <1>3. ASSUME PercentOnHost(pct)
        PROVE  /\ throttled' \in SUBSET CPUs
               /\ throttlePct' \in 0..100
               /\ status' \in Statuses
    <2>1. CASE DVFSEnabled /\ NCPU > 0
      <3>1. PICK n \in WriteCounts :
              /\ throttled' = ThrottleFiles(100 - pct, n)
              /\ throttlePct' = IF n = NCPU THEN 100 - pct ELSE throttlePct
              /\ status' = Status("dvfs", IF n = NCPU THEN "applied" ELSE "error")
        BY <1>3, <2>1 DEF PercentOnHost
      <3>2. QED
        BY <1>1, <1>2, <3>1, StatusType DEF TypeOK
    <2>2. CASE ~(DVFSEnabled /\ NCPU > 0)
      BY <1>3, <2>2, StatusType DEF PercentOnHost, TypeOK
    <2>3. QED
      BY <2>1, <2>2
  <1>4. ASSUME PercentOverHTTP(pct)
        PROVE  /\ throttled' \in SUBSET CPUs
               /\ throttlePct' \in 0..100
               /\ httpThrottle' \in 0..100
               /\ status' \in Statuses
    BY <1>1, <1>3, <1>4, StatusType DEF PercentOverHTTP, HttpThrottleAfter, TypeOK
  <1>5. QED
    BY <1>3, <1>4 DEF applyCPUPercentFallback, TypeOK, loopVars

\* What one round of the DVFS loop leaves.
LEMMA DVFSFallbackType ==
  ASSUME TypeOK, DVFSFallback
  PROVE  /\ throttled' \in SUBSET CPUs
         /\ throttlePct' \in 0..100
         /\ httpThrottle' \in 0..100
         /\ above' \in 0..(TripCount - 1) /\ below' \in 0..(TripCount - 1)
         /\ cool' \in 0..Cooldown
         /\ seen' \in Seq(Sides)
         /\ httpThrottleCleared' \in BOOLEAN
         /\ status' \in Statuses
         /\ UNCHANGED limit
  <1> DEFINE Goal == /\ throttled' \in SUBSET CPUs
                     /\ throttlePct' \in 0..100
                     /\ httpThrottle' \in 0..100
                     /\ above' \in 0..(TripCount - 1) /\ below' \in 0..(TripCount - 1)
                     /\ cool' \in 0..Cooldown
                     /\ seen' \in Seq(Sides)
                     /\ status' \in Statuses
  <1>1. ASSUME LoopHold PROVE Goal
    BY <1>1, StatusType DEF LoopHold, TypeOK, loopVars
  <1>2. ASSUME LoopCount PROVE Goal
    <2>1. above' \in 0..(TripCount - 1) /\ below' \in 0..(TripCount - 1)
      BY <1>2, CPUCapAssumption DEF LoopCount, AboveCount, BelowCount, TypeOK
    <2>2. seen' \in Seq(Sides)
      <3> DEFINE s == Append(seen, power)
      <3>1. s \in Seq(Sides) /\ s # <<>>
        BY <1>2 DEF LoopCount, TypeOK
      <3>2. Tail(s) \in Seq(Sides)
        BY <3>1
      <3>3. QED
        BY <1>2, <3>1, <3>2 DEF LoopCount
    <2>3. QED
      BY <1>2, <2>1, <2>2, StatusType DEF LoopCount, TypeOK
  <1>3. ASSUME LoopTrip PROVE Goal
    <2>1. PICK dir \in {"up", "down"} :
            /\ ThrottleStep(dir)
            /\ dir = "up" => AboveCount >= TripCount
            /\ dir = "down" => AboveCount < TripCount
      BY <1>3 DEF LoopTrip
    <2>2. NextThrottlePct(dir) \in 0..100
      BY NextThrottlePctRange
    <2>3. above' \in 0..(TripCount - 1) /\ below' \in 0..(TripCount - 1)
      BY <2>1, CPUCapAssumption DEF ThrottleStep, AboveCount, BelowCount, TypeOK
    <2>4. throttled' \in SUBSET CPUs /\ httpThrottle' \in 0..100
      BY <2>1, <2>2 DEF ThrottleStep, ThrottleFiles, HttpThrottleAfter, TypeOK
    <2>5. seen' \in Seq(Sides) /\ cool' \in 0..Cooldown /\ throttlePct' \in 0..100
      BY <2>1, <2>2, CPUCapAssumption DEF ThrottleStep
    <2>6. status' \in Statuses
      BY <2>1, StatusType DEF ThrottleStep
    <2>7. QED
      BY <2>3, <2>4, <2>5, <2>6
  <1>4. ASSUME /\ status' = Status("none", "blocked")
               /\ UNCHANGED <<throttled, httpThrottle, throttlePct, loopVars, httpThrottleCleared>>
        PROVE  Goal
    BY <1>4, StatusType DEF TypeOK, loopVars
  <1>5. Goal
    BY <1>1, <1>2, <1>3, <1>4 DEF DVFSFallback
  <1>6. httpThrottleCleared' \in BOOLEAN /\ UNCHANGED limit
    BY DEF DVFSFallback, TypeOK
  <1>7. QED
    BY <1>5, <1>6

\* What the restore after RAPL came back leaves.
LEMMA RestoreAllMaxType ==
  ASSUME TypeOK, RestoreAllMax
  PROVE  throttled' \in SUBSET CPUs /\ throttlePct' \in 0..100
  <1>1. CASE throttlePct = 0
    BY <1>1 DEF RestoreAllMax, TypeOK
  <1>2. CASE throttlePct # 0
    <2>1. PICK n \in WriteCounts :
            /\ throttled' = ThrottleFiles(0, n)
            /\ throttlePct' = IF n = NCPU /\ NCPU > 0 THEN 0 ELSE throttlePct
      BY <1>2 DEF RestoreAllMax
    <2>2. ThrottleFiles(0, n) \in SUBSET CPUs
      BY DEF ThrottleFiles
    <2>3. QED
      BY <2>1, <2>2 DEF TypeOK
  <1>3. QED
    BY <1>1, <1>2

\* Every step keeps the types.
LEMMA NextTypeOK == TypeOK /\ [Next]_vars => TypeOK'
  <1> SUFFICES ASSUME TypeOK, [Next]_vars PROVE TypeOK'
    OBVIOUS
  <1>1. ASSUME SpecRead
        PROVE  /\ UNCHANGED <<twin, zones, power, faulty>>
               /\ specAge' \in 0..(SpecTimeout + 1) /\ capsRelaxed' \in BOOLEAN
    BY <1>1, CPUCapAssumption DEF SpecRead, envVars, TypeOK
  <1>2. CASE ReconcileReadError
    BY <1>2 DEF ReconcileReadError, vars, envVars, hostVars, httpVars, loopVars, specVars, TypeOK
  <1>3. CASE ReconcileStale
    BY <1>3, StatusType DEF ReconcileStale, envVars, hostVars, httpVars, loopVars, TypeOK
  <1>4. CASE ReconcileNoTwin
    BY <1>1, <1>4, StatusType DEF ReconcileNoTwin, hostVars, httpVars, loopVars, TypeOK
  <1>5. CASE ReconcileNoCap
    BY <1>1, <1>5 DEF ReconcileNoCap, hostVars, httpVars, loopVars, TypeOK
  <1>6. CASE ReconcilePercent
    <2>1. twin.v \in Pcts
      BY <1>6 DEF ReconcilePercent, TypeOK, Intents, NoTwin, NoCap, WattCaps, PctCaps
    <2>2. QED
      BY <1>1, <1>6, <2>1, PercentFallbackType DEF ReconcilePercent, TypeOK
  <1>7. CASE ReconcileHttpRapl
    <2>1. httpThrottle' \in 0..100
      <3>1. httpThrottle' \in {httpThrottle, 0}
        BY <1>7 DEF ReconcileHttpRapl, HttpThrottleAfter
      <3>2. QED
        BY <3>1 DEF TypeOK
    <2>2. httpThrottleCleared' \in BOOLEAN
      BY <1>7, Zenon DEF ReconcileHttpRapl, TypeOK
    <2>3. QED
      BY <1>1, <1>7, <2>1, <2>2, RestoreAllMaxType, StatusType DEF ReconcileHttpRapl, loopVars, TypeOK
  <1>8. CASE ReconcileHttpRaplFails
    <2>1. httpLimit' \in Intents
      BY <1>8 DEF ReconcileHttpRaplFails, TypeOK
    <2>2. CASE twin.kind = "pct" /\ applyCPUPercentFallback(twin.v)
      <3>1. twin.v \in Pcts
        BY <2>2 DEF TypeOK, Intents, NoTwin, NoCap, WattCaps, PctCaps
      <3>2. QED
        BY <1>1, <1>8, <2>1, <2>2, <3>1, PercentFallbackType DEF ReconcileHttpRaplFails, TypeOK
    <2>3. CASE DVFSFallback
      BY <1>1, <1>8, <2>1, <2>3, DVFSFallbackType DEF ReconcileHttpRaplFails, TypeOK
    <2>4. QED
      BY <1>8, <2>2, <2>3 DEF ReconcileHttpRaplFails
  <1>9. CASE ReconcileHostRapl
    <2>1. limit' \in [Packages -> Intents]
      BY <1>9 DEF ReconcileHostRapl, TypeOK
    <2>2. QED
      BY <1>1, <1>9, <2>1, RestoreAllMaxType, StatusType DEF ReconcileHostRapl, httpVars, loopVars, TypeOK
  <1>10. CASE RaplWritesFail
    BY <1>1, <1>10 DEF RaplWritesFail, hostVars, httpVars, loopVars, TypeOK
  <1>11. CASE ReconcileDVFS
    BY <1>1, <1>11, DVFSFallbackType DEF ReconcileDVFS, TypeOK
  <1>12. CASE Tick
    BY <1>12, CPUCapAssumption DEF Tick, envVars, hostVars, httpVars, TypeOK
  <1>13. CASE Environment
    BY <1>13 DEF Environment, hostVars, httpVars, loopVars, specVars, TypeOK
  <1>14. CASE Restart
    <2>1. /\ throttlePct' \in 0..100 /\ above' \in 0..(TripCount - 1) /\ below' \in 0..(TripCount - 1)
          /\ cool' \in 0..Cooldown /\ specAge' \in 0..(SpecTimeout + 1)
      BY <1>14, CPUCapAssumption DEF Restart
    <2>2. seen' \in Seq(Sides)
      BY <1>14 DEF Restart
    <2>3. QED
      BY <1>14, <2>1, <2>2 DEF Restart, envVars, hostVars, httpVars, TypeOK
  <1>15. CASE UNCHANGED vars
    BY <1>15 DEF vars, envVars, hostVars, httpVars, loopVars, specVars, TypeOK
  <1>16. QED
    BY <1>2, <1>3, <1>4, <1>5, <1>6, <1>7, <1>8, <1>9, <1>10, <1>11, <1>12, <1>13, <1>14, <1>15
       DEF Next, Reconcile

\* The agent's CPU cap state is well typed: ThrottlePct stays a percent, the
\* counters below the trip count, whatever fails and however often the agent
\* restarts.
THEOREM TypeCorrect == Spec => []TypeOK
  BY InitTypeOK, NextTypeOK, PTL DEF Spec

\* Every step that may put a throttle on the HTTP backend takes the flag
\* down, and the flag goes up only with an answered command that set 0.
LEMMA ClearedStep == TypeOK /\ ClearedMeansClear /\ [Next]_vars => ClearedMeansClear'
  <1> SUFFICES ASSUME TypeOK, ClearedMeansClear, [Next]_vars PROVE ClearedMeansClear'
    OBVIOUS
  <1> USE DEF ClearedMeansClear
  <1>1. ASSUME NEW pct, applyCPUPercentFallback(pct) PROVE ClearedMeansClear'
    BY <1>1 DEF applyCPUPercentFallback, TypeOK
  <1>2. ASSUME DVFSFallback PROVE ClearedMeansClear'
    BY <1>2 DEF DVFSFallback, LoopHold, LoopCount, LoopTrip, ThrottleStep, TypeOK
  <1>3. CASE ReconcileReadError \/ UNCHANGED vars
    BY <1>3 DEF ReconcileReadError, vars, httpVars
  <1>4. CASE ReconcileStale \/ ReconcileNoTwin \/ ReconcileNoCap \/ RaplWritesFail
    BY <1>4 DEF ReconcileStale, ReconcileNoTwin, ReconcileNoCap, RaplWritesFail, httpVars
  <1>5. CASE ReconcilePercent
    BY <1>1, <1>5 DEF ReconcilePercent
  <1>6. CASE ReconcileHttpRapl
    BY <1>6 DEF ReconcileHttpRapl, HttpThrottleAfter
  <1>7. CASE ReconcileHttpRaplFails
    BY <1>1, <1>2, <1>7 DEF ReconcileHttpRaplFails
  <1>8. CASE ReconcileHostRapl
    BY <1>8 DEF ReconcileHostRapl, httpVars
  <1>9. CASE ReconcileDVFS
    BY <1>2, <1>9 DEF ReconcileDVFS
  <1>10. CASE Tick \/ Environment \/ Restart
    BY <1>10 DEF Tick, Environment, Restart, httpVars
  <1>11. QED
    BY <1>3, <1>4, <1>5, <1>6, <1>7, <1>8, <1>9, <1>10 DEF Next, Reconcile

\* The agent never believes an HTTP throttle cleared that is in force: with
\* any interleaving of lost answers, refused commands, mode changes and
\* restarts, httpThrottleCleared implies that the backend holds 0.
THEOREM ClearedIsClear == Spec => []ClearedMeansClear
  <1>1. Init => ClearedMeansClear
    BY DEF Init, ClearedMeansClear
  <1>2. QED
    BY <1>1, TypeCorrect, ClearedStep, PTL DEF Spec

\* A reading counted without a trip extends one run and ends the other.
LEMMA CountKeepsRuns ==
  ASSUME TypeOK, CountsAreRuns, LoopCount
  PROVE  CountsAreRuns'
  <1> DEFINE s == Append(seen, power)
             k == IF Len(s) >= TripCount THEN 1 ELSE 0
  <1>1. /\ seen \in Seq(Sides) /\ power \in Sides
        /\ above \in Nat /\ below \in Nat /\ TripCount \in Nat \ {0}
    BY CPUCapAssumption DEF TypeOK, LoopCount
  <1>2. /\ s \in Seq(Sides) /\ Len(s) = Len(seen) + 1
        /\ \A i \in 1..Len(seen) : s[i] = seen[i]
        /\ s[Len(s)] = power
    BY <1>1
  <1>3. /\ Len(seen') = Len(s) - k
        /\ \A i \in 1..Len(seen') : seen'[i] = s[i + k]
        /\ k \in {0, 1} /\ Len(seen') \in Nat /\ Len(s) \in Nat
    BY <1>1, <1>2 DEF LoopCount
  <1>4. /\ above' = (IF power = "above" THEN above + 1 ELSE 0) /\ above' < TripCount
        /\ below' = (IF power = "below" THEN below + 1 ELSE 0) /\ below' < TripCount
    BY DEF LoopCount, AboveCount, BelowCount
  <1>5. above' <= Len(seen') /\ below' <= Len(seen')
    BY <1>1, <1>2, <1>3, <1>4 DEF CountsAreRuns
  <1>6. ASSUME NEW i \in 1..Len(seen'), i > Len(seen') - above'
        PROVE  seen'[i] = "above"
    <2>1. i + k \in 1..Len(s) /\ seen'[i] = s[i + k] /\ i + k > Len(s) - above'
      <3>1. above' \in Nat
        BY <1>1, <1>4
      <3>2. QED
        BY <1>3, <1>6, <3>1
    <2>2. power = "above" /\ above' = above + 1
      BY <1>1, <1>4, <2>1, <1>2
    <2>3. CASE i + k = Len(s)
      BY <1>2, <2>1, <2>2, <2>3
    <2>4. CASE i + k # Len(s)
      <3>1. i + k \in 1..Len(seen) /\ i + k > Len(seen) - above
        BY <1>1, <1>2, <2>1, <2>2, <2>4
      <3>2. QED
        BY <1>2, <2>1, <3>1 DEF CountsAreRuns
    <2>5. QED
      BY <2>3, <2>4
  <1>7. ASSUME NEW i \in 1..Len(seen'), i > Len(seen') - below'
        PROVE  seen'[i] = "below"
    <2>1. i + k \in 1..Len(s) /\ seen'[i] = s[i + k] /\ i + k > Len(s) - below'
      <3>1. below' \in Nat
        BY <1>1, <1>4
      <3>2. QED
        BY <1>3, <1>7, <3>1
    <2>2. power = "below" /\ below' = below + 1
      BY <1>1, <1>4, <2>1, <1>2
    <2>3. CASE i + k = Len(s)
      BY <1>2, <2>1, <2>2, <2>3
    <2>4. CASE i + k # Len(s)
      <3>1. i + k \in 1..Len(seen) /\ i + k > Len(seen) - below
        BY <1>1, <1>2, <2>1, <2>2, <2>4
      <3>2. QED
        BY <1>2, <2>1, <3>1 DEF CountsAreRuns
    <2>5. QED
      BY <2>3, <2>4
  <1>8. QED
    BY <1>5, <1>6, <1>7 DEF CountsAreRuns

\* A step that leaves the counters and the history alone keeps the runs.
LEMMA SameKeepsRuns ==
  ASSUME CountsAreRuns, UNCHANGED <<above, below, seen>>
  PROVE  CountsAreRuns'
  BY DEF CountsAreRuns

\* Both counters are 0 after a throttle step or a restart.
LEMMA ResetKeepsRuns ==
  ASSUME above' = 0, below' = 0, seen' = <<>>
  PROVE  CountsAreRuns'
  BY DEF CountsAreRuns

\* Every step keeps the runs.
LEMMA RunsStep == TypeOK /\ CountsAreRuns /\ [Next]_vars => CountsAreRuns'
  <1> SUFFICES ASSUME TypeOK, CountsAreRuns, [Next]_vars PROVE CountsAreRuns'
    OBVIOUS
  <1>1. ASSUME DVFSFallback PROVE CountsAreRuns'
    <2>1. CASE LoopTrip
      <3>1. above' = 0 /\ below' = 0 /\ seen' = <<>>
        BY <2>1, CPUCapAssumption DEF LoopTrip, ThrottleStep, AboveCount, BelowCount, TypeOK
      <3>2. QED
        BY <3>1, ResetKeepsRuns
    <2>2. CASE LoopCount
      BY <2>2, CountKeepsRuns
    <2>3. CASE UNCHANGED loopVars
      BY <2>3, SameKeepsRuns DEF loopVars
    <2>4. QED
      BY <1>1, <2>1, <2>2, <2>3 DEF DVFSFallback, LoopHold, loopVars
  <1>2. ASSUME NEW pct, applyCPUPercentFallback(pct) PROVE CountsAreRuns'
    BY <1>2, SameKeepsRuns DEF applyCPUPercentFallback, loopVars
  <1>3. CASE ReconcileHttpRaplFails
    BY <1>1, <1>2, <1>3 DEF ReconcileHttpRaplFails
  <1>4. CASE ReconcilePercent \/ ReconcileDVFS
    BY <1>1, <1>2, <1>4 DEF ReconcilePercent, ReconcileDVFS
  <1>5. CASE \/ ReconcileReadError \/ ReconcileStale \/ ReconcileNoTwin \/ ReconcileNoCap
             \/ ReconcileHttpRapl \/ ReconcileHostRapl \/ RaplWritesFail
             \/ Tick \/ Environment \/ UNCHANGED vars
    BY <1>5, SameKeepsRuns
       DEF ReconcileReadError, ReconcileStale, ReconcileNoTwin, ReconcileNoCap, ReconcileHttpRapl,
           ReconcileHostRapl, RaplWritesFail, Tick, Environment, vars, loopVars
  <1>6. CASE Restart
    BY <1>6, ResetKeepsRuns DEF Restart
  <1>7. QED
    BY <1>3, <1>4, <1>5, <1>6 DEF Next, Reconcile

\* The DVFS loop acts only on readings in a row: for every trip count, a
\* counter stands for that many consecutive readings on its side of the band.
THEOREM TripsAreRuns == Spec => []CountsAreRuns
  <1>1. Init => CountsAreRuns
    BY DEF Init, CountsAreRuns
  <1>2. QED
    BY <1>1, TypeCorrect, RunsStep, PTL DEF Spec
=============================================================================
