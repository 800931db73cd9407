------------------------------- MODULE CPUCap -------------------------------
(***************************************************************************)
(* The agent's CPU power cap: how reconcileOnce (cmd/agent/main.go) turns  *)
(* the CPU intent of the node's NodeTwin into RAPL limits, into commands   *)
(* for an HTTP control backend, or into the DVFS throttle of               *)
(* pkg/agent/dvfs, and what it leaves on the node when a write fails, the  *)
(* RAPL files come and go, the NodeTwin cannot be read or the agent        *)
(* restarts.                                                               *)
(*                                                                         *)
(* A reconcile is one action: the agent's loop is sequential, and what it  *)
(* reads (the NodeTwin, the RAPL files, the power) is read once per        *)
(* reconcile.  Watts and percents keep their identity and lose their       *)
(* value: a limit holds the intent it was resolved from, and a power       *)
(* reading is the side of the band [cap - low margin, cap + high margin]   *)
(* that the moving average is on.                                          *)
(***************************************************************************)
EXTENDS Naturals, Sequences

CONSTANTS
    NCPU,         \* cpufreq policies CPUFreqList finds
    Packages,     \* RAPL package zones
    Watts,        \* caps in watts the controller manager may ask for
    Pcts,         \* caps in percent of the maximum
    StepPct,      \* DVFS_STEP_PCT
    TripCount,    \* DVFS_TRIP_COUNT
    Cooldown,     \* DVFS_COOLDOWN, in ticks
    SpecTimeout,  \* SPEC_READ_TIMEOUT, in ticks
    HTTP,         \* TELEMETRY_CPU_CONTROL is http
    PreferDVFS,   \* TELEMETRY_CPU_CONTROL_MODE is dvfs
    DVFSEnabled,  \* the agent built a DVFS controller
    CatalogRange, \* the hardware catalog knows the node's cap range
    Failures,     \* reads, writes and commands may fail
    Restarts      \* the agent may be killed and started again

ASSUME CPUCapAssumption ==
    /\ NCPU \in Nat
    /\ Pcts \subseteq 1..100
    /\ StepPct \in 1..100
    /\ TripCount \in Nat \ {0}
    /\ Cooldown \in Nat
    /\ SpecTimeout \in Nat
    /\ {HTTP, PreferDVFS, DVFSEnabled, CatalogRange, Failures, Restarts} \subseteq BOOLEAN
    /\ PreferDVFS => HTTP

VARIABLES
    twin,                \* the CPU intent of the NodeTwin the reader returns
    zones,               \* packages with a writable-looking power limit file
    power,               \* the side of the band the moving average is on, or none
    faulty,              \* reads, writes and commands may fail now
    limit,               \* limit[p]: the intent package p's RAPL limit holds
    throttled,           \* CPUs whose scaling_max_freq is the minimum
    httpLimit,           \* the watt cap the HTTP backend holds
    httpThrottle,        \* the DVFS throttle the HTTP backend holds
    throttlePct,         \* Controller.ThrottlePct
    above, below,        \* Controller.AboveCount, BelowCount
    cool,                \* ticks left of Controller.Cooldown
    seen,                \* auxiliary: the readings counted since the last action
    httpThrottleCleared, \* NodeController.httpThrottleCleared
    specAge,             \* ticks since lastSuccessfulSpecRead
    capsRelaxed,         \* NodeController.capsRelaxed
    status               \* status.controlStatus.cpu: backend and result

envVars == <<twin, zones, power, faulty>>
hostVars == <<limit, throttled>>
httpVars == <<httpLimit, httpThrottle>>
loopVars == <<above, below, cool, seen>>
specVars == <<specAge, capsRelaxed>>
vars == <<envVars, hostVars, httpVars, loopVars, specVars,
          throttlePct, httpThrottleCleared, status>>

CPUs == 0..(NCPU - 1)

NoTwin == [kind |-> "notwin", v |-> 0]
NoCap == [kind |-> "nocap", v |-> 0]
WattCaps == [kind : {"watts"}, v : Watts]
PctCaps == [kind : {"pct"}, v : Pcts]
Intents == {NoTwin, NoCap} \cup WattCaps \cup PctCaps

Sides == {"above", "band", "below"}

Status(backend, result) == [backend |-> backend, result |-> result]
Statuses == [backend : {"none", "rapl", "dvfs"},
             result : {"none", "applied", "blocked", "error"}]

-----------------------------------------------------------------------------
(* Actuation.                                                              *)

\* The throttled CPUs are the first ceil(count * pct / 100).
throttleCount(pct) == (NCPU * pct + 99) \div 100

\* The first n cpufreq files are written for pct, the write after them fails.
ThrottleFiles(pct, n) ==
    {i \in CPUs : IF i < n THEN i < throttleCount(pct) ELSE i \in throttled}

\* A command either arrives and is answered, is not applied, or is applied
\* and its answer lost: the last two are the same error to the client.
HttpOutcomes == {"ok"} \cup (IF faulty THEN {"refused", "lost"} ELSE {})

\* How many cpufreq files a round of writes gets through.
WriteCounts == IF faulty THEN 0..NCPU ELSE {NCPU}

\* applyThrottlePct over HTTP: the backend's throttle after the command.
HttpThrottleAfter(pct, outcome) ==
    IF outcome = "refused" THEN httpThrottle ELSE pct

(* Controller.RestoreAllMax: the host files, whatever the control mode is; *)
(* ThrottlePct goes to 0 only when every file was written.                 *)
RestoreAllMax ==
    IF throttlePct = 0
    THEN UNCHANGED <<throttled, throttlePct>>
    ELSE \E n \in WriteCounts :
            /\ throttled' = ThrottleFiles(0, n)
            /\ throttlePct' = IF n = NCPU /\ NCPU > 0 THEN 0 ELSE throttlePct

(* applyCPUPercentIntent: a percent cap as a fixed throttle, over HTTP     *)
(* first.  Unlike the control loop it records ThrottlePct only after the   *)
(* command or the last file write succeeded.                               *)
PercentOnHost(pct) ==
    IF DVFSEnabled /\ NCPU > 0
    THEN \E n \in WriteCounts :
            /\ throttled' = ThrottleFiles(100 - pct, n)
            /\ throttlePct' = IF n = NCPU THEN 100 - pct ELSE throttlePct
            /\ status' = Status("dvfs", IF n = NCPU THEN "applied" ELSE "error")
    ELSE /\ status' = Status("none", "blocked")
         /\ UNCHANGED <<throttled, throttlePct>>

PercentOverHTTP(pct) ==
    \E outcome \in HttpOutcomes :
        /\ httpThrottle' = HttpThrottleAfter(100 - pct, outcome)
        /\ \/ /\ outcome = "ok"
              /\ throttlePct' = IF DVFSEnabled THEN 100 - pct ELSE throttlePct
              /\ status' = Status("dvfs", "applied")
              /\ UNCHANGED throttled
           \/ /\ outcome # "ok"
              /\ ~(DVFSEnabled /\ NCPU > 0)
              /\ status' = Status("none", "error")
              /\ UNCHANGED <<throttled, throttlePct>>
           \/ /\ outcome # "ok"
              /\ DVFSEnabled /\ NCPU > 0
              /\ PercentOnHost(pct)

\* The flag kept set: the throttle that follows is never cleared again.
PercentFallbackKeepsFlag(pct) ==
    /\ \/ HTTP /\ PercentOverHTTP(pct)
       \/ ~HTTP /\ PercentOnHost(pct) /\ UNCHANGED httpThrottle
    /\ UNCHANGED <<limit, loopVars, httpThrottleCleared>>

applyCPUPercentFallback(pct) ==
    /\ \/ HTTP /\ httpThrottleCleared' = FALSE /\ PercentOverHTTP(pct)
       \/ ~HTTP /\ PercentOnHost(pct) /\ UNCHANGED <<httpThrottle, httpThrottleCleared>>
    /\ UNCHANGED <<limit, loopVars>>

-----------------------------------------------------------------------------
(* Controller.Reconcile of pkg/agent/dvfs: the control loop of a cap in    *)
(* watts that RAPL does not enforce.                                       *)

\* A counter that survives a reading inside the band.
StickyAboveCount == IF power = "above" THEN above + 1 ELSE IF power = "below" THEN 0 ELSE above

\* The counters after a reading: a reading on the other side, or in the
\* band, ends the run.
AboveCount == IF power = "above" THEN above + 1 ELSE 0
BelowCount == IF power = "below" THEN below + 1 ELSE 0

\* A step that stops short of the bounds.
ShortThrottle(dir) ==
    IF dir = "up" THEN (IF throttlePct + StepPct >= 100 THEN throttlePct ELSE throttlePct + StepPct)
                  ELSE (IF throttlePct <= StepPct THEN throttlePct ELSE throttlePct - StepPct)

\* ThrottlePct one StepPct up or down, within 0..100.
NextThrottlePct(dir) ==
    IF dir = "up" THEN (IF throttlePct + StepPct > 100 THEN 100 ELSE throttlePct + StepPct)
                  ELSE (IF throttlePct < StepPct THEN 0 ELSE throttlePct - StepPct)

(* One throttle step.  ThrottlePct, the reset counter and LastAction are   *)
(* assigned before the write, and stay when the write fails.               *)
ThrottleStep(dir) ==
    LET pct == NextThrottlePct(dir) IN
    /\ throttlePct' = pct
    /\ above' = IF dir = "up" THEN 0 ELSE AboveCount
    /\ below' = IF dir = "down" THEN 0 ELSE BelowCount
    /\ seen' = <<>>
    /\ cool' = Cooldown
    /\ \/ /\ HTTP
          /\ \E outcome \in HttpOutcomes :
                /\ httpThrottle' = HttpThrottleAfter(pct, outcome)
                /\ status' = Status("dvfs", IF outcome = "ok" THEN "applied" ELSE "error")
          /\ UNCHANGED throttled
       \/ /\ ~HTTP
          /\ \E n \in WriteCounts :
                /\ throttled' = ThrottleFiles(pct, n)
                /\ status' = Status("dvfs", IF n = NCPU THEN "applied" ELSE "error")
          /\ UNCHANGED httpThrottle

\* No reading, one within the cooldown, or a failed one: the counters do not
\* move.
LoopHold ==
    /\ \/ /\ power = "none" \/ cool > 0
          /\ status' = Status("dvfs", "applied")
       \/ /\ faulty
          /\ status' = Status("dvfs", "error")
    /\ UNCHANGED <<throttled, httpThrottle, throttlePct, loopVars>>

LoopCount ==
    /\ power \in Sides /\ cool = 0
    /\ AboveCount < TripCount /\ BelowCount < TripCount
    /\ above' = AboveCount /\ below' = BelowCount
    /\ seen' = LET s == Append(seen, power)
               IN  IF Len(s) >= TripCount THEN Tail(s) ELSE s
    /\ status' = Status("dvfs", "applied")
    /\ UNCHANGED <<throttled, httpThrottle, throttlePct, cool>>

LoopTrip ==
    /\ power \in Sides /\ cool = 0
    /\ \/ AboveCount >= TripCount /\ ThrottleStep("up")
       \/ AboveCount < TripCount /\ BelowCount >= TripCount /\ ThrottleStep("down")

\* The fallback of reconcileOnce: blocked without a controller or a way to
\* write, else one round of the control loop.
DVFSFallback ==
    /\ \/ /\ ~DVFSEnabled \/ (~HTTP /\ NCPU = 0)
          /\ status' = Status("none", "blocked")
          /\ UNCHANGED <<throttled, httpThrottle, throttlePct, loopVars, httpThrottleCleared>>
       \/ /\ DVFSEnabled /\ (HTTP \/ NCPU > 0)
          /\ httpThrottleCleared' = IF HTTP THEN FALSE ELSE httpThrottleCleared
          /\ LoopHold \/ LoopCount \/ LoopTrip
    /\ UNCHANGED limit

-----------------------------------------------------------------------------
(* reconcileOnce, for the CPU cap.                                         *)

\* resolveCPUCapFromPct finds a range: the RAPL files, or over HTTP with
\* rapl.set_power_cap_watts the hardware catalog.
RangeKnown == zones # {} \/ (HTTP /\ ~PreferDVFS /\ CatalogRange)

\* The cap is in watts, its own or resolved from a percent.
InWatts(d) == d.kind = "watts" \/ (d.kind = "pct" /\ RangeKnown)

\* A read NodeTwin refreshes lastSuccessfulSpecRead, and ends the relaxed
\* state when there is one.
SpecRead ==
    /\ specAge' = 0
    /\ capsRelaxed' = (capsRelaxed /\ twin = NoTwin)
    /\ UNCHANGED envVars

\* The read fails within the timeout: reconcileOnce returns the error.
ReconcileReadError ==
    /\ faulty /\ specAge <= SpecTimeout
    /\ UNCHANGED vars

\* Past the timeout the agent goes on as without a NodeTwin, and leaves the
\* settings as they are.
ReconcileStale ==
    /\ faulty /\ specAge > SpecTimeout
    /\ capsRelaxed' = TRUE
    /\ status' = Status("none", "none")
    /\ UNCHANGED <<envVars, hostVars, httpVars, loopVars, specAge, throttlePct, httpThrottleCleared>>

ReconcileNoTwin ==
    /\ SpecRead /\ twin = NoTwin
    /\ status' = Status("none", "none")
    /\ UNCHANGED <<hostVars, httpVars, loopVars, throttlePct, httpThrottleCleared>>

ReconcileNoCap ==
    /\ SpecRead /\ twin = NoCap
    /\ UNCHANGED <<hostVars, httpVars, loopVars, throttlePct, httpThrottleCleared, status>>

ReconcilePercent ==
    /\ SpecRead /\ twin.kind = "pct" /\ ~RangeKnown
    /\ applyCPUPercentFallback(twin.v)
    /\ UNCHANGED httpLimit

\* rapl.set_power_cap_watts over HTTP, taken: the backend's throttle is
\* cleared once, then a throttle of the host files this process set.
ReconcileHttpRapl ==
    /\ SpecRead /\ InWatts(twin) /\ HTTP /\ ~PreferDVFS
    /\ httpLimit' = twin
    /\ status' = Status("rapl", "applied")
    /\ \/ /\ httpThrottleCleared
          /\ UNCHANGED <<httpThrottle, httpThrottleCleared>>
       \/ /\ ~httpThrottleCleared
          /\ \E outcome \in HttpOutcomes :
                /\ httpThrottle' = HttpThrottleAfter(0, outcome)
                /\ httpThrottleCleared' = (outcome = "ok")
    /\ RestoreAllMax
    /\ UNCHANGED <<limit, loopVars>>

\* ... or not: a percent cap keeps its percent throttle, a watt cap goes to
\* the DVFS loop.
ReconcileHttpRaplFails ==
    /\ SpecRead /\ InWatts(twin) /\ HTTP /\ ~PreferDVFS
    /\ faulty
    /\ httpLimit' \in {httpLimit, twin}
    /\ \/ twin.kind = "pct" /\ applyCPUPercentFallback(twin.v)
       \/ twin.kind = "watts" /\ DVFSFallback

\* The host's RAPL files: every package is tried, one success is enough.
ReconcileHostRapl ==
    /\ SpecRead /\ InWatts(twin) /\ ~HTTP /\ zones # {}
    /\ \E written \in (IF faulty THEN SUBSET zones \ {{}} ELSE {zones}) :
            limit' = [p \in Packages |-> IF p \in written THEN twin ELSE limit[p]]
    /\ status' = Status("rapl", "applied")
    /\ RestoreAllMax
    /\ UNCHANGED <<httpVars, loopVars, httpThrottleCleared>>

\* No package took the write: reconcileOnce returns the error.
RaplWritesFail ==
    /\ SpecRead /\ InWatts(twin) /\ ~HTTP /\ zones # {}
    /\ faulty
    /\ UNCHANGED <<hostVars, httpVars, loopVars, throttlePct, httpThrottleCleared, status>>

ReconcileDVFS ==
    /\ SpecRead /\ InWatts(twin)
    /\ PreferDVFS \/ (~HTTP /\ zones = {})
    /\ DVFSFallback
    /\ UNCHANGED httpLimit

Reconcile ==
    \/ ReconcileReadError \/ ReconcileStale \/ ReconcileNoTwin \/ ReconcileNoCap
    \/ ReconcilePercent \/ ReconcileHttpRapl \/ ReconcileHttpRaplFails
    \/ ReconcileHostRapl \/ RaplWritesFail \/ ReconcileDVFS

-----------------------------------------------------------------------------
(* The surroundings: time, the controller manager, the node, the kubelet.  *)

Tick ==
    /\ specAge' = IF specAge > SpecTimeout THEN specAge ELSE specAge + 1
    /\ cool' = IF cool = 0 THEN 0 ELSE cool - 1
    /\ <<specAge', cool'>> # <<specAge, cool>>
    /\ UNCHANGED <<envVars, hostVars, httpVars, above, below, seen, capsRelaxed,
                   throttlePct, httpThrottleCleared, status>>

Environment ==
    /\ twin' \in Intents
    /\ zones' \in {{}, Packages}
    /\ power' \in Sides \cup {"none"}
    /\ faulty' \in (IF Failures THEN BOOLEAN ELSE {FALSE})
    /\ UNCHANGED <<hostVars, httpVars, loopVars, specVars, throttlePct, httpThrottleCleared, status>>

\* A new process starts with newNodeController's values; the node keeps its
\* limits and frequencies, the backend its throttle, the NodeTwin its status.
Restart ==
    /\ Restarts
    /\ throttlePct' = 0 /\ above' = 0 /\ below' = 0 /\ cool' = 0 /\ seen' = <<>>
    /\ httpThrottleCleared' = FALSE
    /\ specAge' = 0 /\ capsRelaxed' = FALSE
    /\ UNCHANGED <<envVars, hostVars, httpVars, status>>

Init ==
    /\ twin = NoTwin /\ zones = Packages /\ power = "none" /\ faulty = FALSE
    /\ limit = [p \in Packages |-> NoCap] /\ throttled = {}
    /\ httpLimit = NoCap /\ httpThrottle = 0
    /\ throttlePct = 0 /\ above = 0 /\ below = 0 /\ cool = 0 /\ seen = <<>>
    /\ httpThrottleCleared = FALSE /\ specAge = 0 /\ capsRelaxed = FALSE
    /\ status = Status("none", "none")

Next == Reconcile \/ Tick \/ Environment \/ Restart

Spec == Init /\ [][Next]_vars

\* The loop of runDaemonSet reconciles for ever, and time passes.
Fairness == WF_vars(Reconcile) /\ WF_vars(Tick)
FairSpec == Spec /\ Fairness
-----------------------------------------------------------------------------
(* Properties.                                                             *)

\* The values every variable takes, with the counters within the trip count.
TypeOK ==
    /\ twin \in Intents
    /\ zones \in SUBSET Packages
    /\ power \in Sides \cup {"none"} /\ faulty \in BOOLEAN
    /\ limit \in [Packages -> Intents] /\ throttled \in SUBSET CPUs
    /\ httpLimit \in Intents /\ httpThrottle \in 0..100
    /\ throttlePct \in 0..100
    /\ above \in 0..(TripCount - 1) /\ below \in 0..(TripCount - 1)
    /\ cool \in 0..Cooldown
    /\ seen \in Seq(Sides)
    /\ httpThrottleCleared \in BOOLEAN
    /\ specAge \in 0..(SpecTimeout + 1) /\ capsRelaxed \in BOOLEAN
    /\ status \in Statuses

\* While httpThrottleCleared stands, the backend holds no throttle: whatever
\* was sent, answered or lost, the agent never believes a throttle cleared
\* that is still in force beside the watt cap.
ClearedMeansClear == httpThrottleCleared => httpThrottle = 0

\* A counter of n stands for n readings in a row on its side since the last
\* throttle step: no trip is reached on readings with a gap between them.
CountsAreRuns ==
    /\ above <= Len(seen) /\ below <= Len(seen)
    /\ \A i \in 1..Len(seen) : i > Len(seen) - above => seen[i] = "above"
    /\ \A i \in 1..Len(seen) : i > Len(seen) - below => seen[i] = "below"

\* Over HTTP, once the backend takes every command, a watt cap ends up alone:
\* the throttle an earlier percent cap, an earlier process or a lost answer
\* left beside it is cleared and stays so.
HttpCapStandsAlone ==
    <>[](~faulty /\ HTTP /\ ~PreferDVFS /\ InWatts(twin)) => <>[](httpThrottle = 0)

\* Without RAPL and with the power above the cap from some point on, every
\* CPU ends up throttled, also after writes failed on the way.
CapIsEnforced ==
    <>[](~faulty /\ twin.kind = "watts" /\ zones = {} /\ power = "above")
        => <>[](throttled = CPUs)

\* Without RAPL and with the power below the cap from some point on, no CPU
\* stays throttled, also one that a failed write left ahead of the record.
ThrottleIsReleased ==
    <>[](~faulty /\ twin.kind = "watts" /\ zones = {} /\ power = "below")
        => <>[](throttled = {})

=============================================================================
