-------------------------- MODULE GovernorControl --------------------------
(***************************************************************************)
(* The agent's governor control (cmd/agent/governor_control.go) for one    *)
(* component, the CPU governor: how the preset and the boost word of the   *)
(* NodeTwin become writes to cpufreq attributes, how the agent watches     *)
(* what it wrote, gives way to another writer, and puts the baseline back  *)
(* when the intent goes away, when writes are turned off and when it       *)
(* stops; and how the two things it remembers across a restart, the        *)
(* baseline in NodeHardware and the last result in the NodeTwin, reach     *)
(* the API server.                                                         *)
(*                                                                         *)
(* A reconcile is three steps, because another writer, a crash or a change *)
(* of the spec can come between them: Prepare (discovery, baseline,        *)
(* NodeHardware), an Act step (the writes) and a Publish step (the status).*)
(* The methods of governorComponent are operators from record to record.   *)
(* A governor word stands for the governor and its energy-performance      *)
(* preference, applied for applied and equivalent, and times are ticks     *)
(* counted up to the limit they are compared with.                         *)
(***************************************************************************)
EXTENDS GovernorComponent

CONSTANTS
    NPol,        \* cpufreq policies of the node
    Scope,       \* BoostScope: none, global or per-cpu
    Presets,     \* presets the controller manager may ask for
    Unsupported, \* the ones this driver has no word for
    Boosts,      \* boost words of the intents: "unset" (the empty string), "on", "off"
    Modes,       \* how a run of the agent may be configured
    OnExit,      \* GOVERNOR_RESTORE_ON_EXIT
    Failing,     \* results a write may end with
    Rivals,      \* another writer sets attributes
    TwinGone,    \* the NodeTwin may be deleted
    Gaps,        \* a discovery may come back empty
    APIErrors,   \* a write to the API server may fail
    Restarts,    \* never, synced (only once all is published) or any
    Rewrite      \* rewriteInterval

ASSUME GovernorAssumption ==
    /\ NPol \in Nat \ {0}
    /\ Scope \in {"none", "global", "per-cpu"}
    /\ "unset" \notin Presets /\ "default" \notin Presets
    /\ Unsupported \subseteq Presets
    /\ Boosts \subseteq {"unset", "on", "off"}
    /\ Modes \subseteq {"write", "readonly", "simulate", "pool", "http"}
    /\ Failing \subseteq {"refused", "unsupported", "error", "not-applied"}
    /\ {OnExit, Rivals, TwinGone, Gaps, APIErrors} \subseteq BOOLEAN
    /\ Restarts \in {"never", "synced", "any"}
    /\ Rewrite \in Nat

VARIABLES
    spec,      \* the governor intent of the NodeTwin, or what there is instead
    calm,      \* the environment has come to rest
    sys,       \* sys[f]: what attribute f reads
    was,       \* auxiliary: what someone other than the agent last put there
    stored,    \* the baseline in NodeHardware
    published, \* status.controlStatus.cpuGovernor in the NodeTwin
    mode,      \* the configuration of this run of the agent
    pc,        \* where the agent is in its reconcile
    exiting,   \* the agent got SIGTERM
    loaded,    \* governorControl.loaded
    base,      \* governorControl.cpuBaseline
    c,         \* governorControl.cpu
    want,      \* the intent this reconcile acts on
    disc,      \* the latest discovery found the cpufreq governors
    hwMemo,    \* lastWrites of a NodeHardware status that was not taken
    memo,      \* lastWrites of the control status
    gaveUp     \* auxiliary: the intent the agent declared contended

nodeVars == <<sys, was>>
apiVars == <<stored, published>>
agentVars == <<mode, exiting, loaded, base, want, disc>>
vars == <<spec, calm, nodeVars, apiVars, agentVars, pc, c, hwMemo, memo, gaveUp>>

-----------------------------------------------------------------------------
(* Attributes, baselines and statuses.                                     *)

Policies == 1..NPol
GovFiles == {<<"governor", i>> : i \in Policies}
GlobalBoost == <<"boost", 0>>
BoostFiles ==
    CASE Scope = "none" -> {}
      [] Scope = "global" -> {GlobalBoost}
      [] Scope = "per-cpu" -> {<<"boost", i>> : i \in Policies}

\* What a baseline covers.  The global boost file beside per-policy ones is
\* no part of it.
BaseFiles == GovFiles \cup BoostFiles
Files == BaseFiles \cup IF Scope = "per-cpu" THEN {GlobalBoost} ELSE {}

GovWords == {"default"} \cup (Presets \ Unsupported)
Words(f) == IF f \in GovFiles THEN GovWords ELSE {"0", "1"}
Settings == {s \in [Files -> GovWords \cup {"0", "1"}] : \A f \in Files : s[f] \in Words(f)}

NoBaseline == [f \in {} |-> "default"]
BaselineOf(s) == [f \in BaseFiles |-> s[f]]
Baselines == {NoBaseline} \cup {BaselineOf(s) : s \in Settings}

Intent(preset, boost) == [preset |-> preset, boost |-> boost]
NoTwin == Intent("unset", "off")   \* no NodeTwin, or one too old to trust
NoIntent == Intent("unset", "unset")    \* a NodeTwin without a CPU governor
Asks == [preset : Presets, boost : Boosts]
Specs == Asks \cup {NoIntent} \cup (IF TwinGone THEN {NoTwin} ELSE {})

(* What a status names as applied: nothing, the governor, or the governor  *)
(* and boost.                                                              *)
Status(result, applied) == [result |-> result, applied |-> applied]
NoStatus == Status("unset", "none")
Removed == Status("removed", "none")
Statuses == [result : Results \ {"unverified"}, applied : {"none", "governor", "boost"}]

\* A write, and whether it is made although the attribute reads the value.
Write(f, v) == [file |-> f, value |-> v, always |-> TRUE]

MaybeAsk == Asks \cup {NoIntent}
MaybeStatus == Statuses \cup {NoStatus}
Expectations == SUBSET [file : Files, value : GovWords \cup {"0", "1"}]

Component ==
    [intent        : MaybeAsk,
     expect        : Expectations,
     changed       : BOOLEAN,
     boostWritten  : BOOLEAN,
     globalSeen    : {"unset", "0"},
     verified      : BOOLEAN,
     drifted       : BOOLEAN,
     drifts        : DriftTimes,
     contended     : BOOLEAN,
     refused       : BOOLEAN,
     retry         : RetryTimes,
     sinceApply    : ApplyTimes,
     status        : MaybeStatus,
     good          : MaybeStatus,
     statusWritten : BOOLEAN]

\* The component of an agent that has just started.
newComponent ==
    [intent |-> NoIntent, expect |-> {}, changed |-> FALSE,
     boostWritten |-> FALSE, globalSeen |-> "unset", verified |-> FALSE,
     drifted |-> FALSE, drifts |-> <<>>, contended |-> FALSE,
     refused |-> FALSE, retry |-> NoRetry, sinceApply |-> Reapply,
     status |-> NoStatus, good |-> NoStatus, statusWritten |-> FALSE]

-----------------------------------------------------------------------------
(* Plans: pkg/governor.                                                    *)

BoostBit(boost) == IF boost = "on" THEN "1" ELSE "0"

CPUBoostWrites(boost) ==
    CASE Scope = "none" -> <<>>
      [] Scope = "global" -> <<Write(GlobalBoost, BoostBit(boost))>>
      [] Scope = "per-cpu" ->
            [i \in Policies |-> Write(<<"boost", i>>, BoostBit(boost))]

\* A preset without a word here, or a boost word without a boost file, makes
\* the whole plan unsupported.
Supported(i) == i.preset \notin Unsupported /\ (i.boost # "unset" => BoostFiles # {})

PlanCPU(i) ==
    [n \in Policies |-> Write(<<"governor", n>>, i.preset)]
        \o IF i.boost = "unset" THEN <<>> ELSE CPUBoostWrites(i.boost)

\* PlanCPUGroups: the baseline's governors, then its boost.
BaselineGovernors(b) == [n \in Policies |-> Write(<<"governor", n>>, b[<<"governor", n>>])]
BaselineBoost(b) ==
    CASE Scope = "none" -> <<>>
      [] Scope = "global" -> <<Write(GlobalBoost, b[GlobalBoost])>>
      [] Scope = "per-cpu" -> [n \in Policies |-> Write(<<"boost", n>>, b[<<"boost", n>>])]

\* differing: the writes made only where the attribute reads something else.
differing(ws) == [j \in DOMAIN ws |-> [ws[j] EXCEPT !.always = FALSE]]
Due(w) == w.always \/ sys[w.file] # w.value

cpuBaselineBoostWrites(b, globalSeen) ==
    differing(BaselineBoost(b)
        \o IF globalSeen # "unset" /\ Scope = "per-cpu"
           THEN <<Write(GlobalBoost, globalSeen)>> ELSE <<>>)

\* A policy's boost turns on only while the global one is on.
GlobalFirst(i) == i.boost = "on" /\ Scope = "per-cpu" /\ sys[GlobalBoost] = "0"

\* The writes of applyCPU, in order.
ApplyWrites(k, i) ==
    CASE GlobalFirst(i) -> <<Write(GlobalBoost, "1")>> \o PlanCPU(i)
      [] i.boost = "unset" /\ k.boostWritten ->
            PlanCPU(i) \o cpuBaselineBoostWrites(base, k.globalSeen)
      [] OTHER -> PlanCPU(i)

(* writeVerified: the first n writes that are due are read back as         *)
(* written, the next ends with result and is not in force; "ok" when there *)
(* is no next.                                                             *)
WriteEnds(ws) ==
    {[n |-> Len(ws), result |-> "ok"]}
        \cup IF calm THEN {}
             ELSE {[n |-> j - 1, result |-> r] : j \in {m \in DOMAIN ws : Due(ws[m])}, r \in Failing}

SysAfter(ws, e) ==
    [f \in Files |->
        IF \E j \in 1..e.n : ws[j].file = f
        THEN ws[CHOOSE j \in 1..e.n : ws[j].file = f].value
        ELSE sys[f]]

\* Auxiliary: a value of the baseline that the agent puts back is no longer
\* its own; a "0" it writes to the global file is the one it found there.
WasAfter(ws, e) ==
    [f \in Files |->
        IF \E j \in 1..e.n : /\ ws[j].file = f
                             /\ IF f \in BaseFiles THEN ws[j].value = base[f] ELSE ws[j].value = "0"
        THEN SysAfter(ws, e)[f]
        ELSE was[f]]

\* A write without an error that reads back something else was still made.
Wrote(ws, e) == e.result = "not-applied" \/ \E j \in 1..e.n : Due(ws[j])

\* What the attributes written read while the setting holds.
Expected(ws) == {[file |-> ws[j].file, value |-> ws[j].value] : j \in {m \in DOMAIN ws : Due(ws[m])}}

\* InForce: what of plan i the writes that were read back put in force.
InForce(i, ws, e) ==
    LET took(f) == \E j \in 1..e.n : ws[j].file = f
    IN  IF ~\E f \in GovFiles : took(f) THEN "none"
        ELSE IF i.boost # "unset" /\ \A f \in BoostFiles : took(f) THEN "boost" ELSE "governor"

Native(i) == IF i.boost = "unset" THEN "governor" ELSE "boost"

-----------------------------------------------------------------------------
(* What governorComponent's methods do with the CPU's own fields.          *)

\* applyCPU's own bookkeeping, before and after the writes.
applyCPU(k, i, ws, e) ==
    LET seen == IF GlobalFirst(i) THEN "0" ELSE k.globalSeen
        boosted == k.boostWritten \/ (Wrote(ws, e) /\ i.boost # "unset")
        back == e.result = "ok" /\ i.boost = "unset"  \* boost is back at the baseline
    IN  [k EXCEPT !.globalSeen = IF back /\ boosted THEN "unset" ELSE seen,
                  !.boostWritten = boosted /\ ~back,
                  !.expect = IF e.result = "ok" THEN Expected(ws) ELSE k.expect]

\* An agent that takes the write's word for it: no result is a failure.
TrustsWrites(i, ws, e) == Status("applied", Native(i))

ApplyStatus(i, ws, e) ==
    IF e.result = "ok" THEN Status("applied", Native(i))
    ELSE Status(e.result, InForce(i, ws, e))

\* checkWrites: every attribute still reads what the agent wrote.
checkWrites(k) == \A w \in k.expect : sys[w.file] = w.value

(* release after a restore that ended with e.                              *)
restoreDone(k, e) ==
    LET done == e.result = "ok"
        st == Status(IF done THEN "restored" ELSE e.result, IF done THEN "governor" ELSE "none")
    IN  [releaseDone(k, NoIntent, st) EXCEPT
            !.boostWritten = k.boostWritten /\ ~done,
            !.globalSeen = IF done THEN "unset" ELSE k.globalSeen]

\* governorResultWrote: the status means that the agent may have changed the node.
governorResultWrote(st) ==
    /\ st.result \notin {"unset", "disabled", "restored"}
    /\ st.result = "unsupported" => st.applied # "none"

\* A restarted agent that trusts nothing it published.
SeedNothing(k, st) == [k EXCEPT !.status = st, !.statusWritten = st # NoStatus]

seed(k, st) ==
    [k EXCEPT !.status = st, !.statusWritten = st # NoStatus,
              !.changed = governorResultWrote(st),
              !.boostWritten = governorResultWrote(st) /\ st.applied = "boost"]

-----------------------------------------------------------------------------
(* Prepare: discovery, the baselines and NodeHardware.                     *)

\* shouldWrite's memory: the last payload and how long ago it was written.
ShouldWrite(m, payload) == m.payload # <<payload>> \/ m.age >= Rewrite
NoMemo == [payload |-> <<>>, age |-> 0]
Remember(payload) == [payload |-> <<payload>>, age |-> 0]

APIOutcomes == IF APIErrors /\ ~calm THEN {"ok", "error"} ELSE {"ok"}

\* The first prepare reads the stored baseline and the last status.
LoadedComponent ==
    IF ~loaded /\ spec # NoTwin THEN seed(c, published) ELSE c

\* The baseline follows every discovery while the agent has nothing of its
\* own written, and is fixed from its first write on.
NextBaseline(k, b, found) ==
    IF found /\ (b = NoBaseline \/ ~k.changed) THEN BaselineOf(sys) ELSE b

(* upsertNodeHardwareStatus with addGovernorStatus: the CPU block and its  *)
(* baseline are there only when the discovery found the governors.  What   *)
(* lastWrites remembers matters only for an update that failed: one that   *)
(* succeeded would write what is stored already.                           *)
UpsertNodeHardware(b, found, writable) ==
    LET block == IF found THEN <<b, BaselineOf(sys), writable>> ELSE <<>>
    IN  IF ShouldWrite(hwMemo, block)
        THEN \E o \in APIOutcomes :
                /\ hwMemo' = IF o = "error" THEN Remember(block) ELSE NoMemo
                /\ stored' = IF o = "error" THEN stored
                             ELSE IF found THEN b ELSE NoBaseline
        ELSE UNCHANGED <<hwMemo, stored>>

Prepare ==
    /\ pc = "idle" /\ ~exiting
    /\ \E found \in IF Gaps /\ ~calm THEN BOOLEAN ELSE {TRUE} :
        LET k == LoadedComponent
            b == NextBaseline(k, IF loaded THEN base ELSE stored, found)
        IN  /\ base' = b
            /\ c' = k
            /\ disc' = found
            /\ UpsertNodeHardware(b, found, ~k.refused)
    /\ loaded' = TRUE
    /\ want' = spec
    /\ gaveUp' = IF gaveUp = spec THEN gaveUp ELSE NoIntent
    /\ pc' = "act"
    /\ UNCHANGED <<spec, calm, nodeVars, published, mode, exiting, memo>>

-----------------------------------------------------------------------------
(* Act: reconcileCPU.                                                      *)

mayRestore == (exiting \/ mode # "simulate") /\ mode # "pool" /\ ~c.refused
restoreWritesOff == mode = "readonly" /\ c.changed /\ ~c.contended /\ mayRestore

Acting == pc = "act" /\ UNCHANGED <<spec, calm, apiVars, agentVars, hwMemo, memo>>
Releasing == want \notin Asks \/ restoreWritesOff

\* blocked: an intent the agent will write.
Stepping == ~Releasing /\ mode = "write" /\ disc

\* The writes of one apply, as they leave the node and the component.
Apply(k) ==
    IF ~Supported(want)
    THEN /\ c' = applyNow(k, Status("unsupported", "none"), FALSE)
         /\ UNCHANGED nodeVars
    ELSE LET ws == ApplyWrites(k, want)
         IN  \E e \in WriteEnds(ws) :
                /\ sys' = SysAfter(ws, e)
                /\ was' = WasAfter(ws, e)
                /\ c' = applyNow(applyCPU(k, want, ws, e), ApplyStatus(want, ws, e), Wrote(ws, e))

ActReleaseWait ==
    /\ Acting /\ Releasing
    /\ Released(c).changed /\ mayRestore
    /\ ~disc \/ c.retry \in 1..Retry
    /\ c' = Released(c)
    /\ pc' = "idle"
    /\ UNCHANGED <<nodeVars, gaveUp>>

\* restoreCPU: every attribute that differs from the baseline, boost only
\* when the agent wrote it.
RestoreWrites ==
    differing(BaselineGovernors(base))
        \o IF c.boostWritten \/ c.globalSeen # "unset"
           THEN cpuBaselineBoostWrites(base, c.globalSeen) ELSE <<>>

ActRestore ==
    /\ Acting /\ Releasing
    /\ Released(c).changed /\ mayRestore
    /\ disc /\ c.retry \notin 1..Retry
    /\ \E e \in WriteEnds(RestoreWrites) :
        /\ sys' = SysAfter(RestoreWrites, e)
        /\ was' = WasAfter(RestoreWrites, e)
        /\ c' = restoreDone(c, e)
    /\ pc' = "publish"
    /\ UNCHANGED gaveUp

\* Nothing to restore, or no way to: the status the agent wrote is removed.
ActForget ==
    /\ Acting /\ Releasing
    /\ ~(Released(c).changed /\ mayRestore)
    /\ c' = [endIntent(Released(c), NoIntent) EXCEPT !.retry = NoRetry]
    /\ pc' = IF c.statusWritten /\ c.status.result # "restored" THEN "remove" ELSE "idle"
    /\ UNCHANGED <<nodeVars, gaveUp>>

blockedStatus ==
    Status(IF mode \in {"simulate", "readonly"} THEN "disabled" ELSE "unsupported", "none")

hold ==
    /\ Acting /\ ~Releasing /\ ~Stepping
    /\ c' = [c EXCEPT !.intent = NoIntent, !.status = blockedStatus]
    /\ pc' = "publish"
    /\ UNCHANGED <<nodeVars, gaveUp>>

\* step's cases that do nothing: refused, contended, and a retry to come.
StepWait ==
    /\ Acting /\ Stepping
    /\ \/ c.refused
       \/ /\ want = c.intent
          /\ \/ c.contended
             \/ c.retry \in 1..Retry
             \/ c.retry = NoRetry /\ c.status.result = "error" /\ c.sinceApply < Reapply
    /\ pc' = "publish"
    /\ UNCHANGED <<c, nodeVars, gaveUp>>

StepNewIntent ==
    /\ Acting /\ Stepping
    /\ ~c.refused /\ want # c.intent
    /\ Apply(startIntent(c, want))
    /\ pc' = "publish"
    /\ UNCHANGED gaveUp

\* A write the driver did not take, or an error, tried again when it is due.
StepRetry ==
    /\ Acting /\ Stepping
    /\ ~c.refused /\ want = c.intent /\ ~c.contended
    /\ \/ c.retry = 0
       \/ c.retry = NoRetry /\ c.status.result = "error" /\ c.sinceApply >= Reapply
    /\ Apply(c)
    /\ pc' = "publish"
    /\ UNCHANGED gaveUp

Checking ==
    /\ Acting /\ Stepping
    /\ ~c.refused /\ want = c.intent /\ ~c.contended
    /\ c.retry = NoRetry /\ c.status.result # "error"
    /\ pc' = "publish"

CheckHolds ==
    /\ Checking
    /\ checkWrites(c)
    /\ c' = checkHolds(c)
    /\ UNCHANGED <<nodeVars, gaveUp>>

CheckDropped ==
    /\ Checking
    /\ ~checkWrites(c) /\ ~c.verified
    /\ c' = checkDropped(c)
    /\ UNCHANGED <<nodeVars, gaveUp>>

\* A drift, new or pending: given up, applied again, or left until it may be.
CheckDrifts ==
    /\ Checking
    /\ ~checkWrites(c) /\ c.verified
    /\ LET k == IF c.drifted THEN c ELSE checkDrift(c)
       IN  /\ IF ~k.contended /\ k.sinceApply >= Reapply
              THEN Apply(k)
              ELSE c' = k /\ UNCHANGED nodeVars
           /\ gaveUp' = IF k.status.result = "contended" THEN want ELSE gaveUp

Act == \/ ActReleaseWait \/ ActRestore \/ ActForget \/ hold \/ StepWait
       \/ StepNewIntent \/ StepRetry \/ CheckHolds \/ CheckDropped \/ CheckDrifts

-----------------------------------------------------------------------------
(* Publish: the control status in the NodeTwin.                            *)

\* A patch that fails is remembered as written all the same; one to a
\* NodeTwin that is gone succeeds and does nothing.
Patch(entry) ==
    IF ShouldWrite(memo, entry)
    THEN /\ memo' = Remember(entry)
         /\ \E o \in APIOutcomes :
                /\ published' = IF o = "error" \/ spec = NoTwin THEN published
                                ELSE IF entry = Removed THEN NoStatus ELSE entry
                /\ c' = IF o = "error" THEN c
                        ELSE IF entry = Removed
                        THEN [c EXCEPT !.statusWritten = FALSE, !.status = NoStatus]
                        ELSE [c EXCEPT !.statusWritten = TRUE]
    ELSE /\ c' = IF entry = Removed
                 THEN [c EXCEPT !.statusWritten = FALSE, !.status = NoStatus]
                 ELSE [c EXCEPT !.statusWritten = TRUE]
         /\ UNCHANGED <<memo, published>>

\* publish, and release's removal of the status.
Publish ==
    /\ pc \in {"publish", "remove"}
    /\ Patch(IF pc = "remove" THEN Removed ELSE c.status)
    /\ pc' = "idle"
    /\ UNCHANGED <<spec, calm, nodeVars, stored, agentVars, hwMemo, gaveUp>>

-----------------------------------------------------------------------------
(* Stopping and starting.                                                  *)

Start(m) ==
    /\ mode' = m
    /\ pc' = "idle" /\ exiting' = FALSE
    /\ loaded' = FALSE /\ base' = NoBaseline /\ disc' = FALSE /\ want' = NoIntent
    /\ c' = newComponent
    /\ memo' = NoMemo /\ hwMemo' = NoMemo /\ gaveUp' = NoIntent
    /\ UNCHANGED <<spec, calm, nodeVars, apiVars>>

\* All the agent knows of its settings is in the API server.
Synced == pc = "idle" /\ loaded /\ published = c.status /\ stored = base

\* SIGKILL, an OOM kill or a crash of the node's kubelet.
Crash ==
    /\ ~calm
    /\ Restarts = "any" \/ (Restarts = "synced" /\ Synced)
    /\ \E m \in Modes : Start(m)

\* SIGTERM: restoreOnExit releases with the latest discovery and an empty
\* governorEnv, whatever the intent and the retry time.
Terminate ==
    /\ ~calm
    /\ Restarts # "never" /\ pc = "idle" /\ ~exiting
    /\ exiting' = TRUE
    /\ IF OnExit /\ loaded /\ c.changed
       THEN /\ pc' = "act" /\ want' = NoIntent
            /\ c' = [c EXCEPT !.retry = NoRetry]
       ELSE UNCHANGED <<pc, want, c>>
    /\ UNCHANGED <<spec, calm, nodeVars, apiVars, mode, loaded, base, disc, hwMemo, memo, gaveUp>>

Restart ==
    /\ exiting /\ pc = "idle"
    /\ \E m \in Modes : Start(m)

-----------------------------------------------------------------------------
(* Environment.                                                            *)

\* The controller manager changes, adds or removes the intent, or the
\* NodeTwin goes with its status.
SpecChanges ==
    /\ ~calm
    /\ \E s \in Specs \ {spec} :
        /\ spec' = s
        /\ published' = IF s = NoTwin THEN NoStatus ELSE published
    /\ UNCHANGED <<calm, nodeVars, stored, agentVars, pc, c, hwMemo, memo, gaveUp>>

\* Another writer, an operator, or a driver that drops a value.
RivalWrites ==
    /\ ~calm /\ Rivals
    /\ \E f \in Files : \E v \in Words(f) :
        /\ sys' = [sys EXCEPT ![f] = v]
        /\ was' = [was EXCEPT ![f] = v]
    /\ UNCHANGED <<spec, calm, apiVars, agentVars, pc, c, hwMemo, memo, gaveUp>>

CalmDown ==
    /\ ~calm
    /\ calm' = TRUE
    /\ UNCHANGED <<spec, nodeVars, apiVars, agentVars, pc, c, hwMemo, memo, gaveUp>>

Tick ==
    /\ pc = "idle" /\ ~exiting
    /\ c' = Aged(c)
    /\ memo' = [memo EXCEPT !.age = Older(@, Rewrite)]
    /\ hwMemo' = IF hwMemo = NoMemo THEN NoMemo
                 ELSE [hwMemo EXCEPT !.age = Older(@, Rewrite)]
    /\ UNCHANGED <<spec, calm, nodeVars, apiVars, agentVars, pc, gaveUp>>

-----------------------------------------------------------------------------
Init ==
    /\ spec \in Specs
    /\ calm = FALSE
    /\ sys = [f \in Files |-> IF f \in GovFiles THEN "default" ELSE "0"]
    /\ was = sys
    /\ stored = NoBaseline /\ published = NoStatus
    /\ mode \in Modes
    /\ pc = "idle" /\ exiting = FALSE
    /\ loaded = FALSE /\ base = NoBaseline /\ disc = FALSE /\ want = NoIntent
    /\ c = newComponent
    /\ memo = NoMemo /\ hwMemo = NoMemo /\ gaveUp = NoIntent

Agent == Prepare \/ Act \/ Publish
Next == Agent \/ Crash \/ Terminate \/ Restart \/ SpecChanges \/ RivalWrites \/ CalmDown \/ Tick

Spec == Init /\ [][Next]_vars

(* The agent's loop runs every RECONCILE_INTERVAL and time passes: both    *)
(* happen for as long as the process lives.                                *)
FairSpec == Spec /\ WF_vars(Agent) /\ WF_vars(Restart) /\ SF_vars(Tick)

-----------------------------------------------------------------------------
(* Properties.                                                             *)

ActStep == pc = "act" /\ pc' # pc

(* Every field of governorComponent stays in its range: the drift list and *)
(* the timers among them, whatever order of applies, checks, releases and  *)
(* restarts.                                                               *)
TypeOK ==
    /\ spec \in Specs /\ want \in Specs /\ gaveUp \in Asks \cup {NoIntent}
    /\ sys \in Settings /\ was \in Settings
    /\ {stored, base} \subseteq Baselines
    /\ published \in Statuses \cup {NoStatus}
    /\ mode \in Modes
    /\ pc \in {"idle", "act", "publish", "remove"}
    /\ {calm, exiting, loaded, disc} \subseteq BOOLEAN
    /\ c \in Component
    /\ memo \in [payload : Seq(Statuses \cup {NoStatus, Removed}), age : 0..Rewrite]
    /\ hwMemo.age \in 0..Rewrite

(* An act step that leaves the status applied leaves the node with the     *)
(* setting of the intent it acted on: not of an earlier one, not a partly  *)
(* written one, not one that another writer has replaced.                  *)
AppliedMeansInForce ==
    [][ (ActStep /\ pc' = "publish" /\ c'.status.result = "applied")
            => \A j \in 1..Len(PlanCPU(want)) :
                    sys'[PlanCPU(want)[j].file] = PlanCPU(want)[j].value ]_vars

(* A baseline taken from a discovery never holds a value the agent itself  *)
(* wrote.                                                                  *)
NeverRecordsOwn ==
    [][ (pc = "idle" /\ pc' = "act" /\ loaded' /\ base' # (IF loaded THEN base ELSE stored))
            => \A f \in BaseFiles : base'[f] = was[f] ]_vars

(* Once an intent is contended the agent writes nothing more for it, until *)
(* the controller manager asks for something else.                         *)
GivesWay == [][ (ActStep /\ want \in Asks /\ gaveUp = want) => sys' = sys ]_vars

(* Once the environment is at rest, a supported intent is in force and     *)
(* reported, unless the driver refused or another writer won: retries,     *)
(* drifts and lost status writes all end.                                  *)
SettingArrives ==
    \A i \in Asks : (calm /\ spec = i /\ Supported(i)) ~>
        \/ c.refused \/ c.contended
        \/ /\ \A j \in 1..Len(PlanCPU(i)) : sys[PlanCPU(i)[j].file] = PlanCPU(i)[j].value
           /\ published = Status("applied", Native(i))

(* Once the environment is at rest without an intent, nothing of the       *)
(* agent's is left on the node, unless the driver refused.                 *)
RestoreArrives == (calm /\ spec \notin Asks) ~> (c.refused \/ sys = was)

(* What the controller manager asks for in the end is what the node ends   *)
(* with: the two facts above, of a setting and of none.                    *)
GovernorArrives == SettingArrives /\ RestoreArrives
============================================================================
