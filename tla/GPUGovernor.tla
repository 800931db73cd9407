---------------------------- MODULE GPUGovernor ----------------------------
(***************************************************************************)
(* Governor control of the GPU component (reconcileGPU of                  *)
(* cmd/agent/governor_control.go with pkg/governor's plans): amdgpu        *)
(* performance levels and overdrive ceilings, which can be read back, and  *)
(* nvidia-smi clock locks, which cannot.  What the agent cannot read it    *)
(* records: the locks it set, per GPU, and after a restart what the last   *)
(* status in the NodeTwin names.                                           *)
(*                                                                         *)
(* A reconcile is one action: it reads its inputs once, and what comes     *)
(* between its steps (a kill, a lost API write) is in GovernorControl,     *)
(* which shares prepare, release and publish.  A GPU is a record of its    *)
(* attributes, a plan a sequence of commands, and a clock the name of the  *)
(* preset that sets it: GPUs with the same table have the same clocks.     *)
(***************************************************************************)
EXTENDS GovernorComponent, FiniteSetsExt

CONSTANTS
    Vendors,   \* of the GPUs this node may have: "nvidia", "amd"
    NGpu,      \* GPUs of the node
    Table,     \* Table[v][g]: what GPU g of vendor v can do
    Presets,   \* Presets[v]: presets the controller manager may ask for
    Failing,   \* results a command may end with
    Modes,     \* GOVERNOR_WRITES of a run: "write", "readonly"
    Operators, \* levels an operator may have set before the agent came
    Rivals,    \* GPUs on which an operator or another writer acts
    Resets,    \* GPUs that may lose their settings: a reset, or a driver unloads
    Gaps,      \* a GPU discovery may come back empty
    Restarts,  \* "never", "named" (the status names the locks), "any"
    Samples    \* nvidiaVerifySamples

GPUs == 1..NGpu

(* What a GPU can do.  NVIDIA: "memory", clock locks of both domains;      *)
(* "graphics", a fixed memory clock; "unread", supported clocks that could *)
(* not be read.  amdgpu: "levels" (Navi 31), "overdrive" (MI300) or "both" *)
(* (Aldebaran).                                                            *)
Tables == {"memory", "graphics", "unread", "levels", "overdrive", "both"}
PresetNames == {"auto", "sustained", "efficient", "low", "peak"}

ASSUME GPUAssumption ==
    /\ NGpu \in Nat \ {0}
    /\ Vendors \subseteq {"nvidia", "amd"}
    /\ \A v \in Vendors : \A g \in GPUs : Table[v][g] \in Tables
    /\ \A v \in Vendors : Presets[v] \subseteq PresetNames
    /\ Failing \subseteq {"refused", "unsupported", "error", "not-applied"}
    /\ Modes \subseteq {"write", "readonly"} /\ Modes # {}
    /\ Operators \subseteq {"perf_determinism"}
    /\ Rivals \cup Resets \subseteq GPUs
    /\ Gaps \in BOOLEAN
    /\ Restarts \in {"never", "named", "any"}
    /\ Samples \in Nat

VARIABLES
    vendor,    \* of the node's GPUs
    spec,      \* the preset of spec.gpu.governor, or "none"
    calm,      \* the environment has come to rest
    dev,       \* dev[g][a]: attribute a of GPU g
    claims,    \* auxiliary: the <<g, a>> the agent set and has not put back
    stored,    \* the baseline in NodeHardware
    published, \* status.controlStatus.gpuGovernor in the NodeTwin
    mode,      \* GOVERNOR_WRITES of this run
    loaded,    \* governorControl.loaded
    base,      \* governorControl.gpuBaseline
    seeded,    \* c.nvSeed: the locks the last status of an earlier run named
    nv,        \* c.nv: the record of the agent's locks
    nvGood,    \* c.nvGood: verified samples per GPU
    odDevices, \* c.odDevices: GPUs whose overdrive range the agent edited
    c          \* governorControl.gpu

nodeVars == <<vendor, dev, claims>>
recordVars == <<nv, nvGood, odDevices>>
agentVars == <<mode, loaded, base, seeded, recordVars, c>>
vars == <<nodeVars, spec, calm, stored, published, agentVars>>

-----------------------------------------------------------------------------
(* Devices and plans.                                                      *)

Nvidia == vendor = "nvidia"

\* A GPU that nobody has set: no lock; level auto and the driver's range.
VendorDefault == [gpu |-> "none", mem |-> "none", level |-> "auto", sclk |-> "none"]

NoClocks == [gpu |-> "none", mem |-> "none"]

(* chooseNvidia: the lock of each domain, "none" for a domain left to the  *)
(* driver.  Efficient is a graphics lock, sustained a memory lock.         *)
chooseNvidia(g, preset) ==
    LET locks(a, presets) == IF preset \in presets THEN preset ELSE "none"
    IN  [ok |-> preset = "auto" \/ Table[vendor][g] # "unread",
         on |-> [gpu |-> locks("gpu", {"efficient", "low", "peak"}),
                 mem |-> IF Table[vendor][g] = "memory"
                         THEN locks("mem", {"sustained", "low", "peak"}) ELSE "none"]]

amdLevels == [auto |-> "auto", sustained |-> "high", low |-> "low",
              peak |-> "profile_peak", efficient |-> "manual"]

\* chooseAMD: the level of a preset, and for efficient a ceiling under manual.
chooseAMD(g, preset) ==
    [ok    |-> CASE preset = "auto" -> TRUE
                 [] preset = "efficient" -> Table[vendor][g] # "levels"
                 [] OTHER -> Table[vendor][g] # "overdrive",
     level |-> amdLevels[preset],
     sclk  |-> IF preset = "efficient" THEN preset ELSE "none"]

supported(preset) ==
    \A g \in GPUs : IF Nvidia THEN chooseNvidia(g, preset).ok ELSE chooseAMD(g, preset).ok

\* A command sets an attribute; an overdrive edit ("s 1 <MHz>" or "r") takes
\* effect with the commit after it, the command of attribute sclk.  A plan has
\* a place for every command it may need, and NoCmd where it needs none.
Cmd(g, a, v) == [g |-> g, a |-> a, v |-> v]
NoCmd == Cmd(0, "none", "none")
Due(p, cmd) == IF p THEN cmd ELSE NoCmd

\* A lock the agent did not set is reset as well.
ResetsAnyLock(rec, g, preset) ==
    LET on == chooseNvidia(g, preset).on
    IN  <<Cmd(g, "gpu", on.gpu), Cmd(g, "mem", on.mem)>>

(* PlanNvidia: a lock for a domain the preset locks, a reset for one it    *)
(* leaves to the driver only when the agent's record holds a lock there.   *)
PlanNvidia(rec, g, preset) ==
    LET on == chooseNvidia(g, preset).on
        lockable(a) == a = "mem" => Table[vendor][g] = "memory"
        one(a) == Due(on[a] # "none" \/ (rec[g][a] # "none" /\ lockable(a)), Cmd(g, a, on[a]))
    IN  <<one("gpu"), one("mem")>>

PlanAMD(g, preset) ==
    LET choice == chooseAMD(g, preset)
        ceiling(a) == Due(choice.sclk # "none", Cmd(g, a, choice.sclk))
    IN  <<Cmd(g, "level", choice.level), ceiling("edit"), ceiling("sclk")>>

\* writeAMDSteps: the first command of every device, then the second, ...
Lockstep(plans) ==
    [j \in 1..(3 * NGpu) |->
        IF j <= NGpu THEN plans[j][1]
        ELSE IF j <= 2 * NGpu THEN plans[j - NGpu][2] ELSE plans[j - 2 * NGpu][3]]

\* runNvidiaPlans: the commands of one GPU after the other.
InTurn(plans) == [j \in 1..(2 * NGpu) |-> plans[(j + 1) \div 2][IF j % 2 = 1 THEN 1 ELSE 2]]

PlanOf(rec, preset) ==
    IF Nvidia THEN InTurn([g \in GPUs |-> PlanNvidia(rec, g, preset)])
    ELSE Lockstep([g \in GPUs |-> PlanAMD(g, preset)])

Attrs == {"gpu", "mem", "level", "sclk"}

\* The last command of cmds that bears on an attribute, 0 for none.  Level auto
\* drops the overdrive range.
LastOn(cmds, g, a) ==
    Max({0} \cup {j \in DOMAIN cmds : cmds[j].g = g
                                       /\ (cmds[j].a = a \/ (a = "sclk" /\ cmds[j].v = "auto"))})

\* The values after cmds of what held the values old before them.
After(cmds, g, a, old) ==
    LET j == LastOn(cmds, g, a)
    IN  IF j = 0 THEN old ELSE IF cmds[j].a = a THEN cmds[j].v ELSE "none"

DevAfter(cmds) == [g \in GPUs |-> [a \in Attrs |-> After(cmds, g, a, dev[g][a])]]

(* What the agent has set and not put back, after cmds over baseline b.    *)
ClaimsAfter(cmds, b) ==
    {ga \in GPUs \X Attrs :
        IF LastOn(cmds, ga[1], ga[2]) = 0 THEN ga \in claims
        ELSE After(cmds, ga[1], ga[2], "none") \notin
                {"none", "auto", IF ga[2] = "level" THEN b[ga[1]] ELSE "none"}}

-----------------------------------------------------------------------------
(* How a plan ends: the commands that were taken and a result, "" when all *)
(* were; kept are the locks of the failing GPU whose reset failed as well. *)

\* The locks a failed plan set on the GPU it failed on.
DoneLocks(plan, n) ==
    IF Nvidia THEN {j \in 1..n : plan[j].g = plan[n + 1].g /\ plan[j].v # "none"} ELSE {}

End(done, result, kept) == [done |-> done, result |-> result, kept |-> kept]

\* The driver takes an overdrive edit only under a level that allows it.
EditRefused(plan, j) ==
    /\ plan[j].a = "edit"
    /\ DevAfter(SubSeq(plan, 1, j - 1))[plan[j].g].level \notin {"manual", "perf_determinism"}

(* runNvidiaPlans and writeAMDSteps stop at the first command that fails.  *)
Stops(plan) ==
    UNION {{End(1..(j - 1), r, s) : r \in Failing \ {"not-applied"}, s \in SUBSET DoneLocks(plan, j - 1)} :
              j \in {i \in DOMAIN plan : plan[i] # NoCmd}}

(* A level or a ceiling may also be taken without effect, which the read   *)
(* back of the level shows at once and that of a ceiling at the end.       *)
NotTaken(plan) ==
    {End(IF plan[j].a = "level" THEN 1..(j - 1) ELSE DOMAIN plan \ {j}, "not-applied", {}) :
        j \in {i \in DOMAIN plan : plan[i].a \in {"level", "sclk"}}}

Ends(plan) ==
    LET bad == {j \in DOMAIN plan : EditRefused(plan, j)}
    IN  IF bad # {} THEN {End(1..(Min(bad) - 1), "unsupported", {})}
        ELSE {End(DOMAIN plan, "", {})}
                \cup IF calm THEN {}
                     ELSE Stops(plan) \cup IF "not-applied" \in Failing THEN NotTaken(plan) ELSE {}

\* undoNvidiaLocks: the locks whose reset was taken.
undoNvidiaLocks(plan, e) == DoneLocks(plan, Cardinality(e.done)) \ e.kept

\* The commands that took effect: of a lock that was undone, the reset.
Ran(plan, e) ==
    LET one(j) == IF j \in undoNvidiaLocks(plan, e) THEN Cmd(plan[j].g, plan[j].a, "none") ELSE plan[j]
    IN  IF e.result = "" THEN plan ELSE [j \in DOMAIN plan |-> Due(j \in e.done, one(j))]

\* recordNvidia: a lock command sets the record of its domain, a reset clears it.
recordNvidia(rec, cmds) ==
    IF Nvidia THEN [g \in GPUs |-> [a \in {"gpu", "mem"} |-> After(cmds, g, a, rec[g][a])]] ELSE rec

-----------------------------------------------------------------------------
(* Statuses.  applied names one state that every GPU shares, or mixed.     *)

Applied(word, on) == [word |-> word, on |-> on]
Nothing == Applied("", NoClocks)
Status(result, applied) == [backend |-> vendor, result |-> result, applied |-> applied]
NoStatus == [backend |-> "none", result |-> "", applied |-> Nothing]

uniformOrMixed(seq) ==
    IF seq = <<>> THEN Nothing
    ELSE IF \A j \in DOMAIN seq : seq[j] = seq[1] THEN seq[1]
    ELSE Applied("mixed", NoClocks)

\* The native words of locks on, "unlocked" without one.
NativeNvidia(on) == Applied(IF on = NoClocks THEN "unlocked" ELSE "locked", on)

\* Plan.Native.  An NVIDIA plan without a lock and without a command says nothing.
Native(rec, g, preset) ==
    IF ~Nvidia
    THEN Applied(chooseAMD(g, preset).level, [NoClocks EXCEPT !.gpu = chooseAMD(g, preset).sclk])
    ELSE IF PlanNvidia(rec, g, preset) = <<NoCmd, NoCmd>> THEN Applied("unknown", NoClocks)
    ELSE NativeNvidia(chooseNvidia(g, preset).on)

Natives(rec, preset) == uniformOrMixed([g \in GPUs |-> Native(rec, g, preset)])

\* amdInForce: what the commands that were taken put in force on each device.
amdInForce(plan, e, preset) ==
    LET took(g, a) == \A j \in DOMAIN plan : (plan[j].g = g /\ plan[j].a = a) => j \in e.done
        one(g) == IF ~took(g, "level") THEN Nothing
                  ELSE Applied(chooseAMD(g, preset).level,
                               IF took(g, "sclk") THEN Native(nv, g, preset).on ELSE NoClocks)
    IN  uniformOrMixed([g \in GPUs |-> one(g)])

\* runNvidiaPlans: the plan on the GPUs it went through, and on the one it
\* failed on what of it stayed: a reset, or a lock whose reset failed.
nvidiaInForce(rec, plan, e, preset) ==
    LET b == plan[Cardinality(e.done) + 1].g
        reset == \E j \in e.done : plan[j].g = b /\ plan[j].v = "none"
        stayed == IF e.kept # {} \/ reset
                  THEN NativeNvidia(recordNvidia(rec, Ran(plan, e))[b]) ELSE Nothing
    IN  uniformOrMixed([g \in 1..b |-> IF g < b THEN Native(rec, g, preset) ELSE stayed])

-----------------------------------------------------------------------------
(* Applying.  An outcome is what an apply or a restore leaves behind it.   *)

nvidiaLocked(rec) == \E g \in GPUs : rec[g] # NoClocks

nvidiaVerified(rec, good) == \A g \in GPUs : rec[g] # NoClocks => good[g] >= Samples

\* Sustained on a GPU with a fixed memory clock is equivalent, which counts
\* as applied.
applyResult(rec, good, preset) ==
    IF /\ Nvidia /\ nvidiaLocked(rec) /\ ~nvidiaVerified(rec, good)
       /\ ~(preset = "sustained" /\ \E g \in GPUs : Table[vendor][g] # "memory")
    THEN "unverified" ELSE "applied"

\* What an amdgpu device reads while the setting holds.
Expected(plan) == {plan[j] : j \in {i \in DOMAIN plan : plan[i].a \in {"level", "sclk"}}}

Outcome(cmds, rec, od, b, k) ==
    [dev |-> DevAfter(cmds), claims |-> ClaimsAfter(cmds, b),
     nv |-> recordNvidia(rec, cmds), od |-> od, comp |-> k]

Wrote(plan, e) == (\E j \in e.done : plan[j] # NoCmd) \/ e.result = "not-applied"

ApplyStatus(rec, good, preset, plan, e) ==
    IF e.result = ""
    THEN Status(applyResult(recordNvidia(rec, plan), good, preset), Natives(rec, preset))
    ELSE Status(e.result, IF Nvidia THEN nvidiaInForce(rec, plan, e, preset)
                          ELSE amdInForce(plan, e, preset))

(* applyNvidia and applyAMD, with applyNow's part in the component: a      *)
(* preset one GPU cannot express writes nothing.                           *)
Apply(k, rec, good, od, b, preset) ==
    LET ceilings == {g \in GPUs : ~Nvidia /\ chooseAMD(g, preset).sclk # "none"}
        comp(plan, e) == [k EXCEPT !.expect = IF e.result = "" THEN Expected(plan) ELSE @]
        ends(plan) == {Outcome(Ran(plan, e), rec, od \cup (IF Wrote(plan, e) THEN ceilings ELSE {}), b,
                               applyNow(comp(plan, e), ApplyStatus(rec, good, preset, plan, e), Wrote(plan, e)))
                          : e \in Ends(plan)}
    IN  IF supported(preset) THEN UNION {ends(plan) : plan \in {PlanOf(rec, preset)}}
        ELSE {Outcome(<<>>, rec, od, b, applyNow(k, Status("unsupported", Nothing), FALSE))}

(* restoreAMD: the overdrive ranges the agent edited, unless the return to *)
(* auto drops them, then the levels that differ.                           *)
restoreAMD(od, b) ==
    LET reset(g, a) == Due(g \in od /\ Table[vendor][g] # "levels" /\ b[g] # "auto", Cmd(g, a, "none"))
        level(g) == Due(dev[g].level # b[g], Cmd(g, "level", b[g]))
    IN  Lockstep([g \in GPUs |-> <<reset(g, "edit"), reset(g, "sclk"), level(g)>>])

\* restoreGPU, with release's part in the component.
Restore(k, rec, od, b) ==
    LET levels == uniformOrMixed([g \in GPUs |-> Applied(b[g], NoClocks)])
        status(e) == IF e.result # "" THEN Status(e.result, Nothing)
                     ELSE Status("restored", IF Nvidia THEN NativeNvidia(NoClocks) ELSE levels)
        ends(plan) == {Outcome(Ran(plan, e), rec, IF e.result = "" THEN {} ELSE od, b,
                               releaseDone(k, "none", status(e))) : e \in Ends(plan)}
    IN  UNION {ends(plan) : plan \in {IF Nvidia THEN PlanOf(rec, "auto") ELSE restoreAMD(od, b)}}

-----------------------------------------------------------------------------
(* prepare and seed.                                                       *)

governorResultWrote(st) ==
    /\ st.result \notin {"", "disabled", "restored"}
    /\ st.result = "unsupported" => st.applied.word # ""

\* The locks of an earlier run are not asked for.
SeedsNoLock == [comp |-> [c EXCEPT !.status = published, !.statusWritten = published # NoStatus,
                                   !.changed = governorResultWrote(published)],
                locks |-> {}, od |-> {}]

(* seed: the last status says whether an earlier run changed the GPUs and  *)
(* which locks it set, through ParseNative: a status that says mixed names *)
(* none.                                                                   *)
seed ==
    LET wrote == governorResultWrote(published)
        on == published.applied.on
    IN  [comp  |-> [c EXCEPT !.status = published, !.statusWritten = published # NoStatus,
                             !.changed = wrote],
         locks |-> IF wrote /\ published.backend = "nvidia" THEN {on} ELSE {},
         od    |-> IF wrote /\ published.backend = "amd" /\ on.gpu # "none" THEN GPUs ELSE {}]

Loaded == IF loaded THEN [comp |-> c, locks |-> seeded, od |-> odDevices] ELSE seed

NoBaseline == [g \in {} |-> "auto"]

(* The baseline follows discovery until the agent has written; without a   *)
(* stored one after a write it is the vendor's default.                    *)
NextBaseline(found) ==
    LET b == IF loaded THEN base ELSE stored
        level(g) == IF Nvidia THEN "unknown" ELSE IF Loaded.comp.changed THEN "auto" ELSE dev[g].level
    IN  IF ~found \/ (b # NoBaseline /\ Loaded.comp.changed) THEN b ELSE [g \in GPUs |-> level(g)]

\* seedNvidia: every GPU gets the locks the status named.
seedNvidia(found) ==
    IF Nvidia /\ found /\ Loaded.locks # {} THEN [g \in GPUs |-> CHOOSE on \in Loaded.locks : TRUE]
    ELSE nv

Founds == IF Gaps /\ ~calm THEN BOOLEAN ELSE {TRUE}

(* prepare, the NodeHardware write and reconcileGPU's seedNvidia; found    *)
(* says whether this reconcile's discovery listed the GPUs.                *)
Prepared(found) ==
    /\ loaded' = TRUE
    /\ base' = NextBaseline(found)
    /\ stored' = base'
    /\ seeded' = IF found /\ Nvidia THEN {} ELSE Loaded.locks
    /\ UNCHANGED <<spec, calm, mode>>

\* The outcome of a write on a node that was found, published.
Takes(o, good) ==
    /\ Prepared(TRUE)
    /\ dev' = o.dev /\ claims' = o.claims
    /\ nv' = o.nv /\ nvGood' = good /\ odDevices' = o.od
    /\ c' = [o.comp EXCEPT !.statusWritten = TRUE]
    /\ published' = c'.status
    /\ UNCHANGED vendor

\* A reconcile that writes nothing to the node.
KeepsNode(found) ==
    /\ Prepared(found)
    /\ nv' = seedNvidia(found)
    /\ odDevices' = Loaded.od
    /\ UNCHANGED <<vendor, dev>>

-----------------------------------------------------------------------------
(* reconcileGPU.                                                           *)

\* prepare of the first reconcile; what reconcileGPU does with it follows.
Load ==
    /\ ~loaded
    /\ \E found \in Founds : KeepsNode(found)
    /\ c' = Loaded.comp
    /\ UNCHANGED <<claims, published, nvGood>>

mayRestore == ~c.refused
restoreWritesOff == mode = "readonly" /\ c.changed /\ ~c.contended /\ mayRestore
Releasing == loaded /\ (spec = "none" \/ restoreWritesOff)
Restoring == Releasing /\ Released(c).changed /\ mayRestore

\* release: the restore waits for a discovery and for its retry time.
ReleaseWait ==
    /\ Restoring
    /\ \E found \in Founds :
        /\ ~found \/ c.retry \in 1..Retry
        /\ KeepsNode(found)
    /\ c' = Released(c)
    /\ UNCHANGED <<claims, published, nvGood>>

ReleaseRestore ==
    /\ Restoring /\ c.retry \notin 1..Retry
    /\ \E o \in Restore(Released(c), seedNvidia(TRUE), odDevices, NextBaseline(TRUE)) :
            Takes(o, nvGood)

\* Nothing to restore: a status the agent wrote is removed.  The other
\* writer of a contended setting has it now.
ReleaseForget ==
    /\ Releasing /\ ~Restoring
    /\ LET gone == c.statusWritten /\ c.status.result # "restored"
       IN  /\ c' = [endIntent(Released(c), "none") EXCEPT
                       !.retry = NoRetry,
                       !.statusWritten = @ /\ ~gone,
                       !.status = IF gone THEN NoStatus ELSE @]
           /\ published' = IF gone THEN NoStatus ELSE published
    /\ claims' = IF c.contended THEN {} ELSE claims
    /\ \E found \in Founds : KeepsNode(found)
    /\ UNCHANGED nvGood

\* blocked, then hold: writes are off, or a tool did not answer.
Hold ==
    /\ loaded /\ ~Releasing
    /\ \E found \in Founds :
        /\ ~found \/ mode = "readonly"
        /\ KeepsNode(found)
    /\ LET st == [NoStatus EXCEPT !.result = IF mode = "readonly" THEN "disabled" ELSE "error"]
       IN  /\ c' = [c EXCEPT !.intent = "none", !.statusWritten = TRUE, !.status = st]
           /\ published' = st
    /\ UNCHANGED <<claims, nvGood>>

-----------------------------------------------------------------------------
(* step: an intent the agent writes, on a discovery that found the GPUs.   *)

Stepping == loaded /\ ~Releasing /\ mode = "write"
Watching == Stepping /\ ~c.refused /\ spec = c.intent /\ ~c.contended

\* An error is tried again after Reapply ticks, what the driver did not take
\* when its retry time comes.
RetryDue ==
    \/ c.retry = 0
    \/ c.retry = NoRetry /\ c.status.result = "error" /\ c.sinceApply >= Reapply

RetryLater ==
    \/ c.retry \in 1..Retry
    \/ c.retry = NoRetry /\ c.status.result = "error" /\ c.sinceApply < Reapply

Writes(k, good) == Apply(k, seedNvidia(TRUE), good, odDevices, NextBaseline(TRUE), spec)

\* The node as it is, with k published.
Reports(k, good) ==
    Takes([dev |-> dev, claims |-> claims, nv |-> seedNvidia(TRUE), od |-> odDevices, comp |-> k], good)

\* Refused, contended, or a retry to come.
StepWait ==
    /\ Stepping
    /\ c.refused \/ (spec = c.intent /\ (c.contended \/ RetryLater))
    /\ Reports(c, nvGood)

\* A new intent forgets the samples of the last.
StepNewIntent ==
    /\ Stepping /\ ~c.refused /\ spec # c.intent
    /\ LET none == [g \in GPUs |-> 0]
       IN  \E o \in Writes(startIntent(c, spec), none) : Takes(o, none)

StepRetry ==
    /\ Watching /\ RetryDue
    /\ \E o \in Writes(c, nvGood) : Takes(o, nvGood)

Checking == Watching /\ ~RetryDue /\ ~RetryLater

\* Locks are never issued again: what cannot be read has not changed.
NeverReissues == FALSE

(* nvidiaReissueDue: locks are issued again every Reapply ticks.  A GPU    *)
(* with persistence mode off is due at every reconcile; the model leaves   *)
(* that to the ticks, which may pass between any two reconciles.           *)
nvidiaReissueDue == Nvidia /\ nvidiaLocked(seedNvidia(TRUE)) /\ c.sinceApply >= Reapply

(* verifyNvidia: a busy GPU whose clocks sit within its locks counts, one  *)
(* whose clocks do not starts again, an idle one says nothing.             *)
Verified(k, rec, busy, within) ==
    IF k.status.result # "unverified" THEN [comp |-> checkHolds(k), good |-> nvGood]
    ELSE LET good == [g \in GPUs |->
                        IF g \notin busy \/ rec[g] = NoClocks THEN nvGood[g]
                        ELSE IF g \in within THEN Older(nvGood[g], Samples) ELSE 0]
             st == [k.status EXCEPT !.result = "applied"]
         IN  [comp |-> checkHolds(IF nvidiaVerified(rec, good)
                                  THEN [k EXCEPT !.status = st, !.good = st] ELSE k),
              good |-> good]

\* The clocks that a reconcile's query may show.
Clocks == {bw \in (SUBSET GPUs) \X (SUBSET GPUs) : bw[2] \subseteq bw[1]}

\* Locks issued again are the same locks: their samples still count.
StepReissue ==
    /\ Checking /\ nvidiaReissueDue
    /\ \E o \in Writes(c, nvGood), bw \in Clocks :
        LET v == Verified(o.comp, o.nv, bw[1], bw[2])
        IN  Takes([o EXCEPT !.comp = v.comp], v.good)

VerifyNvidia ==
    /\ Checking /\ Nvidia /\ ~nvidiaReissueDue
    /\ \E bw \in Clocks :
        LET v == Verified(c, seedNvidia(TRUE), bw[1], bw[2]) IN Reports(v.comp, v.good)

Differs == {w \in c.expect : dev[w.g][w.a] # w.v}

\* checkAMD looks at the levels first: one back at auto is a reset of the GPU.
IsReset ==
    LET levels == {w \in Differs : w.a = "level"}
    IN  levels # {} /\ LET w == CHOOSE x \in levels : \A y \in levels : x.g <= y.g
                       IN  dev[w.g].level = "auto"

CheckHolds ==
    /\ Checking /\ ~Nvidia /\ Differs = {}
    /\ Reports(checkHolds(c), nvGood)

CheckDropped ==
    /\ Checking /\ Differs # {} /\ ~c.verified
    /\ Reports(checkDropped(c), nvGood)

CheckReset ==
    /\ Checking /\ Differs # {} /\ c.verified /\ IsReset
    /\ \E o \in Writes(c, nvGood) : Takes(o, nvGood)

CheckDrifts ==
    /\ Checking /\ Differs # {} /\ c.verified /\ ~IsReset
    /\ LET k == IF c.drifted THEN c ELSE checkDrift(c)
       IN  IF ~k.contended /\ k.sinceApply >= Reapply
           THEN \E o \in Writes(k, nvGood) : Takes(o, nvGood)
           ELSE Reports(k, nvGood)

Reconcile ==
    \/ Load
    \/ ReleaseWait \/ ReleaseRestore \/ ReleaseForget \/ Hold
    \/ StepWait \/ StepNewIntent \/ StepRetry \/ StepReissue \/ VerifyNvidia
    \/ CheckHolds \/ CheckDropped \/ CheckReset \/ CheckDrifts

-----------------------------------------------------------------------------
(* Environment.                                                            *)

SpecChanges ==
    /\ ~calm
    /\ \E p \in (Presets[vendor] \cup {"none"}) \ {spec} : spec' = p
    /\ UNCHANGED <<nodeVars, calm, stored, published, agentVars>>

\* An operator's lock, or a level someone else writes.
RivalWrites ==
    /\ ~calm
    /\ \E g \in Rivals :
        dev' = [dev EXCEPT ![g] = IF Nvidia THEN [dev[g] EXCEPT !.gpu = "operator", !.mem = "operator"]
                                  ELSE [dev[g] EXCEPT !.level = "operator"]]
    /\ UNCHANGED <<vendor, claims, spec, calm, stored, published, agentVars>>

\* A GPU reset, a driver reload, or a driver that unloads without clients.
\* The agent sees that a level is gone, and never that a lock is.
GPUReset ==
    /\ ~calm
    /\ \E g \in Resets :
        /\ dev' = [dev EXCEPT ![g] = VendorDefault]
        /\ claims' = IF Nvidia THEN claims ELSE claims \ ({g} \X {"level", "sclk"})
    /\ UNCHANGED <<vendor, spec, calm, stored, published, agentVars>>

NewComponent ==
    [intent |-> "none", expect |-> {}, changed |-> FALSE, verified |-> FALSE,
     drifted |-> FALSE, drifts |-> <<>>, contended |-> FALSE, refused |-> FALSE,
     retry |-> NoRetry, sinceApply |-> Reapply, status |-> NoStatus,
     good |-> NoStatus, statusWritten |-> FALSE]

NoRecord == [g \in GPUs |-> NoClocks]

\* The last status says that the agent wrote, and on every GPU the same locks
\* and ceilings as the agent's record.
StatusNamesAll ==
    /\ seeded = {}
    /\ c.changed => governorResultWrote(published)
    /\ \A g \in GPUs : nv[g] = NoClocks \/ nv[g] = published.applied.on
    /\ \A g, h \in GPUs : nv[g] = nv[h]
    /\ odDevices # {} => published.applied.on.gpu # "none"

\* A kill or a node failure, once the status is written.
Restart ==
    /\ ~calm /\ loaded
    /\ Restarts = "any" \/ (Restarts = "named" /\ StatusNamesAll)
    /\ mode' \in Modes
    /\ loaded' = FALSE /\ base' = NoBaseline /\ seeded' = {}
    /\ nv' = NoRecord /\ nvGood' = [g \in GPUs |-> 0] /\ odDevices' = {}
    /\ c' = NewComponent
    /\ UNCHANGED <<nodeVars, spec, calm, stored, published>>

CalmDown == ~calm /\ calm' = TRUE /\ UNCHANGED <<nodeVars, spec, stored, published, agentVars>>

Tick ==
    /\ c' = Aged(c)
    /\ UNCHANGED <<nodeVars, spec, calm, stored, published, mode, loaded, base, seeded, recordVars>>

Init ==
    /\ vendor \in Vendors
    /\ spec = "none" /\ calm = FALSE
    /\ \E l \in IF Nvidia THEN {"auto"} ELSE Operators \cup {"auto"} :
          dev = [g \in GPUs |-> [VendorDefault EXCEPT !.level = l]]
    /\ claims = {}
    /\ stored = NoBaseline /\ published = NoStatus
    /\ mode \in Modes /\ loaded = FALSE /\ base = NoBaseline /\ seeded = {}
    /\ nv = NoRecord /\ nvGood = [g \in GPUs |-> 0] /\ odDevices = {}
    /\ c = NewComponent

Next == Reconcile \/ SpecChanges \/ RivalWrites \/ GPUReset \/ Restart \/ CalmDown \/ Tick

(* The agent's loop runs on a ticker, and time passes; what is asked of    *)
(* them begins when the environment rests.                                 *)
Spec == Init /\ [][Next]_vars /\ WF_vars(calm /\ Reconcile) /\ WF_vars(calm /\ Tick)

-----------------------------------------------------------------------------
(* Properties.                                                             *)

Clocked == [gpu : PresetNames \cup {"none", "operator"}, mem : PresetNames \cup {"none", "operator"}]
StatusOK(st) ==
    /\ st.backend \in Vendors \cup {"none"}
    /\ st.result \in Results \cup {""}
    /\ st.applied.on \in Clocked

TypeOK ==
    /\ spec \in Presets[vendor] \cup {"none"}
    /\ claims \subseteq GPUs \X {"gpu", "mem", "level", "sclk"}
    /\ nv \in [GPUs -> Clocked] /\ nvGood \in [GPUs -> 0..Samples]
    /\ odDevices \subseteq GPUs
    /\ StatusOK(published) /\ StatusOK(c.status) /\ StatusOK(c.good)
    /\ c.retry \in RetryTimes /\ c.drifts \in DriftTimes /\ Len(c.drifts) <= DriftLimit

(* The record of locks, which stands in for a getter nvidia-smi does not   *)
(* have, says what the agent set and has not reset, on every GPU, and      *)
(* nothing else: with less a restore leaves a lock behind, with more it    *)
(* resets an operator's.  Across failed plans, undone locks and restarts   *)
(* (recordNvidia, undoNvidiaLocks, seedNvidia); for amdgpu, every range    *)
(* the agent edited is in odDevices.                                       *)
RecordIsTrue ==
    loaded /\ seeded = {} =>
        IF Nvidia THEN {ga \in GPUs \X {"gpu", "mem"} : nv[ga[1]][ga[2]] # "none"} = claims
        ELSE {ga[1] : ga \in {x \in claims : x[2] = "sclk"}} \subseteq odDevices

(* A lock that an operator set, in a domain that the preset in force       *)
(* leaves to the driver, is reset only where the agent had locked the      *)
(* domain itself, whatever the record was built from (PlanNvidia's "so an  *)
(* operator's own lock is never reset").                                   *)
OperatorLockKept ==
    [][GPUReset \/ \A g \in GPUs, a \in {"gpu", "mem"} :
        dev[g][a] = "operator" /\ dev'[g][a] = "none" =>
            <<g, a>> \in claims \/ (spec # "none" /\ chooseNvidia(g, spec).on[a] # "none")]_vars

\* The preset is in force on every GPU, as far as no operator has locked it.
InForce ==
    /\ \A g \in GPUs : Nvidia =>
        /\ dev[g].gpu \in {chooseNvidia(g, spec).on.gpu, "operator"}
        /\ dev[g].mem \in {chooseNvidia(g, spec).on.mem, "operator"}
    /\ ~Nvidia => Differs = {} /\ c.expect # {}

(* Once the environment rests, a preset every GPU can express is in force, *)
(* unless the driver refused it or another writer keeps the setting: also  *)
(* locks that a GPU lost, which nothing shows (nvidiaReissueDue).          *)
SettingArrives ==
    (calm /\ spec # "none" /\ mode = "write" /\ (spec # "none" => supported(spec)))
        ~> (c.refused \/ c.contended \/ InForce)

\* Every GPU had the vendor's default before the agent came.
DefaultBaseline == \A g \in DOMAIN base : base[g] \in {"auto", "unknown"}

(* Once the environment rests without an intent, or with writes off, what  *)
(* the agent set goes back to the vendor's default, unless the driver      *)
(* refused it: release tries again for as long as it takes.                *)
RestoreArrives ==
    (calm /\ loaded /\ (spec = "none" \/ mode = "readonly") /\ DefaultBaseline) ~> (c.refused \/ claims = {})

(* Whatever is asked of the GPUs, a preset or nothing, arrives: the two    *)
(* facts above (reconcile, release).                                       *)
AskedArrives == SettingArrives /\ RestoreArrives

============================================================================
