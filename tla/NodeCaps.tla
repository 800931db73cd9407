------------------------------ MODULE NodeCaps ------------------------------
(***************************************************************************)
(* The cap loop of one GPU node, from hardware to budget: the agent lists  *)
(* the GPUs and publishes NodeHardware (cmd/agent main.go, amdgpu.go,      *)
(* intelgpu.go), the controller manager plans caps from it, or from labels *)
(* and the catalog (cmd/controller-manager main.go), writes the NodeTwin   *)
(* spec, the agent applies it and reports the result, and the twin turns   *)
(* plan and result into the node's power budget (twinstate.go, twin.go).   *)
(*                                                                         *)
(* Caps are whole watts. The profile comes from the policy (Profiles), the *)
(* agent's CPU backends and its stale spec timeout are in CPUCap; here the *)
(* CPU cap is the RAPL write of a percent cap.                             *)
(***************************************************************************)
EXTENDS Integers, Sequences, FiniteSets, FiniteSetsExt

CONSTANTS
    Fleets,          \* the nodes a run is about: see NoRange and MCNodeCaps
    EcoPct,          \* GPU_ and CPU_ECO_CAP_PCT_OF_MAX; performance is 100
    CpuMin, CpuMax,  \* the CPU's cap range
    StatusRewrite,   \* StatusRewriteInterval, in agent reconciles
    Stale,           \* AgentReportingStaleAfter, likewise
    CapFaults        \* bound: failed calls, resets, sleeps, profile changes

VARIABLES
    fleet,     \* the node: vendor, labels, devices, catalog and options
    profile,   \* the profile the policy plans
    cap,       \* device -> the power limit in force
    asleep,    \* devices whose files do not read
    last,      \* amdgpuLastCaps: the caps the agent last read or wrote
    agent,     \* where the reconcile is, its inventory and the spec it read
    nh,        \* NodeHardware, and its age
    wrote,     \* lastWrites: what the agent last sent to each, and its age
    plan,      \* the controller's assignment until it is written
    nodeSpec,  \* NodeTwin spec
    cpu,       \* the CPU cap in force
    status,    \* NodeTwin status.controlStatus.gpu
    twin,      \* NodeTwin status: the budgets and AgentReporting
    capFaults

capVars == <<fleet, profile, cap, asleep, last, agent, nh, wrote, plan, nodeSpec, cpu, status, twin, capFaults>>

None == [none |-> TRUE]
NoRange == [min |-> 0, max |-> 0]
Devs == DOMAIN cap
Pct(w, pct) == (w * pct) \div 100
Clamp(w, r) == Max({r.min, Min({w, r.max})})
pctOf(prof) == IF prof = "performance" THEN 100 ELSE EcoPct

CapInit ==
    /\ fleet \in Fleets /\ profile = "performance"
    /\ cap = [d \in DOMAIN fleet.dev |-> IF fleet.dev[d].own THEN fleet.dev[d].r.max ELSE 0]
    /\ asleep = {} /\ last = [d \in DOMAIN fleet.dev |-> None]
    /\ agent = [at |-> "idle"] /\ nh = None /\ wrote = [hw |-> None, gpu |-> None]
    /\ plan = None /\ nodeSpec = None /\ cpu = CpuMax /\ status = "none" /\ twin = None /\ capFaults = 0

Fault(k) == capFaults + k <= CapFaults /\ capFaults' = capFaults + k
Cost(b) == IF b THEN 1 ELSE 0

(***************************************************************************)
(* The agent: inventory.                                                   *)
(***************************************************************************)

(* Labels name the vendor; without them a driver that answers does.        *)
detectGPUVendor(fails) == IF fleet.labelled \/ ~fails THEN fleet.vendor ELSE "none"

(* nvidia: a GPU that prints a token for a limit is not settable.          *)
listNvidia(d) == [cap |-> cap[d], r |-> fleet.dev[d].r, unknown |-> FALSE, ok |-> fleet.dev[d].ok]
(* amd: a device that refuses the read shows what was last known of it.    *)
listAmd(d) ==
    IF d \notin asleep THEN [cap |-> cap[d], r |-> fleet.dev[d].r, unknown |-> FALSE, ok |-> cap[d] > 0]
    ELSE IF last[d] # None THEN [cap |-> last[d].cap, r |-> last[d].r, unknown |-> FALSE, ok |-> last[d].cap > 0]
    ELSE [cap |-> 0, r |-> NoRange, unknown |-> TRUE, ok |-> TRUE]
(* intel: the rated maximum is the range, when the driver has one.         *)
listIntel(d) == [cap |-> IF d \in asleep THEN 0 ELSE cap[d], r |-> [min |-> 0, max |-> IF fleet.dev[d].ok THEN fleet.dev[d].r.max ELSE 0],
                 unknown |-> d \in asleep, ok |-> fleet.dev[d].ok]

listGPUDevices(vendor, fails) ==
    IF vendor # "none" /\ fails THEN [err |-> TRUE, devs |-> <<>>] ELSE
    CASE vendor = "none" -> [err |-> FALSE, devs |-> <<>>]
      [] vendor = "nvidia" -> [err |-> FALSE, devs |-> [d \in Devs |-> listNvidia(d)]]
      [] vendor = "amd" -> [err |-> FALSE, devs |-> [d \in Devs |-> listAmd(d)]]
      [] vendor = "intel" -> [err |-> FALSE, devs |-> [d \in Devs |-> listIntel(d)]]

(* The devices a cap is written to, and those it is resolved against.      *)
Settable(devs) == {d \in DOMAIN devs : devs[d].ok}
nvidiaCapSets(devs) == [write |-> Settable(devs), from |-> Settable(devs)]
amdgpuCapSets(devs) ==
    LET known == {d \in Settable(devs) : ~devs[d].unknown}
    IN [write |-> Settable(devs), from |-> IF known = {} THEN Settable(devs) ELSE known]
intelGPURanged(devs) == [write |-> DOMAIN devs, from |-> {d \in DOMAIN devs : devs[d].r.max > 0}]
capSets(vendor, devs) ==
    CASE vendor = "nvidia" -> nvidiaCapSets(devs) [] vendor = "amd" -> amdgpuCapSets(devs) [] OTHER -> intelGPURanged(devs)

(* The GPU facts NodeHardware publishes: the range, the cap and control    *)
(* are those of the first device a cap is resolved against.                *)
discoverHardwareWith(vendor, inv) ==
    IF inv.devs = <<>> THEN [count |-> fleet.count, known |-> FALSE, r |-> NoRange, control |-> FALSE, domains |-> 0, cur |-> 0]
    ELSE LET sets == capSets(vendor, inv.devs)
             ref == IF sets.from # {} THEN inv.devs[Min(sets.from)]
                    ELSE [cap |-> IF vendor = "nvidia" THEN inv.devs[1].cap ELSE 0, r |-> NoRange]
             own == Cardinality(Settable(inv.devs))
         IN [count |-> Len(inv.devs), known |-> ref.r.max > 0, r |-> ref.r, control |-> ref.r.max > 0, cur |-> ref.cap,
             domains |-> IF vendor = "amd" /\ own > 0 /\ own < Len(inv.devs) THEN own ELSE 0]

(* A payload is sent when it changed or the last one is old; it counts as  *)
(* sent whatever becomes of it.                                            *)
shouldWrite(sent, v) == sent = None \/ sent.v # v \/ sent.age >= StatusRewrite

Sent(sent, v) == IF shouldWrite(sent, v) THEN [v |-> v, age |-> 0] ELSE sent
Longer(sent) == IF sent = None THEN sent ELSE [sent EXCEPT !.age = Min({@ + 1, StatusRewrite})]

(* upsertNodeHardwareStatus: the write of the agent's facts, or its loss.  *)
upsertNodeHardwareStatus(hw, lost) ==
    LET aged == [wrote EXCEPT !.hw = Longer(@), !.gpu = Longer(@)]
        kept == IF nh = None THEN nh ELSE [nh EXCEPT !.age = Min({@ + 1, Stale + 1})]
    IN /\ wrote' = [aged EXCEPT !.hw = Sent(@, hw)]
       /\ nh' = IF shouldWrite(aged.hw, hw) /\ ~lost THEN [hw |-> hw, age |-> 0] ELSE kept

(* The first half of reconcileOnce, one interval after the last: the       *)
(* inventory, the spec, the publication. A spec that cannot be read ends   *)
(* the reconcile.                                                          *)
AgentDiscovers(fails, unread, lost) ==
    /\ agent.at = "idle"
    /\ \E vendor \in {detectGPUVendor(fails)} : \E inv \in {listGPUDevices(vendor, fails)} :
       \E hw \in {discoverHardwareWith(vendor, inv)} :
          /\ last' = [d \in Devs |-> IF vendor = "amd" /\ ~fails /\ d \notin asleep
                                     THEN [cap |-> cap[d], r |-> fleet.dev[d].r] ELSE last[d]]
          /\ agent' = IF unread THEN agent ELSE [at |-> "apply", vendor |-> vendor, inv |-> inv, spec |-> nodeSpec]
          /\ IF unread THEN nh' = nh /\ wrote' = wrote ELSE upsertNodeHardwareStatus(hw, lost)
          /\ Fault(Cost(fails) + Cost(unread) + Cost(lost))
    /\ UNCHANGED <<fleet, profile, cap, asleep, plan, nodeSpec, cpu, status, twin>>

(***************************************************************************)
(* The agent: applying the spec.                                           *)
(***************************************************************************)

(* One cap for every device: the watts asked for when they suit all, else  *)
(* the lowest that the percentage gives a device. 0 is a refusal.          *)
resolveGPUCapPerDevice(intent, devs, from) ==
    IF from = {} THEN 0
    ELSE IF intent.watts > 0 THEN
        IF \A d \in from : (devs[d].r.min > 0 => intent.watts >= devs[d].r.min) /\ (devs[d].r.max > 0 => intent.watts <= devs[d].r.max)
        THEN intent.watts ELSE 0
    ELSE IF \E d \in from : devs[d].r.max <= 0 THEN 0
    ELSE Min({Max({Pct(devs[d].r.max, intent.pct), devs[d].r.min}) : d \in from})

(* Devices a write goes to: those not known to be at the target already.   *)
differs(devs, d, w) == devs[d].unknown \/ devs[d].cap # w

(* An Intel GPU without a known range is an error, never written.          *)
writable(vendor, devs, d) == vendor # "intel" \/ devs[d].r.max > 0

(* The drivers refuse a limit outside their range (external).              *)
driverTakes(d, w) == fleet.dev[d].own /\ w >= fleet.dev[d].r.min /\ w <= fleet.dev[d].r.max

(* updateTelemetryGPUStatus: a NodeTwin that does not exist takes nothing. *)
Reports(result, w, lost) ==
    LET v == <<result, w>>
    IN /\ wrote' = [wrote EXCEPT !.gpu = Sent(@, v)]
       /\ status' = IF shouldWrite(wrote.gpu, v) /\ ~lost /\ nodeSpec # None THEN result ELSE status

NoWrite(result, lost) == UNCHANGED <<cap, last, asleep>> /\ Reports(result, 0, lost)

(* applyNvidiaGPUCap, applyAmdGPUCap, applyIntelGPUCap: a device that      *)
(* fails does not keep the others from their cap; a write wakes an AMD GPU.*)
applyGPUCap(vendor, devs, write, w, refuse, lost) ==
    LET tried == {d \in write : writable(vendor, devs, d) /\ differs(devs, d, w)}
        done == {d \in tried : driverTakes(d, w) /\ d \notin refuse}
        bad == (tried \ done) \cup {d \in write : ~writable(vendor, devs, d)}
    IN /\ cap' = [d \in Devs |-> IF d \in done THEN w ELSE cap[d]]
       /\ last' = [d \in Devs |-> IF d \in done /\ vendor = "amd" THEN [cap |-> w, r |-> fleet.dev[d].r] ELSE last[d]]
       /\ asleep' = asleep \ (IF vendor = "amd" THEN tried ELSE {})
       /\ Reports(IF bad = {} THEN "applied" ELSE "error", w, lost)

(* The HTTP backend of a simulated node takes one cap for all its GPUs.    *)
httpGPUControl(w, refuse, lost) ==
    /\ cap' = IF refuse = {} THEN [d \in Devs |-> w] ELSE cap
    /\ UNCHANGED <<last, asleep>>
    /\ Reports(IF refuse = {} THEN "applied" ELSE "error", w, lost)

applyGPUIntentFrom(intent, vendor, inv, refuse, lost) ==
    \E sets \in {capSets(vendor, inv.devs)} : \E w \in {resolveGPUCapPerDevice(intent, inv.devs, sets.from)} :
    LET listed == ~inv.err /\ inv.devs # <<>>
    IN IF fleet.count <= 0 /\ ~listed THEN NoWrite("blocked", lost)
       ELSE IF fleet.http /\ intent.watts > 0 THEN httpGPUControl(intent.watts, refuse, lost)
       ELSE IF vendor = "none" THEN NoWrite("blocked", lost)
       ELSE IF inv.err THEN NoWrite("error", lost)
       ELSE IF ~listed \/ w = 0 THEN NoWrite("blocked", lost)
       ELSE IF fleet.http THEN httpGPUControl(w, refuse, lost)
       ELSE applyGPUCap(vendor, inv.devs, sets.write, w, refuse, lost)

(* resolveCPUCapFromPct and the RAPL write.                                *)
CapForPctW(pct) == Clamp(Pct(CpuMax, pct), [min |-> CpuMin, max |-> CpuMax])

(* The second half of reconcileOnce.                                       *)
AgentApplies(refuse, lost) ==
    /\ agent.at = "apply" /\ agent' = [at |-> "idle"]
    /\ LET s == agent.spec
       IN IF s = None THEN NoWrite("none", lost) /\ cpu' = cpu
          ELSE /\ IF s.gpu = None THEN NoWrite("none", lost) ELSE applyGPUIntentFrom(s.gpu, agent.vendor, agent.inv, refuse, lost)
               /\ cpu' = IF s.cpu.pct > 0 THEN CapForPctW(s.cpu.pct) ELSE Clamp(s.cpu.watts, [min |-> CpuMin, max |-> CpuMax])
    /\ Fault(Cardinality(refuse) + Cost(lost))
    /\ UNCHANGED <<fleet, profile, nh, plan, nodeSpec, twin>>

AgentRestarts ==
    /\ Fault(1) /\ agent' = [at |-> "idle"]
    /\ wrote' = [hw |-> None, gpu |-> None] /\ last' = [d \in Devs |-> None]
    /\ UNCHANGED <<fleet, profile, cap, asleep, nh, plan, nodeSpec, cpu, status, twin>>

(***************************************************************************)
(* The controller manager.                                                 *)
(***************************************************************************)

(* parseNodeHardware, nodeHardwareFromLabels: without the agent's facts    *)
(* the node's own object gives the GPU count.                              *)
hardware == IF nh # None THEN [nh.hw EXCEPT !.count = IF @ > 0 THEN @ ELSE fleet.count]
            ELSE [count |-> fleet.count, known |-> FALSE, r |-> NoRange, control |-> FALSE, domains |-> 0, cur |-> 0]

(* The range absolute watts are planned with: NodeHardware's, the          *)
(* catalog's, then GPU_MODEL_CAPS_JSON's.                                  *)
planRange(hw) ==
    IF hw.known /\ hw.r.max > 0 THEN hw.r
    ELSE IF fleet.catalog.max > 0 THEN [min |-> IF fleet.catalog.min > 0 THEN fleet.catalog.min ELSE fleet.catalog.max \div 2, max |-> fleet.catalog.max]
    ELSE IF fleet.models.max > 0 THEN [min |-> IF fleet.models.min > 0 THEN fleet.models.min ELSE 1, max |-> fleet.models.max]
    ELSE NoRange

computeGPUIntentForNodeWithHardware(prof, hw) ==
    IF hw.count <= 0 \/ pctOf(prof) <= 0 THEN None
    ELSE LET r == planRange(hw)
         IN [pct |-> pctOf(prof), watts |-> IF fleet.absolute /\ r.max > 0 THEN Clamp(Pct(r.max, pctOf(prof)), r) ELSE 0]

(* A GPU node's CPU keeps the performance cap, unless its agent reports    *)
(* GPUs it cannot cap and the option says so.                              *)
cpuCapsByProfile(hw) == hw.count <= 0 \/ (fleet.uncappable /\ nh # None /\ ~hw.control)

planNode(prof, hw) ==
    [prof |-> prof, gpu |-> computeGPUIntentForNodeWithHardware(prof, hw),
     cpu |-> IF cpuCapsByProfile(hw) THEN [pct |-> pctOf(prof), watts |-> 0]
             ELSE [pct |-> 0, watts |-> CpuMax]]

ControllerPlans ==
    /\ plan = None /\ plan' = planNode(profile, hardware)
    /\ UNCHANGED <<fleet, profile, cap, asleep, last, agent, nh, wrote, nodeSpec, cpu, status, twin, capFaults>>

(* twin.GPUCapApplies: the agent's last result, else its GPU control.      *)
GPUCapApplies(hw, result) ==
    CASE result \in {"blocked", "error"} -> FALSE
      [] result = "applied" -> TRUE
      [] OTHER -> hw.count <= 0 \/ hw.control

(* twinHardware and enrichHardwareFromCatalog: the per-GPU maximum.        *)
twinMax(hw) == IF hw.known THEN hw.r.max ELSE IF hw.count > 0 THEN fleet.catalog.max ELSE 0

(* The CPU budget clamps where the agent's cap does.                       *)
cpuBudget(pct) == Max({pct * CpuMax, 100 * CpuMin})

(* twin.Compute, in hundredths of a watt.                                  *)
twinCompute(p, hw, result) ==
    LET cpuPct == IF p.cpu.pct > 0 THEN p.cpu.pct ELSE 100
        gpuPct == IF p.gpu # None THEN p.gpu.pct ELSE 100
        domains == IF hw.domains > 0 THEN hw.domains ELSE hw.count
        gpuTDP == twinMax(hw) * domains
    IN [cpuCap |-> cpuBudget(cpuPct), gpuTdp |-> 100 * gpuTDP,
        gpuCap |-> IF GPUCapApplies(hw, result) THEN gpuTDP * gpuPct ELSE 100 * gpuTDP,
        reporting |-> nh # None /\ nh.age <= Stale]

(* reconcileNodeTwin, with the plan's percentages and the NodeHardware and *)
(* result of now.                                                          *)
twinHardware == IF nh # None THEN nh.hw ELSE [hardware EXCEPT !.count = 0]
reconcileNodeTwin(lost) == twin' = IF lost THEN twin ELSE twinCompute(plan, twinHardware, status)

(* upsertNodeTwinSpec, which a failed write ends the reconcile at.         *)
ControllerWrites(specLost, twinLost) ==
    /\ plan # None /\ plan' = None
    /\ IF specLost THEN nodeSpec' = nodeSpec /\ twin' = twin
       ELSE /\ nodeSpec' = [gpu |-> plan.gpu, cpu |-> plan.cpu]
            /\ reconcileNodeTwin(twinLost)
    /\ (specLost => ~twinLost) /\ Fault(Cost(specLost) + Cost(twinLost))
    /\ UNCHANGED <<fleet, profile, cap, asleep, last, agent, nh, wrote, cpu, status>>

(***************************************************************************)
(* External: the policy's profile, driver resets, runtime suspend.         *)
(***************************************************************************)
PolicyTurns ==
    /\ Fault(1) /\ profile' = IF profile = "eco" THEN "performance" ELSE "eco"
    /\ UNCHANGED <<fleet, cap, asleep, last, agent, nh, wrote, plan, nodeSpec, cpu, status, twin>>
DriverResets(d) ==
    /\ cap[d] > 0 /\ d \notin asleep /\ cap[d] # fleet.dev[d].r.max /\ Fault(1) /\ cap' = [cap EXCEPT ![d] = fleet.dev[d].r.max]
    /\ UNCHANGED <<fleet, profile, asleep, last, agent, nh, wrote, plan, nodeSpec, cpu, status, twin>>
Sleeps(d) ==
    /\ fleet.vendor \in {"amd", "intel"} /\ d \notin asleep /\ Fault(1) /\ asleep' = asleep \cup {d}
    /\ UNCHANGED <<fleet, profile, cap, last, agent, nh, wrote, plan, nodeSpec, cpu, status, twin>>
Wakes(d) ==
    /\ d \in asleep /\ asleep' = asleep \ {d}
    /\ UNCHANGED <<fleet, profile, cap, last, agent, nh, wrote, plan, nodeSpec, cpu, status, twin, capFaults>>
NodeTwinDeleted ==
    /\ nodeSpec # None /\ Fault(1) /\ nodeSpec' = None /\ status' = "none" /\ twin' = None
    /\ UNCHANGED <<fleet, profile, cap, asleep, last, agent, nh, wrote, plan, cpu>>

CapNext ==
    \/ \E fails, unread, lost \in BOOLEAN : AgentDiscovers(fails, unread, lost)
    \/ \E refuse \in SUBSET Devs, lost \in BOOLEAN : AgentApplies(refuse, lost)
    \/ \E specLost, twinLost \in BOOLEAN : ControllerWrites(specLost, twinLost)
    \/ ControllerPlans \/ AgentRestarts \/ PolicyTurns \/ NodeTwinDeleted
    \/ \E d \in Devs : DriverResets(d) \/ Sleeps(d) \/ Wakes(d)

(***************************************************************************)
(* Properties.                                                             *)
(***************************************************************************)
cappable(d) == fleet.dev[d].own /\ fleet.dev[d].ok
Wanted == Min({Max({Pct(fleet.dev[d].r.max, pctOf(profile)), fleet.dev[d].r.min}) : d \in {e \in Devs : cappable(e)}})

(* The planned GPU cap is in force on every GPU with a limit of its own.   *)
CapsArrived == \A d \in Devs \ asleep : cappable(d) => cap[d] = Wanted

(* The twin's budget covers the caps in force, and counts a planned cap    *)
(* only where it applies (twin.Compute, GPUCapApplies); NVIDIA nodes that  *)
(* can cap some of their GPUs only are left out.                           *)
inForce == MapThenSumSet(LAMBDA d : cap[d], Devs \ asleep)
TwinCovers ==
    (fleet.vendor = "nvidia" => \A d, e \in Devs : cappable(d) = cappable(e)) =>
        twin # None /\ twin.cpuCap >= 100 * cpu /\ twin.gpuCap >= 100 * inForce

(* The agent is reported as running, with the hardware it sees             *)
(* (agentReportingCondition).                                              *)
Published ==
    /\ twin # None /\ twin.reporting
    /\ (\E d \in Devs \ asleep : cappable(d) /\ fleet.vendor # "none") => nh.hw.known

=============================================================================
