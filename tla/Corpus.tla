------------------------------- MODULE Corpus --------------------------------
(* The emulator's way from a captured machine to a rendered tree:              *)
(* hwemu.FromCorpus maps the capture to a Profile, Profile.Validate accepts    *)
(* it, renderPlan lays out the tree.  A capture and a tree are records of the  *)
(* same shape, so what the agent reads (pkg/governor/discover, dvfs, the GPU   *)
(* listings) is one operator applied to both.  Absent is a file or a field     *)
(* that is not there; Token is a field nvidia-smi prints in brackets.          *)
(* Sources, labels, products and quantities are left out; watts, kHz and       *)
(* energy are small integers.                                                  *)
EXTENDS Integers, Sequences, FiniteSetsExt, SequencesExt

VARIABLES machine, stage, profile, rendered
coVars == <<machine, stage, profile, rendered>>

Absent == 0 - 1
Token == 0 - 2
Intel(driver) == driver \in {"intel_pstate", "intel_cpufreq"}
Amd(driver) == driver \in {"amd-pstate", "amd-pstate-epp"}
Setpolicy(driver) == driver \in {"intel_pstate", "amd-pstate-epp"}

------------------------------------------------------------------------------
(* powercap: a function from zone names <<control type, i>> and                *)
(* <<control type, i, j>> to their files.                                      *)

Types(zones) == {z[1] : z \in DOMAIN zones}
Tops(zones, ct) == {z[2] : z \in {z \in DOMAIN zones : z[1] = ct /\ Len(z) = 2}}
Kids(zones, ct, i) == {z[3] : z \in {z \in DOMAIN zones : z[1] = ct /\ Len(z) = 3 /\ z[2] = i}}
Parents(zones, ct) == {z[2] : z \in {z \in DOMAIN zones : z[1] = ct /\ Len(z) = 3}}
Numbered(S) == S = 0 .. Cardinality(S) - 1

\* One zone: its constraints up to the first without a name; constraint 0 of a
\* zone that rejects writes is marked, and its captured limit is not replayed
\* as a file of the capture.
readZone(files, rejects) ==
    [files |-> files,
     constraints |-> [i \in DOMAIN files.constraints |->
                        [files.constraints[i] EXCEPT !.rejects = rejects /\ i = 1]]]

\* The zones are numbered from 0, sub-zones have a parent, every zone has a
\* name, and a zone that rejects writes exists.
PowercapMaps(zones, rejecting) ==
    /\ rejecting \subseteq DOMAIN zones
    /\ \A ct \in Types(zones) :
        /\ Numbered(Tops(zones, ct))
        /\ Parents(zones, ct) \subseteq Tops(zones, ct)
        /\ \A i \in Tops(zones, ct) : Numbered(Kids(zones, ct, i))
    /\ \A z \in DOMAIN zones : zones[z].name # ""

renderCorpusPowercap(c) ==
    [z \in DOMAIN c.zones |-> readZone(c.zones[z], z \in c.rejecting)]

renderValidatePowercap(p) ==
    /\ Types(p) \subseteq {"intel-rapl", "intel-rapl-mmio"}
    /\ \A z \in DOMAIN p :
        /\ p[z].files.enabled \in {Absent, 0, 1}
        /\ p[z].files.range # Absent
        /\ \A i \in DOMAIN p[z].constraints : p[z].constraints[i].name # ""

\* The files of the capture stand where they are named; a limit that rejects
\* writes is rendered from the profile, 0 where the capture has none.
renderZone(z) ==
    [z.files EXCEPT !.constraints =
        [i \in DOMAIN z.constraints |->
            LET k == z.constraints[i]
            IN [k EXCEPT !.limit = IF k.rejects /\ k.limit = Absent THEN 0 ELSE k.limit]]]

renderPowercap(p) == [z \in DOMAIN p |-> renderZone(p[z])]

\* RAPLPackageZones and what the agent reads of each: its limit, its range and
\* whether a write is taken.
RAPLPackageZones(zones) == {z \in DOMAIN zones : zones[z].name = "package"}

AgentRapl(zones, rejects(_)) ==
    [z \in RAPLPackageZones(zones) |->
        [held |-> [i \in DOMAIN zones[z].constraints |->
                    <<zones[z].constraints[i].limit, zones[z].constraints[i].max>>],
         writable |-> ~rejects(z)]]

------------------------------------------------------------------------------
(* cpufreq: the policies with their files, and the driver's own files.         *)

\* The policies a profile renders: one per CPU, or one per core named after
\* its first CPU.
renderPolicies(cpus, grouping) ==
    IF grouping = "per-cpu" THEN {c.id : c \in cpus}
    ELSE {Min({d.id : d \in {d \in cpus : d.socket = c.socket /\ d.core = c.core}}) : c \in cpus}

cpuGovDriverBoostScope(driver) ==
    IF Intel(driver) THEN "noTurbo" ELSE IF Amd(driver) THEN "perCPU" ELSE "global"

cpuGovHasEPP(f) == f.driver = "amd-pstate-epp" \/ (f.hwp /\ Intel(f.driver))

DefaultEPPs == {"default", "performance", "balance_performance", "balance_power", "power"}

\* What a capture says of boost, where its driver keeps it.
CapturedBoost(q, first) ==
    CASE cpuGovDriverBoostScope(q.driver) = "noTurbo" ->
            IF q.noTurbo = Absent THEN Absent ELSE 1 - q.noTurbo
      [] cpuGovDriverBoostScope(q.driver) = "perCPU" -> first.boost
      [] OTHER -> q.boost

DriverStatus(q) ==
    IF Intel(q.driver) THEN q.intelStatus ELSE IF Amd(q.driver) THEN q.amdStatus ELSE ""

Grouping(cpus, ids) ==
    CHOOSE g \in {"per-cpu", "per-core"} :
        /\ renderPolicies(cpus, g) = ids
        /\ g = "per-core" => renderPolicies(cpus, "per-cpu") # ids

First(pols) == pols[Min(DOMAIN pols)]

\* A capture of cpufreq maps when it has a driver, one state for all policies,
\* policies per CPU or per core, both files of the EPP pair where the profile
\* renders it, and the files its driver keeps mode and boost in.
CPUFreqMaps(cpu, q) ==
    \/ q.pols = <<>>
    \/ LET f == First(q.pols)
           hwp == Intel(q.driver) /\ cpu.hwp
       IN /\ q.driver # ""
          /\ \A i \in DOMAIN q.pols : q.pols[i] = f
          /\ f.gov # "" /\ f.govs # {} /\ f.min # Absent /\ f.max # Absent
          /\ DOMAIN q.pols \in {renderPolicies(cpu.cpus, g) : g \in {"per-cpu", "per-core"}}
          /\ (Intel(q.driver) \/ Amd(q.driver)) => DriverStatus(q) # ""
          /\ (f.epp = "") = (f.prefs = {})
          /\ f.epp = "" => ~cpuGovHasEPP([driver |-> q.driver, hwp |-> hwp])
          /\ cpuGovDriverBoostScope(q.driver) # "global" => CapturedBoost(q, f) # Absent

NoFreq == [driver |-> "", minimal |-> TRUE, gov |-> "", govs |-> {}, min |-> 0, max |-> 0,
           grouping |-> "per-cpu", hwp |-> FALSE, mode |-> "", epp |-> "", prefs |-> {},
           boost |-> Absent]

renderCorpusCPUFreq(cpu, q) ==
    IF q.pols = <<>> THEN [NoFreq EXCEPT !.driver = q.driver]
    ELSE LET f == First(q.pols)
             keepsList == f.epp = "" \/ (q.driver = "amd-pstate-epp" /\ f.gov = "performance")
         IN [driver |-> q.driver, minimal |-> FALSE, gov |-> f.gov, govs |-> f.govs,
             min |-> f.min, max |-> f.max, grouping |-> Grouping(cpu.cpus, DOMAIN q.pols),
             hwp |-> Intel(q.driver) /\ cpu.hwp, mode |-> DriverStatus(q),
             epp |-> IF keepsList THEN "" ELSE f.epp, prefs |-> IF keepsList THEN {} ELSE f.prefs,
             boost |-> CapturedBoost(q, f)]

\* The governor facts are modelled where the capture has any of them.
cpuGovModeled(f) ==
    ~f.minimal /\ (f.mode # "" \/ Intel(f.driver) \/ f.epp # "" \/ f.boost # Absent)

cpuGovBootBoost(f) == IF f.boost = Absent THEN 1 ELSE f.boost

AmdModes == [d \in {"intel_pstate", "intel_cpufreq", "amd-pstate-epp", "amd-pstate"} |->
            CASE d \in {"intel_pstate", "amd-pstate-epp"} -> {"active"}
              [] d = "intel_cpufreq" -> {"passive"} [] OTHER -> {"passive", "guided"}]

renderValidateCPUFreq(f) ==
    f.minimal \/ (0 < f.min /\ f.min <= f.max /\ f.gov \in f.govs)

renderValidateCPUGovernor(f) ==
    f.minimal \/ /\ f.mode # "" => f.driver \in DOMAIN AmdModes /\ f.mode \in AmdModes[f.driver]
                 /\ f.epp # "" => /\ cpuGovHasEPP(f)
                                  /\ f.prefs \subseteq DefaultEPPs
                                  /\ f.epp # "default" /\ f.epp \in f.prefs

\* Turbo off lowers cpuinfo_max_freq to the base frequency of the brand string.
renderTracksTurbo(cpu, f) ==
    /\ cpuGovModeled(f)
    /\ cpuGovDriverBoostScope(f.driver) # "global"
    /\ 0 < cpu.base /\ cpu.base < f.max

renderPolicyEntries(cpu, f) ==
    LET performs == f.gov = "performance" /\ Setpolicy(f.driver)
        epp == IF f.epp = "" THEN "balance_performance" ELSE f.epp
        prefs == IF f.prefs = {} THEN DefaultEPPs ELSE f.prefs
    IN [gov |-> f.gov, govs |-> f.govs, min |-> f.min,
        max |-> IF renderTracksTurbo(cpu, f) /\ cpuGovBootBoost(f) = 0 THEN cpu.base ELSE f.max,
        epp |-> IF ~cpuGovHasEPP(f) THEN "" ELSE IF performs THEN "performance" ELSE epp,
        prefs |-> IF ~cpuGovHasEPP(f) THEN {}
                  ELSE IF f.driver = "amd-pstate-epp" /\ f.gov = "performance"
                       THEN {"performance"} ELSE prefs,
        boost |-> IF ~cpuGovModeled(f) THEN Absent
                  ELSE CASE cpuGovDriverBoostScope(f.driver) = "perCPU" -> cpuGovBootBoost(f)
                         [] cpuGovDriverBoostScope(f.driver) = "global" /\ f.boost # Absent -> 0
                         [] OTHER -> Absent]

\* The policies, and the driver's directories and global boost beside them.
renderCPUFreq(cpu, f) ==
    LET ids == IF f.driver = "" THEN {} ELSE renderPolicies(cpu.cpus, f.grouping)
        bare == [gov |-> "", govs |-> {}, min |-> Absent, max |-> Absent, epp |-> "",
                 prefs |-> {}, boost |-> Absent]
    IN [driver |-> f.driver,
        pols |-> [i \in ids |-> IF f.minimal THEN bare ELSE renderPolicyEntries(cpu, f)]]

renderCPUGovernor(f) ==
    LET m == cpuGovModeled(f)
    IN [intelStatus |-> IF ~m \/ ~Intel(f.driver) THEN ""
                        ELSE IF f.driver = "intel_pstate" THEN "active" ELSE "passive",
        amdStatus |-> IF m /\ Amd(f.driver) THEN f.mode ELSE "",
        noTurbo |-> IF m /\ Intel(f.driver) THEN 1 - cpuGovBootBoost(f) ELSE Absent,
        boost |-> IF m /\ Amd(f.driver) THEN cpuGovBootBoost(f)
                  ELSE IF ~f.minimal /\ ~Intel(f.driver) THEN f.boost ELSE Absent]

RenderedFreq(cpu, f) ==
    LET a == renderCPUFreq(cpu, f)
        g == renderCPUGovernor(f)
    IN [driver |-> a.driver, pols |-> a.pols, intelStatus |-> g.intelStatus,
        amdStatus |-> g.amdStatus, noTurbo |-> g.noTurbo, boost |-> g.boost]

\* discover.boostScope and discover.ReadCPU.
boostScope(q, first) ==
    IF Intel(q.driver) /\ q.noTurbo # Absent THEN "noTurbo"
    ELSE IF Amd(q.driver) /\ first.boost # Absent THEN "perCPU"
    ELSE IF q.boost # Absent THEN "global"
    ELSE IF first.boost # Absent THEN "perCPU" ELSE ""

driverMode(q) ==
    IF DriverStatus(q) \in {"active", "passive", "guided"} THEN DriverStatus(q) ELSE ""

EPPSupport(driver, f) ==
    IF driver = "amd-pstate-epp" /\ f.gov = "performance" /\ f.prefs = {"performance"}
    THEN DefaultEPPs ELSE f.prefs

Boosted(q, f, scope) ==
    CASE scope = "noTurbo" -> IF q.noTurbo \in {0, 1} THEN 1 - q.noTurbo ELSE Absent
      [] scope = "global" -> q.boost
      [] scope = "perCPU" -> f.boost
      [] OTHER -> Absent

ReadCPU(cpu, q) ==
    LET ids == {i \in DOMAIN q.pols : q.pols[i].gov # ""}
        first == q.pols[Min(ids)]
        scope == boostScope(q, first)
    IN IF ids = {} THEN [policies |-> <<>>]
       ELSE [policies |-> [i \in ids |-> <<q.pols[i].gov, q.pols[i].epp, Boosted(q, q.pols[i], scope)>>],
             driver |-> q.driver, mode |-> driverMode(q), govs |-> first.govs, scope |-> scope,
             hwp |-> cpu.hwp \/ (Intel(q.driver) /\ first.epp # ""),
             epps |-> IF first.epp = "" THEN {} ELSE EPPSupport(q.driver, first)]

ReadLandmarks(q) ==
    LET of(S) == {v \in S : v > 0}
        mins == of({q.pols[i].min : i \in DOMAIN q.pols})
        maxs == of({q.pols[i].max : i \in DOMAIN q.pols})
    IN <<IF mins = {} THEN 0 ELSE Min(mins), IF maxs = {} THEN 0 ELSE Max(maxs)>>

------------------------------------------------------------------------------
(* GPUs: one vendor, identical devices, as many as the node allocates.         *)

renderCorpusExposure(alloc, count) == alloc \in {Absent, count}

\* The limit in force stands in for what nvidia-smi prints as a token, and
\* where the limit itself is one, the maximum.
Held(l) == IF l.limit = Token THEN l.max ELSE l.limit

AlwaysTheMaximum(l, lo, hi) == hi
nvDefault(l, lo, hi) == IF l.def > 0 /\ l.def \in lo .. hi THEN l.def ELSE hi

NvidiaMaps(c) ==
    /\ \A i \in DOMAIN c.nvidia : c.nvidia[i] = c.nvidia[1]
    /\ ~(c.nvidia[1].limit = Token /\ c.nvidia[1].max = Token)
    /\ renderCorpusExposure(c.alloc, Len(c.nvidia))

renderCorpusNvidia(c) ==
    LET l == c.nvidia[1]
        lo == IF l.min = Token THEN Held(l) ELSE l.min
        hi == IF l.max = Token THEN Held(l) ELSE l.max
    IN [vendor |-> "nvidia", count |-> Len(c.nvidia), min |-> lo, max |-> hi,
        def |-> nvDefault(l, lo, hi),
        current |-> IF Held(l) = nvDefault(l, lo, hi) THEN Absent ELSE Held(l),
        tokens |-> {f \in {"min", "max", "limit"} : l[f] = Token}]

\* amdgpu: the cap and the range must be the device's own.
Read(v) == IF v = Absent THEN 0 ELSE v

AMDGPUMaps(c) ==
    /\ \A i \in DOMAIN c.amd : c.amd[i] = c.amd[1]
    /\ c.amd[1].limit > 0 /\ c.amd[1].max > 0
    /\ renderCorpusExposure(c.alloc, Len(c.amd))

renderCorpusAMDGPU(c) ==
    LET d == c.amd[1]
        def == IF d.def > 0 THEN d.def ELSE d.max
    IN [vendor |-> "amd", count |-> Len(c.amd), min |-> Read(d.min), max |-> d.max, def |-> def,
        current |-> IF d.limit = def THEN Absent ELSE d.limit, tokens |-> {}]

NoGPU == [vendor |-> "", count |-> 0, min |-> 0, max |-> 0, def |-> 0, current |-> Absent, tokens |-> {}]

renderValidateGPUs(g) ==
    g.vendor = "" \/ /\ 0 <= g.min /\ g.min <= g.def /\ g.def <= g.max /\ g.max > 0
                     /\ g.current # Absent => g.current \in g.min .. g.max

Current(g) == IF g.current = Absent THEN g.def ELSE g.current

renderNVML(g) ==
    IF g.vendor # "nvidia" THEN <<>>
    ELSE [i \in 1 .. g.count |->
            [min |-> IF "min" \in g.tokens THEN Token ELSE g.min,
             max |-> IF "max" \in g.tokens THEN Token ELSE g.max,
             limit |-> IF "limit" \in g.tokens THEN Token ELSE Current(g), def |-> g.def]]

renderAMDGPUHwmon(g) ==
    IF g.vendor # "amd" THEN <<>>
    ELSE [i \in 1 .. g.count |-> [limit |-> Current(g), min |-> g.min, max |-> g.max, def |-> g.def]]

\* What the agent publishes of a GPU: where a limit is printed as a token it
\* has no range, and the limit in force only; the maximum stands for a default
\* that is not printed within the range (gpuCapDefaultWatts).
listNvidiaDevices(lines) ==
    [i \in DOMAIN lines |->
        LET l == lines[i]
            tokens == {f \in {"min", "max", "limit"} : l[f] < 0}
        IN IF tokens # {} THEN <<tokens, l.limit>>
           ELSE <<tokens, l.limit, l.min, l.max,
                  IF l.def > 0 /\ l.def \in l.min .. l.max THEN l.def ELSE l.max>>]

listAmdDevices(devs) ==
    [i \in DOMAIN devs |-> <<Read(devs[i].limit), Read(devs[i].min), Read(devs[i].max)>>]

------------------------------------------------------------------------------
Maps(c) ==
    /\ PowercapMaps(c.zones, c.rejecting)
    /\ CPUFreqMaps(c.cpu, c.freq)
    /\ ~(c.nvidia # <<>> /\ c.amd # <<>>)
    /\ c.nvidia # <<>> => NvidiaMaps(c)
    /\ c.amd # <<>> => AMDGPUMaps(c)

Mapped(c) ==
    [cpu |-> c.cpu, powercap |-> renderCorpusPowercap(c),
     freq |-> renderCorpusCPUFreq(c.cpu, c.freq),
     gpus |-> IF c.nvidia # <<>> THEN renderCorpusNvidia(c)
              ELSE IF c.amd # <<>> THEN renderCorpusAMDGPU(c) ELSE NoGPU]

renderValidateCPU(cpu) == cpu.cpus # {}

Validate(p) ==
    /\ renderValidateCPU(p.cpu)
    /\ renderValidatePowercap(p.powercap)
    /\ renderValidateCPUFreq(p.freq) /\ renderValidateCPUGovernor(p.freq)
    /\ renderValidateGPUs(p.gpus)

CoInit(captures) == machine \in captures /\ stage = "captured" /\ profile = <<>> /\ rendered = <<>>

FromCorpus ==
    /\ stage = "captured"
    /\ IF Maps(machine) /\ Validate(Mapped(machine))
       THEN stage' = "profile" /\ profile' = Mapped(machine)
       ELSE stage' = "refused" /\ UNCHANGED profile
    /\ UNCHANGED <<machine, rendered>>

renderPlan ==
    /\ stage = "profile"
    /\ stage' = "rendered"
    /\ rendered' = [zones |-> renderPowercap(profile.powercap),
                freq |-> RenderedFreq(profile.cpu, profile.freq),
                nvidia |-> renderNVML(profile.gpus), amd |-> renderAMDGPUHwmon(profile.gpus)]
    /\ UNCHANGED <<machine, profile>>

CoNext == FromCorpus \/ renderPlan

------------------------------------------------------------------------------
\* The replay test of the corpus (corpus_test.go, H21), for every capture: a
\* machine the emulator accepts looks to the agent as the machine itself did -
\* the governors, preferences and boost of every policy and where boost is
\* kept, the frequency range, the package zones with their limits and whether
\* they take a write, and the limits of every GPU (FromCorpus, Validate, the
\* render functions, discover.ReadCPU, ReadLandmarks and the GPU listings).
Replays ==
    stage = "rendered" =>
        /\ ReadCPU(machine.cpu, rendered.freq) = ReadCPU(machine.cpu, machine.freq)
        /\ ReadLandmarks(rendered.freq) = ReadLandmarks(machine.freq)
        /\ AgentRapl(rendered.zones, LAMBDA z : \E i \in DOMAIN rendered.zones[z].constraints :
                                              rendered.zones[z].constraints[i].rejects)
            = AgentRapl(machine.zones, LAMBDA z : z \in machine.rejecting
                                                  /\ machine.zones[z].constraints # <<>>)
        /\ listNvidiaDevices(rendered.nvidia) = listNvidiaDevices(machine.nvidia)
        /\ listAmdDevices(rendered.amd) = listAmdDevices(machine.amd)
=============================================================================
