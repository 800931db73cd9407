-------------------------------- MODULE Knobs --------------------------------
(***************************************************************************)
(* The agent-writable files of an emulated node (simulator/pkg/hwemu):     *)
(* what a write does to the driver's state, as each handler takes or       *)
(* refuses it, and what each file then shows.                              *)
(*                                                                         *)
(* A scene is a group of files that share state: the governor and the      *)
(* energy-performance preference of a policy, its frequency limits and     *)
(* no_turbo, the global and a policy's boost, the level, overdrive range   *)
(* and power profile of an AMD GPU, an uncore root domain and a cluster,   *)
(* power limits, the limit and clock lock of an NVIDIA GPU.  Frequencies   *)
(* are ranks, limits are counted in a unit, words outside a driver's list  *)
(* are "bogus"; 99 is a number no kernel parser takes.                     *)
(***************************************************************************)
EXTENDS Integers, Sequences, FiniteSetsExt

Bad == 99

Taken(st) == [st |-> st, ok |-> TRUE]
Refused(st) == [st |-> st, ok |-> FALSE]

(***************************************************************************)
(* scaling_governor and energy_performance_preference of a setpolicy       *)
(* driver (intel_pstate, amd-pstate-epp).                                  *)
(***************************************************************************)
Governors == {"performance", "powersave"}
EPPDefault == "balance_performance"
EPPNamed == {"performance", "balance_performance", "power"}

(* A raw 0 is performance; default is the boot preference.                 *)
EPPWord(intel, w) ==
    CASE w = "default" -> EPPDefault
      [] w = "0" /\ intel -> "performance"
      [] OTHER -> w

(* A change to performance saves the preference and shows EPP 0; a change  *)
(* away from it puts the saved one back on intel_pstate.                   *)
policyGovernorHandler(st, w, seeding) ==
    IF w \notin Governors THEN Refused(st)
    ELSE IF w = st.gov \/ seeding THEN Taken([st EXCEPT !.gov = w])
    ELSE Taken(IF w = "performance" THEN [st EXCEPT !.gov = w, !.saved = st.epp, !.epp = "performance"]
               ELSE [st EXCEPT !.gov = w,
                       !.epp = IF st.intel /\ @ = "performance" /\ st.saved # "" THEN st.saved ELSE @])

(* Refused with EINVAL when unknown, with EBUSY under performance.         *)
policyEPPHandler(st, w) ==
    LET epp == EPPWord(st.intel, w)
    IN IF epp \in EPPNamed /\ ~(st.gov = "performance" /\ epp # "performance")
       THEN Taken([st EXCEPT !.epp = epp]) ELSE Refused(st)

(***************************************************************************)
(* scaling_max_freq, scaling_min_freq and intel_pstate/no_turbo.           *)
(***************************************************************************)
Low == 1
Base == 2
Turbo == 3

clampKHz(v) == IF v > Turbo THEN Turbo ELSE IF v < Low THEN Low ELSE v
effMaxKHz(st) == clampKHz(st.reqMax)
effMinKHz(st) == Min({clampKHz(st.reqMin), effMaxKHz(st)})

applyTurbo(st) ==
    [st EXCEPT !.reqMax = IF st.noTurbo = 1 THEN Min({st.userMax, Base}) ELSE st.userMax]

(* Seeded with turbo off, a file at the cap hides the request: the default *)
(* stands.                                                                 *)
policyMaxHandler(st, v, seeding) ==
    IF v = Bad THEN Refused(st)
    ELSE Taken(applyTurbo([st EXCEPT !.userMax = IF seeding /\ st.noTurbo = 1 /\ v >= Base THEN Turbo ELSE v]))

freqMinHandler(st, v) == IF v = Bad THEN Refused(st) ELSE Taken([st EXCEPT !.reqMin = v])

noTurboHandler(st, v) ==
    IF v = Bad THEN Refused(st) ELSE Taken(applyTurbo([st EXCEPT !.noTurbo = Min({v, 1})]))

(***************************************************************************)
(* cpufreq/boost and a policy's boost on acpi-cpufreq, whose policies show *)
(* 0 at boot while they boost with the global one.                         *)
(***************************************************************************)
BootBoost == 0

globalBoostHandler(st, b, seeding) ==
    IF b = Bad THEN Refused(st)
    ELSE Taken(IF b # st.boost /\ ~seeding THEN [boost |-> b, shown |-> b, pol |-> b]
               ELSE [st EXCEPT !.boost = b])

policyBoostHandler(st, b, seeding) ==
    IF b = Bad \/ (~seeding /\ st.boost = 0) THEN Refused(st)
    ELSE IF seeding THEN Taken([st EXCEPT !.shown = b, !.pol = IF b = BootBoost THEN st.boost ELSE b])
    ELSE Taken(IF b = st.shown THEN st ELSE [st EXCEPT !.shown = b, !.pol = b])

(***************************************************************************)
(* power_dpm_force_performance_level, pp_od_clk_voltage and                *)
(* pp_power_profile_mode of an AMD GPU.  The sclk range stands for the     *)
(* uclk range as well.                                                     *)
(***************************************************************************)
Levels == {"auto", "high", "manual", "perf_determinism", "profile_standard"}
ProfileLevels == {"profile_standard"}
dpmDefaultOD == [lo |-> Low, hi |-> Turbo]
NoEdits == [lo |-> 0, hi |-> 0]

setLevel(st, word) ==
    LET prev == st.level
        w == IF word = "profile_exit" THEN st.saved ELSE word
        od == IF prev = "perf_determinism" /\ w # prev THEN [st.od EXCEPT !.hi = Turbo] ELSE st.od
    IN IF word = "profile_exit" /\ prev \notin ProfileLevels THEN st
       ELSE [st EXCEPT !.level = w,
               !.saved = IF w \in ProfileLevels /\ prev \notin ProfileLevels THEN prev ELSE @,
               !.od = IF w = "auto" THEN dpmDefaultOD ELSE od,
               !.custom = IF w = "auto" THEN NoEdits ELSE @]

dpmLevelHandler(st, w) ==
    IF w \in Levels \cup {"profile_exit"} THEN Taken(setLevel(st, w)) ELSE Refused(st)

(* Edits pend until "c" commits them; "r" restores the table at once.  An  *)
(* edit past the table is refused and becomes the value in effect.         *)
odCommand(st, op, x) ==
    LET lo == IF st.level = "perf_determinism" THEN Low ELSE IF st.custom.lo # 0 THEN st.custom.lo ELSE st.od.lo
        hi == IF st.custom.hi # 0 THEN st.custom.hi ELSE st.od.hi
    IN IF st.level \notin {"manual", "perf_determinism"} THEN Refused(st) ELSE
       CASE op = "s0" /\ x < Low -> Refused([st EXCEPT !.custom.lo = st.od.lo])
         [] op = "s0" /\ x >= Low -> Taken([st EXCEPT !.custom.lo = x])
         [] op = "s1" /\ x > Turbo -> Refused([st EXCEPT !.custom.hi = st.od.hi])
         [] op = "s1" /\ x <= Turbo -> Taken([st EXCEPT !.custom.hi = x])
         [] op = "r" -> Taken([st EXCEPT !.od = dpmDefaultOD, !.custom = NoEdits])
         [] op = "c" -> IF (IF st.level = "perf_determinism" THEN hi < Low \/ hi > Turbo ELSE lo >= hi)
                        THEN Refused(st) ELSE Taken([st EXCEPT !.od = [lo |-> lo, hi |-> hi]])
         [] OTHER -> Refused(st)

(* One command per line; a refused line does not stop the next.  What      *)
(* odText shows is no command.                                             *)
odText(st) == <<<<"shows", st.od.lo>>, <<"shows", st.od.hi>>>>
dpmODHandler(st, cmds) ==
    LET after[i \in 0..Len(cmds)] ==
            IF i = 0 THEN Taken(st)
            ELSE LET r == odCommand(after[i - 1].st, cmds[i][1], cmds[i][2])
                 IN [r EXCEPT !.ok = @ /\ after[i - 1].ok]
    IN after[Len(cmds)]

(* Taken under manual only; the list profileText shows is no mode.         *)
profileText(st) == <<"shows", st.profile>>
dpmProfileHandler(st, v) ==
    IF st.level = "manual" /\ v[1] = "mode" /\ v[2] \in 0..1 THEN Taken([st EXCEPT !.profile = v[2]]) ELSE Refused(st)

(***************************************************************************)
(* max_freq_khz of an uncore cluster and of the TPMI root domain over it.  *)
(***************************************************************************)
UncoreMax == 3
heldIn(v) == IF v > UncoreMax THEN UncoreMax ELSE v

uncoreLimitHandler(st, v, seeding) ==
    IF v = Bad \/ v = 0 \/ (~seeding /\ st.rootMax # 0 /\ st.rootMax < v) THEN Refused(st)
    ELSE Taken([st EXCEPT !.max = heldIn(v)])

(* Seeding changes nothing: the clusters' files carry their limits.        *)
rootLimitHandler(st, v, seeding) ==
    IF v = Bad \/ v = 0 THEN Refused(st)
    ELSE Taken(IF seeding THEN st ELSE [max |-> heldIn(v), rootMax |-> v])

(***************************************************************************)
(* Power limits: a RAPL constraint, the HSMP cap and the amdgpu cap, then  *)
(* the limit and the graphics clock lock of an NVIDIA GPU.                 *)
(***************************************************************************)
Unit == 2        \* the RAPL power unit, and a whole watt of amdgpu
Field == 4       \* raw values the limit field holds
CapMin == 2
CapMax == 6
DefaultLimit == 3
Unlocked == <<0, 0>>

(* Floored to the unit; a value past the field wraps.                      *)
nodeRAPLLimitUW(u) == ((u \div Unit) % Field) * Unit
limitHandler(st, u) == IF u = Bad THEN Refused(st) ELSE Taken([st EXCEPT !.rapl = nodeRAPLLimitUW(u)])

hsmpCapHandler(st, x) ==
    IF x = Bad \/ x < 0 THEN Refused(st) ELSE Taken([st EXCEPT !.hsmp = Min({(x \div Unit) * Unit, CapMax})])

amdgpuCapHandler(st, u) ==
    LET w == (u \div Unit) * Unit
    IN IF u = Bad \/ w < CapMin \/ w > CapMax THEN Refused(st) ELSE Taken([st EXCEPT !.amd = w])

(* Kept as written; enforced within the card's range.                      *)
nvmlLimitHandler(st, x) == IF x = Bad THEN Refused(st) ELSE Taken([st EXCEPT !.limit = x])

nvclockLockHandler(st, l) ==
    IF l = Unlocked \/ (l[1] > 0 /\ l[1] <= l[2] /\ l[2] # Bad) THEN Taken([st EXCEPT !.lock = l]) ELSE Refused(st)

(* persistReset and nvclockReset: an idle GPU with persistence mode off    *)
(* goes back to the default limit and, where the driver forgets them with  *)
(* the last client, to no lock.                                            *)
persistReset(st) == [st EXCEPT !.limit = DefaultLimit, !.lock = Unlocked]

(***************************************************************************)
(* The scenes.                                                             *)
(***************************************************************************)
Scenes == {"epp", "epp_amd", "turbo", "boost", "dpm", "uncore", "caps", "nvml"}

(* In the order the Node registers them.                                   *)
afiles(sc) ==
    CASE sc \in {"epp", "epp_amd"} -> <<"scaling_governor", "energy_performance_preference">>
      [] sc = "turbo" -> <<"scaling_max_freq", "scaling_min_freq", "no_turbo">>
      [] sc = "boost" -> <<"boost", "policy_boost">>
      [] sc = "dpm" -> <<"level", "od", "profile">>
      [] sc = "uncore" -> <<"max", "root_max">>
      [] sc = "caps" -> <<"rapl", "hsmp", "amd">>
      [] sc = "nvml" -> <<"limit", "lock">>
FilesOf(sc) == {afiles(sc)[i] : i \in DOMAIN afiles(sc)}

(* The state of a profile at boot.                                         *)
Boot(sc) ==
    CASE sc \in {"epp", "epp_amd"} -> [gov |-> "powersave", epp |-> EPPDefault, saved |-> "", intel |-> sc = "epp"]
      [] sc = "turbo" -> [noTurbo |-> 0, userMax |-> Turbo, reqMax |-> Turbo, reqMin |-> Low]
      [] sc = "boost" -> [boost |-> 1, shown |-> BootBoost, pol |-> 1]
      [] sc = "dpm" -> [level |-> "auto", saved |-> "", od |-> dpmDefaultOD, custom |-> NoEdits, profile |-> 0]
      [] sc = "uncore" -> [max |-> UncoreMax, rootMax |-> 0]
      [] sc = "caps" -> [rapl |-> 4, hsmp |-> CapMax, amd |-> CapMax]
      [] sc = "nvml" -> [limit |-> DefaultLimit, lock |-> Unlocked]

handle(f, st, v, seeding) ==
    CASE f = "scaling_governor" -> policyGovernorHandler(st, v, seeding)
      [] f = "energy_performance_preference" -> policyEPPHandler(st, v)
      [] f = "scaling_max_freq" -> policyMaxHandler(st, v, seeding)
      [] f = "scaling_min_freq" -> freqMinHandler(st, v)
      [] f = "no_turbo" -> noTurboHandler(st, v)
      [] f = "boost" -> globalBoostHandler(st, v, seeding)
      [] f = "policy_boost" -> policyBoostHandler(st, v, seeding)
      [] f = "level" -> dpmLevelHandler(st, v)
      [] f = "od" -> dpmODHandler(st, v)
      [] f = "profile" -> dpmProfileHandler(st, v)
      [] f = "max" -> uncoreLimitHandler(st, v, seeding)
      [] f = "root_max" -> rootLimitHandler(st, v, seeding)
      [] f = "rapl" -> limitHandler(st, v)
      [] f = "hsmp" -> hsmpCapHandler(st, v)
      [] f = "amd" -> amdgpuCapHandler(st, v)
      [] f = "limit" -> nvmlLimitHandler(st, v)
      [] f = "lock" -> nvclockLockHandler(st, v)

(* What a file shows for the state.                                        *)
current(f, st) ==
    CASE f = "scaling_governor" -> st.gov
      [] f = "energy_performance_preference" -> st.epp
      [] f = "scaling_max_freq" -> effMaxKHz(st)
      [] f = "scaling_min_freq" -> effMinKHz(st)
      [] f = "no_turbo" -> st.noTurbo
      [] f = "boost" -> st.boost
      [] f = "policy_boost" -> st.shown
      [] f = "level" -> st.level
      [] f = "od" -> odText(st)
      [] f = "profile" -> profileText(st)
      [] f \in {"max", "root_max"} -> st.max
      [] f = "rapl" -> st.rapl
      [] f = "hsmp" -> st.hsmp
      [] f = "amd" -> st.amd
      [] f = "limit" -> st.limit
      [] f = "lock" -> st.lock

(***************************************************************************)
(* Seeding: a Node over a live tree takes what the files hold as if it had *)
(* just been written, in the order it builds its parts.  content[f] is     *)
(* <<>> for an empty file, which leaves the profile's value.               *)
(***************************************************************************)
seedOrder(sc) ==
    CASE sc = "turbo" -> <<"scaling_min_freq", "no_turbo", "scaling_max_freq">>
      [] OTHER -> afiles(sc)

SeedsNoTables(sc, st, content) == st

(* The overdrive range and the power profile are read from the tables the  *)
(* files show before the level is handled.                                 *)
seedTables(sc, st, content) ==
    IF sc # "dpm" THEN st
    ELSE [st EXCEPT !.od = IF content["od"] # <<>> /\ content["od"][1][1][1] = "shows"
                           THEN [lo |-> content["od"][1][1][2], hi |-> content["od"][1][2][2]] ELSE @,
                    !.profile = IF content["profile"] # <<>> /\ content["profile"][1][1] = "shows"
                                THEN content["profile"][1][2] ELSE @]

(* Under performance the saved preference is the default.                  *)
seedSaved(f, st) ==
    IF f = "scaling_governor" /\ st.gov = "performance" THEN [st EXCEPT !.saved = EPPDefault] ELSE st

seedFrom(sc, content) ==
    LET order == seedOrder(sc)
        after[i \in 0..Len(order)] ==
            IF i = 0 THEN seedTables(sc, Boot(sc), content)
            ELSE LET f == order[i]
                     st == after[i - 1]
                 IN seedSaved(f, IF content[f] = <<>> THEN st ELSE handle(f, st, content[f][1], TRUE).st)
    IN after[Len(order)]
=============================================================================
