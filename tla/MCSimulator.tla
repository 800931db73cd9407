---------------------------- MODULE MCSimulator ----------------------------
(* The emulated hardware and the tools around it: a behaviour is one of    *)
(* the emulator's ledgers, of a live view, of the vendor tools, of a       *)
(* capture on its way to a tree, of a scenario, or of an exporter of the   *)
(* readings, as `side` says.                                               *)
EXTENDS Readings, Smi, Corpus, ScenarioRun, Compat

VARIABLE side

-----------------------------------------------------------------------------
(* Smi: GPUs of both vendors that take, clamp or refuse, and every option  *)
(* that writes, called by root and by others.                              *)

NvGpu(no, nl, m, lo, hi) == [noLimit |-> no, noLock |-> nl, missing |-> m, lo |-> lo, hi |-> hi, limit |-> hi, lock |-> 0, pm |-> 0]
Ppt(cap, def, lo, hi) == [cap |-> cap, def |-> def, lo |-> lo, hi |-> hi]
AmdGpu(sec, ppt, ref, wr, noop) == [secondary |-> sec, ppt |-> ppt, refuses |-> ref, writable |-> wr, noop |-> noop,
   level |-> "auto", profile |-> "boot", profiles |-> IF sec THEN {} ELSE {"boot", "compute"}, clk |-> IF sec THEN {} ELSE {2, 4}, od |-> <<"none", 0>>]
Tools == {"nvidia-smi", "rocm-smi", "amd-smi"}
Instinct == AmdGpu(FALSE, <<Ppt(5, 5, 0, 7), Ppt(6, 6, 1, 8)>>, {}, {"sclkMax"}, FALSE)
TheRacks ==
  {[vendor |-> "nvidia", tools |-> Tools, broken |-> {}, dev |-> d] : d \in {
      <<NvGpu(FALSE, FALSE, FALSE, 2, 8), NvGpu(FALSE, TRUE, FALSE, 3, 9), NvGpu(TRUE, FALSE, FALSE, 0, 0)>>,
      <<NvGpu(FALSE, FALSE, FALSE, 2, 8), NvGpu(FALSE, FALSE, FALSE, 5, 6)>>,
      <<NvGpu(FALSE, FALSE, FALSE, 2, 8), NvGpu(FALSE, FALSE, TRUE, 5, 6)>>, <<>>}}
  \cup {[vendor |-> "amd", tools |-> t, broken |-> {}, dev |-> d] : t \in {Tools, {"rocm-smi"}}, d \in {
      <<Instinct, AmdGpu(TRUE, <<>>, {}, {}, FALSE)>>,
      <<Instinct, [Instinct EXCEPT !.ppt = <<Ppt(6, 5, 2, 6)>>, !.refuses = {"low", "manual"}]>>,
      <<[Instinct EXCEPT !.noop = TRUE, !.ppt = <<Ppt(4, 4, 0, 4)>>], Instinct>>, <<>>}}
  \cup {[vendor |-> "amd", tools |-> Tools, broken |-> {"rocm-smi"}, dev |-> <<Instinct>>]}
Call == [tool |-> "", form |-> "ok", opt |-> "", opts |-> <<>>, v |-> 0, word |-> "", known |-> TRUE, sel |-> <<>>,
       eow |-> FALSE, root |-> TRUE, yes |-> FALSE, loud |-> FALSE, v72 |-> TRUE, sensor |-> 1]
NvSmi(o, v) == [Call EXCEPT !.tool = "nvidia-smi", !.opt = o, !.v = v]
RocmSmi(os, v, w) == [Call EXCEPT !.tool = "rocm-smi", !.opts = os, !.v = v, !.word = w]
AmdSmi(o, v, w) == [Call EXCEPT !.tool = "amd-smi", !.opt = o, !.v = v, !.word = w]
Twice(k) == {k, [k EXCEPT !.root = FALSE]}
TheCommands == [v \in {"nvidia", "amd"} |->
  IF v = "nvidia" THEN
     UNION {Twice(NvSmi("pl", w)) : w \in {5, 7}} \cup Twice(NvSmi("lgc", 3)) \cup
     {[NvSmi("pl", 5) EXCEPT !.eow = TRUE], [NvSmi("lgc", 4) EXCEPT !.eow = TRUE], [NvSmi("pl", 8) EXCEPT !.sel = <<1>>], [NvSmi("pl", 8) EXCEPT !.sel = <<2, 9>>],
      NvSmi("rgc", 0), NvSmi("pm", 1), NvSmi("ac", 3), NvSmi("query", 0), [NvSmi("pl", 0) EXCEPT !.form = "unknown"], [NvSmi("pl", 0) EXCEPT !.form = "bad"], RocmSmi(<<>>, 0, "")}
  ELSE UNION {Twice(k) : k \in {RocmSmi(<<"setpoweroverdrive">>, 6, ""), RocmSmi(<<"setprofile">>, 0, "compute"), AmdSmi("power-cap", 6, ""), AmdSmi("reset", 0, ""), AmdSmi("perf-level", 0, "low"), AmdSmi("clk-limit", 3, "sclkMax")}}
     \cup {[RocmSmi(<<"setpoweroverdrive">>, 6, "") EXCEPT !.yes = TRUE], [RocmSmi(<<"setprofile", "setperflevel">>, 0, "low") EXCEPT !.known = FALSE, !.loud = TRUE],
      RocmSmi(<<"resetpoweroverdrive", "setperflevel">>, 0, "manual"), RocmSmi(<<"setperflevel">>, 0, "boost"), RocmSmi(<<"setprofile">>, 0, "boot"), [RocmSmi(<<"setpoweroverdrive">>, 3, "") EXCEPT !.sel = <<2>>],
      [AmdSmi("power-cap", 3, "") EXCEPT !.sensor = 2], [AmdSmi("reset", 0, "") EXCEPT !.v72 = FALSE], AmdSmi("clk-limit", 3, "uclkMin"), AmdSmi("profile", 0, ""), [AmdSmi("reset", 0, "") EXCEPT !.sel = <<9>>],
      [AmdSmi("reset", 0, "") EXCEPT !.form = "unknown"], NvSmi("query", 0)}]

-----------------------------------------------------------------------------
(* Corpus: captures of every driver, zone layout and GPU limit that a      *)
(* kernel or a vendor tool shows.                                          *)

\* powercap: packages with a DRAM zone, and captures with a zone missing, a
\* second control type, a zone that rejects writes.
Constraint(n, l, m) == [name |-> n, limit |-> l, max |-> m, rejects |-> FALSE]
Zone(n, e, cs) == [name |-> n, enabled |-> e, range |-> 9, constraints |-> cs]
Pkg(l) == Zone("package", 1, <<Constraint("long_term", l, 6), Constraint("short_term", 7, Absent)>>)
Dram == Zone("dram", 0, <<Constraint("long_term", 0, 3)>>)
Zoned(S) == [z \in S |-> IF Len(z) = 3 THEN Dram ELSE Pkg(4 + z[2])]
ZoneSets == {Zoned(S) : S \in SUBSET {<<"intel-rapl", 0>>, <<"intel-rapl", 1>>, <<"intel-rapl", 0, 0>>,
                                      <<"intel-rapl", 0, 1>>, <<"intel-rapl-mmio", 0>>}}
            \cup {[z \in {<<"intel-rapl", 0>>} |-> Zone("package", 1, <<>>)],
                  [z \in {<<"intel-rapl", 0>>} |-> Pkg(Absent)]}
Powercaps == {p \in [zones : ZoneSets, rejecting : {{}, {<<"intel-rapl", 0>>}}] :
                \A z \in p.rejecting \cap DOMAIN p.zones :
                    \A i \in DOMAIN p.zones[z].constraints : p.zones[z].constraints[i].limit # Absent}

\* CPUs: two sockets of one core each with two threads.
Threads == {[id |-> 0, socket |-> 0, core |-> 0], [id |-> 1, socket |-> 1, core |-> 0],
            [id |-> 2, socket |-> 0, core |-> 0], [id |-> 3, socket |-> 1, core |-> 0]}
Cpus == [hwp : BOOLEAN, base : {0, 2}, cpus : {Threads}]

Drivers == {"intel_pstate", "intel_cpufreq", "amd-pstate-epp", "amd-pstate", "acpi-cpufreq"}
Pol(g, e, b, m) == [gov |-> g, govs |-> {"performance", "powersave"}, epp |-> e,
                 prefs |-> IF e = "" THEN {}
                           ELSE IF g = "performance" /\ m THEN {"performance"} ELSE DefaultEPPs,
                 min |-> 1, max |-> IF b = 0 THEN 2 ELSE 3, boost |-> b]
Pols == {Pol(g, e, b, m) : g \in {"performance", "powersave"},
            e \in {"", "performance", "balance_performance", "power"}, b \in {Absent, 0, 1}, m \in BOOLEAN}
Sensible(d, p, q) ==
    /\ (p.gov = "performance" /\ Setpolicy(d) /\ p.epp # "") => p.epp = "performance"
    /\ (p.prefs = {"performance"}) => d = "amd-pstate-epp"
    /\ (d = "amd-pstate-epp" /\ p.gov = "performance" /\ p.epp # "") => p.prefs = {"performance"}
    /\ (p.boost # Absent /\ ~Intel(d)) => q.boost # Absent
    /\ (Intel(d) => p.boost = Absent)
    /\ (q.noTurbo = 1 /\ Intel(d)) => p.max = 2
SamePolicies(ids, ragged, p) == [i \in ids |-> IF ragged /\ i = 0 THEN [p EXCEPT !.gov = "performance"] ELSE p]
Shapes == {<<{0, 1}, FALSE>>, <<{0, 1, 2, 3}, FALSE>>, <<{0}, FALSE>>, <<{0, 1}, TRUE>>}
Freq(d, shape, p, st, nt, b) ==
    [driver |-> d, pols |-> SamePolicies(shape[1], shape[2], p),
     intelStatus |-> IF Intel(d) THEN st ELSE "", amdStatus |-> IF Amd(d) THEN st ELSE "",
     noTurbo |-> nt, boost |-> b]
FreqsOf(d) ==
    {q \in {Freq(d, x[1], x[2], x[3], x[4], x[5]) :
                x \in Shapes \X {p \in Pols : Intel(d) => p.boost = Absent} \X
                     (IF Intel(d) \/ Amd(d) THEN {"", "active", "passive", "guided"} ELSE {""}) \X
                     (IF Intel(d) THEN {Absent, 0, 1} ELSE {Absent}) \X {Absent, 0, 1}} :
        \A i \in DOMAIN q.pols : Sensible(d, q.pols[i], q)}
SensibleFreqs == UNION {FreqsOf(d) : d \in Drivers}
NvLimits == [min : {1, Token}, max : {4, Token}, limit : {2, 4, Token}, def : {0, 2, 4, 9}]
AmdLimits == [limit : {0, 2, 4}, min : {0, 1, Absent}, max : {0, 4, Absent}, def : {2, 4, Absent}]
TheCpu == [hwp |-> TRUE, base |-> 2, cpus |-> Threads]
TheFreq == [driver |-> "intel_pstate", pols |-> [i \in {0,1,2,3} |-> Pol("powersave", "power", Absent, FALSE)],
            intelStatus |-> "active", amdStatus |-> "", noTurbo |-> 0, boost |-> Absent]
Plain == [zones |-> Zoned({<<"intel-rapl", 0>>}), rejecting |-> {}, cpu |-> TheCpu, freq |-> TheFreq,
         nvidia |-> <<>>, amd |-> <<>>, alloc |-> Absent]
TheCaptures ==
    {[Plain EXCEPT !.zones = p.zones, !.rejecting = p.rejecting] : p \in Powercaps}
    \cup {[Plain EXCEPT !.cpu = u, !.freq = q] : u \in Cpus, q \in SensibleFreqs}
    \cup {[Plain EXCEPT !.nvidia = s, !.alloc = a] : s \in {<<l>> : l \in NvLimits} \cup {<<l, l>> : l \in NvLimits}, a \in {Absent, 1, 2}}
    \cup {[Plain EXCEPT !.amd = s, !.alloc = a] : s \in {<<l>> : l \in AmdLimits} \cup {<<l, l>> : l \in AmdLimits}, a \in {Absent, 1, 2}}

-----------------------------------------------------------------------------
(* ScenarioRun: an assertion of every type on a trace of one or two jobs.  *)

Ask(ty, k, op, v) == [type |-> ty, key |-> k, op |-> op, val |-> v, q |-> <<1, 1>>, sev |-> "fail", trace |-> {"j1"}]
Both(a) == [a EXCEPT !.trace = Work]
TheAssertions ==
    {Both(Ask("jobs", "completedFraction", ">=", 1)), Ask("jobs", "failed", "==", 0), [Ask("jobs", "incomplete", "==", 0) EXCEPT !.sev = "warn"],
     Ask("stall", "runStalled", "==", 0), Ask("events", "run.stalled", "==", 0), Ask("events", "scenario.finished", "==", 0),
     Ask("placement", "", "==", 0), Ask("energy", "total", "<=", 4), Both(Ask("energy", "perJob", "<=", 3)),
     [Both(Ask("latency", "duration", "<=", 1)) EXCEPT !.q = <<1, 2>>],
     Ask("objects", "jobsNotComplete", "==", 0), Ask("objects", "strayPodsOnFakeNodes", "==", 0), Ask("twinPower", "", "<=", 0), Ask("promql", "", "<=", 1)}
TheCompares == {[op |-> "<=", val |-> 1, sev |-> "fail"], [op |-> ">=", val |-> 1, sev |-> "warn"]}
TheReferences == {[exit |-> 2, status |-> "none", energy |-> 0], [exit |-> 0, status |-> "success", energy |-> 6], [exit |-> 0, status |-> "success", energy |-> 0]}
TheOffset == [j \in Work |-> IF j = "j1" THEN 0 ELSE 1]
TheBinds == [j \in Work |-> IF j = "j1" THEN {<<"eco", 0>>, <<"eco", 2>>, <<"eco", None>>, <<"", None>>} ELSE {<<"performance", 0>>}]

-----------------------------------------------------------------------------
(* The parts a behaviour is not about stay in one initial state.           *)

SideInit ==
    /\ side \in {"ledgers", "live", "smi", "corpus", "scenario", "exporters"}
    /\ CoInit(IF side = "corpus" THEN TheCaptures ELSE {<<>>})
    /\ SmiInit /\ (side # "smi" => smiNode.broken = {"rocm-smi"})
    /\ EmuInit /\ LiveInit
    /\ KxInit /\ (side # "exporters" => format = "gpu")
    /\ ScenInit(IF side = "scenario" THEN TheAssertions ELSE {Ask("stall", "runStalled", "==", 0)})

SideNext ==
    /\ UNCHANGED side
    /\ \/ side = "ledgers" /\ EmuNext /\ UNCHANGED <<liveVars, smiVars, coVars, scenVars, kxVars>>
       \/ side = "live" /\ LiveNext /\ UNCHANGED <<emuVars, smiVars, coVars, scenVars, kxVars>>
       \/ side = "smi" /\ SmiNext /\ UNCHANGED <<emuVars, liveVars, coVars, scenVars, kxVars>>
       \/ side = "corpus" /\ CoNext /\ UNCHANGED <<emuVars, liveVars, smiVars, scenVars, kxVars>>
       \/ side = "scenario" /\ ScenNext /\ UNCHANGED <<emuVars, liveVars, smiVars, coVars, kxVars>>
       \/ side = "exporters" /\ KxNext /\ UNCHANGED <<emuVars, liveVars, smiVars, coVars, scenVars>>

(* What tells two states of a behaviour apart: the other sides never move. *)
SideView ==
    <<side, CASE side = "ledgers" -> emuVars
              [] side = "live" -> liveVars
              [] side = "smi" -> smiVars
              [] side = "corpus" -> coVars
              [] side = "scenario" -> scenVars
              [] side = "exporters" -> kxVars>>
=============================================================================
