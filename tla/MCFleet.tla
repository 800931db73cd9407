------------------------------ MODULE MCFleet ------------------------------
(* The deciding parts of the control plane: a behaviour is one of the      *)
(* policy's fleet, of the scheduler's scores, of a standalone simulation   *)
(* under a policy, of a scenario's plan, of a governor agent that stops    *)
(* and starts, of a governor sweep, or of the jobs of an emulated node, as *)
(* `part` says.                                                            *)
EXTENDS PolicyReconcile, Scoring, Standalone, ScenarioPlan, GovernorControl, Sweep, Shares

VARIABLE part

-----------------------------------------------------------------------------
\* Scoring: twins of both classes, one that never reported; two kinds of node;
\* a pod that asks for CPU and one whose init container asks for more GPUs.
Twin(class, head, cool, capped, meas, tr, age) ==
    [class |-> class, head |-> head, cool |-> cool, capped |-> capped, measured |-> meas, trend |-> tr, age |-> age]
TheTwins == {Twin("eco", 20, 40, 50, 20, 0 - 30, 0), Twin("performance", 60, 20, 100, 40, 60, 0),
             Twin("performance", 40, 20, 0, 0, 0, 0 - 1)}
Hardware(cores, sockets, range, gpus, doms, gr) ==
    [cores |-> cores, sockets |-> sockets, capRange |-> range, gpus |-> gpus, gpuPresent |-> FALSE, domains |-> doms, gpuRange |-> gr]
TheHws == {Hardware(4, 1, 40, 0, 0, 0), Hardware(8, 0, 0, 2, 1, 40)}
Gpu(v, sh, u) == [vendor |-> v, share |-> sh, units |-> u]
Res(cpus, mem, gpu) == [cpu |-> cpus, memory |-> mem, gpu |-> gpu]
Container(r, l) == [requests |-> r, limits |-> l]
NoRes == Res(0, 0, <<>>)
ThePods == {
    [class |-> "standard", containers |-> <<Container(Res(2, 1, <<>>), NoRes)>>, init |-> <<>>],
    [class |-> "performance", containers |-> <<Container(NoRes, Res(1, 0, <<Gpu("nvidia", 1, 1)>>)), Container(NoRes, NoRes)>>,
     init |-> <<Container(Res(0, 0, <<Gpu("amd", 0, 1), Gpu("nvidia", 2, 1)>>), NoRes)>>]}

-----------------------------------------------------------------------------
(* Standalone: a node of every kind the inventory knows, and four jobs.    *)
Cluster(prof, known, cores, gpus, fam) == [profile |-> prof, known |-> known, cores |-> cores, gpus |-> gpus, family |-> fam]
TheInventory == [n \in Nodes |->
    CASE n = 1 -> Cluster(FALSE, TRUE, 2, 1, 2)
      [] n = 2 -> Cluster(TRUE, TRUE, 2, 0, 1)
      [] n = 3 -> Cluster(FALSE, TRUE, 0, 0, 1)
      [] OTHER -> Cluster(FALSE, FALSE, 2, 0, 1)]
TraceJob(k, due) == [perf |-> k[1], cpu |-> k[2], gpus |-> k[3], at |-> due, cwork |-> k[4], gwork |-> k[5]]
Kinds == {<<FALSE, 1, 0, 2, 0>>, <<TRUE, 1, 0, 8, 0>>, <<TRUE, 2, 0, 2, 0>>, <<TRUE, 1, 1, 2, 6>>, <<FALSE, 1, 1, 0, 2>>}
TheTraces == {<<TraceJob(a, 1), TraceJob(b, 1), TraceJob(k, x), TraceJob(d, y)>> :
                a \in Kinds, b \in Kinds, k \in Kinds, d \in Kinds, x \in {1, 3}, y \in {3, 6}}
OneTrace == CHOOSE t \in TheTraces : TRUE

-----------------------------------------------------------------------------
(* ScenarioPlan: valid scenarios, and scenarios with one thing wrong, on a *)
(* cluster with a plain, a tainted GPU and an unmanaged node.              *)
Alloc(cpus, nv, am) == [r \in Resources |-> CASE r = "cpu" -> cpus [] r = "nvidia" -> nv [] r = "amd" -> am]
PlannedNode(ls, ts, al, f) == [labels |-> ls, taints |-> ts, alloc |-> al, family |-> f]
ThePools == [n \in {1, 2, 3} |->
    CASE n = 1 -> PlannedNode({"managed", "big"}, {"kwok"}, Alloc(2, 0, 0), 1)
      [] n = 2 -> PlannedNode({"managed"}, {"kwok"}, Alloc(1, 0, 0), 1)
      [] n = 3 -> PlannedNode({"big"}, {"kwok", "nvidia"}, Alloc(1, 1, 0), 2)]
JobSpec(name, class, count, pods, cpus, gpu, runs, every) ==
    [name |-> name, class |-> class, count |-> count, pods |-> pods, cpu |-> cpus, gpu |-> gpu, gpus |-> IF gpu = "" THEN 0 ELSE 1, runtime |-> runs, every |-> every]
TraceRecord(name, type, due, class, cpus, nv, cw, gw, sch) ==
    [type |-> type, id |-> <<name, 0, 0>>, at |-> due, class |-> class, schema |-> sch, req |-> Alloc(cpus, nv, 0), cwork |-> cw, gwork |-> gw]
Deployed(on, preset, set, values) == [on |-> on, preset |-> preset, set |-> set, values |-> values]
NamedVariant(name, j) == [name |-> name] @@ j
PolicySets == {Unset, [Unset EXCEPT !.frac = 0], [Unset EXCEPT !.managed = "big"], [Unset EXCEPT !.policy = "queue_aware_v1", !.ttl = 1]}
APlan == [jobs |-> <<JobSpec("a", "performance", 0, 0, 1, "", 1, 0)>>, source |-> "jobs", records |-> {},
          duration |-> 2, drain |-> 3, isolation |-> "", base |-> 2, joulie |-> Deployed("", "", Unset, <<>>), variants |-> <<>>, compare |-> <<>>,
          selector |-> "", tolerations |-> {"kwok"}, pools |-> ThePools, timing |-> [ttl |-> 2, reconcile |-> 1]]
JobLists == {
    <<JobSpec("a", "performance", 2, 0, 1, "", 2, 1), JobSpec("b", "standard", 0, 2, 1, "", 1, 0)>>,
    <<JobSpec("a", "performance", 3, 0, 2, "", 2, 1)>>, <<JobSpec("a", "performance", 4, 0, 1, "", 1, 1)>>,
    <<JobSpec("a", "standard", 2, 1, 1, "nvidia", 2, 1), JobSpec("b", "performance", 1, 1, 1, "", 1, 0)>>,
    <<JobSpec("a", "performance", 1, 2, 1, "nvidia", 1, 0)>>, <<JobSpec("a", "standard", 1, 1, 1, "amd", 1, 0)>>,
    <<JobSpec("a", "standard", 1, 1, 1, "", 1, 0), JobSpec("a", "standard", 1, 1, 1, "", 2, 0)>>, <<JobSpec("a", "eco", 1, 1, 0, "", 0, 0)>>}
RecordSets == {
    {TraceRecord("x", "job", 0, "performance", 1, 0, 4, 0, "v3"), TraceRecord("y", "job", 1, "standard", 0, 0, 2, 0, "v3"), TraceRecord("w", "workload", 0, "", 0, 0, 0, 0, "v3")},
    {TraceRecord("x", "job", 0, "performance", 1, 1, 2, 8, "v3"), TraceRecord("y", "job", 2, "standard", 1, 0, 2, 0, "v3")},
    {TraceRecord("x", "job", 0, "standard", 1, 0, 2, 0, "v2")}, {TraceRecord("x", "job", 0, "standard", 1, 0, 2, 0, "v3"), TraceRecord("w", "workload", 0, "", 0, 0, 0, 0, "v2")}}
Deployments == {Deployed(o, p, s, f) : o \in {"", "no"}, p \in {"", "kepler"}, s \in PolicySets, f \in {<<>>, <<[power |-> ""]>>}}
            \cup {Deployed("", "", [Unset EXCEPT !.power = "kepler"], <<>>), Deployed("", "", Unset, <<[power |-> "kepler"]>>), Deployed("", "rapl", Unset, <<>>)}
TheScenarios ==
    {[APlan EXCEPT !.jobs = l, !.joulie = j, !.duration = d, !.selector = z] : l \in JobLists, j \in {x \in Deployments : x.values = <<>> /\ x.preset = ""}, d \in {3}, z \in {""}}
    \cup {[APlan EXCEPT !.jobs = l, !.duration = d, !.selector = z] : l \in JobLists, d \in {2, 3}, z \in {"", "big"}}
    \cup {[APlan EXCEPT !.jobs = <<>>, !.source = k, !.records = l, !.base = b] : k \in {"trace", "generate"}, l \in RecordSets, b \in {1, 2}}
    \cup {[APlan EXCEPT !.joulie = j, !.variants = vs, !.compare = cs] : j \in Deployments,
            vs \in {<<NamedVariant("v", Deployed("", "", Unset, <<>>)), NamedVariant("w", x)>> : x \in {Deployed("no", "", Unset, <<>>), Deployed("", "kepler-legacy", [Unset EXCEPT !.frac = 100], <<>>), Deployed("", "", Unset, <<[power |-> "kepler"]>>)}}
                   \cup {<<NamedVariant("v", Deployed("", "", Unset, <<>>)), NamedVariant("v", Deployed("no", "", Unset, <<>>))>>},
            cs \in {<<>>, <<<<"v", "w">>>>, <<<<"v", "v">>>>}}
    \cup {[APlan EXCEPT !.duration = 0], [APlan EXCEPT !.isolation = "reuse"], [APlan EXCEPT !.source = "trace"], [APlan EXCEPT !.tolerations = {}, !.jobs = <<JobSpec("a", "performance", 1, 2, 1, "nvidia", 1, 0)>>], [APlan EXCEPT !.drain = 0]}

-----------------------------------------------------------------------------
(* Sweep: CPU boards of two policies, one of which has no boost and one    *)
(* whose preferences are clamped; GPU boards of two devices, one that      *)
(* refuses an edit; and commands over them.                                *)
Wr(f, b, v, od, br) == [file |-> f, base |-> b, value |-> v, od |-> od, brings |-> br]
SwPlan(r, ws) == [result |-> r, writes |-> ws]
Governed2(g, e) == <<Wr("gov0", "gov", g, FALSE, {"epp0"}), Wr("gov1", "gov", g, FALSE, {"epp1"}),
                     Wr("epp0", "epp", e, FALSE, {}), Wr("epp1", "epp", e, FALSE, {})>>
CpuFiles == [f \in {"gov0", "gov1", "epp0", "epp1"} |-> "boot"]
CpuArms == <<"default", "">> :> <<>> @@ <<"efficiency", "">> :> <<SwPlan("applied", Governed2("powersave", "power"))>>
           @@ <<"efficiency", "on">> :> <<SwPlan("unsupported", <<>>)>>
           @@ <<"performance", "">> :> <<SwPlan("applied", Governed2("performance", "performance"))>>
GpuEdits(d) == <<Wr("level" \o d, "level", "manual", FALSE, {}), Wr("od" \o d, "od", "s", TRUE, {}), Wr("od" \o d, "od", "c", TRUE, {})>>
GpuArms == <<"auto", 0>> :> <<SwPlan("applied", <<Wr("level0", "level", "auto", FALSE, {})>>), SwPlan("applied", <<Wr("level1", "level", "auto", FALSE, {})>>)>>
           @@ <<"efficient", 75>> :> <<SwPlan("applied", GpuEdits("0")), SwPlan("applied", GpuEdits("1"))>>
GpuFiles == [f \in {"level0", "level1", "od0", "od1"} |-> "boot"]
Board(boot, arms, rejects, clamps) ==
    [facts |-> {"ramp"}, invalid |-> {}, plan |-> arms, dev |-> [boot |-> boot, rejects |-> rejects, clamps |-> clamps],
     min |-> 6, max |-> 10, gpus |-> 2, uncapped |-> {},
     pace |-> [x \in {"default", "efficiency", "performance", "auto", "efficient"} |-> IF x \in {"efficiency", "efficient"} THEN 2 ELSE 3],
     slow |-> [x \in {"default", "efficiency", "performance", "auto", "efficient"} |-> 1],
     bursts |-> <<[arrivals |-> <<0, 1, 4>>, work |-> 3, limit |-> 6], [arrivals |-> <<1, 0, 0>>, work |-> 2, limit |-> 4]>>]
TheBoards == [
    epyc |-> Board(CpuFiles, CpuArms, {}, {}),
    xeon |-> [Board(CpuFiles, CpuArms, {<<"epp1", "performance">>}, {<<"gov1", "powersave">>}) EXCEPT !.facts = {}, !.invalid = {<<"ramp", 9>>}],
    mi |-> [Board(GpuFiles, GpuArms, {<<"od1", "c">>}, {}) EXCEPT !.uncapped = {1}],
    h100 |-> Board(GpuFiles, GpuArms, {}, {})]
TheFactGrid == [ramp |-> "cpu"]
CpuSweep(profs, arms, steady, bursty, seeds, sens) ==
    [seeds |-> seeds, duration |-> 4, limit |-> 3, sens |-> sens, gpu |-> <<>>,
     cpu |-> <<[profiles |-> profs, arms |-> [i \in DOMAIN arms |-> [preset |-> arms[i][1], boost |-> arms[i][2]]], idle |-> steady = <<>>,
                steady |-> steady, classes |-> <<"c">>, bursty |-> bursty]>>]
GpuSweep(profs, arms, caps, gates, jobs) ==
    [seeds |-> <<1>>, duration |-> 4, limit |-> 3, sens |-> <<>>, cpu |-> <<>>,
     gpu |-> <<[profiles |-> profs, arms |-> [i \in DOMAIN arms |-> [preset |-> arms[i], ceilings |-> <<>>]], caps |-> caps, gates |-> gates,
                classes |-> <<"g">>, jobs |-> jobs, idle |-> TRUE]>>]
SwJob(n, peer, nic, gather) == [gpus |-> n, peer |-> peer, nic |-> nic, gather |-> gather]
Command(cfg) == [cfg |-> cfg, keep |-> FALSE, force |-> FALSE, exists |-> {}]
OneCommand == Command(CpuSweep(<<"epyc">>, <<<<"default", "">>>>, <<>>, <<>>, <<1, 1>>, <<>>))
Ramp(vs) == <<[fact |-> "ramp", values |-> vs]>>
TheSweeps ==
    {Command(CpuSweep(<<"epyc">>, <<<<"efficiency", "on">>, <<"efficiency", "">>>>, <<>>, <<>>, <<1>>, Ramp(<<1>>))),
     Command(CpuSweep(<<"xeon">>, <<<<"efficiency", "">>, <<"performance", "">>>>, <<>>, <<>>, <<1, 2>>, Ramp(<<9>>))),
     Command(CpuSweep(<<"epyc">>, <<<<"performance", "">>>>, <<50>>, <<"c">>, <<1>>, Ramp(<<1>>))),
     Command(CpuSweep(<<"epyc">>, <<<<"performance", "">>>>, <<>>, <<"c">>, <<2>>, Ramp(<<1>>))),
     [Command(CpuSweep(<<"epyc">>, <<<<"default", "">>>>, <<>>, <<>>, <<1, 2>>, <<>>)) EXCEPT !.keep = TRUE, !.force = TRUE, !.exists = {<<"cpu", "csv">>}],
     [Command(CpuSweep(<<"epyc">>, <<<<"default", "">>>>, <<>>, <<>>, <<1>>, <<>>)) EXCEPT !.exists = {<<"cpu", "otlp">>}],
     OneCommand,
     Command(GpuSweep(<<"mi">>, <<"efficient">>, <<100, 50>>, <<"profile">>, <<SwJob(2, <<1>>, <<>>, <<>>)>>)),
     Command(GpuSweep(<<"mi">>, <<"auto">>, <<80>>, <<"profile">>, <<SwJob(2, <<>>, <<1>>, <<1>>)>>)),
     Command(GpuSweep(<<"h100">>, <<"efficient">>, <<80>>, <<"profile", "on">>, <<SwJob(2, <<1>>, <<>>, <<>>), SwJob(1, <<>>, <<>>, <<>>)>>))}

-----------------------------------------------------------------------------
(* Shares: whole, sliced, partitioned and unadvertised GPUs, with jobs     *)
(* that ask for more CPU time or units than the node has.                  *)
ShNode(x, u, g, link) ==
    [cpus |-> 2, alloc |-> 4, gpus |-> g, exposure |-> x, units |-> u, cpuIdle |-> 2520, gpuIdle |-> 2520, link |-> link]
ShJob(cpus, ut, un, gu, class, peer) == [cpu |-> cpus, util |-> ut, units |-> un, gutil |-> gu, class |-> class, peer |-> peer]
OneHosted == [node |-> ShNode("whole", 1, 2, TRUE), jobs |-> <<ShJob(1, 2, 2, 2, "", TRUE), ShJob(3, 2, 1, 1, "performance", TRUE), ShJob(1, 1, 0, 0, "", FALSE)>>]
TheHosted ==
    {OneHosted,
     [node |-> ShNode("timeslice", 2, 2, TRUE), jobs |-> <<ShJob(1, 2, 1, 2, "", TRUE), ShJob(1, 2, 2, 2, "", TRUE), ShJob(3, 2, 1, 1, "performance", TRUE)>>],
     [node |-> ShNode("mig", 3, 1, FALSE), jobs |-> <<ShJob(0, 0, 1, 0, "", FALSE), ShJob(4, 2, 2, 2, "performance", TRUE), ShJob(4, 1, 1, 1, "", TRUE)>>],
     [node |-> [ShNode("dra", 1, 0, FALSE) EXCEPT !.cpus = 3, !.alloc = 6], jobs |-> <<ShJob(1, 2, 1, 2, "", FALSE), ShJob(3, 2, 0, 0, "", FALSE), ShJob(6, 1, 0, 0, "", FALSE)>>]}
TheSpends == {<<5040, <<2520, 0>>>>, <<1260, <<5040, 7560>>>>}

-----------------------------------------------------------------------------
(* The parts a behaviour is not about stay in one initial state.           *)

FleetInit ==
    /\ part \in {"plan", "scores", "standalone", "scenario", "governor", "sweep", "shares"}
    /\ PlanInit /\ (part # "plan" => policyType = "static_partition" /\ eligible = {} /\ family = [n \in Nodes |-> 1])
    /\ ScInit
    /\ SpInit(IF part = "scenario" THEN TheScenarios ELSE {APlan})
    /\ Init /\ (part # "governor" => spec = NoIntent /\ mode = "write")
    /\ SwInit /\ (part # "sweep" => sweep = OneCommand)
    /\ ShInit /\ (part # "shares" => hosted = OneHosted)
    /\ SaInit(IF part = "standalone" THEN TheTraces ELSE {OneTrace}) /\ (part # "standalone" => baseline = "A")

FleetNext ==
    /\ UNCHANGED part
    /\ \/ part = "plan" /\ PlanNext /\ UNCHANGED <<scVars, saVars, spVars, vars, swVars, shVars>>
       \/ part = "scores" /\ ScNext /\ UNCHANGED <<planVars, saVars, spVars, vars, swVars, shVars>>
       \/ part = "standalone" /\ SaNext /\ UNCHANGED <<planVars, scVars, spVars, vars, swVars, shVars>>
       \/ part = "scenario" /\ SpNext /\ UNCHANGED <<planVars, scVars, saVars, vars, swVars, shVars>>
       \/ part = "governor" /\ Next /\ UNCHANGED <<planVars, scVars, saVars, spVars, swVars, shVars>>
       \/ part = "sweep" /\ SwNext /\ UNCHANGED <<planVars, scVars, saVars, spVars, vars, shVars>>
       \/ part = "shares" /\ ShNext /\ UNCHANGED <<planVars, scVars, saVars, spVars, vars, swVars>>

(* What tells two states of a behaviour apart: the other parts never move. *)
FleetView ==
    <<part, CASE part = "plan" -> planVars
              [] part = "scores" -> scVars
              [] part = "standalone" -> saVars
              [] part = "scenario" -> spVars
              [] part = "governor" -> vars
              [] part = "sweep" -> swVars
              [] part = "shares" -> shVars>>
=============================================================================
