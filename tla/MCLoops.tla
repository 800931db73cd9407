------------------------------ MODULE MCLoops ------------------------------
(* What the loops of the system promise in the end: a behaviour is one of  *)
(* the GPU caps of a node, of a legacy node of the simulator under control *)
(* orders, of the legacy workload engine, of an emulated node and the      *)
(* writers of its files, or of the telemetry of an emulating simulator, as *)
(* `loop` says.                                                            *)
EXTENDS NodeCaps, SimNode, LegacyEngine, Readback, Export

VARIABLE loop

-----------------------------------------------------------------------------
\* NodeCaps: two NVIDIA boards alike, two that take no limit, a package of
\* two AMD dies of which one holds the cap, two AMD GPUs with different
\* ranges, two Intel GPUs of which one has no rated limit, and a simulated
\* node that takes its caps over HTTP.
Dev(lo, hi, ok, own) == [r |-> [min |-> lo, max |-> hi], ok |-> ok, own |-> own]
Node(vendor, devs) ==
    [vendor |-> vendor, labelled |-> TRUE, count |-> 2, dev |-> devs, http |-> FALSE, absolute |-> FALSE,
     uncappable |-> FALSE, catalog |-> NoRange, models |-> NoRange]
Simulated == [Node("none", <<Dev(1, 8, TRUE, TRUE)>>) EXCEPT !.http = TRUE, !.absolute = TRUE, !.count = 1,
                !.catalog = [min |-> 2, max |-> 8]]
TheFleets == {
    [Node("nvidia", <<Dev(2, 8, TRUE, TRUE), Dev(2, 8, TRUE, TRUE)>>) EXCEPT !.labelled = FALSE, !.absolute = TRUE,
        !.catalog = [min |-> 0, max |-> 8], !.uncappable = TRUE],
    [Node("nvidia", <<Dev(2, 8, FALSE, TRUE), Dev(2, 8, FALSE, TRUE)>>) EXCEPT !.uncappable = TRUE, !.catalog = [min |-> 0, max |-> 8]],
    Node("amd", <<Dev(0, 8, TRUE, TRUE), Dev(0, 8, TRUE, FALSE)>>),
    Node("amd", <<Dev(2, 8, TRUE, TRUE), Dev(3, 6, TRUE, TRUE)>>),
    [Node("intel", <<Dev(0, 8, TRUE, TRUE), Dev(0, 8, FALSE, TRUE)>>) EXCEPT !.absolute = TRUE],
    Simulated}

-----------------------------------------------------------------------------
(* LegacyEngine: two jobs, alone or as a gang.                             *)
TheGangs == {{}, EJobs}

(* SimNode: base models and labels that agree, and ones that do not.       *)
Model(g, gmin, gmax, d1, d2) ==
    [gpus |-> g, gmin |-> gmin, gmax |-> gmax, dmin |-> d1, dmax |-> d2, cap |-> 6, floor |-> 2, top |-> 5]
PlainModel == Model(0, 2, 4, TRUE, TRUE)
TheBases == {PlainModel, Model(1, 5, 4, FALSE, TRUE)}
TheClass == [min |-> 0, max |-> 3]
Unselected == [selected |-> FALSE, class |-> FALSE, gpus |-> 0, known |-> FALSE]
TheLabels == {[selected |-> TRUE, class |-> cl, gpus |-> g, known |-> k] : cl \in BOOLEAN, g \in {0, 1}, k \in BOOLEAN}
             \cup {Unselected}
TheThrottles == {-1, 1, 5}

-----------------------------------------------------------------------------
(* Readback: every scene, with values the driver takes, clamps, quantises  *)
(* or refuses.                                                             *)

Value(f) ==
    CASE f = "scaling_governor" -> Governors \cup {"bogus"}
      [] f = "energy_performance_preference" -> {"power", "0", "default"}
      [] f = "scaling_max_freq" -> {1, 3}
      [] f = "scaling_min_freq" -> {2, Bad}
      [] f = "no_turbo" -> {0, 2}
      [] f \in {"boost", "policy_boost"} -> {0, 1}
      [] f = "level" -> {"auto", "manual", "perf_determinism", "profile_standard", "profile_exit"}
      [] f = "od" -> {<<<<"s1", 2>>, <<"c", 0>>>>, <<<<"s0", 3>>, <<"c", 0>>>>, <<<<"r", 0>>>>}
      [] f = "profile" -> {<<"mode", 1>>}
      [] f \in {"max", "root_max"} -> {1, 2, 9}
      [] f \in {"rapl", "hsmp", "amd"} -> {1, 5, 9}
      [] f = "limit" -> {2, 4}
      [] f = "lock" -> {<<1, 2>>, <<2, 1>>}

Play(sc, readers, idles) ==
    [scene |-> sc, values |-> [f \in FilesOf(sc) |-> Value(f)], readers |-> readers, idles |-> idles]
ThePlays == {Play("epp", TRUE, FALSE), Play("epp_amd", FALSE, FALSE), Play("turbo", FALSE, FALSE), Play("boost", TRUE, FALSE),
             Play("dpm", FALSE, FALSE), Play("uncore", FALSE, FALSE), Play("caps", FALSE, FALSE), Play("nvml", FALSE, TRUE)}


OnePlay == Play("caps", FALSE, FALSE)

(* Export: a hypervisor guest, which exports nothing, between two hosts.   *)
TheHosts == <<[name |-> "n1", measured |-> TRUE], [name |-> "n2", measured |-> FALSE], [name |-> "n3", measured |-> TRUE]>>

-----------------------------------------------------------------------------
(* The loops a behaviour is not about stay in one initial state.           *)

LoopsInit ==
    /\ loop \in {"caps", "node", "legacy", "readback", "export"}
    /\ CapInit /\ (loop # "caps" => fleet = Simulated)
    /\ SInit /\ (loop # "node" => base = PlainModel /\ labels = [n \in SNodes |-> Unselected])
    /\ EInit /\ (loop # "legacy" => gang = {})
    /\ RbInit /\ (loop # "readback" => play = OnePlay)
    /\ XInit /\ (loop # "export" => focus = "run")

LoopsNext ==
    /\ UNCHANGED loop
    /\ \/ loop = "caps" /\ CapNext /\ UNCHANGED <<snVars, eVars, rbVars, exVars>>
       \/ loop = "node" /\ SNext /\ UNCHANGED <<capVars, eVars, rbVars, exVars>>
       \/ loop = "legacy" /\ ENext /\ UNCHANGED <<capVars, snVars, rbVars, exVars>>
       \/ loop = "readback" /\ RbNext /\ UNCHANGED <<capVars, snVars, eVars, exVars>>
       \/ loop = "export" /\ XNext /\ UNCHANGED <<capVars, snVars, eVars, rbVars>>

loopsVars == <<loop, capVars, snVars, eVars, rbVars, exVars>>

(* The agent and the controller manager reconcile, and calls do not fail   *)
(* for ever; the simulator ticks and polls; an emulated node steps, a      *)
(* reader closes, a writer that opened writes and time passes; the event   *)
(* sink runs.                                                              *)
LoopsFair ==
    /\ WF_capVars(loop = "caps" /\ AgentDiscovers(FALSE, FALSE, FALSE)) /\ WF_capVars(loop = "caps" /\ AgentApplies({}, FALSE))
    /\ WF_capVars(loop = "caps" /\ ControllerPlans) /\ WF_capVars(loop = "caps" /\ ControllerWrites(FALSE, FALSE))
    /\ WF_snVars(loop = "node" /\ stepLegacyNodes) /\ WF_snVars(loop = "node" /\ Polls)
    /\ WF_eVars(loop = "legacy" /\ TickSteps) /\ WF_eVars(loop = "legacy" /\ PollRefreshes)
    /\ WF_rbVars(loop = "readback" /\ NodeSteps) /\ WF_rbVars(loop = "readback" /\ ReaderCloses)
    /\ WF_rbVars(loop = "readback" /\ \E f \in Files : writer = f /\ \E v \in play.values[f] : Write(v))
    /\ WF_rbVars(loop = "readback" /\ \E f \in Files : Ages(f))
    /\ WF_exVars(loop = "export" /\ UNCHANGED focus /\ SinkRuns) /\ WF_exVars(loop = "export" /\ UNCHANGED focus /\ SinkPosts)
LoopsSpec == LoopsInit /\ [][LoopsNext]_loopsVars /\ LoopsFair

(* The planned caps reach the GPUs, the twin's budget covers them, and a   *)
(* publication that was lost is made again, whatever listings, writes and  *)
(* publications failed, GPUs slept, drivers reset and agents restarted on  *)
(* the way (applyGPUIntentFrom, upsertNodeTwinSpec, shouldWrite).  Orders  *)
(* to a legacy node end in force (handleControl, stepNode), every job of   *)
(* the legacy engine ends (advanceJobProgress, detectStalledJobs), and     *)
(* once the writers stop every file of an emulated node shows the value in *)
(* effect and no write is left unread, whoever died or held a file open on *)
(* the way (nodeRewriteInPlace, nodeEmptyRestoreAge), unless a write put   *)
(* back the very bytes the node had handled.  The queue of events of a     *)
(* running simulator drains (Sink.Run).                                    *)
LoopsSettle ==
    <>[](/\ loop = "caps" => CapsArrived /\ TwinCovers /\ Published
         /\ loop = "node" => OrdersInForce
         /\ loop = "legacy" => JobsEnded
         /\ loop = "readback" => Settled \/ repeated
         /\ loop = "export" => Drained)
=============================================================================
