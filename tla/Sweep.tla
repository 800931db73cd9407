------------------------------- MODULE Sweep -------------------------------
(* govsweep: an offline sweep of governor arms.  A config becomes cells,   *)
(* workers run them side by side, each on a node of its own, and share a   *)
(* cache of profiles and one of the arms that cannot be set; the rows go   *)
(* to the outputs in cell order.  I/O may fail and the command may be      *)
(* killed and started again over the same directories.  A step of virtual  *)
(* time, a unit of work and a unit of power are 1; what a preset writes on *)
(* a device (pkg/governor) and what the device makes of it are data of its *)
(* board.                                                                  *)
EXTENDS Naturals, Sequences, FiniteSets, SequencesExt

CONSTANTS
    Sweeps,      \* commands: [cfg, keep, force, exists]
    Boards,      \* profile -> its board
    FactGrid,    \* sensitivity fact -> the grid it varies
    Crew,        \* the workers, -parallel of them
    SweepFaults  \* bound of the model

VARIABLES
    sweep,    \* the command
    cells,    \* the cells of its config, once it runs
    stage,    \* "start", "run", "write" or "over"
    crew,     \* worker -> what it is at
    handed,   \* cells handed out
    copies,   \* profileCache.variants: <<variant, profile, fact set on that copy>>
    okCache,  \* profileCache.ok
    unsupported, \* runner.unsupported: armKey -> result
    roots,    \* cell id -> who rendered the tree there
    rows, errs, hurt, \* by cell: row, error, and whether I/O failed under it
    outputs,  \* output file -> its content
    exit, wfaults

swVars == <<sweep, cells, stage, crew, handed, copies, okCache, unsupported, roots, rows, errs, hurt, outputs, exit, wfaults>>

-----------------------------------------------------------------------------
(* config.go, cells.go                                                     *)

ForEach(s, Op(_)) == FoldLeft(LAMBDA out, x : out \o Op(x), <<>>, s)
OneIf(p, x) == IF p THEN <<x>> ELSE <<>>

Cell == [grid |-> "cpu", prof |-> "", sens |-> <<>>, preset |-> "", boost |-> "", ceil |-> 0, cap |-> 100, gate |-> "",
         load |-> "idle", pct |-> 0, class |-> "", gpus |-> 0, transfer |-> "", share |-> 0, seed |-> 0]

cpuLoads(g, base) ==
    OneIf(g.idle, base)
    \o ForEach(g.steady, LAMBDA pct : ForEach(g.classes, LAMBDA cl :
            <<[base EXCEPT !.load = "steady", !.pct = pct, !.class = cl]>>))
    \o ForEach(g.bursty, LAMBDA cl : <<[base EXCEPT !.load = "bursty", !.class = cl]>>)
(* A gate other than the profile's runs for peer transfers only.           *)
gpuLoads(g, base) ==
    LET peerOnly == base.gate # "profile"
        Moves(l, kind, shares) == ForEach(shares, LAMBDA s : <<[l EXCEPT !.transfer = kind, !.share = s]>>)
    IN  OneIf(g.idle /\ ~peerOnly, base)
        \o ForEach(g.classes, LAMBDA cl : ForEach(g.jobs, LAMBDA j :
            LET l == [base EXCEPT !.load = "job", !.class = cl, !.gpus = j.gpus]
            IN  OneIf(j.peer \o j.nic \o j.gather = <<>> /\ ~peerOnly, [l EXCEPT !.transfer = "none"])
                \o Moves(l, "peer", j.peer) \o Moves(l, "gather", j.gather)
                \o (IF peerOnly THEN <<>> ELSE Moves(l, "nic", j.nic))))

Seeded(cfg, loads) == ForEach(loads, LAMBDA l : ForEach(cfg.seeds, LAMBDA s : <<[l EXCEPT !.seed = s]>>))
expandCPU(cfg, v) ==
    ForEach(cfg.cpu, LAMBDA g : ForEach(g.profiles, LAMBDA p : ForEach(g.arms, LAMBDA a :
        Seeded(cfg, cpuLoads(g, [Cell EXCEPT !.prof = p, !.sens = v, !.preset = a.preset, !.boost = a.boost])))))
expandGPU(cfg, v) ==
    ForEach(cfg.gpu, LAMBDA g : ForEach(g.profiles, LAMBDA p : ForEach(g.arms, LAMBDA a :
        ForEach(IF a.ceilings # <<>> THEN a.ceilings ELSE IF a.preset = "efficient" THEN <<75>> ELSE <<0>>, LAMBDA ce :
        ForEach(g.caps, LAMBDA cap : ForEach(g.gates, LAMBDA gate :
            Seeded(cfg, gpuLoads(g, [Cell EXCEPT !.grid = "gpu", !.prof = p, !.sens = v, !.preset = a.preset,
                                                 !.ceil = ce, !.cap = cap, !.gate = gate]))))))))
(* expand: every cell, by variant, grid, profile, arm, load and seed; a    *)
(* grid is a sequence of at most one.                                      *)
variants(cfg) == <<<<>>>> \o ForEach(cfg.sens, LAMBDA s : ForEach(s.values, LAMBDA x : <<<<s.fact, x>>>>))
expand(cfg) ==
    ForEach(variants(cfg), LAMBDA v :
        (IF v = <<>> \/ FactGrid[v[1]] = "cpu" THEN expandCPU(cfg, v) ELSE <<>>)
        \o (IF v = <<>> \/ FactGrid[v[1]] = "gpu" THEN expandGPU(cfg, v) ELSE <<>>))

armID(c) ==
    IF c.grid = "cpu" THEN <<c.preset, c.boost>>
    ELSE <<c.preset, IF c.preset = "efficient" THEN c.ceil ELSE 0, c.cap, c.gate>>
(* ID: names the root of the cell and its host in the export.              *)
ID(c) ==
    <<c.grid, c.prof, armID(c),
      CASE c.load = "steady" -> <<"steady", c.pct, c.class>>
        [] c.load = "job" -> <<"job", c.class, c.gpus, c.transfer, IF c.transfer = "none" THEN 0 ELSE c.share>>
        [] c.load = "bursty" -> <<"bursty", c.class>>
        [] OTHER -> <<c.load>>, c.sens, c.seed>>

Distinct(cs) == Cardinality({ID(cs[i]) : i \in DOMAIN cs}) = Len(cs)
(* validate: what the grids need, and no cell twice, since parallel cells  *)
(* of one id would share a root.                                           *)
validate(cfg) ==
    /\ cfg.seeds # <<>> /\ cfg.cpu \o cfg.gpu # <<>>
    /\ \A i \in DOMAIN cfg.cpu :
        LET g == cfg.cpu[i]
        IN  /\ g.profiles # <<>> /\ g.arms # <<>> /\ (g.steady # <<>> => g.classes # <<>>)
            /\ ToSet(g.bursty) \subseteq ToSet(g.classes)
            /\ \A a \in ToSet(g.arms) : a.preset = "default" => a.boost = ""
    /\ \A i \in DOMAIN cfg.gpu :
        LET g == cfg.gpu[i]
        IN  /\ g.profiles # <<>> /\ g.arms # <<>> /\ g.caps # <<>> /\ g.gates # <<>>
            /\ \A a \in ToSet(g.arms) : a.ceilings # <<>> => a.preset = "efficient"
            /\ g.jobs # <<>> => g.classes # <<>>
            /\ \A j \in ToSet(g.jobs) : j.gpus > 0 /\ (j.gpus < 2 => j.peer \o j.gather = <<>>)
    /\ \A i \in DOMAIN cfg.sens : cfg.sens[i].fact \in DOMAIN FactGrid /\ cfg.sens[i].values # <<>>
    /\ Distinct(expand(cfg))

-----------------------------------------------------------------------------
(* apply.go: a plan is a sequence of writes [file, base, value, od,        *)
(* brings].                                                                *)

(* What a device makes of a write: it rejects it, clamps it or takes it,   *)
(* and a governor brings the preference of its policy.                     *)
Taken(dev, files, w) ==
    LET set == [files EXCEPT ![w.file] = IF <<w.file, w.value>> \in dev.clamps THEN "clamped" ELSE w.value]
    IN  IF <<w.file, w.value>> \in dev.rejects THEN files
        ELSE [f \in DOMAIN files |-> IF f \in w.brings THEN w.value ELSE set[f]]
Receives(dev, files, ws) == FoldLeft(LAMBDA fs, w : Taken(dev, fs, w), files, ws)

(* applyWrites: writes go out in groups of one file name, none twice; the  *)
(* group is read back after one step, a rejection before a value that      *)
(* reads otherwise.                                                        *)
groups(ws) ==
    LET Joins(gs, w) == gs # <<>> /\ Last(gs)[1].base = w.base /\ \A x \in ToSet(Last(gs)) : x.file # w.file
    IN  FoldLeft(LAMBDA gs, w : IF Joins(gs, w) THEN Append(Front(gs), Append(Last(gs), w)) ELSE Append(gs, <<w>>), <<>>, ws)
flush(dev, out, g) ==
    LET files == Receives(dev, out.files, g)
        rejected == \E w \in ToSet(g) : <<w.file, w.value>> \in dev.rejects
        differs == \E w \in ToSet(g) : ~w.od /\ files[w.file] # w.value
    IN  IF out.result # "" THEN out
        ELSE [result |-> IF rejected THEN "unsupported" ELSE IF differs THEN "not-applied" ELSE "",
              writes |-> out.writes + Len(g), files |-> files]
(* The write that fails, if one does, ends the plan before its group is    *)
(* read back.                                                              *)
applyWrites(dev, ws, fails) ==
    LET gs == groups(IF fails = 0 THEN ws ELSE SubSeq(ws, 1, fails))
        out == FoldLeft(LAMBDA o, g : flush(dev, o, g), [result |-> "", writes |-> 0, files |-> dev.boot],
                        IF fails = 0 THEN gs ELSE Front(gs))
    IN  IF fails = 0 \/ out.result # "" THEN out
        ELSE [result |-> "error", writes |-> fails - 1, files |-> Receives(dev, out.files, Front(Last(gs)))]

(* lockstep: the first write of every plan, then the second.               *)
lockstep(plans) ==
    LET rounds == Cardinality(UNION {DOMAIN plans[i].writes : i \in DOMAIN plans})
    IN  ForEach([k \in 1 .. rounds |-> k], LAMBDA k : ForEach(plans, LAMBDA p : OneIf(k \in DOMAIN p.writes, p.writes[k])))
uniform(results) == IF Cardinality(ToSet(results)) = 1 THEN results[1] ELSE "mixed"

ArmOption(c) == <<c.preset, IF c.grid = "cpu" THEN c.boost ELSE c.ceil>>
(* applyCPU and applyGPU: nothing for the default arm; the plan's result   *)
(* when every device gives the same and takes its writes.                  *)
applyArm(board, c, fails) ==
    LET plans == board.plan[ArmOption(c)]
        able == SelectSeq(plans, LAMBDA p : p.result # "unsupported")
        ws == lockstep(able)
        out == applyWrites(board.dev, ws, fails)
        Nothing(r) == [result |-> r, writes |-> 0, files |-> board.dev.boot]
    IN  IF c.preset = "default" THEN Nothing("")
        ELSE IF plans = <<>> THEN Nothing("unsupported")
        ELSE IF out.result # "" THEN out
        ELSE [out EXCEPT !.result = uniform([i \in DOMAIN plans |-> plans[i].result])]

PlanLength(c) == IF c.preset = "default" THEN 0 ELSE Len(lockstep(Boards[c.prof].plan[ArmOption(c)]))

(* capInRange: rocm-smi would refuse and exit 0.                           *)
capW(board, c) == (c.cap * board.max) \div 100
capInRange(board, c) == c.cap = 100 \/ (capW(board, c) >= board.min /\ capW(board, c) <= board.max)

-----------------------------------------------------------------------------
(* run.go: the loads.  pace is the work of a step under the arm.           *)
pace(set, board, c) == IF set = {} THEN board.pace[c.preset] ELSE board.slow[c.preset]

(* runSteady, runGPUJob: the step that brings the work to its end is       *)
(* counted in part; the limit is looked at after it.                       *)
runJob(work, d, limit) ==
    LET n == (work + d - 1) \div d
    IN  IF d = 0 \/ n > limit THEN [status |-> "timeout", full |-> limit, part |-> 0, lat |-> <<>>]
        ELSE [status |-> "ok", full |-> n - 1, part |-> work - (n - 1) * d, lat |-> <<>>]

(* runBursty: the bursts arrive in their order, each waits for those       *)
(* before it, and what a step has left goes to the next.                   *)
BurstStep(b, d, st, t) ==
    LET come == {i \in st.next .. Len(b.arrivals) : \A j \in st.next .. i : b.arrivals[j] <= t}
        upto == st.next + Cardinality(come)
        queue == st.queue \o SubSeq(b.arrivals, st.next, upto - 1)
        left == IF st.queue = <<>> THEN b.work ELSE st.left
        could == IF d = 0 \/ d < left THEN 0 ELSE 1 + (d - left) \div b.work
        k == IF could < Len(queue) THEN could ELSE Len(queue)
    IN  [next |-> upto, queue |-> SubSeq(queue, k + 1, Len(queue)),
         left |-> IF k = 0 THEN IF d < left THEN left - d ELSE left ELSE b.work - ((d - left - (k - 1) * b.work) % b.work),
         lat |-> st.lat \o [i \in 1 .. k |-> t + 1 - queue[i]]]
runBursty(b, d) ==
    LET s[t \in 0 .. b.limit + 1] ==
            IF t = 0 THEN [next |-> 1, queue |-> <<>>, left |-> 0, lat |-> <<>>] ELSE BurstStep(b, d, s[t - 1], t - 1)
        done == {t \in 1 .. b.limit + 1 : s[t].next > Len(b.arrivals) /\ s[t].queue = <<>>}
        end == CHOOSE t \in done : \A u \in done : t <= u
    IN  IF done = {} THEN [status |-> "timeout", full |-> b.limit + 1, part |-> 0, lat |-> <<>>]
        ELSE [status |-> "ok", full |-> end, part |-> 0, lat |-> s[end].lat]

(* A gather job computes on all its GPUs but the first, which receives.    *)
jobWorkers(board, c) ==
    LET n == IF c.gpus < board.gpus THEN c.gpus ELSE board.gpus
    IN  IF c.transfer = "gather" THEN 2 .. n ELSE 1 .. n
(* The cap must be held by every GPU the job runs on.                      *)
capHeld(board, c) == c.cap = 100 \/ \A g \in jobWorkers(board, c) : g \notin board.uncapped

runLoad(cfg, set, board, c) ==
    LET d == pace(set, board, c)
    IN  CASE c.load = "idle" -> [status |-> "ok", full |-> cfg.duration, part |-> 0, lat |-> <<>>]
          [] c.load = "steady" -> runJob(cfg.duration, d, cfg.limit)
          [] c.load = "bursty" -> runBursty(board.bursts[c.seed], d)
          [] c.load = "job" -> LET n == Cardinality(jobWorkers(board, c)) IN runJob(cfg.duration * n, d * n, cfg.limit)

-----------------------------------------------------------------------------
(* run.go: a cell.                                                         *)
NoRow == [status |-> "", arm |-> "", writes |-> 0, window |-> <<>>]
Row(st, out, win) == [status |-> st, arm |-> out.result, writes |-> out.writes, window |-> win]
Ran(r) == r.status \in {"ok", "timeout"}
\* The boost word left out of the key.
KeyWithoutBoost(c) == <<c.grid, c.prof, c.sens, c.preset, c.ceil>>
(* armKey: what an arm's result depends on.                                *)
armKey(c) == <<c.grid, c.prof, c.sens, c.preset, c.boost, c.ceil>>
OutOfRange == [result |-> "unsupported", writes |-> 0]

VariantSets(c) == c.sens = <<>> \/ c.sens[1] \in Boards[c.prof].facts
VariantValid(c) == c.sens = <<>> \/ c.sens \notin Boards[c.prof].invalid
(* The row of a cell that nothing else runs beside.                        *)
AloneRow(c) ==
    LET board == Boards[c.prof]
        set == IF c.sens = <<>> THEN {} ELSE {c.sens}
        out == applyArm(board, c, 0)
        win == runLoad(sweep.cfg, set, board, c)
    IN  IF c.grid = "gpu" /\ ~capInRange(board, c) THEN Row("unsupported", OutOfRange, <<>>)
        ELSE IF out.result = "unsupported" THEN Row("unsupported", out, <<>>)
        ELSE IF out.result \notin {"", "applied", "equivalent"} THEN Row("failed", out, <<>>)
        ELSE Row(win.status, out, <<win>>)
AloneFails(c) ==
    \/ ~VariantValid(c)
    \/ /\ VariantSets(c) /\ Ran(AloneRow(c))
       /\ c.load = "job" /\ ~capHeld(Boards[c.prof], c)

-----------------------------------------------------------------------------
OutputFiles == {<<g, k>> : g \in {"cpu", "gpu"}, k \in {"csv", "otlp"}}
Order == <<<<"cpu", "csv">>, <<"cpu", "otlp">>, <<"gpu", "csv">>, <<"gpu", "otlp">>>>
Off == [pc |-> "off", i |-> 0, set |-> {}, out |-> <<>>]

SwInit ==
    /\ sweep \in Sweeps /\ cells = <<>>
    /\ stage = "start" /\ exit = 9 /\ wfaults = 0
    /\ crew = [w \in Crew |-> Off] /\ handed = 0
    /\ copies = {} /\ okCache = <<>> /\ unsupported = <<>>
    /\ roots = <<>>
    /\ rows = <<>> /\ errs = {} /\ hurt = {}
    /\ outputs = [f \in OutputFiles |-> IF f \in sweep.exists THEN <<"old">> ELSE <<>>]

(* run: the config is checked, then the outputs, unless -force.            *)
SwStarts ==
    /\ stage = "start"
    /\ LET refused == ~sweep.force /\ \E f \in OutputFiles : outputs[f] # <<>>
       IN  IF ~validate(sweep.cfg) THEN stage' = "over" /\ exit' = 2 /\ UNCHANGED <<cells, rows, crew>>
           ELSE IF refused THEN stage' = "over" /\ exit' = 1 /\ UNCHANGED <<cells, rows, crew>>
           ELSE /\ stage' = "run" /\ cells' = expand(sweep.cfg) /\ rows' = [i \in DOMAIN cells' |-> NoRow] /\ UNCHANGED exit
                /\ crew' = [w \in Crew |-> [Off EXCEPT !.pc = "idle"]]
    /\ UNCHANGED <<sweep, handed, copies, okCache, unsupported, roots, errs, hurt, outputs, wfaults>>

SwFault(w, fails) ==
    /\ wfaults + (IF fails THEN 1 ELSE 0) <= SweepFaults
    /\ wfaults' = wfaults + (IF fails THEN 1 ELSE 0)
    /\ hurt' = IF fails THEN hurt \cup {crew[w].i} ELSE hurt

(* runCells: a worker takes the next cell.                                 *)
SwTakes(w) ==
    /\ stage = "run" /\ crew[w].pc = "idle" /\ handed < Len(cells)
    /\ handed' = handed + 1
    /\ crew' = [crew EXCEPT ![w] = [Off EXCEPT !.pc = "profile", !.i = handed + 1]]
    /\ UNCHANGED <<sweep, cells, stage, copies, okCache, unsupported, roots, rows, errs, hurt, outputs, exit, wfaults>>

CellOver(w) == crew' = [crew EXCEPT ![w] = [Off EXCEPT !.pc = "idle"]]

(* profileCache.get, under its lock: the base profile, or the variant's    *)
(* own copy, on which its fact is set once; a copy that does not validate  *)
(* is an error each time.                                                  *)
SwProfile(w) ==
    LET c == cells[crew[w].i]
        key == <<c.sens, c.prof>>
        seen == key \in DOMAIN okCache
        ok == IF c.sens = <<>> THEN TRUE ELSE IF seen THEN okCache[key] ELSE VariantSets(c)
        fails == c.sens # <<>> /\ ~seen /\ ok /\ ~VariantValid(c)
    IN  /\ stage = "run" /\ crew[w].pc = "profile"
        /\ copies' = IF c.sens = <<>> \/ seen THEN copies ELSE copies \cup {<<c.sens, c.prof, c.sens>>}
        /\ okCache' = IF c.sens = <<>> \/ seen \/ fails THEN okCache ELSE okCache @@ (key :> ok)
        /\ errs' = IF fails THEN errs \cup {crew[w].i} ELSE errs
        /\ IF ok /\ ~fails
           THEN crew' = [crew EXCEPT ![w].pc = "begin", ![w].set = {x \in {y[3] : y \in copies'} : <<c.sens, c.prof, x>> \in copies'}]
           ELSE CellOver(w)
    /\ UNCHANGED <<sweep, cells, stage, handed, unsupported, roots, rows, hurt, outputs, exit, wfaults>>

(* run: an arm known to be unsupported is not tried again, unless the      *)
(* trees are kept; otherwise the root is cleared and the node rendered.    *)
SwBegins(w) ==
    LET i == crew[w].i
        c == cells[i]
        known == armKey(c) \in DOMAIN unsupported /\ ~sweep.keep
        out == c.grid = "gpu" /\ ~capInRange(Boards[c.prof], c)
    IN  /\ stage = "run" /\ crew[w].pc = "begin"
        /\ \E fails \in BOOLEAN :
            /\ (known \/ out => ~fails) /\ SwFault(w, fails)
            /\ errs' = IF fails THEN errs \cup {i} ELSE errs
            /\ IF known \/ out
               THEN /\ rows' = [rows EXCEPT ![i] = Row("unsupported", IF known THEN unsupported[armKey(c)] ELSE OutOfRange, <<>>)]
                    /\ CellOver(w) /\ UNCHANGED roots
               ELSE /\ roots' = IF fails /\ ~sweep.keep THEN [d \in DOMAIN roots \ {ID(c)} |-> roots[d]]
                                ELSE (ID(c) :> w) @@ roots
                    /\ IF fails THEN CellOver(w) ELSE crew' = [crew EXCEPT ![w].pc = "arm"]
                    /\ UNCHANGED rows
    /\ UNCHANGED <<sweep, cells, stage, handed, copies, okCache, unsupported, outputs, exit>>

Leaves(c) == roots' = IF sweep.keep THEN roots ELSE [d \in DOMAIN roots \ {ID(c)} |-> roots[d]]

(* The arm is set as the agent would set it; a write that fails with an    *)
(* errno of the host's own is an error, which is not an unsupported arm.   *)
SwArm(w) ==
    LET i == crew[w].i
        c == cells[i]
    IN  /\ stage = "run" /\ crew[w].pc = "arm"
        /\ \E fails \in 0 .. PlanLength(c) :
            LET out == applyArm(Boards[c.prof], c, fails)
            IN  /\ SwFault(w, fails # 0)
                /\ IF out.result \in {"", "applied", "equivalent"}
                   THEN crew' = [crew EXCEPT ![w].pc = "load", ![w].out = out] /\ UNCHANGED <<rows, roots, unsupported>>
                   ELSE /\ CellOver(w) /\ Leaves(c)
                        /\ rows' = [rows EXCEPT ![i] = Row(IF out.result = "unsupported" THEN "unsupported" ELSE "failed", out, <<>>)]
                        /\ unsupported' = IF out.result # "unsupported" THEN unsupported
                                          ELSE (armKey(c) :> [result |-> out.result, writes |-> out.writes]) @@ unsupported
    /\ UNCHANGED <<sweep, cells, stage, handed, copies, okCache, errs, outputs, exit>>

(* The load, the row and its export; a cap a GPU of the job does not hold  *)
(* is an error.                                                            *)
SwLoad(w) ==
    LET i == crew[w].i
        c == cells[i]
        board == Boards[c.prof]
        win == runLoad(sweep.cfg, crew[w].set, board, c)
    IN  /\ stage = "run" /\ crew[w].pc = "load"
        /\ \E fails \in BOOLEAN :
            LET lost == fails \/ (c.load = "job" /\ ~capHeld(board, c))
            IN  /\ SwFault(w, fails)
                /\ errs' = IF lost THEN errs \cup {i} ELSE errs
                /\ rows' = IF lost THEN rows ELSE [rows EXCEPT ![i] = Row(win.status, crew[w].out, <<win>>)]
        /\ CellOver(w) /\ Leaves(c)
    /\ UNCHANGED <<sweep, cells, stage, handed, copies, okCache, unsupported, outputs, exit>>

(* The workers are done: the outputs are next.                             *)
SwJoins ==
    /\ stage = "run" /\ handed = Len(cells) /\ \A w \in Crew : crew[w].pc = "idle"
    /\ stage' = "write" /\ crew' = [w \in Crew |-> Off]
    /\ UNCHANGED <<sweep, cells, handed, copies, okCache, unsupported, roots, rows, errs, hurt, outputs, exit, wfaults>>

(* writeOutputs: per grid with cells its rows and then its exports, in     *)
(* cell order, each file through a temporary one; the first that fails     *)
(* ends the command.                                                       *)
Content(f) ==
    LET is == SelectSeq([i \in DOMAIN cells |-> i],
                LAMBDA i : cells[i].grid = f[1] /\ (IF f[2] = "csv" THEN rows[i].status # "" ELSE Ran(rows[i])))
    IN  <<"this", [k \in DOMAIN is |-> ID(cells[is[k]])]>>
GridHasCells(f) == \E i \in DOMAIN cells : cells[i].grid = f[1]
SwWrites ==
    /\ stage = "write"
    /\ LET left == SelectSeq(Order, LAMBDA f : GridHasCells(f) /\ outputs[f] # Content(f))
       IN  IF left = <<>>
           THEN stage' = "over" /\ exit' = (IF errs = {} THEN 0 ELSE 1) /\ UNCHANGED <<outputs, wfaults>>
           ELSE \/ outputs' = [outputs EXCEPT ![left[1]] = Content(left[1])] /\ UNCHANGED <<stage, exit, wfaults>>
                \/ /\ wfaults < SweepFaults /\ wfaults' = wfaults + 1
                   /\ stage' = "over" /\ exit' = 1 /\ UNCHANGED outputs
    /\ UNCHANGED <<sweep, cells, crew, handed, copies, okCache, unsupported, roots, rows, errs, hurt>>

(* The command is killed and started again over the same directories.      *)
SwKilled ==
    /\ stage \in {"run", "write"} /\ wfaults < SweepFaults /\ wfaults' = wfaults + 1
    /\ stage' = "start" /\ exit' = 9 /\ cells' = <<>>
    /\ crew' = [w \in Crew |-> Off] /\ handed' = 0
    /\ copies' = {} /\ okCache' = <<>> /\ unsupported' = <<>>
    /\ rows' = <<>> /\ errs' = {} /\ hurt' = {}
    /\ UNCHANGED <<sweep, roots, outputs>>

SwNext ==
    \/ SwStarts \/ SwJoins \/ SwWrites \/ SwKilled
    \/ \E w \in Crew : SwTakes(w) \/ SwProfile(w) \/ SwBegins(w) \/ SwArm(w) \/ SwLoad(w)

-----------------------------------------------------------------------------
(* A row is what the cell gives alone: no worker beside it, no variant of  *)
(* a profile and no arm remembered from another cell shows in it (run,     *)
(* armKey, profileCache.get).  A cell whose cap is out of range and whose  *)
(* arm is unsupported too names the one or the other.                      *)
RowsStandAlone ==
    \A i \in DOMAIN rows :
        rows[i].status # "" /\ i \notin hurt =>
            LET c == cells[i]
                r == AloneRow(c)
            IN  /\ VariantSets(c) /\ ~AloneFails(c)
                /\ rows[i] = r \/ (r.status = rows[i].status /\ c.grid = "gpu" /\ ~capInRange(Boards[c.prof], c))
(* A node at work has its tree to itself (validate, Cell.ID).              *)
RootsArePrivate ==
    \A w \in Crew : crew[w].pc \in {"arm", "load"} => roots[ID(cells[crew[w].i])] = w
(* A row that ran ran under its arm: the last value its plan writes to     *)
(* each file is what the device holds (applyWrites, lockstep).             *)
ArmIsHeld ==
    \A w \in Crew : crew[w].pc = "load" =>
        LET c == cells[crew[w].i]
            ws == lockstep(Boards[c.prof].plan[ArmOption(c)])
        IN  c.preset # "default" => \A k \in DOMAIN ws :
                ws[k].od \/ (\E j \in k + 1 .. Len(ws) : ws[j].file = ws[k].file) \/ crew[w].out.files[ws[k].file] = ws[k].value
(* Every burst of a row that is ok was served, and none faster than the    *)
(* node works (runBursty).                                                 *)
BurstsAreServed ==
    \A i \in DOMAIN rows :
        LET c == cells[i]
            b == Boards[c.prof].bursts[c.seed]
            d == pace(IF c.sens = <<>> THEN {} ELSE {c.sens}, Boards[c.prof], c)
            lat == rows[i].window[1].lat
        IN  rows[i].status = "ok" /\ c.load = "bursty" =>
                /\ Len(lat) = Len(b.arrivals)
                /\ \A k \in DOMAIN lat : lat[k] * d >= b.work
                /\ \A k \in 1 .. Len(lat) - 1 : b.arrivals[k] + lat[k] <= b.arrivals[k + 1] + lat[k + 1]
(* An exit of 0 leaves every cell in the outputs, in cell order, but those *)
(* whose variant sets nothing, with an export beside each row that ran     *)
(* (run, runCells, writeOutputs).                                          *)
ExitIsTrue ==
    stage = "over" /\ exit = 0 =>
        /\ \A i \in DOMAIN cells : rows[i].status # "" <=> VariantSets(cells[i])
        /\ \A f \in OutputFiles : GridHasCells(f) => outputs[f] = Content(f)

(* A sweep's rows are its cells': the five facts above.                    *)
SweepIsSound == RowsStandAlone /\ RootsArePrivate /\ ArmIsHeld /\ BurstsAreServed /\ ExitIsTrue
=============================================================================
