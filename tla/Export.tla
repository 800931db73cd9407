------------------------------ MODULE Export ------------------------------
(* The telemetry of an emulating simulator: the snapshot each tick         *)
(* publishes, the metrics push that exports the latest one, the event sink *)
(* with its file, its queue and its push, the exporter that tries a POST   *)
(* again, the files of a workload run, and a stop, a crash and a restart   *)
(* in the middle of any of them (simulator/pkg/telemetry,                  *)
(* pkg/otel/otlpjson, simulator/cmd/simulator/emulate.go and               *)
(* workload_otlp.go).  The receiver is external: it keeps the newest       *)
(* sample of a series, refuses an older one, and may take a request whose  *)
(* sender has given up.                                                    *)
EXTENDS Naturals, Sequences, FiniteSets, SequencesExt

CONSTANTS
    XNodes,      \* the emulated nodes in name order: [name, measured]
    MaxNodes,    \* node resources in one request (MaxNodesPerRequest)
    Presets,     \* the governor states of the node's component
    Facility,    \* the facility resource
    NoValue,      \* no snapshot, no request, no state
    QueueLen,    \* log exports waiting for the push (SinkConfig.Queue)
    Attempts,    \* exportMaxAttempts
    Every,       \* ticks between two metrics lines of a run
    MaxTicks, MaxPushes, XFaults, MaxLives   \* bounds of the model

ASSUME ExportAssumption ==
    /\ {MaxNodes, QueueLen, Attempts, Every} \subseteq Nat \ {0}
    /\ XNodes \in Seq([name : STRING, measured : BOOLEAN]) /\ XNodes # <<>>
    /\ Presets # {}
    /\ NoValue \notin Presets \cup Nat \cup [j : Nat, now : Presets, left : Presets \cup {NoValue}]

VARIABLES
    focus,   \* the output a behaviour follows: "metrics", "events" or "run";
             \* the three share the ticks and the life of the process only,
             \* and the metrics push reads what a tick stored, not what its
             \* publish callback does
    life,    \* "up", "stopping" (the context ended), "down"
    host,    \* what the node trees hold: [j, gov, ticks]
    latest,  \* Emulator.Latest: [j, now, left] or NoValue
    emu,     \* the emulator's goroutine: [pc, recs]
    mirror,  \* the legacy state: [j, last]: energyJByNode, lastHostJ
    push,    \* the pusher: NoValue or the export under way
    clk,     \* time of the last export
    sink,    \* [queue, job, off]
    journal, \* EventsFile: [lines, torn]
    kube,    \* the Kubernetes Node against its spec, and as last found
    run,     \* the run's recorder
    counted, \* joulie_sim_otlp_points_total, metrics
    recv,    \* the receiver
    ghost,   \* events whose Emit succeeded, those on a line that was cut,
             \* and how the governor's changes met the exports
    events,  \* events made so far
    xfaults

exVars == <<focus, life, host, latest, emu, mirror, push, clk, sink, journal, kube, run, counted, recv, ghost, events, xfaults>>

Resources == {XNodes[i].name : i \in DOMAIN XNodes} \cup {Facility}
EmuIdle == [pc |-> "idle", recs |-> <<>>]
NoRun == [st |-> "none", cum |-> 0, wrote |-> FALSE, since |-> 0, line |-> 0, bad |-> FALSE]
NoSink == [queue |-> <<>>, job |-> NoValue, off |-> FALSE]
NoMirror == [j |-> 0, last |-> NoValue, first |-> NoValue]

XInit ==
    /\ focus \in {"metrics", "events", "run"}
    /\ life = "up"
    /\ host = [j |-> 0, gov |-> CHOOSE g \in Presets : TRUE, ticks |-> 0]
    /\ latest = NoValue /\ emu = EmuIdle /\ mirror = NoMirror
    /\ push = NoValue /\ clk = 0 /\ sink = NoSink
    /\ journal = [lines |-> <<>>, torn |-> "no"]
    /\ kube = [is |-> "match", found |-> "match"]
    /\ run = NoRun /\ counted = 0
    /\ recv = [at |-> [r \in Resources |-> 0], j |-> [r \in Resources |-> 0], gov |-> {}, taken |-> 0, net |-> NoValue]
    /\ ghost = [acked |-> {}, cut |-> {}, calm |-> TRUE, shown |-> TRUE, lives |-> 1] /\ events = 0 /\ xfaults = 0

XFault == xfaults < XFaults /\ xfaults' = xfaults + 1

-----------------------------------------------------------------------------
(* FileWriter: one write a line.  A write that fails, or a crash in it,    *)
(* may leave part of its line; what follows on that line is unreadable.    *)

fileEndLine(f) == [f EXCEPT !.torn = "no"]

Written(f, line) ==
    IF f.torn = "no" THEN [f EXCEPT !.lines = Append(@, line)] ELSE [f EXCEPT !.torn = "no"]
Outcomes(f, line) ==
    {[ok |-> TRUE, file |-> Written(f, line)]}
    \cup (IF xfaults < XFaults
          THEN {[ok |-> FALSE, file |-> f], [ok |-> FALSE, file |-> [f EXCEPT !.torn = "short"]]} ELSE {})

-----------------------------------------------------------------------------
(* The sink.                                                               *)

(* Sink.Emit: the file first, then the queue unless the push is off; a     *)
(* full queue drops the export from the push only.                         *)
Queued(q, line) == IF Len(q) < QueueLen THEN Append(q, line) ELSE q
Emit(line) ==
    /\ events' = line
    /\ \E o \in Outcomes(journal, line) :
        /\ journal' = o.file
        /\ ghost' = [ghost EXCEPT !.acked = IF o.ok THEN @ \cup {line} ELSE @,
                                !.cut = IF o.ok /\ journal.torn = "short" THEN @ \cup {line} ELSE @]
        /\ xfaults' = IF o.ok THEN xfaults ELSE xfaults + 1
    /\ sink' = [sink EXCEPT !.queue = IF sink.off THEN @ ELSE Queued(@, line)]

-----------------------------------------------------------------------------
(* The emulator's goroutine.                                               *)

\* The state left is known in the snapshot of the change only.
ForgetsAtOnce(last, now) ==
    IF last = NoValue \/ last.now = now THEN NoValue ELSE last.now
(* readingPreviousGovernors: the state a component left stays known until  *)
(* the state changes again; a restarted simulator knows of none.           *)
readingPreviousGovernors(last, now) ==
    IF last = NoValue THEN NoValue
    ELSE LET left == IF last.now # now THEN last.now ELSE last.left
         IN  IF left = now THEN NoValue ELSE left

(* Emulator.Tick: the ledger is on disk before the snapshot is stored, and *)
(* the snapshot's events wait for the publish callback: node.ready on the  *)
(* first snapshot of a start, and what the drivers made of a write.        *)
HardwareEvents(first, wrote) == IF focus = "events" /\ (first \/ wrote) THEN <<"hw">> ELSE <<>>
TickStarts ==
    /\ life = "up" /\ emu.pc = "idle" /\ host.ticks < MaxTicks
    /\ emu' = [emu EXCEPT !.pc = "tick"]
    /\ UNCHANGED <<life, host, latest, mirror, push, clk, sink, journal, kube, run, counted, recv, ghost, events, xfaults>>
Tick ==
    /\ life # "down" /\ emu.pc = "tick"
    /\ \E g \in Presets :
        /\ host' = [j |-> host.j + 1, gov |-> g, ticks |-> host.ticks + 1]
        /\ latest' = [j |-> host.j + 1, now |-> g, left |-> readingPreviousGovernors(latest, g)]
        /\ emu' = IF focus = "metrics" THEN EmuIdle
                  ELSE [pc |-> "publish", recs |-> HardwareEvents(latest = NoValue, g # host.gov)]
        /\ ghost' = IF g = host.gov THEN ghost
                    ELSE [ghost EXCEPT !.calm = @ /\ (clk = 0 \/ (ghost.shown /\ latest # NoValue)), !.shown = FALSE]
    /\ UNCHANGED <<life, mirror, push, clk, sink, journal, kube, run, counted, recv, events, xfaults>>

(* publishEmulateSnapshot: the legacy state mirrors the snapshot, its      *)
(* energy by the increase of the ledger since the last one; then the       *)
(* events go out.                                                          *)
applyEmulateSnapshot ==
    mirror' = [j |-> mirror.j + (IF mirror.last # NoValue /\ latest.j > mirror.last THEN latest.j - mirror.last ELSE 0),
               last |-> latest.j, first |-> IF mirror.first = NoValue THEN latest.j ELSE mirror.first]
publishEmulateSnapshot ==
    /\ life # "down" /\ emu.pc = "publish"
    /\ applyEmulateSnapshot
    /\ IF emu.recs = <<>> THEN UNCHANGED <<events, journal, ghost, xfaults, sink>> ELSE Emit(events + 1)
    /\ emu' = [pc |-> "run", recs |-> <<>>]
    /\ UNCHANGED <<life, host, latest, push, clk, kube, run, counted, recv>>

(* workloadRun.tick: the run's cumulative metrics grow, and a line of them *)
(* is written when the interval has passed since the last attempt.         *)
maybeWriteMetrics(r, force) == force \/ ~r.wrote \/ r.since >= Every
RunWrites(r, force) ==
    IF maybeWriteMetrics(r, force)
    THEN \/ run' = [r EXCEPT !.wrote = TRUE, !.since = 0, !.line = r.cum, !.bad = FALSE] /\ UNCHANGED xfaults
         \/ run' = [r EXCEPT !.wrote = TRUE, !.since = 0, !.bad = TRUE] /\ XFault
    ELSE run' = r /\ UNCHANGED xfaults
RunTicks ==
    /\ emu.pc = "run" /\ life # "down"
    /\ emu' = EmuIdle
    /\ IF run.st = "active" THEN RunWrites([run EXCEPT !.cum = @ + 1, !.since = @ + 1], FALSE) ELSE UNCHANGED <<run, xfaults>>
    /\ UNCHANGED <<life, host, latest, mirror, push, clk, sink, journal, kube, counted, recv, ghost, events>>

(* runService.start, and workloadRun.finish through endLocked, which       *)
(* forces the last line.                                                   *)
RunStarts ==
    /\ focus = "run" /\ life = "up" /\ run.st = "none"
    /\ run' = [NoRun EXCEPT !.st = "active"]
    /\ UNCHANGED <<life, host, latest, emu, mirror, push, clk, sink, journal, kube, counted, recv, ghost, events, xfaults>>
RunFinishes ==
    /\ life = "up" /\ run.st = "active"
    /\ RunWrites([run EXCEPT !.st = "ended"], TRUE)
    /\ UNCHANGED <<life, host, latest, emu, mirror, push, clk, sink, journal, kube, counted, recv, ghost, events>>

-----------------------------------------------------------------------------
(* checkEmulatedNodes, on the pod polling goroutine: one event for each    *)
(* change of a Node away from its spec.                                    *)
NodeChanges ==
    /\ focus = "events"
    /\ kube' \in {[kube EXCEPT !.is = s] : s \in {"match", "node_missing", "profile_mismatch"} \ {kube.is}}
    /\ XFault
    /\ UNCHANGED <<life, host, latest, emu, mirror, push, clk, sink, journal, run, counted, recv, ghost, events>>
checkEmulatedNodes ==
    /\ life # "down" /\ kube.is # kube.found
    /\ kube' = [kube EXCEPT !.found = kube.is]
    /\ IF kube.is = "match" THEN UNCHANGED <<events, journal, ghost, xfaults, sink>> ELSE Emit(events + 1)
    /\ UNCHANGED <<life, host, latest, emu, mirror, push, clk, run, counted, recv>>

-----------------------------------------------------------------------------
(* The pusher.                                                             *)

(* nodeMetrics: a host no collector can measure exports nothing.           *)
Exporting == {i \in DOMAIN XNodes : XNodes[i].measured}
(* metricsRequests: the exporting nodes in order, in chunks, the facility  *)
(* with the first.                                                         *)
metricsRequests ==
    LET n == Cardinality(Exporting)
        chunks == IF n = 0 THEN 1 ELSE (n + MaxNodes - 1) \div MaxNodes
        before(i) == Cardinality({k \in Exporting : k < i})
    IN  [k \in 1 .. chunks |->
            {XNodes[i].name : i \in {x \in Exporting : before(x) \div MaxNodes = k - 1}}
            \cup (IF k = 1 THEN {Facility} ELSE {})]

(* PushOnce: nothing before the first snapshot; every point carries the    *)
(* time of the export and the values of the latest snapshot.               *)
Export(final) == [reqs |-> metricsRequests, at |-> clk + 1, j |-> latest.j, now |-> latest.now, left |-> latest.left,
                  try |-> 1, final |-> final]
Finished == [reqs |-> <<>>, at |-> clk, j |-> 0, now |-> NoValue, left |-> NoValue, try |-> 1, final |-> TRUE]
PushOnce ==
    /\ focus = "metrics" /\ life = "up" /\ push = NoValue /\ latest # NoValue /\ clk < MaxPushes
    /\ push' = Export(FALSE) /\ clk' = clk + 1
    /\ UNCHANGED <<life, host, latest, emu, mirror, sink, journal, kube, run, counted, recv, ghost, events, xfaults>>
(* Pusher.Run: when the context ends, the export under way fails and one   *)
(* more is made with a deadline of its own.                                *)
PushesLast ==
    /\ life = "stopping" /\ (push # NoValue => ~push.final)
    /\ IF latest = NoValue \/ focus # "metrics" THEN push' = Finished /\ UNCHANGED <<clk, recv>>
       ELSE /\ push' = Export(TRUE) /\ clk' = clk + 1
            /\ recv' \in {recv} \cup
                 (IF push # NoValue /\ push.reqs # <<>> /\ recv.net = NoValue THEN {[recv EXCEPT !.net = push]} ELSE {})
    /\ UNCHANGED <<life, host, latest, emu, mirror, sink, journal, kube, run, counted, ghost, events, xfaults>>

(* The receiver takes the samples of a request that are not older than the *)
(* ones it has.  The governor series carry a 1 for the state the component *)
(* is in and a 0 for the one it left.                                      *)
Newer(p, req) == {r \in req : p.at >= recv.at[r]}
Governed == XNodes[1].name
Taking(p, rs) ==
    [recv EXCEPT !.at = [r \in Resources |-> IF r \in rs THEN p.at ELSE @[r]],
                 !.j = [r \in Resources |-> IF r \in rs THEN p.j ELSE @[r]],
                 !.gov = IF Governed \in rs THEN (@ \cup {p.now}) \ {p.left} ELSE @,
                 !.taken = @ + Cardinality(rs)]

Shows(p, rs) == ghost' = [ghost EXCEPT !.shown = @ \/ (Governed \in rs /\ p.now = host.gov)]
Takes(p, rs) == recv' = Taking(p, rs) /\ Shows(p, rs)
NothingTaken == UNCHANGED <<recv, ghost>>

AfterThis(p) == IF Len(p.reqs) = 1 /\ ~p.final THEN NoValue ELSE [p EXCEPT !.reqs = Tail(@), !.try = 1]
(* recordExport: what was accepted is counted.                             *)
recordExport(n) == counted' = counted + n
(* Exporter.export: 429, 502, 503, 504 and a lost connection are tried     *)
(* again while attempts and the deadline last; everything else ends it.    *)
exportRetryable(p) == p.try < Attempts
Posts ==
    /\ push # NoValue /\ push.reqs # <<>> /\ (life = "up" \/ push.final)
    /\ LET req == Head(push.reqs)
           rs == Newer(push, req)
       IN  \/ \* taken: 2xx, or 400 when the receiver has newer samples
              /\ Takes(push, rs)
              /\ recordExport(IF rs = req THEN Cardinality(req) ELSE 0)
              /\ push' = AfterThis(push) /\ UNCHANGED xfaults
           \/ \* a partial success: part of the points rejected
              /\ \E part \in SUBSET rs : part # rs /\ Takes(push, part) /\ recordExport(Cardinality(part))
              /\ push' = AfterThis(push) /\ XFault
           \/ \* a status that is not tried again
              /\ NothingTaken /\ recordExport(0) /\ push' = AfterThis(push) /\ XFault
           \/ \* a retryable status or a connection lost, taken or not
              /\ \/ NothingTaken
                 \/ Takes(push, rs)
                 \/ recv.net = NoValue /\ recv' = [recv EXCEPT !.net = push] /\ UNCHANGED ghost
              /\ recordExport(0) /\ XFault
              /\ \/ exportRetryable(push) /\ push' = [push EXCEPT !.try = @ + 1]
                 \/ push' = AfterThis(push)
    /\ UNCHANGED <<life, host, latest, emu, mirror, clk, sink, journal, kube, run, events>>
(* A request whose sender gave up arrives.                                 *)
ArrivesLate ==
    /\ recv.net # NoValue
    /\ LET p == recv.net
           rs == Newer(p, Head(p.reqs))
       IN  recv' = [Taking(p, rs) EXCEPT !.net = NoValue] /\ Shows(p, rs)
    /\ UNCHANGED <<life, host, latest, emu, mirror, push, clk, sink, journal, kube, run, counted, events, xfaults>>

-----------------------------------------------------------------------------
(* The push of the events.                                                 *)
SinkRuns ==
    /\ life = "up" /\ sink.job = NoValue /\ sink.queue # <<>>
    /\ sink' = [sink EXCEPT !.queue = Tail(@), !.job = IF sink.off THEN NoValue ELSE Head(sink.queue)]
    /\ UNCHANGED <<life, host, latest, emu, mirror, push, clk, journal, kube, run, counted, recv, ghost, events, xfaults>>
SinkPosts ==
    /\ life = "up" /\ sink.job # NoValue
    /\ \/ sink' = [sink EXCEPT !.job = NoValue] /\ UNCHANGED xfaults    \* taken, or failed for good
       \/ sink' = [sink EXCEPT !.job = NoValue, !.off = TRUE] /\ XFault    \* 404: no logs receiver
    /\ UNCHANGED <<life, host, latest, emu, mirror, push, clk, journal, kube, run, counted, recv, ghost, events>>

-----------------------------------------------------------------------------
(* A stop: the context ends, the goroutines end, stopEmulate closes the    *)
(* files.                                                                  *)
Stops ==
    /\ life = "up" /\ life' = "stopping" /\ ghost.lives < MaxLives
    /\ UNCHANGED <<host, latest, emu, mirror, push, clk, sink, journal, kube, run, counted, recv, ghost, events, xfaults>>
Gone ==
    /\ life' = "down" /\ latest' = NoValue /\ emu' = EmuIdle /\ mirror' = NoMirror
    /\ push' = NoValue /\ sink' = NoSink /\ counted' = 0
    /\ kube' = [kube EXCEPT !.found = "match"]
    /\ run' = IF run.st = "active" THEN [run EXCEPT !.st = "cut"] ELSE run
    /\ recv' = [recv EXCEPT !.taken = 0]
    /\ ghost' = [ghost EXCEPT !.calm = @ /\ (clk = 0 \/ ghost.shown), !.lives = @ + 1]
stopEmulate ==
    /\ life = "stopping" /\ emu.pc = "idle" /\ push # NoValue /\ push.final /\ push.reqs = <<>>
    /\ Gone
    /\ UNCHANGED <<host, clk, journal, events, xfaults>>
(* A crash, in the middle of a line or not.                                *)
XCrash ==
    /\ life # "down" /\ ghost.lives < MaxLives /\ Gone
    /\ journal' \in {journal} \cup (IF emu.pc = "publish" /\ emu.recs # <<>> THEN {[journal EXCEPT !.torn = "crash"]} ELSE {})
    /\ UNCHANGED <<host, clk, events, xfaults>>
(* newEmulateRuntime and NewSink: the events file is opened again.         *)
startEmulate ==
    /\ life = "down" /\ life' = "up"
    /\ journal' = fileEndLine(journal)
    /\ UNCHANGED <<host, latest, emu, mirror, push, clk, sink, kube, run, counted, recv, ghost, events, xfaults>>

XNext ==
    /\ UNCHANGED focus
    /\ \/ TickStarts \/ Tick \/ publishEmulateSnapshot \/ RunTicks \/ RunStarts \/ RunFinishes
       \/ NodeChanges \/ checkEmulatedNodes
       \/ PushOnce \/ PushesLast \/ Posts \/ ArrivesLate
       \/ SinkRuns \/ SinkPosts
       \/ Stops \/ stopEmulate \/ XCrash \/ startEmulate

XSpec == XInit /\ [][XNext]_exVars

-----------------------------------------------------------------------------
(* A receiver shows at most one governor state of a component as the one   *)
(* in force, and once the last change has been taken, the right one, when  *)
(* the changes were far enough apart for each to be exported and no        *)
(* restart came between a change and its export: however many ticks and    *)
(* failed exports lie between, the state left is still named               *)
(* (readingPreviousGovernors, nodeMetrics).                                *)
OneGovernor ==
    ghost.calm =>
        /\ Cardinality(recv.gov) <= 1
        /\ ghost.shown /\ recv.gov # {} => recv.gov = {host.gov}
(* Every event Emit took is a whole line of the events file, through       *)
(* crashes in the middle of a line, unless it followed a write that was    *)
(* cut short in the same process (FileWriter.write, fileEndLine).          *)
EventsAreKept == ghost.acked \subseteq ToSet(journal.lines) \cup ghost.cut
(* What the points counter says was accepted, the receiver took            *)
(* (recordExport).                                                         *)
CountedWasTaken == counted <= recv.taken
(* The last metrics line of a run that ended holds its final values, if it *)
(* could be written (maybeWriteMetrics).                                   *)
LastLineIsFinal == run.st = "ended" /\ ~run.bad => run.line = run.cum
(* The legacy energy of a node is what its ledger gained since the first   *)
(* snapshot of this start (applyEmulateSnapshot).                          *)
MirrorAgrees == mirror.first # NoValue => mirror.j = mirror.last - mirror.first

(* A counter at the receiver never goes back and never moves at an old     *)
(* time, whatever was sent again, arrived late or was sent by the next     *)
(* process.                                                                *)
CountersGrow == \A r \in Resources : recv.j'[r] >= recv.j[r] /\ recv.at'[r] >= recv.at[r]

(* What leaves the simulator is true: the six facts above.                 *)
ExportIsTrue ==
    /\ [](OneGovernor /\ EventsAreKept /\ CountedWasTaken /\ LastLineIsFinal /\ MirrorAgrees)
    /\ [][CountersGrow]_exVars

(* The queue of events drains unless the simulator stops.                  *)
Drained == life = "up" => sink.queue = <<>> /\ sink.job = NoValue
=============================================================================
