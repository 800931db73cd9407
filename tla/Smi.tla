--------------------------------- MODULE Smi ---------------------------------
(***************************************************************************)
(* The emulated vendor tools (simulator/pkg/hwemu/smi): nvidia-smi, which  *)
(* checks every GPU before it writes the first one, rocm-smi, which works  *)
(* through its options and devices and almost always exits 0, and amd-smi, *)
(* which answers every GPU with a message.  Several callers (the agent, an *)
(* operator in the pod) run them against the same files.                   *)
(*                                                                         *)
(* An argument list is the command it stands for, or the usage error it    *)
(* makes.  A claim is a line of output that says what a file now holds.    *)
(***************************************************************************)
EXTENDS Integers, Sequences, FiniteSetsExt

CONSTANTS
    Callers,
    Racks,       \* [vendor, tools, broken, dev]: nodes and their GPUs
    Commands,     \* vendor -> the commands called there
    MaxCalls,     \* bound: calls
    SmiFaults     \* bound: failed writes and killed calls

(* A GPU has the files its vendor's tools write; an amdgpu device has at   *)
(* most two PPT sensors.  A selection is a list of ids.                    *)
HasFiles(vendor, g) ==
    IF vendor = "nvidia" THEN {"limit", "pm", "lock"} \subseteq DOMAIN g
    ELSE /\ {"level", "profile", "od", "ppt"} \subseteq DOMAIN g
         /\ DOMAIN g.ppt \subseteq {1, 2} /\ (g.ppt = <<>> \/ 1 \in DOMAIN g.ppt)
         /\ \A s \in DOMAIN g.ppt : "cap" \in DOMAIN g.ppt[s]

ASSUME SmiAssumption ==
    \A s \in Racks :
        /\ Len(s.dev) \in Nat /\ DOMAIN s.dev = 1..Len(s.dev)
        /\ \A d \in DOMAIN s.dev : HasFiles(s.vendor, s.dev[d])
        /\ \A k \in Commands[s.vendor] : k.sel \in Seq(Nat)

VARIABLES
    smiNode,      \* the node: vendor, tools, broken
    smiDev,       \* its GPUs, as the files show them
    smiRun,       \* caller -> its call
    smiSaid,      \* claims no later write has made stale
    smiLeft       \* calls and faults left

smiVars == <<smiNode, smiDev, smiRun, smiSaid, smiLeft>>

Idle == [stage |-> "idle"]
Going == -1

SmiInit ==
    /\ \E s \in Racks :
         /\ smiNode = [vendor |-> s.vendor, tools |-> s.tools, broken |-> s.broken]
         /\ smiDev = s.dev
    /\ smiRun = [c \in Callers |-> Idle] /\ smiSaid = {}
    /\ smiLeft = [calls |-> MaxCalls, faults |-> SmiFaults]

(***************************************************************************)
(* Arguments and devices.                                                  *)
(***************************************************************************)

(* A usage error, or 0: an option the tool does not have, one without its  *)
(* value or two that exclude each other, one that is not emulated.         *)
usage(k) ==
    CASE k.form = "ok" -> 0
      [] k.form = "unknown" /\ k.tool = "nvidia-smi" -> 255
      [] k.form = "unknown" /\ k.tool = "amd-smi" -> 1
      [] OTHER -> 2

(* nvmlGPUs and amdGPUs: the GPUs of the tool's own vendor.                *)
Gpus(k) == IF (k.tool = "nvidia-smi") = (smiNode.vendor = "nvidia") THEN smiDev ELSE <<>>
Devices(k) == IF k.sel = <<>> THEN [i \in DOMAIN smiDev |-> i] ELSE k.sel
AllFound(k) == \A i \in DOMAIN k.sel : k.sel[i] \in DOMAIN smiDev

(* The exit of a call without a GPU, or with an id that names none.        *)
noDevice(k) ==
    CASE k.tool = "nvidia-smi" -> IF smiNode.vendor # "nvidia" THEN 9 ELSE 6
      [] k.tool = "rocm-smi" -> 0
      [] OTHER -> IF Gpus(k) = <<>> THEN 2 ELSE 1

(***************************************************************************)
(* nvidia-smi.  A limit or a lock the device answers with [N/A] is a       *)
(* warning, or with --error-on-warning a refusal.                          *)
(***************************************************************************)
nvSettable(k, g) ==
    CASE k.opt = "pl" -> ~g.noLimit
      [] k.opt \in {"lgc", "rgc"} -> ~g.noLock
      [] k.opt = "pm" -> TRUE
      [] OTHER -> FALSE

nvRefusal(k, g) ==
    IF g.missing THEN 255
    ELSE IF k.opt = "ac" \/ (k.opt \in {"pl", "lgc", "rgc"} /\ ~nvSettable(k, g) /\ k.eow) THEN 3
    ELSE IF k.opt = "pl" /\ ~g.noLimit /\ (k.v < g.lo \/ k.v > g.hi) THEN 2 ELSE 0

(* Only the first GPU that is refused, in the order named, is answered.    *)
nvCheck(k) ==
    LET d == Devices(k)
        bad == {i \in DOMAIN d : nvRefusal(k, smiDev[d[i]]) # 0}
    IN IF bad # {} THEN nvRefusal(k, smiDev[d[Min(bad)]])
       ELSE IF ~k.root /\ \E i \in DOMAIN d : nvSettable(k, smiDev[d[i]]) THEN 4 ELSE 0

nvFile(opt) == CASE opt = "pl" -> "limit" [] opt = "pm" -> "pm" [] OTHER -> "lock"
nvWritten(k, g) == [g EXCEPT ![nvFile(k.opt)] = IF k.opt = "rgc" THEN 0 ELSE k.v]

(***************************************************************************)
(* The outcome of one device: its new files, the files written (in order), *)
(* what the tool says, the exit code when the run ends here, whether the   *)
(* option skips the devices left, and whether RETCODE is set.              *)
(***************************************************************************)
Outcome(g, files, says) == [g |-> g, files |-> files, says |-> says, exit |-> Going, skip |-> FALSE, ret |-> FALSE]
Says(g, f, v) == Outcome(g, {}, {<<f, v>>})
Quiet(g) == Outcome(g, {}, {})
Fails(g) == [Quiet(g) EXCEPT !.ret = TRUE]
Exits(g, code) == [Quiet(g) EXCEPT !.exit = code]
SkipsRest(g) == [Quiet(g) EXCEPT !.skip = TRUE]

nvSet(k, g) ==
    IF nvRefusal(k, g) # 0 THEN Exits(g, nvRefusal(k, g))
    ELSE IF ~nvSettable(k, g) THEN Quiet(g)
    ELSE Outcome(nvWritten(k, g), {nvFile(k.opt)}, {<<nvFile(k.opt), IF k.opt = "rgc" THEN 0 ELSE k.v>>})

(***************************************************************************)
(* The amdgpu files.                                                       *)
(***************************************************************************)
Capped(g, s, w) == [g EXCEPT !.ppt[s].cap = w]
levelErrno(k, g, level) ==
    IF ~k.root THEN "EPERM" ELSE IF level \in g.refuses THEN "EINVAL" ELSE "ok"

(***************************************************************************)
(* rocm-smi.                                                               *)
(***************************************************************************)

(* 0 watts is a reset: the range is checked for the 0, the default is      *)
(* written.  Above both the current and the default cap it asks, once; an  *)
(* answer other than yes ends the run.                                     *)
setPowerOverDrive(k, g, w) ==
    IF g.secondary THEN Quiet(g)
    ELSE IF g.ppt = <<>> THEN Fails(g)
    ELSE LET p == g.ppt[1]
             new == IF w = 0 THEN p.def ELSE w
         IN IF w > p.hi \/ w < p.lo THEN Fails(g)
            ELSE IF new > Max({p.cap, p.def}) /\ ~k.yes THEN Exits(g, 1)
            ELSE IF ~k.root THEN Quiet(g)
            ELSE Outcome(Capped(g, 1, new), {"cap1"}, {<<"cap1", new>>})

(* A word outside the four is refused by the tool, one of them by the      *)
(* kernel; only the second sets RETCODE.                                   *)
rocmSetPerfLevel(k, g) ==
    IF k.word \notin {"auto", "low", "high", "manual"} THEN Quiet(g)
    ELSE IF levelErrno(k, g, k.word) # "ok" THEN Fails(g)
    ELSE Outcome([g EXCEPT !.level = k.word], {"level"}, {<<"level", k.word>>})

(* The level is set to manual, then the profile; an unknown profile and    *)
(* one that is set already end the option for the devices left.            *)
setProfile(k, g) ==
    IF g.profiles = {} THEN Fails(g)
    ELSE IF ~k.known THEN SkipsRest(g)
    ELSE IF k.word = g.profile THEN [Says(g, "profile", k.word) EXCEPT !.skip = TRUE]
    ELSE IF k.word \notin g.profiles \/ levelErrno(k, g, "manual") # "ok" THEN Fails(g)
    ELSE Outcome([g EXCEPT !.level = "manual", !.profile = k.word], {"level", "profile"}, {<<"profile", k.word>>})

(***************************************************************************)
(* amd-smi: every outcome is a message and exit 0, but a caller without    *)
(* root ends the run with 1.                                               *)
(***************************************************************************)
setPowerCap(k, g) ==
    IF k.sensor \notin DOMAIN g.ppt THEN Quiet(g)
    ELSE LET p == g.ppt[k.sensor]
             f == IF k.sensor = 1 THEN "cap1" ELSE "cap2"
         IN IF k.v = p.cap THEN Says(g, f, k.v)
            ELSE IF p.cap = 0 \/ k.v < p.lo \/ k.v > p.hi \/ (k.v72 /\ k.v = 0) THEN Quiet(g)
            ELSE IF ~k.root THEN Exits(g, 1)
            ELSE Outcome(Capped(g, k.sensor, k.v), {f}, {<<f, k.v>>})

resetPowerCap71(k, g) ==
    IF g.ppt = <<>> THEN Quiet(g)
    ELSE IF g.ppt[1].cap = g.ppt[1].def THEN Says(g, "cap1", g.ppt[1].def)
    ELSE IF ~k.root THEN Exits(g, 1)
    ELSE Outcome(Capped(g, 1, g.ppt[1].def), {"cap1"}, {<<"cap1", g.ppt[1].def>>})

(* Every PPT, one message each, without a look at the current cap.         *)
resetPowerCap72(k, g) ==
    IF g.ppt = <<>> THEN Quiet(g)
    ELSE IF ~k.root THEN Exits(g, 1)
    ELSE Outcome([g EXCEPT !.ppt = [s \in DOMAIN g.ppt |-> [g.ppt[s] EXCEPT !.cap = g.ppt[s].def]]],
                 {IF s = 1 THEN "cap1" ELSE "cap2" : s \in DOMAIN g.ppt},
                 {<<IF s = 1 THEN "cap1" ELSE "cap2", g.ppt[s].def>> : s \in DOMAIN g.ppt})

amdSetPerfLevel(k, g) ==
    CASE levelErrno(k, g, k.word) = "EPERM" -> Exits(g, 1)
      [] levelErrno(k, g, k.word) = "EINVAL" -> Quiet(g)
      [] OTHER -> Outcome([g EXCEPT !.level = k.word], {"level"}, {<<"level", k.word>>})

(* The bounds are those of the level table; the level goes to manual       *)
(* before the driver is asked, and stays there when the driver refuses.    *)
setClkLimit(k, g) ==
    LET min == k.word \in {"sclkMin", "uclkMin"}
        manual == Outcome([g EXCEPT !.level = "manual"], {"level"}, {})
    IN IF g.clk = {} \/ (min /\ k.v > Max(g.clk)) \/ (~min /\ k.v < Min(g.clk)) THEN Quiet(g)
       ELSE IF k.v = IF min THEN Min(g.clk) ELSE Max(g.clk) THEN Quiet(g)
       ELSE IF levelErrno(k, g, "manual") = "EPERM" THEN Exits(g, 1)
       ELSE IF levelErrno(k, g, "manual") # "ok" THEN Quiet(g)
       ELSE IF k.word \notin g.writable \/ k.v < Min(g.clk) \/ k.v > Max(g.clk) THEN manual
       ELSE Outcome([g EXCEPT !.level = "manual", !.od = <<k.word, k.v>>], {"level", "od"}, {<<"od", <<k.word, k.v>>>>})

(* The option at the head of a call, for its device.                       *)
tool(r, opt, g) ==
    IF r.k.tool = "nvidia-smi" THEN nvSet(r.k, g)
    ELSE CASE opt = "setpoweroverdrive" -> setPowerOverDrive(r.k, g, r.k.v)
           [] opt = "resetpoweroverdrive" -> setPowerOverDrive(r.k, g, 0)
           [] opt = "setperflevel" -> rocmSetPerfLevel(r.k, g)
           [] opt = "setprofile" -> setProfile(r.k, g)
           [] opt = "power-cap" -> setPowerCap(r.k, g)
           [] opt = "reset" -> IF r.k.v72 THEN resetPowerCap72(r.k, g) ELSE resetPowerCap71(r.k, g)
           [] opt = "perf-level" -> amdSetPerfLevel(r.k, g)
           [] opt = "clk-limit" -> setClkLimit(r.k, g)
           [] OTHER -> Quiet(g)

(***************************************************************************)
(* A call, from Main to its exit.                                          *)
(***************************************************************************)

(* The exit of a call that does not come to its devices, or Going.         *)
Main(k) ==
    IF k.tool \notin smiNode.tools \/ k.tool \in smiNode.broken THEN 127
    ELSE IF usage(k) # 0 THEN usage(k)
    ELSE IF Gpus(k) = <<>> THEN noDevice(k)
    ELSE IF k.tool = "rocm-smi" /\ ~k.root /\ k.opts # <<>> /\ smiDev[1].noop THEN 0
    ELSE IF ~AllFound(k) THEN noDevice(k)
    ELSE IF k.tool = "nvidia-smi" /\ nvCheck(k) # 0 THEN nvCheck(k) ELSE Going

(* The options in the tool's own order, each over every device named.      *)
Order == <<"setperflevel", "setpoweroverdrive", "resetpoweroverdrive", "setprofile">>
Steps(k) ==
    LET d == Devices(k)
        over(opt) == [i \in DOMAIN d |-> <<opt, d[i]>>]
        given(i) == IF \E j \in DOMAIN k.opts : k.opts[j] = Order[i] THEN over(Order[i]) ELSE <<>>
    IN IF k.tool = "rocm-smi" THEN given(1) \o given(2) \o given(3) \o given(4) ELSE over(k.opt)

Done(k, exit, wrote, want) == [stage |-> "done", k |-> k, exit |-> exit, wrote |-> wrote, want |-> want]

(* The GPUs a call is meant to set.                                        *)
Wanted(k) ==
    IF k.tool = "nvidia-smi" THEN {d \in {Devices(k)[i] : i \in DOMAIN Devices(k)} : nvSettable(k, smiDev[d])} ELSE {}

Calls(c, k) ==
    /\ smiRun[c].stage \in {"idle", "done"} /\ smiLeft.calls > 0
    /\ smiLeft' = [smiLeft EXCEPT !.calls = @ - 1]
    /\ smiRun' = [smiRun EXCEPT ![c] =
         IF Main(k) # Going THEN Done(k, Main(k), {}, {})
         ELSE [stage |-> "runs", k |-> k, todo |-> Steps(k), ret |-> FALSE, wrote |-> {}, want |-> Wanted(k)]]
    /\ UNCHANGED <<smiNode, smiDev, smiSaid>>

(* Claims of files written by now are stale.                               *)
Said(d, o) == {s \in smiSaid : ~(s[1] = d /\ s[2] \in o.files)} \cup {<<d, s[1], s[2]>> : s \in o.says}

(* The error of a write ignored.                                           *)
SaysAnyway(r, o, g) == [o EXCEPT !.g = g]

(* A write may fail: nvidia-smi ends with 255, the AMD tools go on.  A     *)
(* profile or a clock limit whose second write fails has set the level.    *)
Broken(r, o, g) ==
    LET part == IF "level" \in o.files /\ Cardinality(o.files) = 2 THEN [g EXCEPT !.level = "manual"] ELSE g
    IN [o EXCEPT !.g = part, !.says = {}, !.exit = IF r.k.tool = "nvidia-smi" THEN 255 ELSE Going,
                 !.files = IF part = g THEN {} ELSE {"level"}]

Works(c) ==
    /\ smiRun[c].stage = "runs" /\ smiRun[c].todo # <<>>
    /\ LET r == smiRun[c]
           opt == Head(r.todo)[1]
           d == Head(r.todo)[2]
           o == tool(r, opt, smiDev[d])
       IN \E fault \in BOOLEAN :
            /\ fault => o.files # {} /\ smiLeft.faults > 0
            /\ LET out == IF fault THEN Broken(r, o, smiDev[d]) ELSE o
               IN /\ smiDev' = [smiDev EXCEPT ![d] = out.g]
                  /\ smiSaid' = Said(d, out)
                  /\ LET wrote == r.wrote \cup (IF out.files = {} THEN {} ELSE {d})
                     IN smiRun' = [smiRun EXCEPT ![c] =
                          IF out.exit # Going THEN Done(r.k, out.exit, wrote, r.want)
                          ELSE [r EXCEPT !.todo = IF out.skip THEN <<>> ELSE Tail(@),
                                         !.wrote = wrote, !.ret = @ \/ out.ret]]
            /\ smiLeft' = [smiLeft EXCEPT !.faults = IF fault THEN @ - 1 ELSE @]
    /\ UNCHANGED smiNode

(* rocm-smi puts RETCODE back to 0 unless --loglevel names another level.  *)
Ends(c) ==
    /\ smiRun[c].stage = "runs" /\ smiRun[c].todo = <<>>
    /\ smiRun' = [smiRun EXCEPT ![c] = Done(@.k, IF @.ret /\ @.k.loud THEN 1 ELSE 0, @.wrote, @.want)]
    /\ UNCHANGED <<smiNode, smiDev, smiSaid, smiLeft>>

(* The caller's timeout kills the tool between two devices.                *)
Struck(c) ==
    /\ smiRun[c].stage = "runs" /\ smiLeft.faults > 0
    /\ smiLeft' = [smiLeft EXCEPT !.faults = @ - 1]
    /\ smiRun' = [smiRun EXCEPT ![c] = Idle]
    /\ UNCHANGED <<smiNode, smiDev, smiSaid>>

SmiNext ==
    \E c \in Callers :
        \/ \E k \in Commands[smiNode.vendor] : Calls(c, k)
        \/ Works(c)
        \/ Ends(c)
        \/ Struck(c)

(***************************************************************************)
(* Properties.                                                             *)
(***************************************************************************)

Holds(d, f, v) ==
    CASE f = "cap1" -> smiDev[d].ppt[1].cap = v
      [] f = "cap2" -> smiDev[d].ppt[2].cap = v
      [] OTHER -> smiDev[d][f] = v

(* What a tool says a GPU was set to is what its file holds until the next *)
(* write of that file, by any caller: after a refusal of the driver, a     *)
(* failed write, a skipped device or an unanswered prompt the tool says    *)
(* nothing, whatever it exits with.                                        *)
SaidIsHeld == \A s \in smiSaid : Holds(s[1], s[2], s[3])
=============================================================================
