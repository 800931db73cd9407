------------------------- MODULE GPUGovernorProofs -------------------------
(***************************************************************************)
(* What the governor control of the GPUs guarantees for every number of    *)
(* GPUs, every table, every set of presets and results, and whatever       *)
(* operators, resets, empty discoveries and restarts under a status that   *)
(* names the locks do: the record of locks is what the agent set and has   *)
(* not put back, and an operator's lock is not reset.                      *)
(***************************************************************************)
EXTENDS GPUGovernor, Totals

(***************************************************************************)
(* Commands and what they leave.                                           *)
(***************************************************************************)

LockNames == (PresetNames \ {"auto"}) \cup {"none"}
Domains == {"gpu", "mem"}

(* A command that bears on an attribute.                                   *)
Bears(cmd, g, a) == cmd.g = g /\ (cmd.a = a \/ (a = "sclk" /\ cmd.v = "auto"))
Left(cmd, a) == IF cmd.a = a THEN cmd.v ELSE "none"

(* What an attribute holds after commands is what it held, or what one of  *)
(* the commands that bear on it leaves.                                    *)
LEMMA AfterIs ==
    ASSUME NEW n \in Nat, NEW cmds, DOMAIN cmds = 1..n, NEW g, NEW a
    PROVE  \/ /\ LastOn(cmds, g, a) = 0
              /\ \A j \in 1..n : ~Bears(cmds[j], g, a)
              /\ \A old : After(cmds, g, a, old) = old
           \/ /\ LastOn(cmds, g, a) # 0
              /\ \E j \in 1..n : /\ Bears(cmds[j], g, a)
                                 /\ \A old : After(cmds, g, a, old) = Left(cmds[j], a)
  <1> DEFINE M == {j \in DOMAIN cmds : cmds[j].g = g
                                       /\ (cmds[j].a = a \/ (a = "sclk" /\ cmds[j].v = "auto"))}
             S == {0} \cup M
             last == LastOn(cmds, g, a)
  <1>1. M \subseteq 1..n /\ \A j \in 1..n : j \in M <=> Bears(cmds[j], g, a)
    BY DEF Bears
  <1>2. last = Max(S)
    BY DEF LastOn
  <1> HIDE DEF M
  <1>3. S \in SUBSET Int /\ IsFiniteSet(S) /\ S # {}
    <2>1. S \subseteq 0..n
      BY <1>1
    <2>2. IsFiniteSet(0..n)
      BY FS_Interval
    <2> QED
      BY <2>1, <2>2, FS_Subset
  <1>4. Max(S) \in S /\ (\A y \in S : Max(S) >= y)
    <2> HIDE DEF S
    <2> QED
      BY <1>3, MaxIs
  <1> HIDE DEF S
  <1>5. CASE last = 0
    <2>0. \A y \in S : 0 >= y
      BY <1>2, <1>4, <1>5
    <2>1. \A j \in 1..n : j \notin M
      BY <2>0 DEF S
    <2> QED
      BY <1>1, <1>5, <2>1 DEF After
  <1>6. CASE last # 0
    <2>1. last \in M
      BY <1>2, <1>4, <1>6 DEF S
    <2>2. last \in 1..n /\ Bears(cmds[last], g, a)
      BY <1>1, <2>1
    <2>3. \A old : After(cmds, g, a, old) = Left(cmds[last], a)
      BY <1>6 DEF After, Left
    <2> HIDE DEF last
    <2>4. last # 0 /\ \E j \in 1..n : Bears(cmds[j], g, a) /\ \A old : After(cmds, g, a, old) = Left(cmds[j], a)
      BY <1>6, <2>2, <2>3
    <2> QED
      BY <2>4 DEF last
  <1> QED
    BY <1>5, <1>6

-----------------------------------------------------------------------------
(***************************************************************************)
(* NVIDIA: plans, how they end, and what they leave in the record.         *)
(***************************************************************************)

On(g, preset) == chooseNvidia(g, preset).on
Lockable(g, a) == a = "mem" => Table[vendor][g] = "memory"
Owed(rec, g, a, preset) == On(g, preset)[a] # "none" \/ (rec[g][a] # "none" /\ Lockable(g, a))

(* The locks of a preset are names, of the domains a GPU has.              *)
LEMMA OnIs ==
    ASSUME NEW g, NEW preset \in PresetNames, NEW a \in Domains
    PROVE  /\ On(g, preset)[a] \in LockNames
           /\ On(g, preset)[a] # "none" => Lockable(g, a)
           /\ preset = "auto" => On(g, preset)[a] = "none"
           /\ On(g, preset) = [gpu |-> On(g, preset)["gpu"], mem |-> On(g, preset)["mem"]]
  BY DEF On, chooseNvidia, LockNames, PresetNames, Domains, Lockable

(* PlanOf for NVIDIA: a command in its place for each domain that is owed  *)
(* one, GPU by GPU.                                                        *)
PlannedNv(plan, rec, preset) ==
    /\ DOMAIN plan = 1..(2 * NGpu)
    /\ \A j \in 1..(2 * NGpu) :
          \/ plan[j] = NoCmd
          \/ \E g \in GPUs, a \in Domains : Owed(rec, g, a, preset) /\ plan[j] = Cmd(g, a, On(g, preset)[a])
    /\ \A g \in GPUs, a \in Domains :
          Owed(rec, g, a, preset) => \E j \in 1..(2 * NGpu) : plan[j] = Cmd(g, a, On(g, preset)[a])
    /\ \A i, j \in 1..(2 * NGpu) : i < j /\ plan[i] # NoCmd /\ plan[j] # NoCmd => plan[i].g <= plan[j].g

(* PlanNvidia has a command where one is owed.                             *)
LEMMA PlanNvidiaIs ==
    ASSUME NEW rec, NEW g, NEW preset
    PROVE  PlanNvidia(rec, g, preset) =
              <<Due(Owed(rec, g, "gpu", preset), Cmd(g, "gpu", On(g, preset)["gpu"])),
                Due(Owed(rec, g, "mem", preset), Cmd(g, "mem", On(g, preset)["mem"]))>>
  BY DEF PlanNvidia, Owed, On, Lockable

(* The plan of an NVIDIA node is as PlannedNv says.                        *)
LEMMA PlanNvIs ==
    ASSUME Nvidia, NEW rec, NEW preset
    PROVE  PlannedNv(PlanOf(rec, preset), rec, preset)
  <1> DEFINE plan == PlanOf(rec, preset)
             n == 2 * NGpu
             cmd(g, a) == Due(Owed(rec, g, a, preset), Cmd(g, a, On(g, preset)[a]))
             at(j) == (j + 1) \div 2
  <1>0. NGpu \in Nat
    BY GPUAssumption
  <1>1. \A j \in 1..n : at(j) \in GPUs
    BY <1>0 DEF GPUs
  <1>2. /\ DOMAIN plan = 1..n
        /\ \A j \in 1..n : plan[j] = IF j % 2 = 1 THEN cmd(at(j), "gpu") ELSE cmd(at(j), "mem")
    <2>1. plan = [j \in 1..n |-> [g \in GPUs |-> PlanNvidia(rec, g, preset)][(j + 1) \div 2][IF j % 2 = 1 THEN 1 ELSE 2]]
      BY DEF PlanOf, InTurn
    <2>2. \A g \in GPUs : PlanNvidia(rec, g, preset) = <<cmd(g, "gpu"), cmd(g, "mem")>>
      BY PlanNvidiaIs
    <2> HIDE DEF cmd
    <2>3. \A j \in 1..n : plan[j] = PlanNvidia(rec, at(j), preset)[IF j % 2 = 1 THEN 1 ELSE 2]
      BY <1>1, <2>1
    <2> QED
      BY <1>1, <2>1, <2>2, <2>3
  <1> HIDE DEF plan
  <1>3. \A g, a : cmd(g, a) = NoCmd \/ (Owed(rec, g, a, preset) /\ cmd(g, a) = Cmd(g, a, On(g, preset)[a]))
    BY DEF Due
  <1>4. \A g, a : cmd(g, a) = NoCmd \/ cmd(g, a).g = g
    BY DEF Due, Cmd
  <1>5. \A g \in GPUs : \A a \in Domains : Owed(rec, g, a, preset) => \E j \in 1..n : plan[j] = Cmd(g, a, On(g, preset)[a])
    <2>1. TAKE g \in GPUs
    <2>2. TAKE a \in Domains
    <2>3. HAVE Owed(rec, g, a, preset)
    <2>4. cmd(g, a) = Cmd(g, a, On(g, preset)[a])
      BY <2>3 DEF Due
    <2> HIDE DEF cmd
    <2>5. CASE a = "gpu"
      <3>1. 2 * g - 1 \in 1..n /\ at(2 * g - 1) = g /\ (2 * g - 1) % 2 = 1
        BY <1>0 DEF GPUs
      <3> QED
        BY <1>2, <2>4, <2>5, <3>1
    <2>6. CASE a = "mem"
      <3>1. 2 * g \in 1..n /\ at(2 * g) = g /\ (2 * g) % 2 # 1
        BY <1>0 DEF GPUs
      <3> QED
        BY <1>2, <2>4, <2>6, <3>1
    <2> QED
      BY <2>5, <2>6 DEF Domains
  <1>6. \A i, j \in 1..n : i < j => at(i) <= at(j)
    BY <1>0
  <1> HIDE DEF cmd
  <1>7. \A i, j \in 1..n : i < j /\ plan[i] # NoCmd /\ plan[j] # NoCmd => plan[i].g <= plan[j].g
    BY <1>2, <1>4, <1>6
  <1>8. \A j \in 1..n : \/ plan[j] = NoCmd
                       \/ \E g \in GPUs, a \in Domains : Owed(rec, g, a, preset) /\ plan[j] = Cmd(g, a, On(g, preset)[a])
    BY <1>1, <1>2, <1>3 DEF Domains
  <1> QED
    BY <1>2, <1>5, <1>7, <1>8 DEF PlannedNv, plan

(* The result of a plan that went through.                                 *)
Fine == ""

(* It is none of the results that something failed with.                   *)
LEMMA FineIs ==
    /\ Fine \notin Failing
    /\ Fine \notin {"refused", "restored", "applied", "unverified", "drift", "disabled", "error", "unsupported", "not-applied"}
    /\ "drift" \notin Failing /\ "restored" \notin Failing
  <1>1. Failing \subseteq {"refused", "unsupported", "error", "not-applied"}
    BY GPUAssumption
  <1>2. Fine \notin {"refused", "restored", "applied", "unverified", "drift", "disabled", "error", "unsupported", "not-applied"}
    BY Zenon DEF Fine
  <1> QED
    BY <1>1, <1>2

(* Ran, with the result of a plan that went through by its name.           *)
LEMMA RanIs ==
    ASSUME NEW plan, NEW e
    PROVE  /\ e.result = Fine => Ran(plan, e) = plan
           /\ DOMAIN Ran(plan, e) = DOMAIN plan
           /\ e.result # Fine => \A j \in DOMAIN plan :
                Ran(plan, e)[j] = Due(j \in e.done, IF j \in undoNvidiaLocks(plan, e)
                                                    THEN Cmd(plan[j].g, plan[j].a, "none") ELSE plan[j])
  <1> DEFINE part == [j \in DOMAIN plan |->
                        Due(j \in e.done, IF j \in undoNvidiaLocks(plan, e)
                                          THEN Cmd(plan[j].g, plan[j].a, "none") ELSE plan[j])]
  <1>1. Ran(plan, e) = IF e.result = Fine THEN plan ELSE part
    BY Zenon DEF Ran, Fine
  <1> QED
    BY <1>1

(* How a plan of clock locks ends: whole, or at a command that failed.     *)
EndNv(plan, e) ==
    \/ e.result = Fine /\ e.done = DOMAIN plan
    \/ \E j \in DOMAIN plan : /\ plan[j] # NoCmd /\ e.done = 1..(j - 1)
                              /\ e.result \in Failing /\ e.result # Fine

(* A plan of clock locks has no edit and no level: it ends in one of the   *)
(* two ways.                                                               *)
LEMMA EndsNv ==
    ASSUME NEW plan, \A j \in DOMAIN plan : plan[j].a \notin {"edit", "level", "sclk"}, NEW e \in Ends(plan)
    PROVE  EndNv(plan, e)
  <1> DEFINE bad == {j \in DOMAIN plan : EditRefused(plan, j)}
  <1>1. bad = {}
    BY DEF EditRefused
  <1>2. NotTaken(plan) = {}
    BY DEF NotTaken
  <1>3. e = End(DOMAIN plan, Fine, {}) \/ e \in Stops(plan) \/ e \in NotTaken(plan)
    <2>1. Ends(plan) = IF bad # {} THEN {End(1..(Min(bad) - 1), "unsupported", {})}
                       ELSE {End(DOMAIN plan, Fine, {})}
                             \cup IF calm THEN {}
                                  ELSE Stops(plan) \cup IF "not-applied" \in Failing THEN NotTaken(plan) ELSE {}
      BY Zenon DEF Ends, Fine
    <2> HIDE DEF bad
    <2> QED
      BY <1>1, <2>1
  <1>4. CASE e = End(DOMAIN plan, Fine, {})
    BY <1>4 DEF End, EndNv
  <1>5. CASE e \in Stops(plan)
    <2>1. PICK j \in {i \in DOMAIN plan : plan[i] # NoCmd} : e \in {End(1..(j - 1), r, s) : r \in Failing \ {"not-applied"}, s \in SUBSET DoneLocks(plan, j - 1)}
      BY <1>5 DEF Stops
    <2>2. PICK r \in Failing \ {"not-applied"}, s \in SUBSET DoneLocks(plan, j - 1) : e = End(1..(j - 1), r, s)
      BY <2>1
    <2>3. e.done = 1..(j - 1) /\ e.result = r
      BY <2>2 DEF End
    <2> QED
      BY <2>2, <2>3, FineIs DEF EndNv
  <1> QED
    BY <1>2, <1>3, <1>4, <1>5

(* The parts of a command; one that sets a GPU is one.                     *)
LEMMA CmdIs ==
    /\ \A g, a, v : Cmd(g, a, v).g = g /\ Cmd(g, a, v).a = a /\ Cmd(g, a, v).v = v
    /\ NoCmd.g = 0 /\ NoCmd.a = "none" /\ NoCmd.v = "none"
    /\ \A g \in GPUs : \A a, v : Cmd(g, a, v) # NoCmd
  <1>1. \A g \in GPUs : g # 0
    BY GPUAssumption DEF GPUs
  <1> QED
    BY <1>1 DEF Cmd, NoCmd

(* What of a plan of clock locks took effect: a command of the plan, or    *)
(* the reset of a lock; and on the GPUs before b the whole plan.           *)
RanNv(cmds, rec, preset, b) ==
    /\ DOMAIN cmds = 1..(2 * NGpu)
    /\ \A i \in 1..(2 * NGpu) :
          \/ cmds[i] = NoCmd
          \/ \E g \in GPUs, a \in Domains :
                /\ Owed(rec, g, a, preset)
                /\ \/ cmds[i] = Cmd(g, a, On(g, preset)[a])
                   \/ On(g, preset)[a] # "none" /\ cmds[i] = Cmd(g, a, "none")
    /\ \A i \in 1..(2 * NGpu) :
          cmds[i] # NoCmd /\ cmds[i].g < b => cmds[i].v = On(cmds[i].g, preset)[cmds[i].a]
    /\ \A g \in GPUs, a \in Domains :
          g < b /\ Owed(rec, g, a, preset) => \E i \in 1..(2 * NGpu) : cmds[i] = Cmd(g, a, On(g, preset)[a])

(* The GPU a plan failed on, beyond the last for one that went through.    *)
FailedOn(plan, e) == IF e.result = Fine THEN NGpu + 1 ELSE plan[Cardinality(e.done) + 1].g

(* runNvidiaPlans: every GPU before the one that failed has its plan.      *)
LEMMA RanNvIs ==
    ASSUME NEW plan, NEW rec, NEW preset, PlannedNv(plan, rec, preset), NEW e, EndNv(plan, e)
    PROVE  /\ RanNv(Ran(plan, e), rec, preset, FailedOn(plan, e))
           /\ FailedOn(plan, e) \in 1..(NGpu + 1)
           /\ e.result # Fine => FailedOn(plan, e) \in GPUs
           /\ (\E i \in 1..(2 * NGpu) : Ran(plan, e)[i] # NoCmd) => \E i \in e.done : plan[i] # NoCmd
  <1> DEFINE n == 2 * NGpu
             cmds == Ran(plan, e)
             b == FailedOn(plan, e)
  <1>0. NGpu \in Nat /\ GPUs = 1..NGpu
    BY GPUAssumption DEF GPUs
  <1>1. DOMAIN plan = 1..n
    BY DEF PlannedNv
  <1>2. \A i \in 1..n : plan[i] = NoCmd \/ \E g \in GPUs, a \in Domains :
            Owed(rec, g, a, preset) /\ plan[i] = Cmd(g, a, On(g, preset)[a])
    BY DEF PlannedNv
  <1>3. \A i \in 1..n : plan[i] # NoCmd => /\ plan[i].g \in GPUs
                                           /\ plan[i].v = On(plan[i].g, preset)[plan[i].a]
    <2>1. TAKE i \in 1..n
    <2>2. HAVE plan[i] # NoCmd
    <2>3. PICK g \in GPUs, a \in Domains : plan[i] = Cmd(g, a, On(g, preset)[a])
      BY <1>2, <2>2
    <2> QED
      BY <2>3, CmdIs
  <1>4. CASE e.result = Fine /\ e.done = DOMAIN plan
    <2>1. cmds = plan /\ b = NGpu + 1
      BY <1>4, RanIs DEF FailedOn
    <2> HIDE DEF cmds, b
    <2>2. RanNv(plan, rec, preset, NGpu + 1)
      <3>1. \A g \in GPUs, a \in Domains : Owed(rec, g, a, preset) => \E i \in 1..n : plan[i] = Cmd(g, a, On(g, preset)[a])
        BY DEF PlannedNv
      <3> QED
        BY <1>1, <1>2, <1>3, <3>1 DEF RanNv
    <2>3. b \in 1..(NGpu + 1)
      BY <1>0, <2>1
    <2>4. (\E i \in 1..n : plan[i] # NoCmd) => \E i \in e.done : plan[i] # NoCmd
      BY <1>1, <1>4
    <2>5. /\ RanNv(cmds, rec, preset, b) /\ b \in 1..(NGpu + 1) /\ e.result = Fine
          /\ (\E i \in 1..n : cmds[i] # NoCmd) => \E i \in e.done : plan[i] # NoCmd
      BY <1>4, <2>1, <2>2, <2>3, <2>4
    <2> QED
      BY <2>5 DEF cmds, b
  <1>5. ASSUME NEW j \in DOMAIN plan, plan[j] # NoCmd, e.done = 1..(j - 1), e.result # Fine
        PROVE  /\ RanNv(cmds, rec, preset, b) /\ b \in GPUs
               /\ (\E i \in 1..n : cmds[i] # NoCmd) => \E i \in e.done : plan[i] # NoCmd
    <2>1. j \in 1..n /\ n \in Nat
      BY <1>0, <1>1, <1>5
    <2>2. Cardinality(e.done) = j - 1
      <3>1. 1 \in Int /\ j - 1 \in Int
        BY <2>1
      <3>2. Cardinality(1..(j - 1)) = IF 1 > j - 1 THEN 0 ELSE (j - 1) - 1 + 1
        BY <3>1, FS_Interval
      <3> QED
        BY <1>5, <2>1, <3>2
    <2>3. b = plan[j].g /\ b \in GPUs
      <3>1. Cardinality(e.done) + 1 = j
        BY <2>1, <2>2
      <3> QED
        BY <1>3, <1>5, <2>1, <3>1 DEF FailedOn
    <2>4. \A i : i \in undoNvidiaLocks(plan, e) => plan[i].g = b /\ plan[i].v # "none"
      <3>1. (j - 1) + 1 = j
        BY <2>1
      <3> QED
        BY <2>2, <2>3, <3>1 DEF undoNvidiaLocks, DoneLocks
    <2>5. /\ DOMAIN cmds = 1..n
          /\ \A i \in 1..n : cmds[i] =
                Due(i \in e.done, IF i \in undoNvidiaLocks(plan, e) THEN Cmd(plan[i].g, plan[i].a, "none") ELSE plan[i])
      BY <1>1, <1>5, RanIs
    <2> HIDE DEF cmds, b
    <2>6. \A i \in 1..n : \/ cmds[i] = NoCmd
                          \/ i \in e.done /\ cmds[i] = plan[i]
                          \/ /\ i \in e.done /\ cmds[i] = Cmd(plan[i].g, plan[i].a, "none")
                             /\ plan[i].g = b /\ plan[i].v # "none"
      BY <2>4, <2>5 DEF Due
    <2>7. \A i \in 1..n : i \in e.done /\ plan[i].g # b => cmds[i] = plan[i]
      BY <2>4, <2>5 DEF Due
    <2>8. \A i \in 1..n : cmds[i] # NoCmd => plan[i] # NoCmd /\ i \in e.done
      <3>1. ASSUME NEW i \in 1..n, cmds[i] # NoCmd PROVE plan[i] # NoCmd /\ i \in e.done
        <4>1. NoCmd.g \notin GPUs
          BY <1>0, CmdIs
        <4> QED
          BY <2>3, <2>6, <3>1, <4>1
      <3> QED
        BY <1>1, <3>1
    <2>9. \A i \in 1..n :
             \/ cmds[i] = NoCmd
             \/ \E g \in GPUs, a \in Domains :
                   /\ Owed(rec, g, a, preset)
                   /\ \/ cmds[i] = Cmd(g, a, On(g, preset)[a])
                      \/ On(g, preset)[a] # "none" /\ cmds[i] = Cmd(g, a, "none")
      <3>1. SUFFICES ASSUME NEW i \in 1..n, cmds[i] # NoCmd
                     PROVE  \E g \in GPUs, a \in Domains :
                               /\ Owed(rec, g, a, preset)
                               /\ \/ cmds[i] = Cmd(g, a, On(g, preset)[a])
                                  \/ On(g, preset)[a] # "none" /\ cmds[i] = Cmd(g, a, "none")
        OBVIOUS
      <3>2. PICK g \in GPUs, a \in Domains : Owed(rec, g, a, preset) /\ plan[i] = Cmd(g, a, On(g, preset)[a])
        BY <1>2, <2>8, <3>1
      <3>3. plan[i].g = g /\ plan[i].a = a /\ plan[i].v = On(g, preset)[a]
        BY <3>2, CmdIs
      <3> QED
        BY <2>6, <3>1, <3>2, <3>3
    <2>10. \A i \in 1..n : cmds[i] # NoCmd /\ cmds[i].g < b => cmds[i].v = On(cmds[i].g, preset)[cmds[i].a]
      <3>1. TAKE i \in 1..n
      <3>2. HAVE cmds[i] # NoCmd /\ cmds[i].g < b
      <3>3. b < b => FALSE
        BY <1>0, <2>3
      <3>4. cmds[i] = plan[i]
        BY <2>6, <3>2, <3>3, CmdIs
      <3> QED
        BY <1>3, <3>2, <3>4
    <2>11. \A g \in GPUs, a \in Domains :
              g < b /\ Owed(rec, g, a, preset) => \E i \in 1..n : cmds[i] = Cmd(g, a, On(g, preset)[a])
      <3>1. SUFFICES ASSUME NEW g \in GPUs, NEW a \in Domains, g < b, Owed(rec, g, a, preset)
                     PROVE  \E i \in 1..n : cmds[i] = Cmd(g, a, On(g, preset)[a])
        OBVIOUS
      <3>2. PICK i \in 1..n : plan[i] = Cmd(g, a, On(g, preset)[a])
        BY <3>1 DEF PlannedNv
      <3>3. plan[i].g = g /\ plan[i] # NoCmd
        BY <3>2, CmdIs
      <3>4. ~(j < i) /\ i # j
        <4>1. j < i => plan[j].g <= plan[i].g
          BY <1>5, <2>1, <3>3 DEF PlannedNv
        <4> QED
          BY <1>0, <2>3, <3>1, <3>3, <4>1
      <3>5. i \in e.done /\ plan[i].g # b
        BY <1>0, <1>5, <2>1, <2>3, <3>1, <3>3, <3>4
      <3> QED
        BY <2>7, <3>2, <3>5
    <2>12. RanNv(cmds, rec, preset, b)
      BY <2>5, <2>9, <2>10, <2>11 DEF RanNv
    <2> QED
      BY <2>3, <2>8, <2>12
  <1> QED
    BY <1>0, <1>4, <1>5 DEF EndNv

(* A record of locks: of the domains each GPU has.                         *)
RecOK(rec) ==
    /\ rec \in [GPUs -> [Domains -> LockNames]]
    /\ \A g \in GPUs, a \in Domains : rec[g][a] # "none" => Lockable(g, a)

(* What the commands of a plan of locks leave on one domain of one GPU.    *)
LeftNv(cmds, rec, preset, g, a) ==
    \/ /\ LastOn(cmds, g, a) = 0
       /\ \A old : After(cmds, g, a, old) = old
    \/ /\ LastOn(cmds, g, a) # 0
       /\ \E i \in DOMAIN cmds : cmds[i] # NoCmd
       /\ \E v \in LockNames : /\ \A old : After(cmds, g, a, old) = v
                               /\ v # "none" => Lockable(g, a)
                               /\ v = "none" => rec[g][a] # "none" \/ On(g, preset)[a] # "none"

(* A domain keeps what it held or gets the lock of the preset or none, and *)
(* loses one only where the record has one or the preset set one; before   *)
(* the GPU that failed it has what the preset says.                        *)
LEMMA LeftNvIs ==
    ASSUME NEW rec, RecOK(rec), NEW preset \in PresetNames, NEW b, NEW cmds, RanNv(cmds, rec, preset, b),
           NEW g \in GPUs, NEW a \in Domains
    PROVE  /\ LeftNv(cmds, rec, preset, g, a)
           /\ g < b => After(cmds, g, a, rec[g][a]) = On(g, preset)[a]
  <1> DEFINE n == 2 * NGpu
  <1>0. n \in Nat /\ DOMAIN cmds = 1..n
    BY GPUAssumption DEF RanNv
  <1>1. /\ On(g, preset)[a] \in LockNames
        /\ On(g, preset)[a] # "none" => Lockable(g, a)
    BY OnIs
  <1>2. "none" \in LockNames /\ a # "sclk"
    BY DEF LockNames, Domains
  <1>3. \A i \in 1..n : Bears(cmds[i], g, a) =>
           /\ cmds[i] # NoCmd /\ Owed(rec, g, a, preset) /\ cmds[i].a = a /\ cmds[i].g = g
           /\ Left(cmds[i], a) = cmds[i].v
           /\ cmds[i].v = On(g, preset)[a] \/ (On(g, preset)[a] # "none" /\ cmds[i].v = "none")
           /\ g < b => cmds[i].v = On(g, preset)[a]
    <2>1. TAKE i \in 1..n
    <2>2. HAVE Bears(cmds[i], g, a)
    <2>3. cmds[i].g = g /\ cmds[i].a = a
      BY <1>2, <2>2 DEF Bears
    <2>4. g # 0
      BY GPUAssumption DEF GPUs
    <2>5. cmds[i] # NoCmd
      BY <2>3, <2>4, CmdIs
    <2>6. PICK h \in GPUs, d \in Domains :
                /\ Owed(rec, h, d, preset)
                /\ \/ cmds[i] = Cmd(h, d, On(h, preset)[d])
                   \/ On(h, preset)[d] # "none" /\ cmds[i] = Cmd(h, d, "none")
      BY <2>5 DEF RanNv
    <2>7. h = g /\ d = a
      BY <2>3, <2>6, CmdIs
    <2>8. cmds[i].v = On(g, preset)[a] \/ (On(g, preset)[a] # "none" /\ cmds[i].v = "none")
      BY <2>6, <2>7, CmdIs
    <2>9. g < b => cmds[i].v = On(g, preset)[a]
      BY <2>3, <2>5 DEF RanNv
    <2> QED
      BY <2>3, <2>5, <2>6, <2>7, <2>8, <2>9 DEF Left
  <1>4. g < b /\ Owed(rec, g, a, preset) => \E i \in 1..n : Bears(cmds[i], g, a)
    <2>1. HAVE g < b /\ Owed(rec, g, a, preset)
    <2>2. PICK i \in 1..n : cmds[i] = Cmd(g, a, On(g, preset)[a])
      BY <2>1 DEF RanNv
    <2> QED
      BY <2>2, CmdIs DEF Bears
  <1>5. Owed(rec, g, a, preset) => rec[g][a] # "none" \/ On(g, preset)[a] # "none"
    BY DEF Owed
  <1>6. ~Owed(rec, g, a, preset) => rec[g][a] = On(g, preset)[a]
    BY DEF Owed, RecOK
  <1>7. CASE /\ LastOn(cmds, g, a) = 0
             /\ \A j \in 1..n : ~Bears(cmds[j], g, a)
             /\ \A old : After(cmds, g, a, old) = old
    BY <1>4, <1>6, <1>7 DEF LeftNv
  <1>8. ASSUME LastOn(cmds, g, a) # 0, NEW j \in 1..n, Bears(cmds[j], g, a),
               \A old : After(cmds, g, a, old) = Left(cmds[j], a)
        PROVE  /\ LeftNv(cmds, rec, preset, g, a)
               /\ g < b => After(cmds, g, a, rec[g][a]) = On(g, preset)[a]
    <2> DEFINE v == cmds[j].v
    <2>1. \A old : After(cmds, g, a, old) = v
      BY <1>3, <1>8
    <2>2. v \in LockNames /\ (v # "none" => Lockable(g, a))
      BY <1>1, <1>2, <1>3, <1>8
    <2>3. v = "none" => rec[g][a] # "none" \/ On(g, preset)[a] # "none"
      BY <1>3, <1>5, <1>8
    <2>4. g < b => After(cmds, g, a, rec[g][a]) = On(g, preset)[a]
      BY <1>3, <1>8, <2>1
    <2>5. \E i \in DOMAIN cmds : cmds[i] # NoCmd
      BY <1>0, <1>3, <1>8
    <2> HIDE DEF v
    <2> QED
      BY <1>8, <2>1, <2>2, <2>3, <2>4, <2>5 DEF LeftNv
  <1>9. \/ /\ LastOn(cmds, g, a) = 0
           /\ \A j \in 1..n : ~Bears(cmds[j], g, a)
           /\ \A old : After(cmds, g, a, old) = old
        \/ /\ LastOn(cmds, g, a) # 0
           /\ \E j \in 1..n : Bears(cmds[j], g, a) /\ \A old : After(cmds, g, a, old) = Left(cmds[j], a)
    <2> HIDE DEF n
    <2> QED
      BY <1>0, AfterIs
  <1> QED
    BY <1>7, <1>8, <1>9

(* Locks have nothing to do with levels and overdrive ranges.              *)
LEMMA LocksOnly ==
    ASSUME NEW rec, NEW preset \in PresetNames, NEW b, NEW cmds, RanNv(cmds, rec, preset, b),
           NEW g \in GPUs, NEW a \in {"level", "sclk"}
    PROVE  LastOn(cmds, g, a) = 0
  <1> DEFINE n == 2 * NGpu
  <1>0. n \in Nat /\ DOMAIN cmds = 1..n
    BY GPUAssumption DEF RanNv
  <1>1. \A i \in 1..n : ~Bears(cmds[i], g, a)
    <2>1. TAKE i \in 1..n
    <2>2. CASE cmds[i] = NoCmd
      <3>1. cmds[i].g # g
        BY <2>2, CmdIs, GPUAssumption DEF GPUs
      <3> QED
        BY <3>1 DEF Bears
    <2>3. CASE cmds[i] # NoCmd
      <3>1. PICK h \in GPUs, d \in Domains :
                \/ cmds[i] = Cmd(h, d, On(h, preset)[d])
                \/ cmds[i] = Cmd(h, d, "none")
        BY <2>3 DEF RanNv
      <3>2. On(h, preset)[d] \in LockNames
        BY OnIs
      <3>3. cmds[i].a = d /\ cmds[i].v \in LockNames
        BY <3>1, <3>2, CmdIs DEF LockNames
      <3> QED
        BY <3>3 DEF Bears, Domains, LockNames, PresetNames
    <2> QED
      BY <2>2, <2>3
  <1> HIDE DEF n
  <1> QED
    BY <1>0, <1>1, AfterIs

(* The domains a record has a lock for.                                    *)
Locked(rec) == {ga \in GPUs \X Domains : rec[ga[1]][ga[2]] # "none"}

(* No lock of an operator goes, but where the agent had one or the preset  *)
(* sets one.                                                               *)
Spares(d, preset) ==
    \A g \in GPUs, a \in Domains :
        dev[g][a] = "operator" /\ d[g][a] = "none" => <<g, a>> \in claims \/ On(g, preset)[a] # "none"

(* A record as the function it is.                                         *)
LEMMA OnFunction ==
    ASSUME NEW g \in GPUs, NEW preset \in PresetNames
    PROVE  On(g, preset) = [a \in Domains |-> On(g, preset)[a]]
  BY DEF On, chooseNvidia, Domains

(* No lock, as a function of the domain.                                   *)
LEMMA NoClocksIs == NoClocks = [a \in Domains |-> "none"]
  BY DEF NoClocks, Domains

(* recordNvidia: after the commands of a plan, whole or in part, the       *)
(* record is again what the agent set and has not reset.                   *)
LEMMA RecordNv ==
    ASSUME Nvidia, NEW rec, RecOK(rec), claims = Locked(rec), NEW preset \in PresetNames,
           NEW fb, NEW cmds, RanNv(cmds, rec, preset, fb), NEW b
    PROVE  /\ RecOK(recordNvidia(rec, cmds))
           /\ ClaimsAfter(cmds, b) = Locked(recordNvidia(rec, cmds))
           /\ \A g \in GPUs : g < fb => recordNvidia(rec, cmds)[g] = On(g, preset)
           /\ recordNvidia(rec, cmds) # rec => \E i \in DOMAIN cmds : cmds[i] # NoCmd
           /\ Spares(DevAfter(cmds), preset)
  <1> DEFINE new == recordNvidia(rec, cmds)
  <1>1. \A g \in GPUs : \A a \in Domains :
           /\ LeftNv(cmds, rec, preset, g, a)
           /\ g < fb => After(cmds, g, a, rec[g][a]) = On(g, preset)[a]
    BY LeftNvIs
  <1>2. \A g \in GPUs : \A a \in {"level", "sclk"} : LastOn(cmds, g, a) = 0
    BY LocksOnly
  <1>3. new = [g \in GPUs |-> [a \in Domains |-> After(cmds, g, a, rec[g][a])]]
    BY DEF recordNvidia, Domains
  <1>4. \A g \in GPUs : \A a \in Domains : new[g][a] = After(cmds, g, a, rec[g][a])
    BY <1>3
  <1>5. \A g \in GPUs : \A a \in Domains : rec[g][a] \in LockNames /\ (rec[g][a] # "none" => Lockable(g, a))
    BY DEF RecOK
  <1>6. \A g \in GPUs : \A a \in Domains : /\ After(cmds, g, a, rec[g][a]) \in LockNames
                                           /\ After(cmds, g, a, rec[g][a]) # "none" => Lockable(g, a)
    BY <1>1, <1>5 DEF LeftNv
  <1>7. RecOK(new)
    <2>1. \A g \in GPUs : [a \in Domains |-> After(cmds, g, a, rec[g][a])] \in [Domains -> LockNames]
      BY <1>6
    <2>2. new \in [GPUs -> [Domains -> LockNames]]
      BY <1>3, <2>1
    <2>3. \A g \in GPUs, a \in Domains : new[g][a] # "none" => Lockable(g, a)
      BY <1>4, <1>6
    <2> HIDE DEF new
    <2> QED
      BY <2>2, <2>3 DEF RecOK
  <1>8. ClaimsAfter(cmds, b) = Locked(new)
    <2> HIDE DEF new
    <2>1. \A g \in GPUs : \A a \in Domains : <<g, a>> \in ClaimsAfter(cmds, b) <=> <<g, a>> \in Locked(new)
      <3>1. TAKE g \in GPUs
      <3>2. TAKE a \in Domains
      <3>3. <<g, a>> \in Locked(new) <=> After(cmds, g, a, rec[g][a]) # "none"
        BY <1>4 DEF Locked
      <3>4. <<g, a>> \in claims <=> rec[g][a] # "none"
        BY DEF Locked
      <3>5. <<g, a>> \in ClaimsAfter(cmds, b) <=>
               IF LastOn(cmds, g, a) = 0 THEN <<g, a>> \in claims
               ELSE After(cmds, g, a, "none") \notin {"none", "auto"}
        BY DEF ClaimsAfter, Attrs, Domains
      <3>6. CASE LastOn(cmds, g, a) = 0
        BY <1>1, <3>3, <3>4, <3>5, <3>6 DEF LeftNv
      <3>7. CASE LastOn(cmds, g, a) # 0
        <4>1. PICK v \in LockNames : \A old : After(cmds, g, a, old) = v
          BY <1>1, <3>7 DEF LeftNv
        <4>2. v # "auto"
          BY DEF LockNames
        <4> QED
          BY <3>3, <3>5, <3>7, <4>1, <4>2
      <3> QED
        BY <3>6, <3>7
    <2>2. \A g \in GPUs : \A a \in {"level", "sclk"} : <<g, a>> \notin ClaimsAfter(cmds, b)
      BY <1>2 DEF ClaimsAfter, Locked, Domains
    <2>3. ClaimsAfter(cmds, b) \subseteq GPUs \X Attrs /\ Locked(new) \subseteq GPUs \X Domains
      BY DEF ClaimsAfter, Locked
    <2>4. \A ga \in GPUs \X Attrs : ga[1] \in GPUs /\ (ga[2] \in Domains \/ ga[2] \in {"level", "sclk"}) /\ ga = <<ga[1], ga[2]>>
      BY DEF Attrs, Domains
    <2>5. GPUs \X Domains \subseteq GPUs \X Attrs
      BY DEF Attrs, Domains
    <2>6. \A ga \in GPUs \X Attrs : ga \in ClaimsAfter(cmds, b) <=> ga \in Locked(new)
      <3>1. TAKE ga \in GPUs \X Attrs
      <3>2. PICK g \in GPUs, a \in Attrs : ga = <<g, a>>
        OBVIOUS
      <3>3. CASE a \in Domains
        BY <2>1, <3>2, <3>3
      <3>4. CASE a \in {"level", "sclk"}
        <4>1. <<g, a>> \notin Locked(new)
          BY <3>4 DEF Locked, Domains
        <4> QED
          BY <2>2, <3>2, <3>4, <4>1
      <3> QED
        BY <3>3, <3>4 DEF Attrs, Domains
    <2> QED
      BY <2>3, <2>5, <2>6
  <1>9. \A g \in GPUs : g < fb => new[g] = On(g, preset)
    <2>1. TAKE g \in GPUs
    <2>2. HAVE g < fb
    <2>3. new[g] = [a \in Domains |-> After(cmds, g, a, rec[g][a])]
      BY <1>3
    <2>4. On(g, preset) = [a \in Domains |-> On(g, preset)[a]]
      BY OnFunction
    <2>5. \A a \in Domains : After(cmds, g, a, rec[g][a]) = On(g, preset)[a]
      BY <1>1, <2>2
    <2> HIDE DEF new
    <2> QED
      BY <2>3, <2>4, <2>5
  <1>10. new # rec => \E i \in DOMAIN cmds : cmds[i] # NoCmd
    <2>1. ASSUME \A i \in DOMAIN cmds : cmds[i] = NoCmd PROVE new = rec
      <3>1. \A g \in GPUs : \A a \in Domains : After(cmds, g, a, rec[g][a]) = rec[g][a]
        BY <1>1, <2>1 DEF LeftNv
      <3>2. \A g \in GPUs : new[g] = [a \in Domains |-> After(cmds, g, a, rec[g][a])]
        BY <1>3
      <3>3. \A g \in GPUs : rec[g] = [a \in Domains |-> rec[g][a]]
        BY DEF RecOK
      <3> HIDE DEF new
      <3>4. \A g \in GPUs : new[g] = rec[g]
        BY <3>1, <3>2, <3>3
      <3>5. rec = [g \in GPUs |-> rec[g]] /\ new = [g \in GPUs |-> new[g]]
        BY <1>7 DEF RecOK
      <3> QED
        BY <3>4, <3>5
    <2> QED
      BY <2>1
  <1>11. Spares(DevAfter(cmds), preset)
    <2>1. \A g \in GPUs, a \in Domains : DevAfter(cmds)[g][a] = After(cmds, g, a, dev[g][a])
      BY DEF DevAfter, Attrs, Domains
    <2>2. \A g \in GPUs, a \in Domains : <<g, a>> \in claims <=> rec[g][a] # "none"
      BY DEF Locked
    <2> QED
      BY <1>1, <2>1, <2>2 DEF LeftNv, Spares
  <1> QED
    BY <1>7, <1>8, <1>9, <1>10, <1>11

-----------------------------------------------------------------------------
(***************************************************************************)
(* The component and its statuses.                                         *)
(***************************************************************************)

Fields == {"intent", "expect", "changed", "verified", "drifted", "drifts", "contended", "refused",
           "retry", "sinceApply", "status", "good", "statusWritten"}

IsComponent(k) == k = [f \in Fields |-> k[f]]
IsStatus(st) == st = [backend |-> st.backend, result |-> st.result, applied |-> st.applied]

(* A status that names clocks is of this node's vendor.                    *)
Named(st) == IsStatus(st) /\ (st.applied.on # NoClocks => st.backend = vendor)

CompOK(k) == IsComponent(k) /\ Named(k.status) /\ Named(k.good)

(* startIntent keeps what was published and whether the agent wrote.       *)
LEMMA StartIntentIs ==
    ASSUME NEW k, CompOK(k), NEW i
    PROVE  LET n == startIntent(k, i)
           IN  /\ CompOK(n) /\ n.expect = {} /\ ~n.contended /\ ~n.drifted
               /\ n.changed = k.changed /\ n.status = k.status
  BY DEF CompOK, IsComponent, Fields, startIntent

(* applyNow records that the agent wrote, and the status of the write.     *)
LEMMA ApplyNowIs ==
    ASSUME NEW k, IsComponent(k), NEW st, Named(st), NEW wrote
    PROVE  LET n == applyNow(k, st, wrote)
           IN  /\ CompOK(n) /\ n.expect = k.expect /\ n.contended = k.contended /\ ~n.drifted
               /\ n.changed = (k.changed \/ wrote) /\ n.status = st
  <1> HIDE DEF Named
  <1> QED
    BY DEF CompOK, IsComponent, Fields, applyNow

(* A preset a GPU cannot express is reported, and nothing was written.     *)
LEMMA ApplyNowNot ==
    ASSUME NEW k, IsComponent(k), NEW st, Named(st)
    PROVE  LET n == applyNow(k, st, FALSE)
           IN  /\ CompOK(n) /\ n.expect = k.expect /\ n.contended = k.contended /\ ~n.drifted
               /\ k.changed => n.changed
               /\ n.status = st
  <1> HIDE DEF Named
  <1> QED
    BY DEF CompOK, IsComponent, Fields, applyNow

(* An apply that went through has something to expect.                     *)
LEMMA ExpectIs ==
    ASSUME NEW k, IsComponent(k), NEW x
    PROVE  LET n == [k EXCEPT !.expect = x]
           IN  IsComponent(n) /\ n.expect = x /\ n.contended = k.contended /\ n.changed = k.changed
  BY DEF IsComponent, Fields

(* checkHolds takes a drift back, and nothing else.                        *)
LEMMA CheckHoldsIs ==
    ASSUME NEW k, CompOK(k)
    PROVE  LET n == checkHolds(k)
           IN  /\ CompOK(n) /\ n.expect = k.expect /\ n.contended = k.contended /\ ~n.drifted
               /\ n.changed = k.changed
               /\ k.status.result # "drift" => n.status = k.status
  BY DEF CompOK, IsComponent, Fields, checkHolds

(* checkDropped reports what the driver did not take.                      *)
LEMMA CheckDroppedIs ==
    ASSUME NEW k, CompOK(k)
    PROVE  CompOK(checkDropped(k)) /\ checkDropped(k).changed = k.changed
  <1> DEFINE st == [k.good EXCEPT !.result = "not-applied"]
  <1>1. Named(st)
    BY DEF CompOK, Named, IsStatus
  <1> HIDE DEF st
  <1>2. checkDropped(k) = [k EXCEPT !.status = st, !.retry = Retry]
    BY DEF checkDropped, st
  <1> QED
    BY <1>1, <1>2 DEF CompOK, IsComponent, Fields

(* checkDrift reports another writer.                                      *)
LEMMA CheckDriftIs ==
    ASSUME NEW k, CompOK(k)
    PROVE  CompOK(checkDrift(k)) /\ checkDrift(k).changed = k.changed
  <1> DEFINE drifts == Append(recentDrifts(k), 0)
             limit == Len(drifts) >= DriftLimit
             st == [k.good EXCEPT !.result = IF limit THEN "contended" ELSE "drift"]
  <1> HIDE DEF drifts, limit
  <1>1. Named(st)
    BY DEF CompOK, Named, IsStatus
  <1> HIDE DEF st
  <1>2. checkDrift(k) = [k EXCEPT !.drifted = TRUE, !.drifts = drifts, !.contended = limit, !.status = st]
    BY DEF checkDrift, st, limit, drifts
  <1> QED
    BY <1>1, <1>2 DEF CompOK, IsComponent, Fields

(* A component whose setting is not contended is released as it is.        *)
LEMMA ReleasedIs ==
    ASSUME NEW k, CompOK(k)
    PROVE  /\ CompOK(Released(k))
           /\ Released(k).status = k.status
           /\ ~k.contended => Released(k) = k
           /\ k.contended => ~Released(k).changed
  BY DEF CompOK, IsComponent, Fields, Released

(* releaseDone forgets that the agent wrote only once all is put back.     *)
LEMMA ReleaseDoneIs ==
    ASSUME NEW k, IsComponent(k), NEW st, Named(st)
    PROVE  LET n == releaseDone(k, "none", st)
           IN  /\ CompOK(n) /\ n.expect = {} /\ n.contended = k.contended /\ ~n.drifted
               /\ n.status = st /\ n.changed = (st.result # "restored")
  <1> HIDE DEF Named
  <1>1. endIntent(k, "none") = [k EXCEPT !.intent = "none", !.expect = {}]
    BY DEF endIntent
  <1>2. IsComponent(endIntent(k, "none")) /\ endIntent(k, "none").expect = {} /\ endIntent(k, "none").contended = k.contended
    BY <1>1 DEF IsComponent, Fields
  <1> QED
    BY <1>2 DEF CompOK, IsComponent, Fields, releaseDone

(* The passing of a tick changes only times.                               *)
LEMMA AgedIs ==
    ASSUME NEW k, CompOK(k)
    PROVE  LET n == Aged(k)
           IN  /\ CompOK(n) /\ n.expect = k.expect /\ n.contended = k.contended /\ n.drifted = k.drifted
               /\ n.changed = k.changed /\ n.status = k.status
  <1> DEFINE r == IF k.retry \in 1..Retry THEN k.retry - 1 ELSE k.retry
             s == Older(k.sinceApply, Reapply)
             d == [j \in DOMAIN k.drifts |-> Older(k.drifts[j], Window)]
  <1>1. Aged(k) = [k EXCEPT !.retry = r, !.sinceApply = s, !.drifts = d]
    BY DEF Aged
  <1> HIDE DEF r, s, d
  <1> QED
    BY <1>1 DEF CompOK, IsComponent, Fields

(* A status has the parts it is made of.                                   *)
LEMMA StatusIs ==
    /\ \A w, on : Applied(w, on).on = on
    /\ Nothing.on = NoClocks
    /\ \A r, ap : Status(r, ap).result = r /\ Status(r, ap).applied = ap /\ Named(Status(r, ap))
    /\ NoStatus.applied.on = NoClocks /\ NoStatus.result = Fine /\ Named(NoStatus)
  <1>1. \A w, on : Applied(w, on).on = on
    BY DEF Applied
  <1>2. Nothing = Applied(Fine, NoClocks)
    BY Zenon DEF Nothing, Fine
  <1>3. NoStatus = [backend |-> "none", result |-> Fine, applied |-> Nothing]
    BY Zenon DEF NoStatus, Fine
  <1>4. \A r, ap : Status(r, ap).result = r /\ Status(r, ap).applied = ap /\ Named(Status(r, ap))
    BY DEF Status, Named, IsStatus
  <1>5. Nothing.on = NoClocks
    BY <1>1, <1>2
  <1>6. NoStatus.applied.on = NoClocks /\ NoStatus.result = Fine /\ Named(NoStatus)
    BY <1>3, <1>5 DEF Named, IsStatus
  <1> QED
    BY <1>1, <1>4, <1>5, <1>6

(* What a status names is nothing, or what the first GPU has.              *)
LEMMA UniformIs == \A seq : uniformOrMixed(seq).on = NoClocks \/ uniformOrMixed(seq).on = seq[1].on
  <1>1. TAKE seq
  <1>2. uniformOrMixed(seq) \in {Nothing, seq[1], Applied("mixed", NoClocks)}
    BY DEF uniformOrMixed
  <1> QED
    BY <1>2, StatusIs

(* The ranges an apply edits, the outcome of one that ends as e says, and  *)
(* of one of a preset that a GPU cannot express.                           *)
Ceilings(preset) == {g \in GPUs : ~Nvidia /\ chooseAMD(g, preset).sclk # "none"}

Ended(k, rec, good, od, b, preset, plan, e) ==
    Outcome(Ran(plan, e), rec, od \cup (IF Wrote(plan, e) THEN Ceilings(preset) ELSE {}), b,
            applyNow([k EXCEPT !.expect = IF e.result = Fine THEN Expected(plan) ELSE k.expect],
                     ApplyStatus(rec, good, preset, plan, e), Wrote(plan, e)))

Unexpressed(k, rec, od, b) ==
    Outcome(<<>>, rec, od, b, applyNow(k, Status("unsupported", Nothing), FALSE))

(* How an apply ends.                                                      *)
LEMMA ApplyIs ==
    ASSUME NEW k, NEW rec, NEW good, NEW od, NEW b, NEW preset,
           NEW o \in Apply(k, rec, good, od, b, preset)
    PROVE  \/ /\ supported(preset)
              /\ \E e \in Ends(PlanOf(rec, preset)) : o = Ended(k, rec, good, od, b, preset, PlanOf(rec, preset), e)
           \/ ~supported(preset) /\ o = Unexpressed(k, rec, od, b)
  <1>1. Apply(k, rec, good, od, b, preset) =
           IF supported(preset) THEN UNION {{Ended(k, rec, good, od, b, preset, plan, e) : e \in Ends(plan)} : plan \in {PlanOf(rec, preset)}}
           ELSE {Unexpressed(k, rec, od, b)}
    BY Zenon DEF Apply, Fine, Ended, Unexpressed, Ceilings
  <1> QED
    BY <1>1

-----------------------------------------------------------------------------
(***************************************************************************)
(* NVIDIA: the record, the status and the component after a plan.          *)
(***************************************************************************)

(* The record, what the agent set, and the component that goes with them.  *)
NvOK(rec, cl, k) ==
    /\ RecOK(rec) /\ cl = Locked(rec)
    /\ k.status.applied.on = NoClocks \/ k.status.applied.on = rec[1]
    /\ rec # NoRecord => k.changed
    /\ k.expect = {} /\ ~k.contended /\ ~k.drifted
    /\ k.status.result # "drift"

(* Native: the clocks of a GPU's plan, or nothing.                         *)
LEMMA NativeIs ==
    ASSUME Nvidia, NEW rec, NEW g, NEW preset
    PROVE  Native(rec, g, preset).on = NoClocks \/ Native(rec, g, preset).on = On(g, preset)
  BY StatusIs DEF Native, NativeNvidia, On

(* The status of an apply names the first GPU's record, or nothing: also   *)
(* when the plan failed on the way (runNvidiaPlans).                       *)
LEMMA StatusNv ==
    ASSUME Nvidia, NEW rec, NEW good, NEW preset, NEW plan, NEW e, EndNv(plan, e),
           FailedOn(plan, e) \in 1..(NGpu + 1), e.result # Fine => FailedOn(plan, e) \in GPUs,
           \A g \in GPUs : g < FailedOn(plan, e) => recordNvidia(rec, Ran(plan, e))[g] = On(g, preset)
    PROVE  LET st == ApplyStatus(rec, good, preset, plan, e)
           IN  /\ st.applied.on = NoClocks \/ st.applied.on = recordNvidia(rec, Ran(plan, e))[1]
               /\ st.result # "drift"
               /\ Named(st)
  <1> DEFINE new == recordNvidia(rec, Ran(plan, e))
             fb == FailedOn(plan, e)
             st == ApplyStatus(rec, good, preset, plan, e)
  <1>0. 1 \in GPUs /\ NGpu \in Nat /\ GPUs = 1..NGpu
    BY GPUAssumption DEF GPUs
  <1>1. st = IF e.result = Fine
             THEN Status(applyResult(recordNvidia(rec, plan), good, preset), Natives(rec, preset))
             ELSE Status(e.result, IF Nvidia THEN nvidiaInForce(rec, plan, e, preset) ELSE amdInForce(plan, e, preset))
    BY Zenon DEF ApplyStatus, Fine
  <1>2. 1 < fb => Native(rec, 1, preset).on = NoClocks \/ Native(rec, 1, preset).on = new[1]
    BY <1>0, NativeIs
  <1> HIDE DEF st
  <1>3. CASE e.result = Fine
    <2>1. st = Status(applyResult(recordNvidia(rec, plan), good, preset), Natives(rec, preset))
      BY <1>1, <1>3
    <2>2. applyResult(recordNvidia(rec, plan), good, preset) # "drift"
      BY DEF applyResult
    <2>3. [g \in GPUs |-> Native(rec, g, preset)][1] = Native(rec, 1, preset)
      BY <1>0
    <2>4. Natives(rec, preset).on = NoClocks \/ Natives(rec, preset).on = Native(rec, 1, preset).on
      BY <2>3, UniformIs DEF Natives
    <2>5. 1 < fb
      BY <1>0, <1>3 DEF FailedOn
    <2>6. Natives(rec, preset).on = NoClocks \/ Natives(rec, preset).on = new[1]
      BY <1>2, <2>4, <2>5
    <2>7. st.applied = Natives(rec, preset) /\ st.result # "drift" /\ Named(st)
      BY <2>1, <2>2, StatusIs
    <2> HIDE DEF new
    <2>8. /\ st.applied.on = NoClocks \/ st.applied.on = new[1]
          /\ st.result # "drift" /\ Named(st)
      BY <2>6, <2>7
    <2> QED
      BY <2>8 DEF new, st
  <1>4. CASE e.result # Fine
    <2> DEFINE force == nvidiaInForce(rec, plan, e, preset)
               reset == \E j \in e.done : plan[j].g = fb /\ plan[j].v = "none"
               stayed == IF e.kept # {} \/ reset THEN NativeNvidia(new[fb]) ELSE Nothing
               seq == [g \in 1..fb |-> IF g < fb THEN Native(rec, g, preset) ELSE stayed]
    <2>1. st = Status(e.result, force)
      BY <1>1, <1>4
    <2>2. e.result # "drift"
      BY <1>4, FineIs DEF EndNv
    <2>3. fb = plan[Cardinality(e.done) + 1].g
      BY <1>4 DEF FailedOn
    <2>4. force = uniformOrMixed(seq)
      BY <2>3, Zenon DEF nvidiaInForce
    <2>5. fb \in GPUs
      BY <1>4
    <2> HIDE DEF fb, new, force
    <2>6. stayed.on = NoClocks \/ stayed.on = new[fb]
      BY StatusIs DEF NativeNvidia
    <2> HIDE DEF stayed
    <2>7. seq[1] = IF 1 < fb THEN Native(rec, 1, preset) ELSE stayed
      BY <1>0, <2>5
    <2>8. seq[1].on = NoClocks \/ seq[1].on = new[1]
      <3>1. CASE 1 < fb
        BY <1>2, <2>7, <3>1
      <3>2. CASE ~(1 < fb)
        <4>1. fb = 1
          BY <1>0, <2>5, <3>2
        <4> QED
          BY <2>6, <2>7, <3>2, <4>1
      <3> QED
        BY <3>1, <3>2
    <2> HIDE DEF seq
    <2>9. force.on = NoClocks \/ force.on = new[1]
      BY <2>4, <2>8, UniformIs
    <2>10. /\ st.applied.on = NoClocks \/ st.applied.on = new[1]
           /\ st.result # "drift" /\ Named(st)
      BY <2>1, <2>2, <2>9, StatusIs
    <2> QED
      BY <2>10 DEF new, st
  <1> QED
    BY <1>3, <1>4

DevOK(d) == d = [g \in GPUs |-> [a \in Attrs |-> d[g][a]]]

(* The parts of an outcome.                                                *)
LEMMA OutcomeIs ==
    ASSUME NEW cmds, NEW rec, NEW od, NEW b, NEW k
    PROVE  LET o == Outcome(cmds, rec, od, b, k)
           IN  /\ o.dev = DevAfter(cmds) /\ o.claims = ClaimsAfter(cmds, b) /\ o.nv = recordNvidia(rec, cmds)
               /\ o.od = od /\ o.comp = k /\ DevOK(o.dev)
  <1>1. DevOK(DevAfter(cmds))
    BY DEF DevOK, DevAfter
  <1> HIDE DEF DevOK
  <1> QED
    BY <1>1 DEF Outcome

(* Without a command nothing changes.                                      *)
LEMMA NothingRan ==
    ASSUME DevOK(dev), claims \subseteq GPUs \X Attrs
    PROVE  /\ DevAfter(<<>>) = dev
           /\ \A b : ClaimsAfter(<<>>, b) = claims
           /\ \A rec : RecOK(rec) => recordNvidia(rec, <<>>) = rec
  <1>1. DOMAIN <<>> = 1..0 /\ 0 \in Nat
    OBVIOUS
  <1>2. \A g, a : LastOn(<<>>, g, a) = 0 /\ \A old : After(<<>>, g, a, old) = old
    <2>1. TAKE g
    <2>2. TAKE a
    <2>3. \A j \in 1..0 : FALSE
      OBVIOUS
    <2> QED
      BY <1>1, <2>3, AfterIs
  <1>3. DevAfter(<<>>) = dev
    <2>1. DevAfter(<<>>) = [g \in GPUs |-> [a \in Attrs |-> dev[g][a]]]
      BY <1>2 DEF DevAfter
    <2> QED
      BY <2>1 DEF DevOK
  <1>4. \A b : ClaimsAfter(<<>>, b) = claims
    BY <1>2 DEF ClaimsAfter
  <1>5. ASSUME NEW rec, RecOK(rec) PROVE recordNvidia(rec, <<>>) = rec
    <2>1. \A g \in GPUs : rec[g] = [a \in Domains |-> rec[g][a]]
      BY <1>5 DEF RecOK
    <2>2. rec = [g \in GPUs |-> rec[g]]
      BY <1>5 DEF RecOK
    <2>3. Nvidia => recordNvidia(rec, <<>>) = [g \in GPUs |-> [a \in Domains |-> rec[g][a]]]
      BY <1>2 DEF recordNvidia, Domains
    <2>4. ~Nvidia => recordNvidia(rec, <<>>) = rec
      BY DEF recordNvidia
    <2> QED
      BY <2>1, <2>2, <2>3, <2>4
  <1> QED
    BY <1>3, <1>4, <1>5

(* A plan of locks has no command that is an edit, a level or a ceiling.   *)
LEMMA PlanLocks ==
    ASSUME NEW plan, NEW rec, NEW preset, PlannedNv(plan, rec, preset)
    PROVE  \A j \in DOMAIN plan : plan[j].a \notin {"edit", "level", "sclk"}
  <1>1. TAKE j \in DOMAIN plan
  <1>2. plan[j] = NoCmd \/ \E g \in GPUs, a \in Domains : plan[j] = Cmd(g, a, On(g, preset)[a])
    BY DEF PlannedNv
  <1>3. plan[j].a \in {"none", "gpu", "mem"}
    BY <1>2, CmdIs DEF Domains
  <1> QED
    BY <1>3

(* What every write leaves on an NVIDIA node.                              *)
OutNv(o, od, preset) ==
    /\ NvOK(o.nv, o.claims, o.comp) /\ CompOK(o.comp)
    /\ o.od = od /\ DevOK(o.dev) /\ Spares(o.dev, preset)

(* The plan of a preset: what its end leaves of the record.                *)
LEMMA RunNv ==
    ASSUME Nvidia, NEW rec, RecOK(rec), claims = Locked(rec), NEW preset \in PresetNames, NEW b,
           NEW e \in Ends(PlanOf(rec, preset))
    PROVE  LET plan == PlanOf(rec, preset)
               cmds == Ran(plan, e)
               fb == FailedOn(plan, e)
           IN  /\ EndNv(plan, e)
               /\ fb \in 1..(NGpu + 1) /\ (e.result # Fine => fb \in GPUs)
               /\ RecOK(recordNvidia(rec, cmds)) /\ ClaimsAfter(cmds, b) = Locked(recordNvidia(rec, cmds))
               /\ \A g \in GPUs : g < fb => recordNvidia(rec, cmds)[g] = On(g, preset)
               /\ recordNvidia(rec, cmds) # rec => Wrote(plan, e)
               /\ Spares(DevAfter(cmds), preset)
               /\ Expected(plan) = {}
  <1> DEFINE plan == PlanOf(rec, preset)
             cmds == Ran(plan, e)
             fb == FailedOn(plan, e)
  <1>1. PlannedNv(plan, rec, preset)
    BY PlanNvIs
  <1> HIDE DEF plan
  <1>2. \A j \in DOMAIN plan : plan[j].a \notin {"edit", "level", "sclk"}
    BY <1>1, PlanLocks
  <1>3. EndNv(plan, e)
    BY <1>2, EndsNv DEF plan
  <1>4. /\ RanNv(cmds, rec, preset, fb)
        /\ fb \in 1..(NGpu + 1)
        /\ e.result # Fine => fb \in GPUs
        /\ (\E i \in 1..(2 * NGpu) : cmds[i] # NoCmd) => \E i \in e.done : plan[i] # NoCmd
    BY <1>1, <1>3, RanNvIs
  <1> HIDE DEF cmds, fb
  <1>5. /\ RecOK(recordNvidia(rec, cmds))
        /\ ClaimsAfter(cmds, b) = Locked(recordNvidia(rec, cmds))
        /\ \A g \in GPUs : g < fb => recordNvidia(rec, cmds)[g] = On(g, preset)
        /\ recordNvidia(rec, cmds) # rec => \E i \in DOMAIN cmds : cmds[i] # NoCmd
        /\ Spares(DevAfter(cmds), preset)
    BY <1>4, RecordNv
  <1>6. recordNvidia(rec, cmds) # rec => Wrote(plan, e)
    BY <1>4, <1>5 DEF RanNv, Wrote
  <1>7. Expected(plan) = {}
    BY <1>2 DEF Expected
  <1>8. /\ EndNv(plan, e)
        /\ fb \in 1..(NGpu + 1) /\ (e.result # Fine => fb \in GPUs)
        /\ RecOK(recordNvidia(rec, cmds)) /\ ClaimsAfter(cmds, b) = Locked(recordNvidia(rec, cmds))
        /\ \A g \in GPUs : g < fb => recordNvidia(rec, cmds)[g] = On(g, preset)
        /\ recordNvidia(rec, cmds) # rec => Wrote(plan, e)
        /\ Spares(DevAfter(cmds), preset)
        /\ Expected(plan) = {}
    BY <1>3, <1>4, <1>5, <1>6, <1>7
  <1> QED
    BY <1>8 DEF plan, cmds, fb

(* applyNvidia keeps the record true, whole or in part.                    *)
LEMMA ApplyNv ==
    ASSUME Nvidia, NEW rec, NEW k, NvOK(rec, claims, k), CompOK(k), DevOK(dev), NEW good, NEW od, NEW b,
           NEW preset \in PresetNames, NEW o \in Apply(k, rec, good, od, b, preset)
    PROVE  OutNv(o, od, preset)
  <1> DEFINE plan == PlanOf(rec, preset)
             comp(e) == [k EXCEPT !.expect = IF e.result = Fine THEN Expected(plan) ELSE k.expect]
             st(e) == ApplyStatus(rec, good, preset, plan, e)
  <1>0. /\ RecOK(rec) /\ claims = Locked(rec) /\ k.expect = {} /\ ~k.contended /\ IsComponent(k)
        /\ rec # NoRecord => k.changed
    BY DEF NvOK, CompOK
  <1>1. ASSUME NEW e \in Ends(plan), o = Ended(k, rec, good, od, b, preset, plan, e)
        PROVE  OutNv(o, od, preset)
    <2> DEFINE new == recordNvidia(rec, Ran(plan, e))
               n == applyNow(comp(e), st(e), Wrote(plan, e))
    <2>1. /\ EndNv(plan, e)
          /\ FailedOn(plan, e) \in 1..(NGpu + 1) /\ (e.result # Fine => FailedOn(plan, e) \in GPUs)
          /\ RecOK(new) /\ ClaimsAfter(Ran(plan, e), b) = Locked(new)
          /\ \A g \in GPUs : g < FailedOn(plan, e) => new[g] = On(g, preset)
          /\ new # rec => Wrote(plan, e)
          /\ Spares(DevAfter(Ran(plan, e)), preset)
          /\ Expected(plan) = {}
      BY <1>0, <1>1, RunNv
    <2> HIDE DEF plan
    <2>2. /\ st(e).applied.on = NoClocks \/ st(e).applied.on = new[1]
          /\ st(e).result # "drift" /\ Named(st(e))
      BY <2>1, StatusNv
    <2> HIDE DEF st
    <2>3. IsComponent(comp(e)) /\ comp(e).expect = {} /\ comp(e).contended = k.contended /\ comp(e).changed = k.changed
      BY <1>0, <2>1, ExpectIs
    <2> HIDE DEF comp
    <2>4. /\ CompOK(n) /\ n.expect = {} /\ ~n.contended /\ ~n.drifted
          /\ n.changed = (k.changed \/ Wrote(plan, e)) /\ n.status = st(e)
      BY <1>0, <2>2, <2>3, ApplyNowIs
    <2>5. Ceilings(preset) = {}
      BY DEF Ceilings
    <2>8. o = Outcome(Ran(plan, e), rec, od, b, n)
      BY <1>1, <2>5 DEF Ended, comp, st
    <2> HIDE DEF n, new
    <2>6. NvOK(new, Locked(new), n)
      BY <1>0, <2>1, <2>2, <2>4 DEF NvOK
    <2>7. /\ o.dev = DevAfter(Ran(plan, e)) /\ o.claims = Locked(new) /\ o.nv = new /\ o.od = od /\ o.comp = n /\ DevOK(o.dev)
      BY <2>1, <2>8, OutcomeIs DEF new
    <2> QED
      BY <2>1, <2>4, <2>6, <2>7 DEF OutNv
  <1>2. ASSUME o = Unexpressed(k, rec, od, b)
        PROVE  OutNv(o, od, preset)
    <2> DEFINE st0 == Status("unsupported", Nothing)
               n == applyNow(k, st0, FALSE)
    <2>0. Named(st0) /\ st0.applied.on = NoClocks /\ st0.result = "unsupported"
      BY StatusIs
    <2>9. o = Outcome(<<>>, rec, od, b, n)
      BY <1>2 DEF Unexpressed
    <2> HIDE DEF st0
    <2>1. /\ CompOK(n) /\ n.expect = {} /\ ~n.contended /\ ~n.drifted /\ (k.changed => n.changed)
          /\ n.status = st0
      BY <1>0, <2>0, ApplyNowNot
    <2> HIDE DEF n
    <2>2. n.status.applied.on = NoClocks /\ n.status.result = "unsupported"
      BY <2>0, <2>1
    <2>3. claims \subseteq GPUs \X Attrs
      BY <1>0 DEF Locked, Domains, Attrs
    <2>4. o.dev = dev /\ o.claims = claims /\ o.nv = rec /\ o.od = od /\ o.comp = n
      BY <1>0, <2>3, <2>9, OutcomeIs, NothingRan
    <2>5. NvOK(rec, claims, n)
      BY <1>0, <2>1, <2>2 DEF NvOK
    <2>6. Spares(dev, preset)
      BY DEF Spares
    <2> QED
      BY <2>1, <2>4, <2>5, <2>6 DEF OutNv
  <1> QED
    BY <1>1, <1>2, ApplyIs

(* How a restore ends.                                                     *)
Restored(k, rec, od, b, plan, e) ==
    Outcome(Ran(plan, e), rec, IF e.result = Fine THEN {} ELSE od, b,
            releaseDone(k, "none",
                IF e.result # Fine THEN Status(e.result, Nothing)
                ELSE Status("restored", IF Nvidia THEN NativeNvidia(NoClocks)
                                        ELSE uniformOrMixed([g \in GPUs |-> Applied(b[g], NoClocks)]))))

RestorePlan(rec, od, b) == IF Nvidia THEN PlanOf(rec, "auto") ELSE restoreAMD(od, b)

(* restoreGPU ends with the plan of the vendor.                            *)
LEMMA RestoreIs ==
    ASSUME NEW k, NEW rec, NEW od, NEW b, NEW o \in Restore(k, rec, od, b)
    PROVE  \E e \in Ends(RestorePlan(rec, od, b)) : o = Restored(k, rec, od, b, RestorePlan(rec, od, b), e)
  <1>1. Restore(k, rec, od, b) = UNION {{Restored(k, rec, od, b, plan, e) : e \in Ends(plan)} : plan \in {RestorePlan(rec, od, b)}}
    BY Zenon DEF Restore, Fine, Restored, RestorePlan
  <1> QED
    BY <1>1

(* The component after a restore.                                          *)
LEMMA RestoredComp ==
    ASSUME NEW k, IsComponent(k), NEW rec, NEW od, NEW b, NEW plan, NEW e, e.result # "restored"
    PROVE  LET o == Restored(k, rec, od, b, plan, e)
           IN  /\ CompOK(o.comp) /\ o.comp.expect = {} /\ o.comp.contended = k.contended /\ ~o.comp.drifted
               /\ e.result # Fine => o.comp.changed /\ o.comp.status.result = e.result /\ o.od = od
               /\ e.result = Fine => o.comp.status.result = "restored" /\ o.od = {}
               /\ o.comp.status.applied.on = NoClocks
               /\ o.dev = DevAfter(Ran(plan, e)) /\ o.claims = ClaimsAfter(Ran(plan, e), b)
               /\ o.nv = recordNvidia(rec, Ran(plan, e)) /\ DevOK(o.dev)
  <1> DEFINE o == Restored(k, rec, od, b, plan, e)
             seq == [g \in GPUs |-> Applied(b[g], NoClocks)]
             ap == IF Nvidia THEN NativeNvidia(NoClocks) ELSE uniformOrMixed(seq)
             st == IF e.result # Fine THEN Status(e.result, Nothing) ELSE Status("restored", ap)
             n == releaseDone(k, "none", st)
  <1>1. ap.on = NoClocks
    <2>1. seq[1].on = NoClocks
      <3>1. 1 \in GPUs
        BY GPUAssumption DEF GPUs
      <3> QED
        BY <3>1, StatusIs
    <2> HIDE DEF seq
    <2>2. uniformOrMixed(seq).on = NoClocks
      BY <2>1, UniformIs
    <2>3. NativeNvidia(NoClocks).on = NoClocks
      BY StatusIs DEF NativeNvidia
    <2> QED
      BY <2>2, <2>3
  <1>2. o = Outcome(Ran(plan, e), rec, IF e.result = Fine THEN {} ELSE od, b, n)
    BY DEF Restored
  <1> HIDE DEF ap, o
  <1>3. /\ Named(st) /\ st.applied.on = NoClocks
        /\ e.result # Fine => st.result = e.result
        /\ e.result = Fine => st.result = "restored"
    BY <1>1, StatusIs
  <1> HIDE DEF st
  <1>4. /\ CompOK(n) /\ n.expect = {} /\ n.contended = k.contended /\ ~n.drifted
        /\ n.status = st /\ n.changed = (st.result # "restored")
    BY <1>3, ReleaseDoneIs
  <1> HIDE DEF n
  <1>5. /\ o.dev = DevAfter(Ran(plan, e)) /\ o.claims = ClaimsAfter(Ran(plan, e), b)
        /\ o.nv = recordNvidia(rec, Ran(plan, e)) /\ o.comp = n /\ DevOK(o.dev)
        /\ o.od = IF e.result = Fine THEN {} ELSE od
    BY <1>2, OutcomeIs
  <1>6. /\ CompOK(o.comp) /\ o.comp.expect = {} /\ o.comp.contended = k.contended /\ ~o.comp.drifted
        /\ e.result # Fine => o.comp.changed /\ o.comp.status.result = e.result /\ o.od = od
        /\ e.result = Fine => o.comp.status.result = "restored" /\ o.od = {}
        /\ o.comp.status.applied.on = NoClocks
    BY <1>3, <1>4, <1>5
  <1> QED
    BY <1>5, <1>6 DEF o

(* restoreGPU of locks: after a plan that went through the record is empty.*)
LEMMA RestoreNv ==
    ASSUME Nvidia, NEW rec, NEW k, NvOK(rec, claims, k), CompOK(k), NEW od, NEW b, NEW o \in Restore(k, rec, od, b)
    PROVE  /\ NvOK(o.nv, o.claims, o.comp) /\ CompOK(o.comp) /\ DevOK(o.dev) /\ Spares(o.dev, "auto")
           /\ o.od \in {od, {}}
  <1> DEFINE plan == PlanOf(rec, "auto")
  <1>0. /\ RecOK(rec) /\ claims = Locked(rec) /\ ~k.contended /\ IsComponent(k) /\ "auto" \in PresetNames
    BY DEF NvOK, CompOK, PresetNames
  <1>1. PICK e \in Ends(plan) : o = Restored(k, rec, od, b, plan, e)
    BY RestoreIs DEF RestorePlan
  <1> DEFINE new == recordNvidia(rec, Ran(plan, e))
  <1>2. /\ EndNv(plan, e)
        /\ RecOK(new) /\ ClaimsAfter(Ran(plan, e), b) = Locked(new)
        /\ \A g \in GPUs : g < FailedOn(plan, e) => new[g] = On(g, "auto")
        /\ Spares(DevAfter(Ran(plan, e)), "auto")
    BY <1>0, <1>1, RunNv
  <1> HIDE DEF plan
  <1>3. e.result # "restored" /\ e.result # "drift"
    BY <1>2, FineIs DEF EndNv
  <1>4. /\ CompOK(o.comp) /\ o.comp.expect = {} /\ o.comp.contended = k.contended /\ ~o.comp.drifted
        /\ e.result # Fine => o.comp.changed /\ o.comp.status.result = e.result /\ o.od = od
        /\ e.result = Fine => o.comp.status.result = "restored" /\ o.od = {}
        /\ o.comp.status.applied.on = NoClocks
        /\ o.dev = DevAfter(Ran(plan, e)) /\ o.claims = ClaimsAfter(Ran(plan, e), b)
        /\ o.nv = new /\ DevOK(o.dev)
    BY <1>0, <1>1, <1>3, RestoredComp
  <1> HIDE DEF new
  <1>5. e.result = Fine => new = NoRecord
    <2>1. HAVE e.result = Fine
    <2>2. \A g \in GPUs : g < FailedOn(plan, e)
      BY <2>1, GPUAssumption DEF FailedOn, GPUs
    <2>3. \A g \in GPUs : On(g, "auto") = NoClocks
      BY DEF On, chooseNvidia, NoClocks
    <2>4. new = [g \in GPUs |-> new[g]]
      BY <1>2 DEF RecOK
    <2> QED
      BY <1>2, <2>2, <2>3, <2>4 DEF NoRecord
  <1>6. o.comp.status.result # "drift"
    BY <1>3, <1>4
  <1>7. new # NoRecord => o.comp.changed
    BY <1>4, <1>5
  <1>8. NvOK(o.nv, o.claims, o.comp)
    BY <1>0, <1>2, <1>4, <1>6, <1>7 DEF NvOK
  <1> QED
    BY <1>2, <1>4, <1>8

-----------------------------------------------------------------------------
(***************************************************************************)
(* amdgpu: plans in lockstep, how they end, and what they leave.           *)
(***************************************************************************)

(* The first of the bad places is one of them.                             *)
LEMMA MinIn ==
    ASSUME NEW n \in Nat, NEW s \in SUBSET (1..n), s # {}
    PROVE  Min(s) \in s
  <1> DEFINE T == {n - x : x \in s}
  <1>1. T \subseteq 0..n
    OBVIOUS
  <1>2. T \in SUBSET Int /\ IsFiniteSet(T) /\ T # {}
    <2>1. IsFiniteSet(0..n)
      BY FS_Interval
    <2> HIDE DEF T
    <2>5. IsFiniteSet(T)
      BY <1>1, <2>1, FS_Subset
    <2>2. T \in SUBSET Int
      BY <1>1
    <2>3. PICK x \in s : TRUE
      OBVIOUS
    <2>4. n - x \in T
      BY DEF T
    <2> QED
      BY <2>2, <2>4, <2>5
  <1>3. Max(T) \in T /\ \A y \in T : Max(T) >= y
    <2> HIDE DEF T
    <2> QED
      BY <1>2, MaxIs
  <1>4. PICK x \in s : Max(T) = n - x
    BY <1>3
  <1>5. \A y \in s : x <= y
    <2>1. TAKE y \in s
    <2>2. n - y \in T
      OBVIOUS
    <2>3. Max(T) >= n - y
      BY <1>3, <2>2
    <2> HIDE DEF T
    <2> QED
      BY <1>4, <2>3
  <1> QED
    BY <1>5 DEF Min

(* How a plan of levels and ceilings ends: whole, at a place, or whole but *)
(* for a ceiling that was not taken.                                       *)
EndAmd(plan, e) ==
    \/ e.result = Fine /\ e.done = DOMAIN plan
    \/ /\ e.result \in {"refused", "unsupported", "error", "not-applied"}
       /\ \/ \E m \in Int : e.done = 1..m
          \/ \E j \in DOMAIN plan : plan[j].a = "sclk" /\ e.done = DOMAIN plan \ {j}

(* writeAMDSteps ends in one of these ways.                                *)
LEMMA EndsAmd ==
    ASSUME NEW plan, NEW n \in Nat, DOMAIN plan = 1..n, NEW e \in Ends(plan)
    PROVE  EndAmd(plan, e)
  <1> DEFINE bad == {j \in DOMAIN plan : EditRefused(plan, j)}
  <1>1. Ends(plan) = IF bad # {} THEN {End(1..(Min(bad) - 1), "unsupported", {})}
                     ELSE {End(DOMAIN plan, Fine, {})}
                           \cup IF calm THEN {}
                                ELSE Stops(plan) \cup IF "not-applied" \in Failing THEN NotTaken(plan) ELSE {}
    BY Zenon DEF Ends, Fine
  <1>2. bad \in SUBSET (1..n)
    OBVIOUS
  <1> HIDE DEF bad
  <1>3. \/ bad # {} /\ e = End(1..(Min(bad) - 1), "unsupported", {})
        \/ e = End(DOMAIN plan, Fine, {}) \/ e \in Stops(plan) \/ e \in NotTaken(plan)
    BY <1>1
  <1>4. CASE bad # {} /\ e = End(1..(Min(bad) - 1), "unsupported", {})
    <2>1. Min(bad) \in 1..n
      BY <1>2, <1>4, MinIn
    <2>2. Min(bad) - 1 \in Int
      BY <2>1
    <2>3. e.done = 1..(Min(bad) - 1) /\ e.result = "unsupported"
      BY <1>4 DEF End
    <2> QED
      BY <2>2, <2>3 DEF EndAmd
  <1>5. CASE e = End(DOMAIN plan, Fine, {})
    BY <1>5 DEF End, EndAmd
  <1>6. CASE e \in Stops(plan)
    <2>1. PICK j \in {i \in DOMAIN plan : plan[i] # NoCmd} : e \in {End(1..(j - 1), r, s) : r \in Failing \ {"not-applied"}, s \in SUBSET DoneLocks(plan, j - 1)}
      BY <1>6 DEF Stops
    <2>2. PICK r \in Failing \ {"not-applied"}, s \in SUBSET DoneLocks(plan, j - 1) : e = End(1..(j - 1), r, s)
      BY <2>1
    <2>3. e.done = 1..(j - 1) /\ e.result = r /\ j - 1 \in Int
      BY <2>2 DEF End
    <2> QED
      BY <2>2, <2>3, GPUAssumption DEF EndAmd
  <1>7. CASE e \in NotTaken(plan)
    <2>1. PICK j \in DOMAIN plan : /\ plan[j].a \in {"level", "sclk"}
                                   /\ e = End(IF plan[j].a = "level" THEN 1..(j - 1) ELSE DOMAIN plan \ {j}, "not-applied", {})
      BY <1>7 DEF NotTaken
    <2>2. e.result = "not-applied" /\ e.done = IF plan[j].a = "level" THEN 1..(j - 1) ELSE DOMAIN plan \ {j}
      BY <2>1 DEF End
    <2>3. j - 1 \in Int
      OBVIOUS
    <2> QED
      BY <2>1, <2>2, <2>3 DEF EndAmd
  <1> QED
    BY <1>3, <1>4, <1>5, <1>6, <1>7

(* The commands that took effect are those that are done.                  *)
LEMMA RanAmd ==
    ASSUME ~Nvidia, NEW plan, NEW e, EndAmd(plan, e)
    PROVE  /\ DOMAIN Ran(plan, e) = DOMAIN plan
           /\ \A j \in DOMAIN plan : Ran(plan, e)[j] = IF j \in e.done THEN plan[j] ELSE NoCmd
           /\ \A j \in DOMAIN plan : Ran(plan, e)[j] # NoCmd => Wrote(plan, e)
           /\ e.result \notin {"restored", "drift"}
  <1>1. DOMAIN Ran(plan, e) = DOMAIN plan
    BY RanIs
  <1>2. undoNvidiaLocks(plan, e) = {}
    BY DEF undoNvidiaLocks, DoneLocks
  <1>3. \A j \in DOMAIN plan : Ran(plan, e)[j] = IF j \in e.done THEN plan[j] ELSE NoCmd
    <2>1. CASE e.result = Fine /\ e.done = DOMAIN plan
      BY <2>1, RanIs
    <2>2. CASE e.result # Fine
      BY <1>2, <2>2, RanIs DEF Due
    <2> QED
      BY <2>1, <2>2, FineIs DEF EndAmd
  <1>4. \A j \in DOMAIN plan : Ran(plan, e)[j] # NoCmd => Wrote(plan, e)
    BY <1>3 DEF Wrote
  <1>5. e.result \notin {"restored", "drift"}
    BY FineIs DEF EndAmd
  <1> QED
    BY <1>1, <1>3, <1>4, <1>5

(* What the agent set on amdgpu devices: every range it edited is one it   *)
(* knows of, under a level that is not auto.                               *)
AmdOK(od, cl, d, changed) ==
    /\ od \subseteq GPUs /\ cl \subseteq GPUs \X Attrs
    /\ \A g \in GPUs : <<g, "sclk">> \in cl =>
          /\ g \in od /\ changed /\ d[g].level # "auto" /\ Table[vendor][g] # "levels"

(* The plans of a preset in lockstep: the levels, the edits, the commits.  *)
PlannedAmd(plan, preset) ==
    /\ DOMAIN plan = 1..(3 * NGpu)
    /\ \A j \in 1..(3 * NGpu) :
          \/ plan[j] = NoCmd
          \/ j \in GPUs /\ plan[j] = Cmd(j, "level", amdLevels[preset])
          \/ /\ preset = "efficient"
             /\ \E g \in GPUs : \/ plan[j] = Cmd(g, "edit", "efficient")
                                \/ j = 2 * NGpu + g /\ plan[j] = Cmd(g, "sclk", "efficient")
    /\ \A g \in GPUs : plan[g] = Cmd(g, "level", amdLevels[preset])

(* A plan in lockstep, place by place.                                     *)
InLockstep(plan, x, y, z) ==
    /\ DOMAIN plan = 1..(3 * NGpu)
    /\ \A g \in GPUs : plan[g] = x[g] /\ plan[NGpu + g] = y[g] /\ plan[2 * NGpu + g] = z[g]
    /\ \A j \in 1..(3 * NGpu) : \E g \in GPUs : j = g \/ j = NGpu + g \/ j = 2 * NGpu + g
    /\ \A g \in GPUs : g \in 1..(3 * NGpu) /\ NGpu + g \in 1..(3 * NGpu) /\ 2 * NGpu + g \in 1..(3 * NGpu)

(* Lockstep puts the first commands first, then the second, then the third.*)
LEMMA LockstepIs ==
    ASSUME NEW x, NEW y, NEW z, NEW f, f = [g \in GPUs |-> <<x[g], y[g], z[g]>>]
    PROVE  InLockstep(Lockstep(f), x, y, z)
  <1> DEFINE plan == Lockstep(f)
  <1>0. NGpu \in Nat /\ GPUs = 1..NGpu
    BY GPUAssumption DEF GPUs
  <1>1. \A g \in GPUs : f[g][1] = x[g] /\ f[g][2] = y[g] /\ f[g][3] = z[g]
    OBVIOUS
  <1>2. /\ DOMAIN plan = 1..(3 * NGpu)
        /\ \A j \in 1..(3 * NGpu) : plan[j] = IF j <= NGpu THEN f[j][1]
                                              ELSE IF j <= 2 * NGpu THEN f[j - NGpu][2] ELSE f[j - 2 * NGpu][3]
    BY DEF Lockstep
  <1> HIDE DEF plan
  <1>3. \A g \in GPUs : g \in 1..(3 * NGpu) /\ NGpu + g \in 1..(3 * NGpu) /\ 2 * NGpu + g \in 1..(3 * NGpu)
    BY <1>0
  <1>4. \A g \in GPUs : plan[g] = x[g]
    <2>1. TAKE g \in GPUs
    <2>2. g <= NGpu
      BY <1>0
    <2> QED
      BY <1>1, <1>2, <1>3, <2>2
  <1>5. \A g \in GPUs : plan[NGpu + g] = y[g]
    <2>1. TAKE g \in GPUs
    <2>2. ~(NGpu + g <= NGpu) /\ NGpu + g <= 2 * NGpu /\ (NGpu + g) - NGpu = g
      BY <1>0
    <2> QED
      BY <1>1, <1>2, <1>3, <2>2
  <1>6. \A g \in GPUs : plan[2 * NGpu + g] = z[g]
    <2>1. TAKE g \in GPUs
    <2>2. ~(2 * NGpu + g <= NGpu) /\ ~(2 * NGpu + g <= 2 * NGpu) /\ (2 * NGpu + g) - 2 * NGpu = g
      BY <1>0
    <2> QED
      BY <1>1, <1>2, <1>3, <2>2
  <1>7. \A j \in 1..(3 * NGpu) : \E g \in GPUs : j = g \/ j = NGpu + g \/ j = 2 * NGpu + g
    <2>1. TAKE j \in 1..(3 * NGpu)
    <2>2. CASE j <= NGpu
      BY <1>0, <2>2
    <2>3. CASE ~(j <= NGpu) /\ j <= 2 * NGpu
      <3>1. j - NGpu \in GPUs /\ j = NGpu + (j - NGpu)
        BY <1>0, <2>3
      <3> QED
        BY <3>1
    <2>4. CASE ~(j <= NGpu) /\ ~(j <= 2 * NGpu)
      <3>1. j - 2 * NGpu \in GPUs /\ j = 2 * NGpu + (j - 2 * NGpu)
        BY <1>0, <2>4
      <3> QED
        BY <3>1
    <2> QED
      BY <2>2, <2>3, <2>4
  <1> QED
    BY <1>2, <1>3, <1>4, <1>5, <1>6, <1>7 DEF plan, InLockstep

(* The plan of an amdgpu node is as PlannedAmd says.                       *)
LEMMA PlanAmdIs ==
    ASSUME ~Nvidia, NEW rec, NEW preset \in PresetNames
    PROVE  PlannedAmd(PlanOf(rec, preset), preset)
  <1> DEFINE x == [g \in GPUs |-> Cmd(g, "level", amdLevels[preset])]
             y == [g \in GPUs |-> Due(preset = "efficient", Cmd(g, "edit", "efficient"))]
             z == [g \in GPUs |-> Due(preset = "efficient", Cmd(g, "sclk", "efficient"))]
             f == [g \in GPUs |-> <<x[g], y[g], z[g]>>]
             plan == PlanOf(rec, preset)
  <1>1. \A g \in GPUs : PlanAMD(g, preset) = <<x[g], y[g], z[g]>>
    <2>1. \A g : chooseAMD(g, preset).level = amdLevels[preset]
                 /\ chooseAMD(g, preset).sclk = IF preset = "efficient" THEN preset ELSE "none"
      BY DEF chooseAMD
    <2>2. \A g : (chooseAMD(g, preset).sclk # "none") = (preset = "efficient")
      BY <2>1
    <2>3. \A g : preset = "efficient" => chooseAMD(g, preset).sclk = "efficient"
      BY <2>1
    <2> QED
      BY <2>1, <2>2, <2>3 DEF PlanAMD, Due
  <1>2. plan = Lockstep(f)
    BY <1>1 DEF PlanOf
  <1> HIDE DEF plan
  <1>3. /\ DOMAIN plan = 1..(3 * NGpu)
        /\ \A g \in GPUs : plan[g] = x[g] /\ plan[NGpu + g] = y[g] /\ plan[2 * NGpu + g] = z[g]
        /\ \A j \in 1..(3 * NGpu) : \E g \in GPUs : j = g \/ j = NGpu + g \/ j = 2 * NGpu + g
    <2> HIDE DEF x, y, z
    <2>1. f = [g \in GPUs |-> <<x[g], y[g], z[g]>>]
      OBVIOUS
    <2> HIDE DEF f
    <2>2. InLockstep(plan, x, y, z)
      BY <1>2, <2>1, LockstepIs
    <2> QED
      BY <2>2 DEF InLockstep
  <1>4. \A g \in GPUs : /\ x[g] = Cmd(g, "level", amdLevels[preset])
                        /\ y[g] = NoCmd \/ (preset = "efficient" /\ y[g] = Cmd(g, "edit", "efficient"))
                        /\ z[g] = NoCmd \/ (preset = "efficient" /\ z[g] = Cmd(g, "sclk", "efficient"))
    BY DEF Due
  <1> HIDE DEF x, y, z
  <1>5. \A j \in 1..(3 * NGpu) :
          \/ plan[j] = NoCmd
          \/ j \in GPUs /\ plan[j] = Cmd(j, "level", amdLevels[preset])
          \/ /\ preset = "efficient"
             /\ \E g \in GPUs : \/ plan[j] = Cmd(g, "edit", "efficient")
                                \/ j = 2 * NGpu + g /\ plan[j] = Cmd(g, "sclk", "efficient")
    <2>1. TAKE j \in 1..(3 * NGpu)
    <2>2. PICK g \in GPUs : j = g \/ j = NGpu + g \/ j = 2 * NGpu + g
      BY <1>3
    <2>3. (plan[j] = x[g] /\ j = g) \/ plan[j] = y[g] \/ (plan[j] = z[g] /\ j = 2 * NGpu + g)
      BY <1>3, <2>2
    <2> QED
      BY <1>4, <2>3
  <1>6. PlannedAmd(plan, preset)
    BY <1>3, <1>4, <1>5 DEF PlannedAmd
  <1> QED
    BY <1>6 DEF plan

(* A range is the agent's after commands when it was and none bore on it,  *)
(* or when one set it.                                                     *)
LEMMA RangeAfter ==
    ASSUME NEW n \in Nat, NEW cmds, DOMAIN cmds = 1..n, NEW b, NEW g \in GPUs,
           <<g, "sclk">> \in ClaimsAfter(cmds, b)
    PROVE  \/ <<g, "sclk">> \in claims /\ \A i \in 1..n : ~Bears(cmds[i], g, "sclk")
           \/ \E i \in 1..n : cmds[i].g = g /\ cmds[i].a = "sclk" /\ cmds[i].v # "none"
  <1>1. IF LastOn(cmds, g, "sclk") = 0 THEN <<g, "sclk">> \in claims
        ELSE After(cmds, g, "sclk", "none") # "none"
    BY DEF ClaimsAfter, Attrs
  <1>2. CASE /\ LastOn(cmds, g, "sclk") = 0
             /\ \A j \in 1..n : ~Bears(cmds[j], g, "sclk")
    BY <1>1, <1>2
  <1>3. CASE /\ LastOn(cmds, g, "sclk") # 0
             /\ \E j \in 1..n : /\ Bears(cmds[j], g, "sclk")
                                /\ \A old : After(cmds, g, "sclk", old) = Left(cmds[j], "sclk")
    <2>1. PICK j \in 1..n : /\ Bears(cmds[j], g, "sclk")
                            /\ \A old : After(cmds, g, "sclk", old) = Left(cmds[j], "sclk")
      BY <1>3
    <2>2. Left(cmds[j], "sclk") # "none"
      BY <1>1, <1>3, <2>1
    <2>3. cmds[j].g = g /\ cmds[j].a = "sclk" /\ cmds[j].v # "none"
      BY <2>1, <2>2 DEF Left, Bears
    <2> QED
      BY <2>3
  <1> QED
    BY <1>2, <1>3, AfterIs

(* Levels and ceilings leave the locks of a GPU alone.                     *)
LEMMA LocksKept ==
    ASSUME NEW n \in Nat, NEW cmds, DOMAIN cmds = 1..n, \A i \in 1..n : cmds[i].a \notin Domains
    PROVE  \A g \in GPUs, a \in Domains : DevAfter(cmds)[g][a] = dev[g][a]
  <1>1. \A g \in GPUs, a \in Domains : DevAfter(cmds)[g][a] = After(cmds, g, a, dev[g][a])
    BY DEF DevAfter, Attrs, Domains
  <1>2. ASSUME NEW g \in GPUs, NEW a \in Domains PROVE After(cmds, g, a, dev[g][a]) = dev[g][a]
    <2>1. a # "sclk"
      BY DEF Domains
    <2>2. \A i \in 1..n : ~Bears(cmds[i], g, a)
      BY <2>1 DEF Bears
    <2> QED
      BY <2>2, AfterIs
  <1> QED
    BY <1>1, <1>2

(* A level after commands is the one it was, or one that a command set.    *)
LEMMA LevelAfter ==
    ASSUME NEW n \in Nat, NEW cmds, DOMAIN cmds = 1..n, NEW g \in GPUs
    PROVE  \/ /\ \A i \in 1..n : ~(cmds[i].g = g /\ cmds[i].a = "level")
              /\ DevAfter(cmds)[g].level = dev[g].level
           \/ \E i \in 1..n : cmds[i].g = g /\ cmds[i].a = "level" /\ DevAfter(cmds)[g].level = cmds[i].v
  <1>1. DevAfter(cmds)[g].level = After(cmds, g, "level", dev[g].level)
    BY DEF DevAfter, Attrs
  <1>2. \A i \in 1..n : Bears(cmds[i], g, "level") <=> cmds[i].g = g /\ cmds[i].a = "level"
    BY DEF Bears
  <1>3. CASE /\ \A j \in 1..n : ~Bears(cmds[j], g, "level")
             /\ \A old : After(cmds, g, "level", old) = old
    BY <1>1, <1>2, <1>3
  <1>4. CASE \E j \in 1..n : /\ Bears(cmds[j], g, "level")
                             /\ \A old : After(cmds, g, "level", old) = Left(cmds[j], "level")
    <2>1. PICK j \in 1..n : /\ Bears(cmds[j], g, "level")
                            /\ \A old : After(cmds, g, "level", old) = Left(cmds[j], "level")
      BY <1>4
    <2>2. cmds[j].g = g /\ cmds[j].a = "level" /\ DevAfter(cmds)[g].level = cmds[j].v
      BY <1>1, <1>2, <2>1 DEF Left
    <2> QED
      BY <2>2
  <1>5. \/ /\ LastOn(cmds, g, "level") = 0
           /\ \A j \in 1..n : ~Bears(cmds[j], g, "level")
           /\ \A old : After(cmds, g, "level", old) = old
        \/ /\ LastOn(cmds, g, "level") # 0
           /\ \E j \in 1..n : /\ Bears(cmds[j], g, "level")
                              /\ \A old : After(cmds, g, "level", old) = Left(cmds[j], "level")
    BY AfterIs
  <1> QED
    BY <1>3, <1>4, <1>5

(* What every write leaves on an amdgpu node.                              *)
OutAmd(o) ==
    /\ AmdOK(o.od, o.claims, o.dev, o.comp.changed) /\ CompOK(o.comp)
    /\ DevOK(o.dev) /\ \A g \in GPUs, a \in Domains : o.dev[g][a] = dev[g][a]

(* The commands of an apply that took effect: a ceiling only after the     *)
(* level it needs.                                                         *)
RanCeilings(cmds, preset) ==
    /\ DOMAIN cmds = 1..(3 * NGpu)
    /\ \A i \in 1..(3 * NGpu) :
          \/ cmds[i] = NoCmd
          \/ \E g \in GPUs : cmds[i] = Cmd(g, "level", amdLevels[preset])
          \/ preset = "efficient" /\ \E g \in GPUs : cmds[i] = Cmd(g, "edit", "efficient")
          \/ preset = "efficient" /\ \E g \in GPUs :
                /\ cmds[i] = Cmd(g, "sclk", "efficient")
                /\ \E l \in 1..(3 * NGpu) : cmds[l] = Cmd(g, "level", amdLevels[preset])

(* writeAMDSteps: whichever way a plan ends, a ceiling is committed only   *)
(* on a device whose level was set.                                        *)
LEMMA RanCeilingsIs ==
    ASSUME ~Nvidia, NEW preset, NEW plan, PlannedAmd(plan, preset), NEW e, EndAmd(plan, e)
    PROVE  RanCeilings(Ran(plan, e), preset)
  <1> DEFINE n == 3 * NGpu
             cmds == Ran(plan, e)
  <1>0. NGpu \in Nat /\ GPUs = 1..NGpu /\ n \in Nat
    BY GPUAssumption DEF GPUs
  <1>1. DOMAIN plan = 1..n
    BY DEF PlannedAmd
  <1>2. DOMAIN cmds = 1..n /\ \A j \in 1..n : cmds[j] = IF j \in e.done THEN plan[j] ELSE NoCmd
    BY <1>1, RanAmd
  <1> HIDE DEF cmds
  <1>3. ASSUME NEW i \in 1..n, cmds[i] # NoCmd
        PROVE  \/ \E g \in GPUs : cmds[i] = Cmd(g, "level", amdLevels[preset])
               \/ preset = "efficient" /\ \E g \in GPUs : cmds[i] = Cmd(g, "edit", "efficient")
               \/ preset = "efficient" /\ \E g \in GPUs :
                     /\ cmds[i] = Cmd(g, "sclk", "efficient")
                     /\ \E l \in 1..n : cmds[l] = Cmd(g, "level", amdLevels[preset])
    <2>1. i \in e.done /\ cmds[i] = plan[i] /\ plan[i] # NoCmd
      BY <1>2, <1>3
    <2>2. \/ i \in GPUs /\ plan[i] = Cmd(i, "level", amdLevels[preset])
          \/ /\ preset = "efficient"
             /\ \E g \in GPUs : \/ plan[i] = Cmd(g, "edit", "efficient")
                                \/ i = 2 * NGpu + g /\ plan[i] = Cmd(g, "sclk", "efficient")
      BY <2>1 DEF PlannedAmd
    <2>3. ASSUME NEW g \in GPUs, i = 2 * NGpu + g
          PROVE  \E l \in 1..n : cmds[l] = Cmd(g, "level", amdLevels[preset])
      <3>1. g \in 1..n /\ g < i /\ 1 <= g
        BY <1>0, <2>3
      <3>2. plan[g] = Cmd(g, "level", amdLevels[preset])
        BY DEF PlannedAmd
      <3>3. g \in e.done
        <4>1. CASE e.done = DOMAIN plan
          BY <1>1, <3>1, <4>1
        <4>2. CASE \E m \in Int : e.done = 1..m
          BY <2>1, <3>1, <4>2
        <4>3. CASE \E j \in DOMAIN plan : plan[j].a = "sclk" /\ e.done = DOMAIN plan \ {j}
          <5>1. plan[g].a # "sclk"
            BY <3>2, CmdIs
          <5> QED
            BY <1>1, <3>1, <4>3, <5>1
        <4> QED
          BY <4>1, <4>2, <4>3 DEF EndAmd
      <3> QED
        BY <1>2, <3>1, <3>2, <3>3
    <2> QED
      BY <2>1, <2>2, <2>3
  <1>4. RanCeilings(cmds, preset)
    BY <1>2, <1>3 DEF RanCeilings
  <1> QED
    BY <1>4 DEF cmds

(* applyAMD: every range it edits is remembered, and holds only under the  *)
(* level it set.                                                           *)
LEMMA ApplyAmd ==
    ASSUME ~Nvidia, NEW od, NEW k, AmdOK(od, claims, dev, k.changed), CompOK(k), DevOK(dev),
           NEW rec, NEW good, NEW b, NEW preset \in PresetNames, NEW o \in Apply(k, rec, good, od, b, preset)
    PROVE  OutAmd(o)
  <1> DEFINE plan == PlanOf(rec, preset)
             comp(e) == [k EXCEPT !.expect = IF e.result = Fine THEN Expected(plan) ELSE k.expect]
             st(e) == ApplyStatus(rec, good, preset, plan, e)
             N3 == 3 * NGpu
  <1>0. IsComponent(k) /\ N3 \in Nat
    BY GPUAssumption DEF CompOK
  <1>1. ASSUME NEW e \in Ends(plan), o = Ended(k, rec, good, od, b, preset, plan, e), supported(preset)
        PROVE  OutAmd(o)
    <2> DEFINE cmds == Ran(plan, e)
               n == applyNow(comp(e), st(e), Wrote(plan, e))
               nod == od \cup (IF Wrote(plan, e) THEN Ceilings(preset) ELSE {})
    <2>1. PlannedAmd(plan, preset)
      BY PlanAmdIs
    <2>2. DOMAIN plan = 1..N3
      BY <2>1 DEF PlannedAmd
    <2>3. EndAmd(plan, e)
      <3> HIDE DEF plan, N3
      <3> QED
        BY <1>0, <1>1, <2>2, EndsAmd
    <2>4. o = Outcome(cmds, rec, nod, b, n)
      BY <1>1 DEF Ended
    <2>5. Named(st(e))
      <3>1. st(e) = IF e.result = Fine
             THEN Status(applyResult(recordNvidia(rec, plan), good, preset), Natives(rec, preset))
             ELSE Status(e.result, IF Nvidia THEN nvidiaInForce(rec, plan, e, preset) ELSE amdInForce(plan, e, preset))
        BY Zenon DEF ApplyStatus, Fine
      <3> HIDE DEF plan, st
      <3> QED
        BY <3>1, StatusIs
    <2> HIDE DEF plan, st
    <2>6. RanCeilings(cmds, preset)
      BY <2>1, <2>3, RanCeilingsIs
    <2>7. \A j \in 1..N3 : cmds[j] # NoCmd => Wrote(plan, e)
      BY <2>2, <2>3, RanAmd
    <2>8. IsComponent(comp(e)) /\ comp(e).changed = k.changed
      BY <1>0, ExpectIs
    <2> HIDE DEF comp
    <2>9. CompOK(n) /\ n.changed = (k.changed \/ Wrote(plan, e))
      BY <2>5, <2>8, ApplyNowIs
    <2> HIDE DEF n, nod
    <2>10. /\ o.dev = DevAfter(cmds) /\ o.claims = ClaimsAfter(cmds, b) /\ o.od = nod /\ o.comp = n /\ DevOK(o.dev)
      BY <2>4, OutcomeIs
    <2> HIDE DEF cmds
    <2>11. DOMAIN cmds = 1..N3
      BY <2>6 DEF RanCeilings
    <2>12. \A i \in 1..N3 : /\ cmds[i].a \notin Domains
                            /\ cmds[i].a = "level" => cmds[i].v = amdLevels[preset]
                            /\ cmds[i].a = "sclk" =>
                                  /\ preset = "efficient" /\ cmds[i] # NoCmd
                                  /\ \E l \in 1..N3 : cmds[l].g = cmds[i].g /\ cmds[l].a = "level"
      <3>1. TAKE i \in 1..N3
      <3>2. CASE cmds[i] = NoCmd
        BY <3>2, CmdIs DEF Domains
      <3>3. CASE \E g \in GPUs : cmds[i] = Cmd(g, "level", amdLevels[preset])
        BY <3>3, CmdIs DEF Domains
      <3>4. CASE \E g \in GPUs : cmds[i] = Cmd(g, "edit", "efficient")
        BY <3>4, CmdIs DEF Domains
      <3>5. CASE preset = "efficient" /\ \E g \in GPUs :
                /\ cmds[i] = Cmd(g, "sclk", "efficient")
                /\ \E l \in 1..N3 : cmds[l] = Cmd(g, "level", amdLevels[preset])
        <4>1. PICK g \in GPUs : /\ cmds[i] = Cmd(g, "sclk", "efficient")
                                /\ \E l \in 1..N3 : cmds[l] = Cmd(g, "level", amdLevels[preset])
          BY <3>5
        <4>2. PICK l \in 1..N3 : cmds[l] = Cmd(g, "level", amdLevels[preset])
          BY <4>1
        <4>3. cmds[i].g = g /\ cmds[i].a = "sclk" /\ cmds[i] # NoCmd /\ cmds[l].g = g /\ cmds[l].a = "level"
          BY <4>1, <4>2, CmdIs
        <4> QED
          BY <3>5, <4>3 DEF Domains
      <3> QED
        BY <2>6, <3>2, <3>3, <3>4, <3>5 DEF RanCeilings
    <2>13. \A g \in GPUs, a \in Domains : o.dev[g][a] = dev[g][a]
      <3> HIDE DEF N3
      <3> QED
        BY <1>0, <2>10, <2>11, <2>12, LocksKept
    <2>14. ASSUME NEW g \in GPUs, <<g, "sclk">> \in o.claims
           PROVE  /\ g \in o.od /\ o.comp.changed /\ o.dev[g].level # "auto" /\ Table[vendor][g] # "levels"
      <3> HIDE DEF N3
      <3>1. \/ <<g, "sclk">> \in claims /\ \A i \in 1..N3 : ~Bears(cmds[i], g, "sclk")
            \/ \E i \in 1..N3 : cmds[i].g = g /\ cmds[i].a = "sclk" /\ cmds[i].v # "none"
        BY <1>0, <2>10, <2>11, <2>14, RangeAfter
      <3>2. \/ /\ \A i \in 1..N3 : ~(cmds[i].g = g /\ cmds[i].a = "level")
               /\ o.dev[g].level = dev[g].level
            \/ \E i \in 1..N3 : cmds[i].g = g /\ cmds[i].a = "level" /\ o.dev[g].level = cmds[i].v
        BY <1>0, <2>10, <2>11, LevelAfter
      <3>3. CASE <<g, "sclk">> \in claims /\ \A i \in 1..N3 : ~Bears(cmds[i], g, "sclk")
        <4>1. g \in od /\ k.changed /\ dev[g].level # "auto" /\ Table[vendor][g] # "levels"
          BY <3>3 DEF AmdOK
        <4>2. o.dev[g].level # "auto"
          BY <3>2, <3>3, <4>1 DEF Bears
        <4> QED
          BY <2>9, <2>10, <4>1, <4>2 DEF nod
      <3>4. CASE \E i \in 1..N3 : cmds[i].g = g /\ cmds[i].a = "sclk" /\ cmds[i].v # "none"
        <4>1. PICK i \in 1..N3 : cmds[i].g = g /\ cmds[i].a = "sclk"
          BY <3>4
        <4>2. preset = "efficient" /\ cmds[i] # NoCmd /\ \E l \in 1..N3 : cmds[l].g = g /\ cmds[l].a = "level"
          BY <2>12, <4>1
        <4>3. Wrote(plan, e)
          BY <2>7, <4>2
        <4>4. o.dev[g].level = "manual"
          <5>1. amdLevels[preset] = "manual"
            BY <4>2 DEF amdLevels
          <5> QED
            BY <2>12, <3>2, <4>2, <5>1
        <4>5. chooseAMD(g, preset).ok
          BY <1>1 DEF supported
        <4>6. Table[vendor][g] # "levels" /\ chooseAMD(g, preset).sclk # "none"
          BY <4>2, <4>5 DEF chooseAMD
        <4>7. g \in Ceilings(preset)
          BY <4>6 DEF Ceilings
        <4> QED
          BY <2>9, <2>10, <4>3, <4>4, <4>6, <4>7 DEF nod
      <3> QED
        BY <3>1, <3>3, <3>4
    <2>15. o.od \subseteq GPUs /\ o.claims \subseteq GPUs \X Attrs
      BY <2>10 DEF nod, Ceilings, AmdOK, ClaimsAfter
    <2>16. AmdOK(o.od, o.claims, o.dev, o.comp.changed)
      BY <2>14, <2>15 DEF AmdOK
    <2> QED
      BY <2>9, <2>10, <2>13, <2>16 DEF OutAmd
  <1>2. ASSUME o = Unexpressed(k, rec, od, b)
        PROVE  OutAmd(o)
    <2> DEFINE st0 == Status("unsupported", Nothing)
               n == applyNow(k, st0, FALSE)
    <2>0. Named(st0)
      BY StatusIs
    <2>1. o = Outcome(<<>>, rec, od, b, n)
      BY <1>2 DEF Unexpressed
    <2> HIDE DEF st0
    <2>2. CompOK(n) /\ (k.changed => n.changed)
      BY <1>0, <2>0, ApplyNowNot
    <2> HIDE DEF n
    <2>3. claims \subseteq GPUs \X Attrs
      BY DEF AmdOK
    <2>4. o.dev = dev /\ o.claims = claims /\ o.od = od /\ o.comp = n
      BY <2>1, <2>3, OutcomeIs, NothingRan
    <2>5. AmdOK(od, claims, dev, n.changed)
      BY <2>2 DEF AmdOK
    <2> QED
      BY <2>2, <2>4, <2>5 DEF OutAmd
  <1> QED
    BY <1>1, <1>2, ApplyIs

(* restoreAMD: no range stays edited once its plan went through.           *)
LEMMA RestoreAmd ==
    ASSUME ~Nvidia, NEW od, NEW k, AmdOK(od, claims, dev, k.changed), CompOK(k), NEW rec, NEW b,
           NEW o \in Restore(k, rec, od, b)
    PROVE  OutAmd(o)
  <1> DEFINE x == [g \in GPUs |-> Due(g \in od /\ Table[vendor][g] # "levels" /\ b[g] # "auto", Cmd(g, "edit", "none"))]
             y == [g \in GPUs |-> Due(g \in od /\ Table[vendor][g] # "levels" /\ b[g] # "auto", Cmd(g, "sclk", "none"))]
             z == [g \in GPUs |-> Due(dev[g].level # b[g], Cmd(g, "level", b[g]))]
             f == [g \in GPUs |-> <<x[g], y[g], z[g]>>]
             plan == restoreAMD(od, b)
             N3 == 3 * NGpu
  <1>0. IsComponent(k) /\ N3 \in Nat
    BY GPUAssumption DEF CompOK
  <1>1. plan = Lockstep(f)
    BY DEF restoreAMD
  <1>2. PICK e \in Ends(plan) : o = Restored(k, rec, od, b, plan, e)
    BY RestoreIs DEF RestorePlan
  <1>3. \A g \in GPUs :
           /\ x[g] = NoCmd \/ x[g] = Cmd(g, "edit", "none")
           /\ y[g] = NoCmd \/ y[g] = Cmd(g, "sclk", "none")
           /\ z[g] = NoCmd \/ z[g] = Cmd(g, "level", b[g])
           /\ g \in od /\ Table[vendor][g] # "levels" /\ b[g] # "auto" => y[g] = Cmd(g, "sclk", "none")
           /\ dev[g].level # b[g] => z[g] = Cmd(g, "level", b[g])
    BY DEF Due
  <1> HIDE DEF x, y, z, plan
  <1>4. InLockstep(plan, x, y, z)
    <2>1. f = [g \in GPUs |-> <<x[g], y[g], z[g]>>]
      OBVIOUS
    <2> HIDE DEF f
    <2> QED
      BY <1>1, <2>1, LockstepIs
  <1>5. DOMAIN plan = 1..N3
    BY <1>4 DEF InLockstep
  <1>6. EndAmd(plan, e)
    <2> HIDE DEF N3
    <2> QED
      BY <1>0, <1>2, <1>5, EndsAmd
  <1> DEFINE cmds == Ran(plan, e)
  <1>7. /\ DOMAIN cmds = 1..N3
        /\ \A j \in 1..N3 : cmds[j] = IF j \in e.done THEN plan[j] ELSE NoCmd
        /\ e.result # "restored"
    BY <1>5, <1>6, RanAmd
  <1>8. /\ CompOK(o.comp)
        /\ e.result # Fine => o.comp.changed /\ o.od = od
        /\ e.result = Fine => o.od = {}
        /\ o.dev = DevAfter(cmds) /\ o.claims = ClaimsAfter(cmds, b) /\ DevOK(o.dev)
    BY <1>0, <1>2, <1>7, RestoredComp
  <1> HIDE DEF cmds
  <1>9. \A i \in 1..N3 : \/ cmds[i] = NoCmd
                         \/ \E g \in GPUs : cmds[i] = Cmd(g, "edit", "none") \/ cmds[i] = Cmd(g, "sclk", "none")
                                            \/ cmds[i] = Cmd(g, "level", b[g])
    <2>1. TAKE i \in 1..N3
    <2>2. PICK g \in GPUs : plan[i] = x[g] \/ plan[i] = y[g] \/ plan[i] = z[g]
      <3>1. PICK g \in GPUs : i = g \/ i = NGpu + g \/ i = 2 * NGpu + g
        BY <1>4 DEF InLockstep
      <3> QED
        BY <1>4, <3>1 DEF InLockstep
    <2> QED
      BY <1>3, <1>7, <2>2
  <1>10. \A i \in 1..N3 : /\ cmds[i].a \notin Domains
                          /\ cmds[i].a = "sclk" => cmds[i].v = "none"
    <2>1. TAKE i \in 1..N3
    <2>2. CASE cmds[i] = NoCmd
      BY <2>2, CmdIs DEF Domains
    <2>3. CASE \E g \in GPUs : cmds[i] = Cmd(g, "edit", "none") \/ cmds[i] = Cmd(g, "sclk", "none") \/ cmds[i] = Cmd(g, "level", b[g])
      BY <2>3, CmdIs DEF Domains
    <2> QED
      BY <1>9, <2>2, <2>3
  <1>11. \A g \in GPUs, a \in Domains : o.dev[g][a] = dev[g][a]
    <2> HIDE DEF N3
    <2> QED
      BY <1>0, <1>7, <1>8, <1>10, LocksKept
  <1>12. ASSUME NEW g \in GPUs, <<g, "sclk">> \in o.claims
         PROVE  /\ g \in o.od /\ o.comp.changed /\ o.dev[g].level # "auto" /\ Table[vendor][g] # "levels"
    <2>1. <<g, "sclk">> \in claims /\ \A i \in 1..N3 : ~Bears(cmds[i], g, "sclk")
      <3> HIDE DEF N3
      <3> QED
        BY <1>0, <1>7, <1>8, <1>10, <1>12, RangeAfter
    <2>2. g \in od /\ dev[g].level # "auto" /\ Table[vendor][g] # "levels"
      BY <2>1 DEF AmdOK
    <2>3. o.dev[g].level # "auto"
      <3>1. \/ o.dev[g].level = dev[g].level
            \/ \E i \in 1..N3 : cmds[i].g = g /\ cmds[i].a = "level" /\ o.dev[g].level = cmds[i].v
        <4> HIDE DEF N3
        <4> QED
          BY <1>0, <1>7, <1>8, LevelAfter
      <3> QED
        BY <2>1, <2>2, <3>1 DEF Bears
    <2>4. e.result # Fine
      <3>1. SUFFICES ASSUME e.result = Fine PROVE FALSE
        OBVIOUS
      <3>2. e.done = 1..N3
        BY <1>5, <1>6, <3>1, FineIs DEF EndAmd
      <3>3. /\ NGpu + g \in 1..N3 /\ 2 * NGpu + g \in 1..N3
            /\ plan[NGpu + g] = y[g] /\ plan[2 * NGpu + g] = z[g]
        BY <1>4 DEF InLockstep
      <3>4. cmds[NGpu + g] = y[g] /\ cmds[2 * NGpu + g] = z[g]
        BY <1>7, <3>2, <3>3
      <3>5. CASE b[g] # "auto"
        <4>1. cmds[NGpu + g] = Cmd(g, "sclk", "none")
          BY <1>3, <2>2, <3>4, <3>5
        <4>2. Bears(cmds[NGpu + g], g, "sclk")
          BY <4>1, CmdIs DEF Bears
        <4> QED
          BY <2>1, <3>3, <4>2
      <3>6. CASE b[g] = "auto"
        <4>1. cmds[2 * NGpu + g] = Cmd(g, "level", "auto")
          BY <1>3, <2>2, <3>4, <3>6
        <4>2. Bears(cmds[2 * NGpu + g], g, "sclk")
          BY <4>1, CmdIs DEF Bears
        <4> QED
          BY <2>1, <3>3, <4>2
      <3> QED
        BY <3>5, <3>6
    <2> QED
      BY <1>8, <2>2, <2>3, <2>4
  <1>13. o.od \subseteq GPUs /\ o.claims \subseteq GPUs \X Attrs
    BY <1>8 DEF AmdOK, ClaimsAfter
  <1>14. AmdOK(o.od, o.claims, o.dev, o.comp.changed)
    BY <1>12, <1>13 DEF AmdOK
  <1> QED
    BY <1>8, <1>11, <1>14 DEF OutAmd

-----------------------------------------------------------------------------
(***************************************************************************)
(* The invariant: what the agent holds to be its own, in its record or in  *)
(* the status it will be seeded from, is what it set and has not put back. *)
(***************************************************************************)

Rec == seedNvidia(TRUE)

RecordInv ==
    /\ vendor \in Vendors /\ spec \in PresetNames \cup {"none"} /\ DevOK(dev)
    /\ CompOK(c) /\ Named(published) /\ (loaded => c.status = published)
    /\ Nvidia => NvOK(Rec, claims, Loaded.comp)
    /\ ~Nvidia => AmdOK(Loaded.od, claims, dev, Loaded.comp.changed)

(* What a step may do to an operator's locks.                              *)
Sparing ==
    \A g \in GPUs, a \in Domains :
        dev[g][a] = "operator" /\ dev'[g][a] = "none" =>
            <<g, a>> \in claims \/ (spec # "none" /\ chooseNvidia(g, spec).on[a] # "none")

(* The parts of what is loaded.                                            *)
LEMMA LoadedIs ==
    /\ loaded => Loaded.comp = c /\ Loaded.locks = seeded /\ Loaded.od = odDevices
    /\ ~loaded => /\ Loaded.comp = [c EXCEPT !.status = published, !.statusWritten = published # NoStatus,
                                             !.changed = governorResultWrote(published)]
                  /\ Loaded.locks = IF governorResultWrote(published) /\ published.backend = "nvidia"
                                    THEN {published.applied.on} ELSE {}
                  /\ Loaded.od = IF governorResultWrote(published) /\ published.backend = "amd" /\ published.applied.on.gpu # "none"
                                 THEN GPUs ELSE {}
  <1>1. CASE loaded
    BY <1>1 DEF Loaded
  <1>2. CASE ~loaded
    BY <1>2 DEF Loaded, seed
  <1> QED
    BY <1>1, <1>2

(* The invariant of the next state, on a node that keeps its GPUs.         *)
LEMMA InvNext ==
    ASSUME vendor' = vendor, vendor \in Vendors, spec' \in PresetNames \cup {"none"}, DevOK(dev'),
           CompOK(c'), Named(published'), loaded' => c'.status = published',
           Nvidia => NvOK(Rec', claims', (Loaded.comp)'),
           ~Nvidia => AmdOK((Loaded.od)', claims', dev', ((Loaded.comp)').changed)
    PROVE  RecordInv'
  <1>1. Nvidia' = Nvidia
    BY DEF Nvidia
  <1>2. DevOK(dev)' = DevOK(dev')
    BY DEF DevOK
  <1>3. CompOK(c)' /\ Named(published)'
    BY DEF CompOK, Named
  <1>4. Nvidia' => NvOK(Rec, claims, Loaded.comp)'
    <2>1. HAVE Nvidia'
    <2>2. NvOK(Rec', claims', (Loaded.comp)')
      BY <1>1, <2>1
    <2> HIDE DEF Rec
    <2> QED
      BY <2>2 DEF NvOK, RecOK, Locked, Lockable
  <1>5. ~Nvidia' => AmdOK(Loaded.od, claims, dev, Loaded.comp.changed)'
    <2>1. HAVE ~Nvidia'
    <2>2. AmdOK((Loaded.od)', claims', dev', ((Loaded.comp)').changed)
      BY <1>1, <2>1
    <2> QED
      BY <2>2 DEF AmdOK
  <1> QED
    BY <1>2, <1>3, <1>4, <1>5 DEF RecordInv

(* A write that is published.                                              *)
LEMMA TakesKeeps ==
    ASSUME RecordInv, NEW o, NEW good, Takes(o, good), CompOK(o.comp), DevOK(o.dev),
           Nvidia => NvOK(o.nv, o.claims, o.comp),
           ~Nvidia => AmdOK(o.od, o.claims, o.dev, o.comp.changed)
    PROVE  RecordInv'
  <1> DEFINE n == [o.comp EXCEPT !.statusWritten = TRUE]
  <1>1. /\ vendor' = vendor /\ spec' = spec /\ loaded' = TRUE /\ dev' = o.dev /\ claims' = o.claims
        /\ nv' = o.nv /\ odDevices' = o.od /\ c' = n /\ published' = c'.status
        /\ Nvidia => seeded' = {}
    BY DEF Takes, Prepared
  <1>2. /\ CompOK(n) /\ n.status = o.comp.status /\ n.expect = o.comp.expect /\ n.contended = o.comp.contended
        /\ n.drifted = o.comp.drifted /\ n.changed = o.comp.changed
    BY DEF CompOK, IsComponent, Fields
  <1> HIDE DEF n
  <1>3. (Loaded.comp)' = n /\ (Loaded.locks)' = seeded' /\ (Loaded.od)' = o.od
    BY <1>1 DEF Loaded
  <1>4. Nvidia => Rec' = o.nv
    <2>1. HAVE Nvidia
    <2>2. (Loaded.locks)' = {}
      BY <1>1, <1>3, <2>1
    <2> QED
      BY <1>1, <2>2 DEF Rec, seedNvidia
  <1>5. Nvidia => NvOK(o.nv, o.claims, n)
    BY <1>2 DEF NvOK
  <1>6. ~Nvidia => AmdOK(o.od, o.claims, o.dev, n.changed)
    BY <1>2
  <1>7. Named(n.status)
    BY <1>2 DEF CompOK
  <1>8. vendor \in Vendors /\ spec' \in PresetNames \cup {"none"}
    BY <1>1 DEF RecordInv
  <1>9. /\ DevOK(dev') /\ CompOK(c') /\ Named(published') /\ c'.status = published'
        /\ Nvidia => NvOK(Rec', claims', (Loaded.comp)')
        /\ ~Nvidia => AmdOK((Loaded.od)', claims', dev', ((Loaded.comp)').changed)
    BY <1>1, <1>2, <1>3, <1>4, <1>5, <1>6, <1>7
  <1> QED
    BY <1>1, <1>8, <1>9, InvNext

(* A reconcile that writes nothing to the node.                            *)
LEMMA KeepsKeeps ==
    ASSUME RecordInv, NEW found \in BOOLEAN, KeepsNode(found), CompOK(c'), c'.status = published',
           Nvidia => NvOK(Rec, claims', c'),
           ~Nvidia => AmdOK(Loaded.od, claims', dev, c'.changed)
    PROVE  RecordInv' /\ Sparing
  <1>1. /\ vendor' = vendor /\ spec' = spec /\ loaded' = TRUE /\ dev' = dev
        /\ nv' = seedNvidia(found) /\ odDevices' = Loaded.od
        /\ seeded' = IF found /\ Nvidia THEN {} ELSE Loaded.locks
    BY DEF KeepsNode, Prepared
  <1>2. (Loaded.comp)' = c' /\ (Loaded.locks)' = seeded' /\ (Loaded.od)' = Loaded.od
    BY <1>1 DEF Loaded
  <1>3. Nvidia => Rec' = Rec
    <2>1. HAVE Nvidia
    <2>2. Nvidia'
      BY <1>1, <2>1 DEF Nvidia
    <2>3. CASE found
      <3>1. (Loaded.locks)' = {} /\ nv' = Rec
        BY <1>1, <1>2, <2>1, <2>3 DEF Rec
      <3> QED
        BY <3>1 DEF Rec, seedNvidia
    <2>4. CASE ~found
      <3>1. (Loaded.locks)' = Loaded.locks /\ nv' = nv
        BY <1>1, <1>2, <2>4 DEF seedNvidia
      <3> QED
        BY <2>1, <2>2, <3>1 DEF Rec, seedNvidia
    <2> QED
      BY <2>3, <2>4
  <1>4. vendor \in Vendors /\ spec' \in PresetNames \cup {"none"} /\ DevOK(dev')
    BY <1>1 DEF RecordInv
  <1>5. Named(published')
    BY DEF CompOK
  <1>6. /\ Nvidia => NvOK(Rec', claims', (Loaded.comp)')
        /\ ~Nvidia => AmdOK((Loaded.od)', claims', dev', ((Loaded.comp)').changed)
    BY <1>1, <1>2, <1>3
  <1>7. RecordInv'
    BY <1>1, <1>4, <1>5, <1>6, InvNext
  <1>8. Sparing
    BY <1>1 DEF Sparing
  <1> QED
    BY <1>7, <1>8

(* A component that may be written for, and an outcome that may be taken.  *)
KeptOK(k) ==
    /\ CompOK(k)
    /\ Nvidia => NvOK(Rec, claims, k)
    /\ ~Nvidia => AmdOK(odDevices, claims, dev, k.changed)

SparesNow(d) ==
    \A g \in GPUs, a \in Domains :
        dev[g][a] = "operator" /\ d[g][a] = "none" =>
            <<g, a>> \in claims \/ (spec # "none" /\ chooseNvidia(g, spec).on[a] # "none")

OutOK(o) ==
    /\ CompOK(o.comp) /\ DevOK(o.dev) /\ SparesNow(o.dev)
    /\ Nvidia => NvOK(o.nv, o.claims, o.comp)
    /\ ~Nvidia => AmdOK(o.od, o.claims, o.dev, o.comp.changed)

(* Taking a good outcome keeps the invariant.                              *)
LEMMA TakesOut ==
    ASSUME RecordInv, NEW o, NEW good, Takes(o, good), OutOK(o)
    PROVE  RecordInv' /\ Sparing
  <1>1. RecordInv'
    BY TakesKeeps DEF OutOK
  <1>2. dev' = o.dev
    BY DEF Takes
  <1> QED
    BY <1>1, <1>2 DEF OutOK, SparesNow, Sparing

(* A loaded component is one that may be written for.                      *)
LEMMA LoadedKept ==
    ASSUME RecordInv, loaded
    PROVE  KeptOK(c)
  BY LoadedIs DEF RecordInv, KeptOK

(* A change of the component that keeps what the record rests on.          *)
LEMMA KeptSame ==
    ASSUME NEW k, KeptOK(k), NEW n, CompOK(n), k.changed => n.changed,
           Nvidia => /\ n.status.applied = k.status.applied /\ n.status.result # "drift"
                     /\ n.expect = {} /\ ~n.contended /\ ~n.drifted
    PROVE  KeptOK(n)
  <1>1. Nvidia => NvOK(Rec, claims, n)
    BY DEF KeptOK, NvOK
  <1>2. ~Nvidia => AmdOK(odDevices, claims, dev, n.changed)
    BY DEF KeptOK, AmdOK
  <1> QED
    BY <1>1, <1>2 DEF KeptOK

(* applyNow's outcomes may be taken.                                       *)
LEMMA WritesOut ==
    ASSUME RecordInv, spec \in PresetNames, NEW k, KeptOK(k), NEW good, NEW o \in Writes(k, good)
    PROVE  OutOK(o)
  <1> DEFINE b == NextBaseline(TRUE)
  <1>0. o \in Apply(k, Rec, good, odDevices, b, spec) /\ DevOK(dev)
    BY DEF Writes, Rec, RecordInv
  <1>1. spec # "none"
    BY DEF PresetNames
  <1> HIDE DEF b, Rec
  <1>2. CASE Nvidia
    <2>1. OutNv(o, odDevices, spec)
      BY <1>0, <1>2, ApplyNv DEF KeptOK
    <2>2. SparesNow(o.dev)
      BY <1>1, <2>1 DEF OutNv, Spares, SparesNow, On
    <2> QED
      BY <1>2, <2>1, <2>2 DEF OutNv, OutOK
  <1>3. CASE ~Nvidia
    <2>1. OutAmd(o)
      BY <1>0, <1>3, ApplyAmd DEF KeptOK
    <2>2. SparesNow(o.dev)
      BY <2>1 DEF OutAmd, SparesNow
    <2> QED
      BY <1>3, <2>1, <2>2 DEF OutAmd, OutOK
  <1> QED
    BY <1>2, <1>3

(* restoreGPU's outcomes may be taken.                                     *)
LEMMA RestoreOut ==
    ASSUME KeptOK(c), NEW b, NEW o \in Restore(c, Rec, odDevices, b)
    PROVE  OutOK(o)
  <1> HIDE DEF Rec
  <1>2. CASE Nvidia
    <2>1. /\ NvOK(o.nv, o.claims, o.comp) /\ CompOK(o.comp) /\ DevOK(o.dev) /\ Spares(o.dev, "auto")
      BY <1>2, RestoreNv DEF KeptOK
    <2>2. \A g \in GPUs, a \in Domains : On(g, "auto")[a] = "none"
      BY OnIs DEF PresetNames
    <2>3. SparesNow(o.dev)
      BY <2>1, <2>2 DEF Spares, SparesNow
    <2> QED
      BY <1>2, <2>1, <2>3 DEF OutOK
  <1>3. CASE ~Nvidia
    <2>1. OutAmd(o)
      BY <1>3, RestoreAmd DEF KeptOK
    <2>2. SparesNow(o.dev)
      BY <2>1 DEF OutAmd, SparesNow
    <2> QED
      BY <1>3, <2>1, <2>2 DEF OutAmd, OutOK
  <1> QED
    BY <1>2, <1>3

(* What is reported of the node as it is.                                  *)
LEMMA ReportsOut ==
    ASSUME RecordInv, NEW k, KeptOK(k), NEW good, Reports(k, good)
    PROVE  RecordInv' /\ Sparing
  <1> DEFINE o == [dev |-> dev, claims |-> claims, nv |-> seedNvidia(TRUE), od |-> odDevices, comp |-> k]
  <1>1. Takes(o, good)
    BY DEF Reports
  <1>2. o.dev = dev /\ o.claims = claims /\ o.nv = Rec /\ o.od = odDevices /\ o.comp = k
    BY DEF Rec
  <1> HIDE DEF o, Rec
  <1>3. OutOK(o)
    <2>1. DevOK(dev) /\ SparesNow(dev)
      BY DEF RecordInv, SparesNow
    <2> QED
      BY <1>2, <2>1 DEF OutOK, KeptOK
  <1> QED
    BY <1>1, <1>3, TakesOut

(* verifyNvidia changes a result, and never what is named.                 *)
LEMMA VerifiedIs ==
    ASSUME NEW k, CompOK(k), k.status.result # "drift", NEW rec, NEW busy, NEW within
    PROVE  LET n == Verified(k, rec, busy, within).comp
           IN  /\ CompOK(n) /\ n.status.applied = k.status.applied /\ n.status.result # "drift"
               /\ n.expect = k.expect /\ n.contended = k.contended /\ ~n.drifted /\ n.changed = k.changed
  <1> DEFINE st == [k.status EXCEPT !.result = "applied"]
             m == [k EXCEPT !.status = st, !.good = st]
             n == Verified(k, rec, busy, within).comp
  <1>1. Named(st) /\ st.applied = k.status.applied /\ st.result = "applied"
    BY DEF CompOK, Named, IsStatus
  <1>2. n \in {checkHolds(k), checkHolds(m)}
    <2>1. CASE k.status.result # "unverified"
      <3>1. Verified(k, rec, busy, within) = [comp |-> checkHolds(k), good |-> nvGood]
        BY <2>1 DEF Verified
      <3> HIDE DEF m
      <3> QED
        BY <3>1
    <2>2. CASE k.status.result = "unverified"
      <3> DEFINE good == [g \in GPUs |-> IF g \notin busy \/ rec[g] = NoClocks THEN nvGood[g]
                                         ELSE IF g \in within THEN Older(nvGood[g], Samples) ELSE 0]
      <3>1. Verified(k, rec, busy, within) =
               [comp |-> checkHolds(IF nvidiaVerified(rec, good) THEN m ELSE k), good |-> good]
        BY <2>2 DEF Verified
      <3> HIDE DEF good, m
      <3> QED
        BY <3>1
    <2> QED
      BY <2>1, <2>2
  <1> HIDE DEF st, n
  <1>3. CompOK(m) /\ m.status = st /\ m.expect = k.expect /\ m.contended = k.contended /\ m.changed = k.changed
    BY <1>1 DEF CompOK, IsComponent, Fields
  <1> HIDE DEF m
  <1>4. /\ CompOK(checkHolds(m)) /\ checkHolds(m).status = st /\ checkHolds(m).expect = k.expect
        /\ checkHolds(m).contended = k.contended /\ ~checkHolds(m).drifted /\ checkHolds(m).changed = k.changed
    BY <1>1, <1>3, CheckHoldsIs
  <1>5. /\ CompOK(checkHolds(k)) /\ checkHolds(k).status = k.status /\ checkHolds(k).expect = k.expect
        /\ checkHolds(k).contended = k.contended /\ ~checkHolds(k).drifted /\ checkHolds(k).changed = k.changed
    BY CheckHoldsIs
  <1>6. /\ CompOK(n) /\ n.status.applied = k.status.applied /\ n.status.result # "drift"
        /\ n.expect = k.expect /\ n.contended = k.contended /\ ~n.drifted /\ n.changed = k.changed
    BY <1>1, <1>2, <1>4, <1>5
  <1> QED
    BY <1>6 DEF n

(* prepare: what the last status names becomes the agent's own.            *)
LEMMA LoadKeeps ==
    ASSUME RecordInv, Load
    PROVE  RecordInv' /\ Sparing
  <1>1. PICK found \in Founds : KeepsNode(found)
    BY DEF Load
  <1>2. found \in BOOLEAN
    BY DEF Founds
  <1>3. c' = Loaded.comp /\ claims' = claims /\ published' = published /\ ~loaded
    BY DEF Load
  <1>4. CompOK(Loaded.comp) /\ Loaded.comp.status = published
    <2> DEFINE w == governorResultWrote(published)
    <2>1. Loaded.comp = [c EXCEPT !.status = published, !.statusWritten = published # NoStatus, !.changed = w]
      BY <1>3, LoadedIs
    <2> HIDE DEF w
    <2>2. CompOK(c) /\ Named(published)
      BY DEF RecordInv
    <2> QED
      BY <2>1, <2>2 DEF CompOK, IsComponent, Fields
  <1>5. /\ Nvidia => NvOK(Rec, claims', c')
        /\ ~Nvidia => AmdOK(Loaded.od, claims', dev, c'.changed)
    BY <1>3 DEF RecordInv
  <1> QED
    BY <1>1, <1>2, <1>3, <1>4, <1>5, KeepsKeeps

(* release: waiting, restoring, and forgetting what another writer has.    *)
LEMMA ReleaseKeeps ==
    ASSUME RecordInv, ReleaseWait \/ ReleaseRestore \/ ReleaseForget
    PROVE  RecordInv' /\ Sparing
  <1>0. loaded
    BY DEF ReleaseWait, ReleaseRestore, ReleaseForget, Restoring, Releasing
  <1>1. KeptOK(c) /\ CompOK(c) /\ c.status = published
    BY <1>0, LoadedKept DEF KeptOK, RecordInv
  <1>2. Loaded.od = odDevices
    BY <1>0, LoadedIs
  <1>3. Restoring => Released(c) = c
    BY <1>1, ReleasedIs DEF Restoring
  <1>4. CASE ReleaseWait
    <2>1. PICK found \in Founds : KeepsNode(found)
      BY <1>4 DEF ReleaseWait
    <2>2. found \in BOOLEAN
      BY DEF Founds
    <2>3. c' = c /\ claims' = claims /\ published' = published
      BY <1>3, <1>4 DEF ReleaseWait
    <2>4. /\ CompOK(c') /\ c'.status = published'
          /\ Nvidia => NvOK(Rec, claims', c')
          /\ ~Nvidia => AmdOK(Loaded.od, claims', dev, c'.changed)
      BY <1>1, <1>2, <2>3 DEF KeptOK
    <2> QED
      BY <2>1, <2>2, <2>4, KeepsKeeps
  <1>5. CASE ReleaseRestore
    <2> DEFINE b == NextBaseline(TRUE)
    <2>1. PICK o \in Restore(Released(c), seedNvidia(TRUE), odDevices, b) : Takes(o, nvGood)
      BY <1>5 DEF ReleaseRestore
    <2>2. o \in Restore(c, Rec, odDevices, b)
      BY <1>3, <1>5, <2>1 DEF ReleaseRestore, Rec
    <2> HIDE DEF b
    <2>3. OutOK(o)
      BY <1>1, <2>2, RestoreOut
    <2> QED
      BY <2>1, <2>3, TakesOut
  <1>6. CASE ReleaseForget
    <2> DEFINE gone == c.statusWritten /\ c.status.result # "restored"
               k == Released(c)
               n == [endIntent(k, "none") EXCEPT !.retry = NoRetry, !.statusWritten = @ /\ ~gone,
                                                 !.status = IF gone THEN NoStatus ELSE @]
    <2>1. PICK found \in Founds : KeepsNode(found)
      BY <1>6 DEF ReleaseForget
    <2>2. found \in BOOLEAN
      BY DEF Founds
    <2>3. c' = n
      BY <1>6 DEF ReleaseForget
    <2>4. claims' = (IF c.contended THEN {} ELSE claims) /\ published' = IF gone THEN NoStatus ELSE published
      BY <1>6 DEF ReleaseForget
    <2>5. /\ CompOK(k) /\ k.status = c.status
          /\ ~c.contended => k = c
          /\ c.contended => ~k.changed
      BY <1>1, ReleasedIs
    <2> HIDE DEF k, gone
    <2>6. /\ IsComponent(endIntent(k, "none")) /\ endIntent(k, "none").expect = {}
          /\ endIntent(k, "none").status = k.status /\ endIntent(k, "none").good = k.good
          /\ endIntent(k, "none").contended = k.contended /\ endIntent(k, "none").drifted = k.drifted
          /\ endIntent(k, "none").changed = k.changed
      BY <2>5 DEF endIntent, CompOK, IsComponent, Fields
    <2>7. /\ IsComponent(n) /\ n.expect = {} /\ n.good = k.good /\ n.contended = k.contended
          /\ n.drifted = k.drifted /\ n.changed = k.changed
          /\ n.status = IF gone THEN NoStatus ELSE k.status
      BY <2>6 DEF IsComponent, Fields
    <2> HIDE DEF n
    <2>8. CompOK(n)
      BY <2>5, <2>7, StatusIs DEF CompOK
    <2>9. n.status = published'
      BY <1>1, <2>4, <2>5, <2>7
    <2>10. Nvidia => NvOK(Rec, claims', n)
      <3>1. HAVE Nvidia
      <3>2. NvOK(Rec, claims, c)
        BY <1>1, <3>1 DEF KeptOK
      <3>3. ~c.contended /\ k = c /\ claims' = claims
        BY <2>4, <2>5, <3>2 DEF NvOK
      <3>4. /\ n.status.applied.on = NoClocks \/ n.status.applied.on = Rec[1]
            /\ n.status.result # "drift"
        BY <2>7, <3>2, <3>3, StatusIs, FineIs DEF NvOK
      <3> HIDE DEF Rec
      <3> QED
        BY <2>7, <3>2, <3>3, <3>4 DEF NvOK
    <2>11. ~Nvidia => AmdOK(Loaded.od, claims', dev, n.changed)
      <3>1. HAVE ~Nvidia
      <3>2. AmdOK(odDevices, claims, dev, c.changed)
        BY <1>1, <3>1 DEF KeptOK
      <3> QED
        BY <1>2, <2>4, <2>5, <2>7, <3>2 DEF AmdOK
    <2> QED
      BY <2>1, <2>2, <2>3, <2>8, <2>9, <2>10, <2>11, KeepsKeeps
  <1> QED
    BY <1>4, <1>5, <1>6

(* hold: the status of a node the agent may not write names nothing.       *)
LEMMA HoldKeeps ==
    ASSUME RecordInv, Hold
    PROVE  RecordInv' /\ Sparing
  <1> DEFINE st == [NoStatus EXCEPT !.result = IF mode = "readonly" THEN "disabled" ELSE "error"]
             n == [c EXCEPT !.intent = "none", !.statusWritten = TRUE, !.status = st]
  <1>1. PICK found \in Founds : KeepsNode(found)
    BY DEF Hold
  <1>2. found \in BOOLEAN
    BY DEF Founds
  <1>3. c' = n /\ published' = st /\ claims' = claims /\ loaded
    BY DEF Hold
  <1>4. KeptOK(c) /\ CompOK(c) /\ Loaded.od = odDevices
    BY <1>3, LoadedKept, LoadedIs DEF KeptOK
  <1>5. Named(st) /\ st.applied.on = NoClocks /\ st.result # "drift"
    <2>1. IsStatus(NoStatus) /\ NoStatus.applied.on = NoClocks
      BY StatusIs DEF Named
    <2> QED
      BY <2>1 DEF IsStatus, Named
  <1> HIDE DEF st
  <1>6. /\ CompOK(n) /\ n.status = st /\ n.expect = c.expect /\ n.contended = c.contended
        /\ n.drifted = c.drifted /\ n.changed = c.changed
    BY <1>4, <1>5 DEF CompOK, IsComponent, Fields
  <1> HIDE DEF n
  <1>7. Nvidia => NvOK(Rec, claims', n)
    <2> HIDE DEF Rec
    <2> QED
      BY <1>3, <1>4, <1>5, <1>6 DEF KeptOK, NvOK
  <1>8. ~Nvidia => AmdOK(Loaded.od, claims', dev, n.changed)
    BY <1>3, <1>4, <1>6 DEF KeptOK
  <1> QED
    BY <1>1, <1>2, <1>3, <1>6, <1>7, <1>8, KeepsKeeps

(* step: every write and every check of an intent.                         *)
LEMMA StepKeeps ==
    ASSUME RecordInv,
           \/ StepWait \/ StepNewIntent \/ StepRetry \/ StepReissue \/ VerifyNvidia
           \/ CheckHolds \/ CheckDropped \/ CheckReset \/ CheckDrifts
    PROVE  RecordInv' /\ Sparing
  <1>0. loaded /\ spec # "none"
    BY DEF StepWait, StepNewIntent, StepRetry, StepReissue, VerifyNvidia, CheckHolds, CheckDropped, CheckReset,
           CheckDrifts, Checking, Watching, Stepping, Releasing
  <1>1. KeptOK(c) /\ CompOK(c)
    BY <1>0, LoadedKept DEF KeptOK
  <1>2. spec \in PresetNames
    BY <1>0 DEF RecordInv
  <1>3. Nvidia => c.expect = {} /\ ~c.contended /\ ~c.drifted /\ c.status.result # "drift"
    BY <1>1 DEF KeptOK, NvOK
  <1>4. Differs # {} => ~Nvidia
    BY <1>3 DEF Differs
  <1>5. ASSUME NEW k, KeptOK(k), NEW good, NEW g2, NEW o \in Writes(k, good), Takes(o, g2)
        PROVE  RecordInv' /\ Sparing
    BY <1>2, <1>5, WritesOut, TakesOut
  <1>6. CASE StepWait
    BY <1>1, <1>6, ReportsOut DEF StepWait
  <1>7. CASE StepNewIntent
    <2> DEFINE k == startIntent(c, spec)
               none == [g \in GPUs |-> 0]
    <2>1. CompOK(k) /\ k.expect = {} /\ ~k.contended /\ ~k.drifted /\ k.changed = c.changed /\ k.status = c.status
      BY <1>1, StartIntentIs
    <2>2. PICK o \in Writes(k, none) : Takes(o, none)
      BY <1>7 DEF StepNewIntent
    <2> HIDE DEF k, none
    <2>3. KeptOK(k)
      BY <1>1, <1>3, <2>1, KeptSame
    <2> QED
      BY <1>5, <2>2, <2>3
  <1>8. CASE StepRetry
    <2>1. PICK o \in Writes(c, nvGood) : Takes(o, nvGood)
      BY <1>8 DEF StepRetry
    <2> QED
      BY <1>1, <1>5, <2>1
  <1>9. CASE StepReissue
    <2>1. PICK o \in Writes(c, nvGood), bw \in Clocks :
             Takes([o EXCEPT !.comp = Verified(o.comp, o.nv, bw[1], bw[2]).comp], Verified(o.comp, o.nv, bw[1], bw[2]).good)
      BY <1>9 DEF StepReissue
    <2>2. Nvidia
      BY <1>9 DEF StepReissue, nvidiaReissueDue
    <2>3. OutOK(o)
      BY <1>1, <1>2, <2>1, WritesOut
    <2> DEFINE n == Verified(o.comp, o.nv, bw[1], bw[2]).comp
               p == [o EXCEPT !.comp = n]
    <2>4. NvOK(o.nv, o.claims, o.comp) /\ CompOK(o.comp)
      BY <2>2, <2>3 DEF OutOK
    <2>5. o.comp.status.result # "drift"
      BY <2>4 DEF NvOK
    <2>6. /\ CompOK(n) /\ n.status.applied = o.comp.status.applied /\ n.status.result # "drift"
          /\ n.expect = o.comp.expect /\ n.contended = o.comp.contended /\ ~n.drifted /\ n.changed = o.comp.changed
      BY <2>4, <2>5, VerifiedIs
    <2>7. Takes(p, Verified(o.comp, o.nv, bw[1], bw[2]).good)
      BY <2>1
    <2> HIDE DEF n
    <2>8. p.dev = o.dev /\ p.claims = o.claims /\ p.nv = o.nv /\ p.od = o.od /\ p.comp = n
      <3>1. \E cmds, rec, od, b, k : o = Outcome(cmds, rec, od, b, k)
        <4> DEFINE b == NextBaseline(TRUE)
        <4>1. o \in Apply(c, Rec, nvGood, odDevices, b, spec)
          BY <2>1 DEF Writes, Rec
        <4> HIDE DEF b
        <4>2. \/ \E e \in Ends(PlanOf(Rec, spec)) : o = Ended(c, Rec, nvGood, odDevices, b, spec, PlanOf(Rec, spec), e)
              \/ o = Unexpressed(c, Rec, odDevices, b)
          BY <4>1, ApplyIs
        <4> HIDE DEF Rec
        <4> QED
          BY <4>2, Zenon DEF Ended, Unexpressed
      <3> QED
        BY <3>1 DEF Outcome
    <2> HIDE DEF p
    <2>9. NvOK(o.nv, o.claims, n)
      BY <2>4, <2>6 DEF NvOK
    <2>10. OutOK(p)
      BY <2>2, <2>3, <2>6, <2>8, <2>9 DEF OutOK
    <2> QED
      BY <2>7, <2>10, TakesOut
  <1>10. CASE VerifyNvidia
    <2>1. PICK bw \in Clocks : Reports(Verified(c, Rec, bw[1], bw[2]).comp, Verified(c, Rec, bw[1], bw[2]).good)
      BY <1>10 DEF VerifyNvidia, Rec
    <2>2. Nvidia
      BY <1>10 DEF VerifyNvidia
    <2> HIDE DEF Rec
    <2> DEFINE n == Verified(c, Rec, bw[1], bw[2]).comp
    <2>3. /\ CompOK(n) /\ n.status.applied = c.status.applied /\ n.status.result # "drift"
          /\ n.expect = c.expect /\ n.contended = c.contended /\ ~n.drifted /\ n.changed = c.changed
      BY <1>1, <1>3, <2>2, VerifiedIs
    <2>4. Reports(n, Verified(c, Rec, bw[1], bw[2]).good)
      BY <2>1
    <2> HIDE DEF n
    <2>5. KeptOK(n)
      BY <1>1, <1>3, <2>2, <2>3, KeptSame
    <2> QED
      BY <2>4, <2>5, ReportsOut
  <1>11. CASE CheckHolds
    <2>1. Reports(checkHolds(c), nvGood) /\ ~Nvidia
      BY <1>11 DEF CheckHolds
    <2>2. KeptOK(checkHolds(c))
      BY <1>1, <2>1, CheckHoldsIs, KeptSame
    <2> QED
      BY <2>1, <2>2, ReportsOut
  <1>12. CASE CheckDropped
    <2>1. Reports(checkDropped(c), nvGood) /\ ~Nvidia
      BY <1>4, <1>12 DEF CheckDropped
    <2>2. KeptOK(checkDropped(c))
      BY <1>1, <2>1, CheckDroppedIs, KeptSame
    <2> QED
      BY <2>1, <2>2, ReportsOut
  <1>13. CASE CheckReset
    <2>1. PICK o \in Writes(c, nvGood) : Takes(o, nvGood)
      BY <1>13 DEF CheckReset
    <2> QED
      BY <1>1, <1>5, <2>1
  <1>14. CASE CheckDrifts
    <2> DEFINE k == IF c.drifted THEN c ELSE checkDrift(c)
    <2>1. /\ ~Nvidia
          /\ (\E o \in Writes(k, nvGood) : Takes(o, nvGood)) \/ Reports(k, nvGood)
      BY <1>4, <1>14 DEF CheckDrifts
    <2>2. KeptOK(checkDrift(c))
      BY <1>1, <2>1, CheckDriftIs, KeptSame
    <2>3. KeptOK(k)
      BY <1>1, <2>2
    <2> HIDE DEF k
    <2> QED
      BY <1>5, <2>1, <2>3, ReportsOut
  <1> QED
    BY <1>6, <1>7, <1>8, <1>9, <1>10, <1>11, <1>12, <1>13, <1>14

(* What is loaded rests on the same state.                                 *)
LEMMA LoadedSame ==
    ASSUME UNCHANGED <<vendor, loaded, seeded, nv, odDevices, published, c>>
    PROVE  Rec' = Rec /\ (Loaded.comp)' = Loaded.comp /\ (Loaded.od)' = Loaded.od
  BY DEF Rec, seedNvidia, Loaded, seed, Nvidia, governorResultWrote

(* The passing of a tick.                                                  *)
LEMMA TickKeeps ==
    ASSUME RecordInv, Tick
    PROVE  RecordInv' /\ Sparing
  <1>1. /\ UNCHANGED <<vendor, dev, claims, spec, loaded, seeded, nv, odDevices, published>> /\ c' = Aged(c)
    BY DEF Tick, nodeVars, recordVars
  <1>2. CompOK(c)
    BY DEF RecordInv
  <1>3. /\ CompOK(Aged(c)) /\ Aged(c).expect = c.expect /\ Aged(c).contended = c.contended
        /\ Aged(c).drifted = c.drifted /\ Aged(c).changed = c.changed /\ Aged(c).status = c.status
    BY <1>2, AgedIs
  <1>4. Rec' = Rec /\ (Loaded.od)' = Loaded.od
    <2>1. (Loaded.locks)' = Loaded.locks /\ (Loaded.od)' = Loaded.od
      <3>1. CASE loaded
        BY <1>1, <3>1 DEF Loaded
      <3>2. CASE ~loaded
        <4> DEFINE w == governorResultWrote(published)
        <4>1. w' = w
          BY <1>1, Zenon
        <4> HIDE DEF w
        <4>2. Loaded.locks = (IF w /\ published.backend = "nvidia" THEN {published.applied.on} ELSE {})
              /\ Loaded.od = IF w /\ published.backend = "amd" /\ published.applied.on.gpu # "none" THEN GPUs ELSE {}
          BY <3>2, LoadedIs DEF w
        <4>3. (Loaded.locks)' = (IF w' /\ published'.backend = "nvidia" THEN {published'.applied.on} ELSE {})
              /\ (Loaded.od)' = IF w' /\ published'.backend = "amd" /\ published'.applied.on.gpu # "none" THEN GPUs ELSE {}
          BY <1>1, <3>2 DEF Loaded, seed, w
        <4> QED
          BY <1>1, <4>1, <4>2, <4>3
      <3> QED
        BY <3>1, <3>2
    <2>2. Nvidia' = Nvidia
      BY <1>1 DEF Nvidia
    <2> QED
      BY <1>1, <2>1, <2>2 DEF Rec, seedNvidia
  <1>5. LET n == (Loaded.comp)'
            k == Loaded.comp
        IN  n.expect = k.expect /\ n.contended = k.contended /\ n.drifted = k.drifted
            /\ n.changed = k.changed /\ n.status = k.status
    <2>1. CASE loaded
      BY <1>1, <1>3, <2>1 DEF Loaded
    <2>2. CASE ~loaded
      <3> DEFINE w == governorResultWrote(published)
                 s == published # NoStatus
                 a == Aged(c)
      <3>1. Loaded.comp = [c EXCEPT !.status = published, !.statusWritten = s, !.changed = w]
        BY <2>2, LoadedIs
      <3>2. (Loaded.comp)' = [a EXCEPT !.status = published, !.statusWritten = s, !.changed = w]
        <4>1. (Loaded.comp)' = [c' EXCEPT !.status = published', !.statusWritten = s', !.changed = w']
          BY <1>1, <2>2 DEF Loaded, seed
        <4>2. w' = w /\ s' = s
          BY <1>1, Zenon
        <4> QED
          BY <1>1, <4>1, <4>2
      <3> HIDE DEF w, s, a
      <3>3. IsComponent(c) /\ IsComponent(a) /\ a.expect = c.expect /\ a.contended = c.contended /\ a.drifted = c.drifted
        BY <1>2, <1>3 DEF CompOK, a
      <3> QED
        BY <3>1, <3>2, <3>3 DEF IsComponent, Fields
    <2> QED
      BY <2>1, <2>2
  <1>6. Nvidia => NvOK(Rec', claims', (Loaded.comp)')
    <2>1. HAVE Nvidia
    <2>2. NvOK(Rec, claims, Loaded.comp)
      BY <2>1 DEF RecordInv
    <2> HIDE DEF Rec
    <2> QED
      BY <1>1, <1>4, <1>5, <2>2 DEF NvOK
  <1>7. ~Nvidia => AmdOK((Loaded.od)', claims', dev', ((Loaded.comp)').changed)
    BY <1>1, <1>4, <1>5 DEF RecordInv
  <1>8. /\ vendor \in Vendors /\ spec' \in PresetNames \cup {"none"} /\ DevOK(dev')
        /\ CompOK(c') /\ Named(published') /\ (loaded' => c'.status = published')
    BY <1>1, <1>3 DEF RecordInv
  <1>9. Sparing
    BY <1>1 DEF Sparing
  <1> QED
    BY <1>1, <1>6, <1>7, <1>8, <1>9, InvNext

(* What the environment does to the GPUs and asks of them.                 *)
LEMMA EnvironmentKeeps ==
    ASSUME RecordInv, SpecChanges \/ RivalWrites \/ GPUReset \/ CalmDown
    PROVE  RecordInv' /\ (GPUReset \/ Sparing)
  <1>1. UNCHANGED <<vendor, loaded, seeded, nv, odDevices, published, c>>
    BY DEF SpecChanges, RivalWrites, GPUReset, CalmDown, nodeVars, agentVars, recordVars
  <1>2. Rec' = Rec /\ (Loaded.comp)' = Loaded.comp /\ (Loaded.od)' = Loaded.od
    BY <1>1, LoadedSame
  <1>3. vendor \in Vendors /\ CompOK(c') /\ Named(published') /\ (loaded' => c'.status = published')
    BY <1>1 DEF RecordInv
  <1>4. DevOK(dev) /\ spec \in PresetNames \cup {"none"}
    BY DEF RecordInv
  <1>5. CASE SpecChanges \/ CalmDown
    <2>1. dev' = dev /\ claims' = claims
      BY <1>5 DEF SpecChanges, CalmDown, nodeVars
    <2>2. spec' \in PresetNames \cup {"none"}
      <3>1. CASE SpecChanges
        BY <1>3, <3>1, GPUAssumption DEF SpecChanges
      <3>2. CASE CalmDown
        BY <1>4, <3>2 DEF CalmDown
      <3> QED
        BY <1>5, <3>1, <3>2
    <2>3. /\ Nvidia => NvOK(Rec', claims', (Loaded.comp)')
          /\ ~Nvidia => AmdOK((Loaded.od)', claims', dev', ((Loaded.comp)').changed)
      BY <1>2, <2>1 DEF RecordInv
    <2>4. Sparing
      BY <2>1 DEF Sparing
    <2> QED
      BY <1>1, <1>3, <1>4, <2>1, <2>2, <2>3, <2>4, InvNext
  <1>6. CASE RivalWrites
    <2>1. PICK g \in Rivals :
             dev' = [dev EXCEPT ![g] = IF Nvidia THEN [dev[g] EXCEPT !.gpu = "operator", !.mem = "operator"]
                                       ELSE [dev[g] EXCEPT !.level = "operator"]]
      BY <1>6 DEF RivalWrites
    <2>2. g \in GPUs
      BY GPUAssumption
    <2>3. claims' = claims /\ spec' = spec
      BY <1>6 DEF RivalWrites
    <2>4. DevOK(dev')
      BY <1>4, <2>1, <2>2 DEF DevOK, Attrs
    <2>5. \A h \in GPUs, a \in Attrs : dev'[h][a] = dev[h][a] \/ dev'[h][a] = "operator"
      BY <1>4, <2>1, <2>2 DEF DevOK, Attrs
    <2>6. Sparing
      BY <2>5 DEF Sparing, Domains, Attrs
    <2>7. Nvidia => NvOK(Rec', claims', (Loaded.comp)')
      BY <1>2, <2>3 DEF RecordInv
    <2>8. ~Nvidia => AmdOK((Loaded.od)', claims', dev', ((Loaded.comp)').changed)
      <3>1. HAVE ~Nvidia
      <3>2. AmdOK(Loaded.od, claims, dev, Loaded.comp.changed)
        BY <3>1 DEF RecordInv
      <3>3. \A h \in GPUs : dev'[h].level = dev[h].level \/ dev'[h].level = "operator"
        BY <2>5 DEF Attrs
      <3> QED
        BY <1>2, <2>3, <3>2, <3>3 DEF AmdOK
    <2> QED
      BY <1>1, <1>3, <1>4, <2>3, <2>4, <2>6, <2>7, <2>8, InvNext
  <1>7. CASE GPUReset
    <2>1. PICK g \in Resets : /\ dev' = [dev EXCEPT ![g] = VendorDefault]
                              /\ claims' = IF Nvidia THEN claims ELSE claims \ ({g} \X {"level", "sclk"})
      BY <1>7 DEF GPUReset
    <2>2. g \in GPUs
      BY GPUAssumption
    <2>3. spec' = spec
      BY <1>7 DEF GPUReset
    <2>4. DevOK(dev')
      BY <1>4, <2>1, <2>2 DEF DevOK, Attrs, VendorDefault
    <2>5. Nvidia => NvOK(Rec', claims', (Loaded.comp)')
      BY <1>2, <2>1 DEF RecordInv
    <2>6. ~Nvidia => AmdOK((Loaded.od)', claims', dev', ((Loaded.comp)').changed)
      <3>1. HAVE ~Nvidia
      <3>2. AmdOK(Loaded.od, claims, dev, Loaded.comp.changed)
        BY <3>1 DEF RecordInv
      <3>3. \A h \in GPUs : h # g => dev'[h] = dev[h]
        BY <1>4, <2>1 DEF DevOK
      <3>4. claims' \subseteq claims /\ <<g, "sclk">> \notin claims'
        BY <2>1, <3>1
      <3> QED
        BY <1>2, <3>2, <3>3, <3>4 DEF AmdOK
    <2> QED
      BY <1>1, <1>3, <1>4, <1>7, <2>3, <2>4, <2>5, <2>6, InvNext
  <1> QED
    BY <1>5, <1>6, <1>7

(* A kill under a status that names what the agent holds: the next run is  *)
(* seeded with it.                                                         *)
LEMMA RestartKeeps ==
    ASSUME RecordInv, Restart, Restarts # "any"
    PROVE  RecordInv' /\ Sparing
  <1> DEFINE w == governorResultWrote(published)
             on == published.applied.on
             s == published # NoStatus
             n == [NewComponent EXCEPT !.status = published, !.statusWritten = s, !.changed = w]
  <1>1. /\ UNCHANGED <<vendor, dev, claims, spec, published>> /\ loaded /\ ~loaded'
        /\ nv' = NoRecord /\ c' = NewComponent /\ StatusNamesAll
    BY DEF Restart, nodeVars
  <1>2. KeptOK(c) /\ c.status = published /\ Named(published) /\ DevOK(dev)
    BY <1>1, LoadedKept DEF RecordInv
  <1>3. Rec = nv
    BY <1>1, LoadedIs DEF Rec, seedNvidia, StatusNamesAll
  <1>4. /\ (Loaded.comp)' = n
        /\ (Loaded.locks)' = IF w /\ published.backend = "nvidia" THEN {on} ELSE {}
        /\ (Loaded.od)' = IF w /\ published.backend = "amd" /\ on.gpu # "none" THEN GPUs ELSE {}
    <2>1. w' = w /\ s' = s /\ on' = on
      BY <1>1, Zenon
    <2>2. /\ (Loaded.comp)' = [c' EXCEPT !.status = published', !.statusWritten = s', !.changed = w']
          /\ (Loaded.locks)' = IF w' /\ published'.backend = "nvidia" THEN {on'} ELSE {}
          /\ (Loaded.od)' = IF w' /\ published'.backend = "amd" /\ on'.gpu # "none" THEN GPUs ELSE {}
      BY <1>1 DEF Loaded, seed
    <2> HIDE DEF w, s, on
    <2> QED
      BY <1>1, <2>1, <2>2
  <1>5. /\ c.changed => w
        /\ \A g \in GPUs : nv[g] = NoClocks \/ nv[g] = on
        /\ \A g, h \in GPUs : nv[g] = nv[h]
        /\ odDevices # {} => on.gpu # "none"
    BY <1>1 DEF StatusNamesAll
  <1>6. /\ CompOK(NewComponent) /\ NewComponent.expect = {} /\ ~NewComponent.contended /\ ~NewComponent.drifted
    <2>1. Named(NoStatus)
      BY StatusIs
    <2> QED
      BY <2>1 DEF NewComponent, CompOK, IsComponent, Fields
  <1> HIDE DEF w, s
  <1>7. n.status = published /\ n.changed = w /\ n.expect = {} /\ ~n.contended /\ ~n.drifted
    BY <1>6 DEF CompOK, IsComponent, Fields
  <1>8. on # NoClocks => published.backend = vendor
    BY <1>2 DEF Named
  <1> HIDE DEF n
  <1>9. Nvidia => NvOK(Rec', claims', (Loaded.comp)')
    <2>1. HAVE Nvidia
    <2>2. NvOK(nv, claims, c)
      BY <1>2, <1>3, <2>1 DEF KeptOK
    <2>3. nv = [g \in GPUs |-> nv[g]] /\ 1 \in GPUs
      BY <2>2, GPUAssumption DEF NvOK, RecOK, GPUs
    <2>4. on = NoClocks \/ on = nv[1]
      BY <1>2, <2>2 DEF NvOK
    <2>5. nv # NoRecord => c.changed
      BY <2>2 DEF NvOK
    <2>6. Nvidia' /\ vendor = "nvidia"
      BY <1>1, <2>1 DEF Nvidia
    <2>7. Rec' = IF (Loaded.locks)' # {} THEN [g \in GPUs |-> CHOOSE x \in (Loaded.locks)' : TRUE] ELSE NoRecord
      BY <1>1, <2>6 DEF Rec, seedNvidia
    <2> HIDE DEF Rec
    <2>8. Rec' = nv
      <3> HIDE DEF on
      <3>1. CASE w /\ published.backend = "nvidia"
        <4>1. (Loaded.locks)' = {on} /\ (CHOOSE x \in {on} : TRUE) = on
          BY <1>4, <3>1
        <4>2. Rec' = [g \in GPUs |-> on]
          BY <2>7, <4>1
        <4>3. \A g \in GPUs : nv[g] = on
          BY <1>5, <2>3, <2>4
        <4> QED
          BY <2>3, <4>2, <4>3
      <3>2. CASE ~(w /\ published.backend = "nvidia")
        <4>1. Rec' = NoRecord
          BY <1>4, <2>7, <3>2
        <4>2. nv = NoRecord
          <5>1. CASE ~w
            BY <1>5, <2>5, <5>1
          <5>2. CASE published.backend # "nvidia"
            <6>1. on = NoClocks
              BY <1>8, <2>6, <5>2
            <6>2. \A g \in GPUs : nv[g] = NoClocks
              BY <1>5, <6>1
            <6> QED
              BY <2>3, <6>2 DEF NoRecord
          <5> QED
            BY <3>2, <5>1, <5>2
        <4> QED
          BY <4>1, <4>2
      <3> QED
        BY <3>1, <3>2
    <2>9. published.result # "drift"
      BY <1>2, <2>2 DEF NvOK
    <2>10. NvOK(nv, claims, n)
      BY <1>5, <1>7, <2>2, <2>4, <2>5, <2>9 DEF NvOK, on
    <2> QED
      BY <1>1, <1>4, <2>8, <2>10
  <1>10. ~Nvidia => AmdOK((Loaded.od)', claims', dev', ((Loaded.comp)').changed)
    <2>1. HAVE ~Nvidia
    <2>2. AmdOK(odDevices, claims, dev, c.changed)
      BY <1>2, <2>1 DEF KeptOK
    <2>3. vendor = "amd"
      BY <2>1, GPUAssumption DEF RecordInv, Nvidia
    <2>4. odDevices # {} => published.backend = "amd"
      BY <1>5, <1>8, <2>3 DEF NoClocks
    <2> HIDE DEF on
    <2>5. ASSUME NEW g \in GPUs, <<g, "sclk">> \in claims
          PROVE  g \in (Loaded.od)' /\ n.changed
      BY <1>4, <1>5, <1>7, <2>2, <2>4, <2>5 DEF AmdOK
    <2>6. (Loaded.od)' \subseteq GPUs
      BY <1>4
    <2> QED
      BY <1>1, <1>4, <2>2, <2>5, <2>6 DEF AmdOK
  <1>11. /\ vendor \in Vendors /\ spec' \in PresetNames \cup {"none"} /\ DevOK(dev')
         /\ CompOK(c') /\ Named(published')
    BY <1>1, <1>2, <1>6 DEF RecordInv
  <1>12. Sparing
    BY <1>1 DEF Sparing
  <1> QED
    BY <1>1, <1>9, <1>10, <1>11, <1>12, InvNext

(* A new agent on a node it has not touched.                               *)
LEMMA StartsTrue ==
    ASSUME Init
    PROVE  RecordInv
  <1>1. /\ vendor \in Vendors /\ spec = "none" /\ claims = {} /\ published = NoStatus /\ ~loaded
        /\ nv = NoRecord /\ c = NewComponent
    BY DEF Init
  <1>2. DevOK(dev)
    <2>1. PICK l : dev = [g \in GPUs |-> [VendorDefault EXCEPT !.level = l]]
      BY DEF Init
    <2> QED
      BY <2>1 DEF DevOK, VendorDefault, Attrs
  <1>3. CompOK(NewComponent) /\ NewComponent.expect = {} /\ ~NewComponent.contended /\ ~NewComponent.drifted
    <2>1. Named(NoStatus)
      BY StatusIs
    <2> QED
      BY <2>1 DEF NewComponent, CompOK, IsComponent, Fields
  <1>4. published.backend = "none"
    BY <1>1, Zenon DEF NoStatus
  <1> DEFINE w == governorResultWrote(published)
             s == published # NoStatus
             n == [NewComponent EXCEPT !.status = published, !.statusWritten = s, !.changed = w]
  <1>5. Loaded.comp = n /\ Loaded.locks = {} /\ Loaded.od = {}
    BY <1>1, <1>4, LoadedIs
  <1> HIDE DEF w, s
  <1>6. n.status = NoStatus /\ n.expect = {} /\ ~n.contended /\ ~n.drifted
    BY <1>1, <1>3 DEF CompOK, IsComponent, Fields
  <1> HIDE DEF n
  <1>7. Rec = NoRecord
    BY <1>1, <1>5 DEF Rec, seedNvidia
  <1>8. RecOK(NoRecord) /\ Locked(NoRecord) = {}
    <2>1. \A g \in GPUs : NoRecord[g] = [a \in Domains |-> "none"]
      BY NoClocksIs DEF NoRecord
    <2>2. [a \in Domains |-> "none"] \in [Domains -> LockNames]
      BY DEF LockNames
    <2>3. NoRecord = [g \in GPUs |-> NoRecord[g]]
      BY DEF NoRecord
    <2> QED
      BY <2>1, <2>2, <2>3 DEF RecOK, Locked
  <1> HIDE DEF Rec
  <1>9. NvOK(Rec, claims, Loaded.comp)
    BY <1>1, <1>5, <1>6, <1>7, <1>8, StatusIs, FineIs DEF NvOK
  <1>10. AmdOK(Loaded.od, claims, dev, Loaded.comp.changed)
    BY <1>1, <1>5 DEF AmdOK
  <1> QED
    BY <1>1, <1>2, <1>3, <1>9, <1>10, StatusIs DEF RecordInv

(* Every step keeps the invariant, and none but a reset of the GPU takes   *)
(* an operator's lock away.                                                *)
LEMMA NextKeeps ==
    ASSUME Restarts # "any", RecordInv, [Next]_vars
    PROVE  RecordInv' /\ (GPUReset \/ Sparing)
  <1>1. CASE Load
    BY <1>1, LoadKeeps
  <1>2. CASE ReleaseWait \/ ReleaseRestore \/ ReleaseForget
    BY <1>2, ReleaseKeeps
  <1>3. CASE Hold
    BY <1>3, HoldKeeps
  <1>4. CASE \/ StepWait \/ StepNewIntent \/ StepRetry \/ StepReissue \/ VerifyNvidia
             \/ CheckHolds \/ CheckDropped \/ CheckReset \/ CheckDrifts
    BY <1>4, StepKeeps
  <1>5. CASE SpecChanges \/ RivalWrites \/ GPUReset \/ CalmDown
    BY <1>5, EnvironmentKeeps
  <1>6. CASE Restart
    BY <1>6, RestartKeeps
  <1>7. CASE Tick
    BY <1>7, TickKeeps
  <1>8. CASE UNCHANGED vars
    <2>1. UNCHANGED <<vendor, loaded, seeded, nv, odDevices, published, c, dev, claims, spec>>
      BY <1>8 DEF vars, nodeVars, agentVars, recordVars
    <2>2. Rec' = Rec /\ (Loaded.comp)' = Loaded.comp /\ (Loaded.od)' = Loaded.od
      BY <2>1, LoadedSame
    <2>3. /\ vendor \in Vendors /\ spec' \in PresetNames \cup {"none"} /\ DevOK(dev')
          /\ CompOK(c') /\ Named(published') /\ (loaded' => c'.status = published')
          /\ Nvidia => NvOK(Rec', claims', (Loaded.comp)')
          /\ ~Nvidia => AmdOK((Loaded.od)', claims', dev', ((Loaded.comp)').changed)
      BY <2>1, <2>2 DEF RecordInv
    <2>4. RecordInv'
      BY <2>1, <2>3, InvNext
    <2>5. Sparing
      BY <2>1 DEF Sparing
    <2> QED
      BY <2>4, <2>5
  <1> QED
    BY <1>1, <1>2, <1>3, <1>4, <1>5, <1>6, <1>7, <1>8 DEF Next, Reconcile

(* What the agent's record or the status it will be seeded from says is    *)
(* what the agent set, in every reachable state.                           *)
LEMMA RecordInvHolds ==
    ASSUME Restarts # "any"
    PROVE  Spec => []RecordInv
  <1>1. Init => RecordInv
    BY StartsTrue
  <1>2. RecordInv /\ [Next]_vars => RecordInv'
    BY NextKeeps
  <1> QED
    BY <1>1, <1>2, PTL DEF Spec

(* For every number of GPUs, tables and presets, and across failed plans,  *)
(* undone locks, resets, empty discoveries and restarts under a status     *)
(* that names the locks: the record of locks is what the agent set and has *)
(* not reset, and every range the agent edited is in odDevices             *)
(* (recordNvidia, undoNvidiaLocks, seedNvidia, restoreAMD).                *)
THEOREM RecordStaysTrue ==
    ASSUME Restarts # "any"
    PROVE  Spec => []RecordIsTrue
  <1>1. RecordInv => RecordIsTrue
    <2>1. SUFFICES ASSUME RecordInv, loaded, seeded = {}
                   PROVE  IF Nvidia THEN {ga \in GPUs \X {"gpu", "mem"} : nv[ga[1]][ga[2]] # "none"} = claims
                          ELSE {ga[1] : ga \in {x \in claims : x[2] = "sclk"}} \subseteq odDevices
      BY DEF RecordIsTrue
    <2>2. KeptOK(c) /\ Rec = nv
      BY <2>1, LoadedKept, LoadedIs DEF Rec, seedNvidia
    <2>3. CASE Nvidia
      BY <2>2, <2>3 DEF KeptOK, NvOK, Locked, Domains
    <2>4. CASE ~Nvidia
      <3>1. AmdOK(odDevices, claims, dev, c.changed)
        BY <2>2, <2>4 DEF KeptOK
      <3>2. ASSUME NEW ga \in claims, ga[2] = "sclk" PROVE ga[1] \in odDevices
        <4>1. PICK g \in GPUs, a \in Attrs : ga = <<g, a>>
          BY <3>1 DEF AmdOK
        <4>2. <<g, "sclk">> \in claims
          BY <3>2, <4>1
        <4> QED
          BY <3>1, <4>1, <4>2 DEF AmdOK
      <3> QED
        BY <2>4, <3>2
    <2> QED
      BY <2>3, <2>4
  <1> QED
    BY <1>1, RecordInvHolds, PTL

(* And a lock that an operator set is reset only where the agent had       *)
(* locked the domain itself, or the preset in force sets it (PlanNvidia).  *)
THEOREM OperatorLocksStay ==
    ASSUME Restarts # "any"
    PROVE  Spec => OperatorLockKept
  <1>1. RecordInv /\ [Next]_vars => GPUReset \/ Sparing
    BY NextKeeps
  <1>2. GPUReset \/ Sparing =>
          (GPUReset \/ \A g \in GPUs, a \in {"gpu", "mem"} :
            dev[g][a] = "operator" /\ dev'[g][a] = "none" =>
                <<g, a>> \in claims \/ (spec # "none" /\ chooseNvidia(g, spec).on[a] # "none"))
    BY DEF Sparing, Domains
  <1> QED
    BY <1>1, <1>2, RecordInvHolds, PTL DEF Spec, OperatorLockKept
============================================================================
