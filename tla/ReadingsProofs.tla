--------------------------- MODULE ReadingsProofs ---------------------------
(***************************************************************************)
(* What an emulated node shows of its energy is durable: the live view and *)
(* the emulator each implement DurableCounter, for any number of nodes,    *)
(* clusters and simulators, and any number of crashes, failed steps and    *)
(* failed writes.  The writes a live view took survive a restart, and the  *)
(* facility's IT energy is the energy of its hosts.                        *)
(***************************************************************************)
EXTENDS Readings, Totals, TLAPS

(***************************************************************************)
(* The live view.                                                          *)
(***************************************************************************)


(* A live view, its clock, its callers and its root.                       *)
LiveSpec == LiveInit /\ [][LiveNext]_liveVars

(* The caps of a tree: 0 is a limit that is off.                           *)
CapStates == [rapl : {0, 2, 4, 6}, hsmp : {0, 2, 4, 6}, amd : {2, 4, 6}]

(* The files of a tree that shows a state of the caps.                     *)
Shows(st) == [f \in Caps |-> <<current(f, st)>>]

(* The files of the caps are those of RAPL, HSMP and amdgpu.               *)
LEMMA CapsAre == Caps = {"rapl", "hsmp", "amd"}
  <1>1. afiles("caps") = <<"rapl", "hsmp", "amd">>
    BY DEF afiles
  <1> QED
    BY <1>1 DEF Caps, FilesOf

(* The caps of a fresh tree.                                               *)
LEMMA BootIs == Boot("caps") = [rapl |-> 4, hsmp |-> 6, amd |-> 6]
  BY DEF Boot, CapMax

(* What each cap file shows of the state.                                  *)
LEMMA CurrentIs ==
    ASSUME NEW st
    PROVE  current("rapl", st) = st.rapl /\ current("hsmp", st) = st.hsmp /\ current("amd", st) = st.amd
  BY DEF current

(* The handler of each cap file.                                           *)
LEMMA HandleIs ==
    ASSUME NEW st, NEW v, NEW seeding
    PROVE  /\ handle("rapl", st, v, seeding) = limitHandler(st, v)
           /\ handle("hsmp", st, v, seeding) = hsmpCapHandler(st, v)
           /\ handle("amd", st, v, seeding) = amdgpuCapHandler(st, v)
  BY DEF handle

(* A handler leaves a state of the caps, whether it takes or refuses.      *)
LEMMA HandlerKeeps ==
    ASSUME NEW st \in CapStates, NEW f \in Caps, NEW v \in LiveValues
    PROVE  handle(f, st, v, FALSE).st \in CapStates
  <1>1. v \in {5, 9}
    BY DEF LiveValues
  <1>2. limitHandler(st, v).st \in CapStates
    BY <1>1 DEF limitHandler, Taken, Refused, Bad, nodeRAPLLimitUW, Unit, Field, CapStates
  <1>3. hsmpCapHandler(st, v).st \in CapStates
    <2>1. Min({(v \div Unit) * Unit, CapMax}) \in {4, 6}
      BY <1>1 DEF Min, Unit, CapMax
    <2> QED
      BY <1>1, <2>1 DEF hsmpCapHandler, Taken, Refused, Bad, CapStates
  <1>4. amdgpuCapHandler(st, v).st \in CapStates
    BY <1>1 DEF amdgpuCapHandler, Taken, Refused, Bad, Unit, CapMin, CapMax, CapStates
  <1> QED
    BY <1>2, <1>3, <1>4, CapsAre, HandleIs

(* Each handler takes what its own file shows for the state it is seeded   *)
(* with, whatever the other fields hold.                                   *)
LEMMA HandlerTakesShown ==
    ASSUME NEW st \in CapStates, NEW x \in CapStates
    PROVE  /\ limitHandler(x, st.rapl).st = [x EXCEPT !.rapl = st.rapl]
           /\ hsmpCapHandler(x, st.hsmp).st = [x EXCEPT !.hsmp = st.hsmp]
           /\ amdgpuCapHandler(x, st.amd).st = [x EXCEPT !.amd = st.amd]
  <1>1. st.rapl \in {0, 2, 4, 6} /\ st.hsmp \in {0, 2, 4, 6} /\ st.amd \in {2, 4, 6}
    BY DEF CapStates
  <1>2. nodeRAPLLimitUW(st.rapl) = st.rapl
    BY <1>1 DEF nodeRAPLLimitUW, Unit, Field
  <1>3. Min({(st.hsmp \div Unit) * Unit, CapMax}) = st.hsmp
    BY <1>1 DEF Min, Unit, CapMax
  <1>4. (st.amd \div Unit) * Unit = st.amd
    BY <1>1 DEF Unit
  <1>5. limitHandler(x, st.rapl).st = [x EXCEPT !.rapl = st.rapl]
    BY <1>1, <1>2 DEF limitHandler, Taken, Refused, Bad
  <1>6. hsmpCapHandler(x, st.hsmp).st = [x EXCEPT !.hsmp = st.hsmp]
    BY <1>1, <1>3 DEF hsmpCapHandler, Taken, Refused, Bad
  <1>7. amdgpuCapHandler(x, st.amd).st = [x EXCEPT !.amd = st.amd]
    BY <1>1, <1>4 DEF amdgpuCapHandler, Taken, Refused, Bad, CapMin, CapMax
  <1> QED
    BY <1>5, <1>6, <1>7

(* Seeding from the files that show a state gives that state back.         *)
LEMMA SeedTakesShown ==
    ASSUME NEW st \in CapStates
    PROVE  seedFrom("caps", Shows(st)) = st
  <1> DEFINE c == Shows(st)
             b == Boot("caps")
             s1 == [b EXCEPT !.rapl = st.rapl]
             s2 == [s1 EXCEPT !.hsmp = st.hsmp]
             order == seedOrder("caps")
             step(f, x) == seedSaved(f, IF c[f] = <<>> THEN x ELSE handle(f, x, c[f][1], TRUE).st)
             is(g) == g = [i \in 0..Len(order) |->
                             IF i = 0 THEN seedTables("caps", b, c) ELSE step(order[i], g[i - 1])]
  <1>1. order = <<"rapl", "hsmp", "amd">>
    BY DEF seedOrder, afiles
  <1>2. seedFrom("caps", c) = (CHOOSE g : is(g))[Len(order)]
    BY Zenon DEF seedFrom
  <1>3. b \in CapStates /\ s1 \in CapStates /\ s2 \in CapStates /\ [s2 EXCEPT !.amd = st.amd] = st
    <2>1. b = [rapl |-> 4, hsmp |-> 6, amd |-> 6]
      BY BootIs
    <2> HIDE DEF b
    <2>2. s1 = [rapl |-> st.rapl, hsmp |-> 6, amd |-> 6]
      BY <2>1
    <2> HIDE DEF s1
    <2>3. s2 = [rapl |-> st.rapl, hsmp |-> st.hsmp, amd |-> 6]
      BY <2>2
    <2> HIDE DEF s2
    <2> QED
      BY <2>1, <2>2, <2>3 DEF CapStates
  <1>4. /\ c["rapl"] # <<>> /\ c["rapl"][1] = st.rapl
        /\ c["hsmp"] # <<>> /\ c["hsmp"][1] = st.hsmp
        /\ c["amd"] # <<>> /\ c["amd"][1] = st.amd
    <2>1. c["rapl"] = <<st.rapl>> /\ c["hsmp"] = <<st.hsmp>> /\ c["amd"] = <<st.amd>>
      BY CapsAre, CurrentIs DEF Shows
    <2> HIDE DEF c
    <2> QED
      BY <2>1
  <1>5. \A x : seedSaved("rapl", x) = x /\ seedSaved("hsmp", x) = x /\ seedSaved("amd", x) = x
    BY DEF seedSaved
  <1>6. seedTables("caps", b, c) = b
    BY DEF seedTables
  <1>7. step("rapl", b) = s1
    <2>1. step("rapl", b) = limitHandler(b, st.rapl).st
      <3> HIDE DEF c, b
      <3>1. handle("rapl", b, st.rapl, TRUE) = limitHandler(b, st.rapl)
        BY HandleIs
      <3> QED
        BY <1>4, <1>5, <3>1
    <2> HIDE DEF c, b, step
    <2> QED BY <2>1, <1>3, HandlerTakesShown
  <1>8. step("hsmp", s1) = s2
    <2>1. step("hsmp", s1) = hsmpCapHandler(s1, st.hsmp).st
      <3> HIDE DEF c, b, s1
      <3>1. handle("hsmp", s1, st.hsmp, TRUE) = hsmpCapHandler(s1, st.hsmp)
        BY HandleIs
      <3> QED
        BY <1>4, <1>5, <3>1
    <2> HIDE DEF c, b, step, s1
    <2> QED BY <2>1, <1>3, HandlerTakesShown
  <1>9. step("amd", s2) = st
    <2>1. step("amd", s2) = amdgpuCapHandler(s2, st.amd).st
      <3> HIDE DEF c, b, s2
      <3>1. handle("amd", s2, st.amd, TRUE) = amdgpuCapHandler(s2, st.amd)
        BY HandleIs
      <3> QED
        BY <1>4, <1>5, <3>1
    <2>2. step("amd", s2) = [s2 EXCEPT !.amd = st.amd]
      <3> HIDE DEF c, b, step, s1, s2
      <3> QED BY <2>1, <1>3, HandlerTakesShown
    <2> HIDE DEF c, b, step, s1, s2
    <2> QED BY <2>2, <1>3
  <1> HIDE DEF c, b, step, s1, s2, order
  <1>10. \E g : is(g)
    <2> DEFINE h == [i \in 0..3 |-> IF i = 0 THEN b ELSE IF i = 1 THEN s1 ELSE IF i = 2 THEN s2 ELSE st]
    <2>1. is(h)
      BY <1>1, <1>6, <1>7, <1>8, <1>9
    <2> HIDE DEF h
    <2> QED BY <2>1
  <1>11. \A g : is(g) => g[3] = st
    <2> SUFFICES ASSUME NEW g, is(g) PROVE g[3] = st
      OBVIOUS
    <2>1. g[0] = b /\ g[1] = step("rapl", g[0]) /\ g[2] = step("hsmp", g[1]) /\ g[3] = step("amd", g[2])
      BY <1>1, <1>6
    <2> QED
      BY <2>1, <1>7, <1>8, <1>9
  <1>12. Len(order) = 3
    BY <1>1
  <1> HIDE DEF is
  <1>13. is(CHOOSE g : is(g))
    BY <1>10
  <1> USE DEF c
  <1> QED
    BY <1>2, <1>11, <1>12, <1>13

(* The type of the state of the live view.                                 *)
LiveTypeOK ==
    /\ clock \in Nat
    /\ root \in [render : Nat, energy : Nat, a : [Caps -> Seq(Int)]]
    /\ live \in [up : BOOLEAN, now : Nat, start : Nat, seed : Nat, last : Nat, model : CapStates]
    /\ read \in [start : Nat, j : Nat]
    /\ took \in CapStates /\ unsaved \in BOOLEAN

(* The tree is no younger than the clock, a node's energy is time since    *)
(* its tree was rendered, and what was read of this tree is on disk.       *)
LiveEnergyInv ==
    /\ root.render <= clock + 1 /\ root.energy <= clock
    /\ live.up => /\ root.render # 0 /\ live.last = root.energy /\ live.last <= Energy(live)
                  /\ live.seed <= live.start /\ live.start <= live.now /\ live.now <= clock
    /\ read.j <= clock
    /\ root.render # 0 => read.start <= root.render
    /\ root.render # 0 /\ read.start = root.render => read.j <= root.energy

(* The files show a state of the driver, the one the writers were told of  *)
(* unless a write through is due.                                          *)
LiveFilesInv ==
    /\ live.up => live.model = took
    /\ root.render # 0 => \E st \in CapStates : root.a = Shows(st)
    /\ root.render # 0 /\ ~unsaved => root.a = Shows(took)

(* The inductive invariant of the live view.                               *)
LiveInv == LiveTypeOK /\ LiveEnergyInv /\ LiveFilesInv

(* What the files show is one value per file.                              *)
LEMMA ShowsType == \A st \in CapStates : Shows(st) \in [Caps -> Seq(Int)]
  BY CapsAre, CurrentIs DEF Shows, CapStates

(* A fresh tree is a state of the caps.                                    *)
LEMMA BootType == Boot("caps") \in CapStates
  BY BootIs DEF CapStates

(* No root and no live node at first.                                      *)
LEMMA LiveInitInv == LiveInit => LiveInv
  <1> SUFFICES ASSUME LiveInit PROVE LiveInv
    OBVIOUS
  <1>1. LiveTypeOK
    <2>1. NoRoot \in [render : Nat, energy : Nat, a : [Caps -> Seq(Int)]]
      BY DEF NoRoot
    <2>2. NoNode \in [up : BOOLEAN, now : Nat, start : Nat, seed : Nat, last : Nat, model : CapStates]
      BY BootType DEF NoNode
    <2> QED
      BY <2>1, <2>2, BootType DEF LiveInit, LiveTypeOK
  <1>2. LiveEnergyInv
    BY DEF LiveInit, LiveEnergyInv, NoRoot, NoNode
  <1>3. LiveFilesInv
    BY DEF LiveInit, LiveFilesInv, NoRoot, NoNode
  <1> QED
    BY <1>1, <1>2, <1>3 DEF LiveInv

(* NewLiveNode: a fresh tree, or the state the files of the root show.     *)
LEMMA NewLiveNodeInv == LiveInv /\ NewLiveNode => LiveInv'
  <1> SUFFICES ASSUME LiveInv, NewLiveNode PROVE LiveInv'
    OBVIOUS
  <1> DEFINE r == Ensure(root)
             st == seedFrom("caps", r.a)
  <1>1. /\ root' = r /\ took' = st /\ unsaved' = FALSE /\ clock' = clock /\ read' = read
        /\ live' = [up |-> TRUE, now |-> clock, start |-> clock, seed |-> r.energy, last |-> r.energy, model |-> st]
        /\ root.render = 0 => clock >= read.start
    BY DEF NewLiveNode
  <1>2. PICK sh \in CapStates : r.a = Shows(sh)
    BY BootType DEF Ensure, Shows, LiveInv, LiveFilesInv
  <1>3. st = sh
    BY <1>2, SeedTakesShown
  <1>4. r \in [render : Nat, energy : Nat, a : [Caps -> Seq(Int)]] /\ r.render # 0
    BY <1>2, ShowsType, BootType DEF Ensure, Shows, LiveInv, LiveTypeOK
  <1>5. /\ r.render <= clock + 1 /\ r.energy <= clock /\ read.start <= r.render
        /\ read.start = r.render => read.j <= r.energy
    BY <1>1 DEF Ensure, LiveInv, LiveTypeOK, LiveEnergyInv
  <1> HIDE DEF r, st
  <1>6. LiveTypeOK'
    BY <1>1, <1>3, <1>4 DEF LiveInv, LiveTypeOK
  <1>7. LiveEnergyInv'
    BY <1>1, <1>4, <1>5 DEF LiveInv, LiveTypeOK, LiveEnergyInv, Energy
  <1>8. LiveFilesInv'
    BY <1>1, <1>2, <1>3 DEF LiveFilesInv
  <1> QED
    BY <1>6, <1>7, <1>8 DEF LiveInv

(* AdvanceTo accrues energy up to a time that is not after the clock.      *)
LEMMA AdvanceToInv ==
    ASSUME LiveInv, NEW t \in Nat, NEW ok \in BOOLEAN, Late(t), AdvanceTo(t, ok)
    PROVE  LiveInv'
  <1> DEFINE x == IF t < live.now THEN live.now ELSE t
             n == [live EXCEPT !.now = x]
  <1>1. /\ live.up /\ clock' = clock /\ read' = read /\ took' = took /\ unsaved' = (unsaved /\ ~ok)
        /\ live' = [n EXCEPT !.last = IF ok THEN Energy(n) ELSE n.last]
        /\ root' = IF ok THEN [writeThrough(root, n, TRUE) EXCEPT !.energy = Energy(n)] ELSE root
    BY DEF AdvanceTo
  <1>2. /\ n \in [up : BOOLEAN, now : Nat, start : Nat, seed : Nat, last : Nat, model : CapStates]
        /\ n.up /\ n.now <= clock /\ n.now >= live.now /\ n.model = took
        /\ n.start = live.start /\ n.seed = live.seed /\ n.last = live.last
    <2>1. x \in Nat /\ x <= clock /\ x >= live.now
      BY <1>1 DEF Late, LiveInv, LiveTypeOK, LiveEnergyInv
    <2>2. /\ live \in [up : BOOLEAN, now : Nat, start : Nat, seed : Nat, last : Nat, model : CapStates]
          /\ live.up /\ live.model = took
      BY <1>1 DEF LiveInv, LiveTypeOK, LiveFilesInv
    <2> HIDE DEF x
    <2> QED
      BY <2>1, <2>2
  <1> HIDE DEF n
  <1>3. Energy(n) \in Nat /\ Energy(n) <= clock /\ Energy(n) >= live.last
    BY <1>1, <1>2 DEF Energy, LiveInv, LiveTypeOK, LiveEnergyInv
  <1>4. /\ live' \in [up : BOOLEAN, now : Nat, start : Nat, seed : Nat, last : Nat, model : CapStates]
        /\ live'.up /\ live'.now = n.now /\ live'.start = n.start /\ live'.seed = n.seed /\ live'.model = took
        /\ live'.last = (IF ok THEN Energy(n) ELSE live.last) /\ Energy(live') = Energy(n)
    BY <1>1, <1>2, <1>3 DEF Energy
  <1>5. /\ root' \in [render : Nat, energy : Nat, a : [Caps -> Seq(Int)]]
        /\ root'.render = root.render /\ root'.energy = (IF ok THEN Energy(n) ELSE root.energy)
        /\ root'.a = IF ok THEN Shows(took) ELSE root.a
    BY <1>1, <1>2, <1>3, ShowsType DEF writeThrough, Shows, LiveInv, LiveTypeOK
  <1>6. LiveTypeOK'
    BY <1>1, <1>4, <1>5 DEF LiveInv, LiveTypeOK
  <1>7. LiveEnergyInv'
    <2>1. /\ clock \in Nat /\ root.energy \in Nat /\ root.render \in Nat /\ live.last = root.energy
          /\ read.j \in Nat /\ read.start \in Nat /\ root.render # 0 /\ root.render <= clock + 1
          /\ live.seed <= live.start /\ live.start <= live.now /\ live.now \in Nat /\ live.start \in Nat
          /\ root.energy <= clock
      BY <1>1 DEF LiveInv, LiveTypeOK, LiveEnergyInv
    <2>2. live'.last <= Energy(live') /\ root'.energy = live'.last
      BY <1>3, <1>4, <1>5, <2>1
    <2>3. root'.energy \in Nat /\ root'.energy <= clock /\ root'.energy >= root.energy
      BY <1>3, <1>5, <2>1
    <2>4. live'.seed <= live'.start /\ live'.start <= live'.now /\ live'.now <= clock
      BY <1>2, <1>4, <2>1
    <2>5. /\ read.j <= clock /\ read.start <= root.render
          /\ read.start = root.render => read.j <= root'.energy
      BY <2>1, <2>3 DEF LiveInv, LiveEnergyInv
    <2> QED
      BY <1>1, <1>5, <2>1, <2>2, <2>3, <2>4, <2>5 DEF LiveEnergyInv
  <1>8. LiveFilesInv'
    BY <1>1, <1>4, <1>5 DEF LiveInv, LiveTypeOK, LiveFilesInv
  <1> QED
    BY <1>6, <1>7, <1>8 DEF LiveInv

(* A read or a write first moves the node to its time.                     *)
LEMMA Advanced ==
    ASSUME LiveInv, NEW at \in Nat, Late(at), live.up
    PROVE  LET n == advanceLive(live, at)
           IN  /\ n \in [up : BOOLEAN, now : Nat, start : Nat, seed : Nat, last : Nat, model : CapStates]
               /\ n.up /\ n.now <= clock /\ n.now >= live.now /\ n.model = took
               /\ n.start = live.start /\ n.seed = live.seed /\ n.last = live.last
               /\ Energy(n) \in Nat /\ Energy(n) <= clock /\ Energy(n) >= live.last
  <1> DEFINE n == advanceLive(live, at)
  <1>1. /\ n \in [up : BOOLEAN, now : Nat, start : Nat, seed : Nat, last : Nat, model : CapStates]
        /\ n.up /\ n.now <= clock /\ n.now >= live.now /\ n.model = took
        /\ n.start = live.start /\ n.seed = live.seed /\ n.last = live.last
    <2>1. CASE at - live.now < 1
      BY <2>1 DEF advanceLive, LiveInv, LiveTypeOK, LiveEnergyInv, LiveFilesInv
    <2>2. CASE ~(at - live.now < 1)
      <3>1. at >= live.now /\ at <= clock
        BY <2>2 DEF Late, LiveInv, LiveTypeOK
      <3> QED
        BY <2>2, <3>1 DEF advanceLive, LiveInv, LiveTypeOK, LiveFilesInv
    <2> QED
      BY <2>1, <2>2
  <1> HIDE DEF n
  <1>2. Energy(n) \in Nat /\ Energy(n) <= clock /\ Energy(n) >= live.last
    BY <1>1 DEF Energy, LiveInv, LiveTypeOK, LiveEnergyInv
  <1> USE DEF n
  <1> QED
    BY <1>1, <1>2

(* What a read leaves: energy no further back, and never beyond the clock. *)
LEMMA LiveReadFields ==
    ASSUME LiveInv, NEW at \in Nat, NEW ok \in BOOLEAN, Late(at), LiveRead(at, ok)
    PROVE  /\ live.up /\ clock' = clock /\ took' = took /\ unsaved' = unsaved
           /\ live' \in [up : BOOLEAN, now : Nat, start : Nat, seed : Nat, last : Nat, model : CapStates]
           /\ root' \in [render : Nat, energy : Nat, a : [Caps -> Seq(Int)]]
           /\ live'.up /\ live'.now <= clock /\ live'.now >= live.now /\ live'.model = took
           /\ live'.start = live.start /\ live'.seed = live.seed
           /\ live'.last = root'.energy /\ live'.last <= Energy(live') /\ root'.energy <= clock
           /\ root'.render = root.render /\ root'.a = root.a /\ root'.energy >= root.energy
           /\ read' = read \/ (read' = [start |-> root.render, j |-> root'.energy])
  <1> DEFINE n == advanceLive(live, at)
             s == serve(n, root, ok)
  <1>1. /\ live.up /\ clock' = clock /\ took' = took /\ unsaved' = unsaved
        /\ live' = s.n /\ root' = s.r
        /\ read' = IF s.ok THEN [start |-> root.render, j |-> Energy(n)] ELSE read
    BY DEF LiveRead
  <1>2. /\ n \in [up : BOOLEAN, now : Nat, start : Nat, seed : Nat, last : Nat, model : CapStates]
        /\ n.up /\ n.now <= clock /\ n.now >= live.now /\ n.model = took
        /\ n.start = live.start /\ n.seed = live.seed /\ n.last = live.last
        /\ Energy(n) \in Nat /\ Energy(n) <= clock /\ Energy(n) >= live.last
    BY <1>1, Advanced
  <1>3. live.last = root.energy /\ root.energy <= clock /\ root \in [render : Nat, energy : Nat, a : [Caps -> Seq(Int)]]
    BY <1>1 DEF LiveInv, LiveTypeOK, LiveEnergyInv
  <1> HIDE DEF n
  <1>4. \/ s = [n |-> n, r |-> root, ok |-> TRUE] /\ Energy(n) = n.last
        \/ s = [n |-> [n EXCEPT !.last = Energy(n)], r |-> [root EXCEPT !.energy = Energy(n)], ok |-> TRUE]
        \/ s = [n |-> n, r |-> root, ok |-> FALSE]
    BY DEF serve
  <1> HIDE DEF s
  <1>5. CASE s = [n |-> n, r |-> root, ok |-> TRUE] /\ Energy(n) = n.last
    BY <1>1, <1>2, <1>3, <1>5
  <1>6. CASE s = [n |-> [n EXCEPT !.last = Energy(n)], r |-> [root EXCEPT !.energy = Energy(n)], ok |-> TRUE]
    <2>1. live' = [n EXCEPT !.last = Energy(n)] /\ root' = [root EXCEPT !.energy = Energy(n)]
          /\ read' = [start |-> root.render, j |-> Energy(n)]
      BY <1>1, <1>6
    <2>2. /\ live' \in [up : BOOLEAN, now : Nat, start : Nat, seed : Nat, last : Nat, model : CapStates]
          /\ live'.up /\ live'.now = n.now /\ live'.start = n.start /\ live'.seed = n.seed /\ live'.model = n.model
          /\ live'.last = Energy(n)
      BY <1>2, <2>1
    <2>3. Energy(live') = Energy(n)
      BY <2>2 DEF Energy
    <2>4. /\ root' \in [render : Nat, energy : Nat, a : [Caps -> Seq(Int)]]
          /\ root'.render = root.render /\ root'.a = root.a /\ root'.energy = Energy(n)
      BY <1>2, <1>3, <2>1
    <2>5. live'.last = root'.energy /\ live'.last <= Energy(live') /\ root'.energy <= clock /\ root'.energy >= root.energy
      BY <1>2, <1>3, <2>2, <2>3, <2>4
    <2>6. read' = [start |-> root.render, j |-> root'.energy]
      BY <2>1, <2>4
    <2> QED
      BY <1>1, <1>2, <2>2, <2>4, <2>5, <2>6
  <1>7. CASE s = [n |-> n, r |-> root, ok |-> FALSE]
    BY <1>1, <1>2, <1>3, <1>7
  <1> QED
    BY <1>4, <1>5, <1>6, <1>7

(* A read keeps the invariant, also when its write fails.                  *)
LEMMA LiveReadInv ==
    ASSUME LiveInv, NEW at \in Nat, NEW ok \in BOOLEAN, Late(at), LiveRead(at, ok)
    PROVE  LiveInv'
  <1>1. LiveTypeOK'
    BY LiveReadFields DEF LiveInv, LiveTypeOK
  <1>2. LiveEnergyInv'
    BY LiveReadFields DEF LiveInv, LiveTypeOK, LiveEnergyInv
  <1>3. LiveFilesInv'
    BY LiveReadFields DEF LiveInv, LiveFilesInv
  <1> QED
    BY <1>1, <1>2, <1>3 DEF LiveInv

(* A write keeps the files showing what was taken, or is unsaved.          *)
LEMMA LiveWriteInv ==
    ASSUME LiveInv, NEW f \in Caps, NEW v \in LiveValues, NEW at \in Nat, NEW ok \in BOOLEAN,
           Late(at), LiveWrite(f, v, at, ok)
    PROVE  LiveInv'
  <1> DEFINE n == advanceLive(live, at)
             res == handle(f, n.model, v, FALSE)
             m == [n EXCEPT !.model = res.st]
  <1>1. /\ live.up /\ clock' = clock /\ read' = read
        /\ IF res.ok THEN live' = m /\ root' = writeThrough(root, m, ok) /\ took' = res.st /\ unsaved' = ~ok
           ELSE live' = n /\ root' = root /\ took' = took /\ unsaved' = unsaved
    BY DEF LiveWrite
  <1>2. /\ n \in [up : BOOLEAN, now : Nat, start : Nat, seed : Nat, last : Nat, model : CapStates]
        /\ n.up /\ n.now <= clock /\ n.now >= live.now /\ n.model = took
        /\ n.start = live.start /\ n.seed = live.seed /\ n.last = live.last
        /\ Energy(n) \in Nat /\ Energy(n) <= clock /\ Energy(n) >= live.last
    BY <1>1, Advanced
  <1>3. res.st \in CapStates
    BY <1>2, HandlerKeeps
  <1> HIDE DEF n, res
  <1>4. /\ live' \in [up : BOOLEAN, now : Nat, start : Nat, seed : Nat, last : Nat, model : CapStates]
        /\ live'.up /\ live'.now <= clock /\ live'.now >= live.now /\ live'.model = took'
        /\ live'.start = live.start /\ live'.seed = live.seed /\ live'.last = live.last /\ Energy(live') >= live.last
        /\ took' \in CapStates /\ unsaved' \in BOOLEAN
    BY <1>1, <1>2, <1>3 DEF Energy, LiveInv, LiveTypeOK
  <1>5. /\ root' \in [render : Nat, energy : Nat, a : [Caps -> Seq(Int)]]
        /\ root'.render = root.render /\ root'.energy = root.energy
        /\ \/ root'.a = Shows(took')
           \/ root'.a = root.a /\ unsaved'
           \/ root'.a = root.a /\ unsaved' = unsaved /\ took' = took
    <2>1. CASE res.ok /\ ok
      <3>1. root' = [root EXCEPT !.a = Shows(m.model)] /\ took' = res.st
        BY <1>1, <2>1 DEF writeThrough, Shows
      <3>2. m.model = res.st
        BY <1>2
      <3>3. Shows(m.model) \in [Caps -> Seq(Int)]
        BY <1>3, <3>2, ShowsType
      <3> HIDE DEF m
      <3> QED
        BY <3>1, <3>2, <3>3 DEF LiveInv, LiveTypeOK
    <2>2. CASE ~(res.ok /\ ok)
      BY <1>1, <2>2 DEF writeThrough, LiveInv, LiveTypeOK
    <2> QED
      BY <2>1, <2>2
  <1>6. LiveTypeOK'
    BY <1>1, <1>4, <1>5 DEF LiveInv, LiveTypeOK
  <1>7. LiveEnergyInv'
    BY <1>1, <1>4, <1>5 DEF LiveInv, LiveTypeOK, LiveEnergyInv
  <1>8. LiveFilesInv'
    BY <1>1, <1>4, <1>5 DEF LiveInv, LiveTypeOK, LiveFilesInv
  <1> QED
    BY <1>6, <1>7, <1>8 DEF LiveInv

(* Every step of the live view keeps the invariant.                        *)
LEMMA LiveNextInv == LiveInv /\ [LiveNext]_liveVars => LiveInv'
  <1> SUFFICES ASSUME LiveInv, [LiveNext]_liveVars PROVE LiveInv'
    OBVIOUS
  <1>1. CASE NewLiveNode
    BY <1>1, NewLiveNodeInv
  <1>2. CASE ClockTicks
    BY <1>2 DEF ClockTicks, LiveInv, LiveTypeOK, LiveEnergyInv, LiveFilesInv, Energy
  <1>3. CASE Killed
    <2>1. /\ live' = NoNode /\ UNCHANGED <<clock, root, read, took, unsaved>>
      BY <1>3 DEF Killed
    <2>2. LiveTypeOK'
      BY <2>1, BootType DEF LiveInv, LiveTypeOK, NoNode
    <2> QED
      BY <2>1, <2>2 DEF LiveInv, LiveEnergyInv, LiveFilesInv, NoNode
  <1>4. CASE RootRemoved
    <2>1. /\ root' = NoRoot /\ ~live.up /\ UNCHANGED <<clock, live, read, took, unsaved>>
      BY <1>4 DEF RootRemoved
    <2>2. LiveTypeOK'
      BY <2>1 DEF LiveInv, LiveTypeOK, NoRoot
    <2> QED
      BY <2>1, <2>2 DEF LiveInv, LiveTypeOK, LiveEnergyInv, LiveFilesInv, NoRoot
  <1>5. CASE \E t \in 0..LiveT, ok \in BOOLEAN : Late(t) /\ (AdvanceTo(t, ok) \/ LiveRead(t, ok))
    <2>1. PICK t \in 0..LiveT, ok \in BOOLEAN : Late(t) /\ (AdvanceTo(t, ok) \/ LiveRead(t, ok))
      BY <1>5
    <2>2. t \in Nat
      BY <2>1 DEF Late, LiveInv, LiveTypeOK
    <2> QED
      BY <2>1, <2>2, AdvanceToInv, LiveReadInv
  <1>6. CASE \E t \in 0..LiveT, ok \in BOOLEAN, f \in Caps, v \in LiveValues : Late(t) /\ LiveWrite(f, v, t, ok)
    <2>1. PICK t \in 0..LiveT, ok \in BOOLEAN, f \in Caps, v \in LiveValues : Late(t) /\ LiveWrite(f, v, t, ok)
      BY <1>6
    <2>2. t \in Nat
      BY <2>1 DEF Late, LiveInv, LiveTypeOK
    <2> QED
      BY <2>1, <2>2, LiveWriteInv
  <1>7. CASE UNCHANGED liveVars
    BY <1>7 DEF liveVars, LiveInv, LiveTypeOK, LiveEnergyInv, LiveFilesInv, Energy
  <1> QED
    BY <1>1, <1>2, <1>3, <1>4, <1>5, <1>6, <1>7 DEF LiveNext

(* The invariant of the live view holds throughout.                        *)
LEMMA LiveAlways == LiveSpec => []LiveInv
  BY LiveInitInv, LiveNextInv, PTL DEF LiveSpec

-----------------------------------------------------------------------------
(* Every step of the live view is a step of a durable counter.             *)
LEMMA LiveStepShows == LiveInv /\ LiveInv' /\ [LiveNext]_liveVars =>
                          [LiveCounters!Next]_<<[c \in {"energy"} |-> read], [c \in {"energy"} |-> clock]>>
  <1> SUFFICES ASSUME LiveInv, LiveInv', [LiveNext]_liveVars
               PROVE  LiveCounters!Next \/ (read' = read /\ clock' = clock)
    BY Zenon
  <1>1. read' = read /\ clock' \in {clock, clock + 1} => LiveCounters!Next
    BY DEF LiveCounters!Next, LiveCounters!Consume, LiveCounters!Show, LiveInv, LiveTypeOK, LiveEnergyInv
  <1>2. CASE NewLiveNode \/ ClockTicks \/ Killed \/ RootRemoved \/ UNCHANGED liveVars
    BY <1>1, <1>2 DEF NewLiveNode, ClockTicks, Killed, RootRemoved, liveVars
  <1>3. CASE \E t \in 0..LiveT, ok \in BOOLEAN : Late(t) /\ (AdvanceTo(t, ok) \/ LiveRead(t, ok))
    <2>1. PICK t \in 0..LiveT, ok \in BOOLEAN : Late(t) /\ (AdvanceTo(t, ok) \/ LiveRead(t, ok))
      BY <1>3
    <2>2. t \in Nat
      BY <2>1 DEF Late, LiveInv, LiveTypeOK
    <2>3. CASE AdvanceTo(t, ok)
      BY <1>1, <2>3 DEF AdvanceTo
    <2>4. CASE LiveRead(t, ok)
      <3>1. clock' = clock /\ (read' = read \/ read' = [start |-> root.render, j |-> root'.energy])
            /\ root'.energy >= root.energy /\ root'.energy <= clock /\ live.up
        BY <2>1, <2>2, <2>4, LiveReadFields
      <3>2. CASE read' = [start |-> root.render, j |-> root'.energy]
        <4>1. read'.start = root.render /\ read'.j = root'.energy
          BY <3>2
        <4>2. \/ read'.start = read.start /\ read'.j >= read.j
              \/ read'.start > read.start
          BY <3>1, <4>1 DEF LiveInv, LiveTypeOK, LiveEnergyInv
        <4> QED
          BY <3>1, <4>1, <4>2 DEF LiveCounters!Next, LiveCounters!Consume, LiveCounters!Show, LiveInv, LiveTypeOK
      <3> QED
        BY <1>1, <3>1, <3>2
    <2> QED
      BY <2>1, <2>3, <2>4
  <1>4. CASE \E t \in 0..LiveT, ok \in BOOLEAN, f \in Caps, v \in LiveValues : Late(t) /\ LiveWrite(f, v, t, ok)
    BY <1>1, <1>4 DEF LiveWrite
  <1> QED
    BY <1>2, <1>3, <1>4 DEF LiveNext

(* The energy file of a live view is a durable counter (NewLiveNode, Read, *)
(* AdvanceTo): kills, failed writes and a root that is removed and         *)
(* rendered again never make it go back within a series or run ahead of    *)
(* the clock.                                                              *)
THEOREM ReadsDurable == LiveSpec => ReadsAreDurable
  <1>1. LiveInit => LiveCounters!Init
    BY DEF LiveInit, LiveCounters!Init
  <1> QED
    BY <1>1, LiveAlways, LiveStepShows, PTL DEF LiveSpec, ReadsAreDurable, LiveCounters!Spec

(* The caps a live view took are in force after a restart (Write,          *)
(* seedFrom): unless a write of the tree failed, a new live node on the    *)
(* root takes its state back from the files.                               *)
THEOREM WritesSurvive == LiveSpec => TakenSurvives
  <1>1. LiveInv /\ [LiveNext]_liveVars => [NewLiveNode /\ root.render # 0 /\ ~unsaved => took' = took]_liveVars
    <2> SUFFICES ASSUME LiveInv, NewLiveNode, root.render # 0, ~unsaved PROVE took' = took
      BY Zenon
    <2>1. took' = seedFrom("caps", root.a)
      BY DEF NewLiveNode, Ensure
    <2>2. root.a = Shows(took) /\ took \in CapStates
      BY DEF LiveInv, LiveTypeOK, LiveFilesInv
    <2> QED
      BY <2>1, <2>2, SeedTakesShown
  <1> QED
    BY <1>1, LiveAlways, PTL DEF LiveSpec, TakenSurvives

(***************************************************************************)
(* The emulator: the ledgers of the nodes and of the facility.             *)
(***************************************************************************)


(* The simulators on a root, and what happens to their ledgers.            *)
EmuSpec == EmuInit /\ [][EmuNext]_emuVars

(* The types of a ledger, of the facility ledger and of an emulator.       *)
Ledgers == [file : {"none", "whole", "damaged"}, start : Nat, j : Nat]
Facilities == [file : {"none", "whole"}, start : Nat, j : Nat, cluster : Clusters \cup {NoCluster}]
Emulators == [up : BOOLEAN, todo : SUBSET Nodes, ticking : BOOLEAN, runner : [Nodes -> Nat], base : [Nodes -> Nat],
              ledger : [Nodes -> Ledgers], last : [Nodes -> Nat], delta : [Nodes -> Int],
              fac : Facilities, facPublished : Facilities, began : [hosts : Int, it : Int]]

(* The type of the state.                                                  *)
EmuTypeOK ==
    /\ mem \in [Procs -> Emulators]
    /\ disk \in [Nodes -> Ledgers] /\ facDisk \in Facilities
    /\ shown \in [Counters -> [start : Nat, j : Nat]]
    /\ used \in [Nodes -> Nat] /\ starts \in Nat

(* The lock on the root.                                                   *)
OneUp == \A p, q \in Procs : mem[p].up /\ mem[q].up => p = q

(* A later series, or the same one no further back.                        *)
NotBefore(start, j, s) == start > s.start \/ (start = s.start /\ j >= s.j)

(* What is on disk, and what was shown of it.                              *)
NodeDiskInv(n) ==
    /\ disk[n].start <= starts /\ disk[n].j <= used[n]
    /\ disk[n].file # "none" => NotBefore(disk[n].start, disk[n].j, shown[n])
    /\ shown[n].start <= starts /\ shown[n].j <= used[n]
FacilityDiskInv ==
    /\ facDisk.start <= starts /\ facDisk.j <= Sum(used)
    /\ \A c \in Clusters : /\ shown[c].start <= starts /\ shown[c].j <= Sum(used)
                           /\ facDisk.file # "none" /\ facDisk.cluster = c => NotBefore(facDisk.start, facDisk.j, shown[c])

(* A running emulator: its ledgers hold what its runners counted, the last *)
(* reading is what is on disk, and the deltas of a tick wait for the       *)
(* facility.                                                               *)
NodeMemInv(m, n) ==
    /\ m.base[n] <= m.runner[n] /\ m.last[n] <= m.ledger[n].j
    /\ m.ledger[n].j + m.runner[n] - m.base[n] <= used[n]
    /\ m.ledger[n].file = "whole" /\ m.ledger[n].start <= starts
    /\ NotBefore(m.ledger[n].start, m.last[n], shown[n])
    /\ disk[n].file # "none" => disk[n].start = m.ledger[n].start /\ disk[n].j = m.last[n]
    /\ n \in m.todo \/ ~m.ticking => m.delta[n] = 0
    /\ m.delta[n] >= 0

(* Energy that was used and is not in a last reading yet.                  *)
pending(m) == [n \in Nodes |-> m.ledger[n].j - m.last[n] + m.runner[n] - m.base[n]]

(* The facility ledger in memory, as last persisted, on disk and shown.    *)
FacilityMemInv(m) ==
    /\ m.fac.cluster \in Clusters /\ m.fac.file = "whole" /\ m.fac.start <= starts
    /\ m.facPublished.cluster = m.fac.cluster /\ m.facPublished.start = m.fac.start
    /\ m.facPublished.file = "whole" /\ m.facPublished.j <= m.fac.j
    /\ NotBefore(m.facPublished.start, m.facPublished.j, shown[m.fac.cluster])
    /\ facDisk.file # "none" /\ facDisk.cluster = m.fac.cluster =>
          facDisk.start = m.fac.start /\ facDisk.j = m.facPublished.j

(* What the facility counted and what is still on its way never exceed     *)
(* what was used, and follow the last readings.                            *)
SumsInv(m) ==
    /\ m.fac.j + Sum(m.delta) + Sum(pending(m)) <= Sum(used)
    /\ m.fac.j + Sum(m.delta) - m.began.it = Sum(m.last) - m.began.hosts

MemInv(m) ==
    m.up => /\ \A n \in Nodes : NodeMemInv(m, n)
            /\ FacilityMemInv(m) /\ SumsInv(m)
            /\ ~m.ticking => m.todo = {}

(* The inductive invariant of the emulator.                                *)
EmuInv ==
    /\ EmuTypeOK /\ OneUp
    /\ \A n \in Nodes : NodeDiskInv(n)
    /\ FacilityDiskInv
    /\ \A p \in Procs : MemInv(mem[p]) /\ (~mem[p].up => mem[p] = Down)

-----------------------------------------------------------------------------
(* Sum is the total of Totals.                                             *)
LEMMA SumIsTotal == \A f : Sum(f) = Total(f, Nodes)
  BY DEF Sum, Total

(* A process that is down has the type of an emulator.                     *)
LEMMA DownType == Down \in Emulators
  <1>1. NoLedger \in Ledgers /\ NoFacility \in Facilities
    BY DEF NoLedger, Ledger, Ledgers, NoFacility, Facilities
  <1> QED
    BY <1>1 DEF Down, Emulators

(* No ledger, no emulator and no energy at first.                          *)
LEMMA EmuInitInv == EmuInit => EmuInv
  <1> SUFFICES ASSUME EmuInit PROVE EmuInv
    OBVIOUS
  <1>1. NoLedger \in Ledgers /\ NoFacility \in Facilities
    BY DEF NoLedger, Ledger, Ledgers, NoFacility, Facilities
  <1>2. EmuTypeOK
    BY <1>1, DownType DEF EmuInit, EmuTypeOK
  <1>3. Sum(used) = 0
    BY EmuAssumption, SumIsTotal, TotalZero DEF EmuInit
  <1>4. \A n \in Nodes : NodeDiskInv(n)
    BY DEF EmuInit, NodeDiskInv, NoLedger, Ledger, Counters
  <1>5. FacilityDiskInv
    BY <1>3 DEF EmuInit, FacilityDiskInv, NoFacility, Counters
  <1>6. OneUp /\ \A p \in Procs : MemInv(mem[p]) /\ (~mem[p].up => mem[p] = Down)
    BY DEF EmuInit, OneUp, MemInv, Down
  <1> QED
    BY <1>2, <1>4, <1>5, <1>6 DEF EmuInv

(* A sum of naturals is a natural.                                         *)
LEMMA SumNat == \A f \in [Nodes -> Nat] : Sum(f) \in Nat
  <1> SUFFICES ASSUME NEW f \in [Nodes -> Nat] PROVE Sum(f) \in Nat
    OBVIOUS
  <1>1. f \in [Nodes -> Int] /\ \A n \in Nodes : f[n] >= 0
    OBVIOUS
  <1> QED
    BY <1>1, EmuAssumption, SumIsTotal, TotalInt, TotalNat

(* A sum of integers is an integer.                                        *)
LEMMA SumInt == \A f \in [Nodes -> Int] : Sum(f) \in Int
  BY EmuAssumption, SumIsTotal, TotalInt

(* One member of a sum grows, and the sum with it.                         *)
LEMMA SumStep ==
    ASSUME NEW f \in [Nodes -> Int], NEW h \in [Nodes -> Int], NEW n \in Nodes, NEW d \in Int,
           h[n] = f[n] + d, \A k \in Nodes : k # n => h[k] = f[k]
    PROVE  Sum(h) = Sum(f) + d
  BY EmuAssumption, SumIsTotal, TotalStep

(* A sum of zeroes.                                                        *)
LEMMA SumZero == \A f \in [Nodes -> Int] : (\A n \in Nodes : f[n] = 0) => Sum(f) = 0
  BY EmuAssumption, SumIsTotal, TotalZero

(* The pending energies are integers.                                      *)
LEMMA PendingType == \A m \in Emulators : pending(m) \in [Nodes -> Int]
  BY DEF pending, Emulators, Ledgers

(* Only the process that holds the root changes.                           *)
LEMMA Alone ==
    ASSUME EmuInv, NEW p \in Procs, NEW X \in Emulators, mem' = [mem EXCEPT ![p] = X],
           mem[p].up \/ \A q \in Procs : ~mem[q].up
    PROVE  /\ mem' \in [Procs -> Emulators] /\ mem'[p] = X /\ OneUp'
           /\ \A q \in Procs : q # p => mem'[q] = Down /\ ~mem'[q].up
  <1>1. mem \in [Procs -> Emulators] /\ OneUp /\ \A q \in Procs : ~mem[q].up => mem[q] = Down
    BY DEF EmuInv, EmuTypeOK
  <1>2. \A q \in Procs : q # p => mem'[q] = mem[q] /\ ~mem[q].up
    BY <1>1 DEF OneUp
  <1> QED
    BY <1>1, <1>2 DEF OneUp

(* EmuInv after a step of p, from its parts.                               *)
LEMMA EmuInvFrom ==
    ASSUME EmuInv, NEW p \in Procs, NEW X \in Emulators, mem' = [mem EXCEPT ![p] = X],
           mem[p].up \/ \A q \in Procs : ~mem[q].up,
           disk' \in [Nodes -> Ledgers] /\ facDisk' \in Facilities
           /\ shown' \in [Counters -> [start : Nat, j : Nat]] /\ used' \in [Nodes -> Nat] /\ starts' \in Nat,
           (\A n \in Nodes : NodeDiskInv(n))', FacilityDiskInv', MemInv(mem[p])', ~X.up => X = Down
    PROVE  EmuInv'
  <1>1. /\ mem' \in [Procs -> Emulators] /\ mem'[p] = X /\ OneUp'
        /\ \A q \in Procs : q # p => mem'[q] = Down /\ ~mem'[q].up
    BY Alone
  <1>2. EmuTypeOK'
    BY <1>1 DEF EmuTypeOK
  <1>3. (\A q \in Procs : MemInv(mem[q]) /\ (~mem[q].up => mem[q] = Down))'
    <2> SUFFICES ASSUME NEW q \in Procs
                 PROVE  MemInv(mem[q])' /\ (~mem'[q].up => mem'[q] = Down)
      BY DEF Down
    <2>1. CASE q = p
      BY <1>1, <2>1
    <2>2. CASE q # p
      BY <1>1, <2>2 DEF MemInv
    <2> QED
      BY <2>1, <2>2
  <1> QED
    BY <1>1, <1>2, <1>3 DEF EmuInv

(* The disk and what was shown stay as they are.                           *)
LEMMA DiskSame ==
    ASSUME EmuInv, UNCHANGED <<disk, facDisk, shown, used, starts>>
    PROVE  /\ (\A n \in Nodes : NodeDiskInv(n))'
           /\ FacilityDiskInv'
           /\ Sum(used)' = Sum(used)
           /\ disk' \in [Nodes -> Ledgers] /\ facDisk' \in Facilities
           /\ shown' \in [Counters -> [start : Nat, j : Nat]] /\ used' \in [Nodes -> Nat] /\ starts' \in Nat
  <1>1. Sum(used)' = Sum(used)
    OBVIOUS
  <1>2. (\A n \in Nodes : NodeDiskInv(n))'
    BY DEF EmuInv, NodeDiskInv, NotBefore
  <1>3. FacilityDiskInv'
    BY <1>1 DEF EmuInv, FacilityDiskInv, NotBefore
  <1> QED
    BY <1>1, <1>2, <1>3 DEF EmuInv, EmuTypeOK

(* Close and a crash leave the disk as it is.                              *)
LEMMA StopInv ==
    ASSUME EmuInv, NEW p \in Procs, Close(p) \/ EmuCrash(p)
    PROVE  EmuInv'
  <1>1. mem' = [mem EXCEPT ![p] = Down] /\ mem[p].up /\ UNCHANGED <<disk, facDisk, shown, used, starts>>
    BY DEF Close, EmuCrash
  <1>2. (\A n \in Nodes : NodeDiskInv(n))' /\ FacilityDiskInv'
    BY <1>1, DiskSame
  <1>3. mem'[p] = Down /\ ~Down.up
    BY <1>1 DEF EmuInv, EmuTypeOK, Down
  <1>4. MemInv(mem[p])'
    BY <1>3 DEF MemInv
  <1>5. disk' \in [Nodes -> Ledgers] /\ facDisk' \in Facilities
        /\ shown' \in [Counters -> [start : Nat, j : Nat]] /\ used' \in [Nodes -> Nat] /\ starts' \in Nat
    BY <1>1 DEF EmuInv, EmuTypeOK
  <1> QED
    BY <1>1, <1>2, <1>3, <1>4, <1>5, DownType, EmuInvFrom

(* A tick begins: every member is to do, and nothing is counted.           *)
LEMMA TickBeginInv ==
    ASSUME EmuInv, NEW p \in Procs, TickBegin(p)
    PROVE  EmuInv'
  <1> DEFINE m == mem[p]
             X == [m EXCEPT !.ticking = TRUE, !.todo = Nodes]
  <1>1. m \in Emulators /\ m.up /\ ~m.ticking /\ MemInv(m) /\ mem \in [Procs -> Emulators]
    BY DEF TickBegin, EmuInv, EmuTypeOK
  <1>2. mem' = [mem EXCEPT ![p] = X] /\ UNCHANGED <<disk, facDisk, shown, used, starts>>
    BY <1>1 DEF TickBegin, Emulators
  <1>3. (\A n \in Nodes : NodeDiskInv(n))' /\ FacilityDiskInv'
    BY <1>2, DiskSame
  <1> HIDE DEF m
  <1>4. /\ X \in Emulators /\ X.up /\ X.ticking /\ X.todo = Nodes /\ X.runner = m.runner /\ X.base = m.base /\ X.ledger = m.ledger
        /\ X.last = m.last /\ X.delta = m.delta /\ X.fac = m.fac /\ X.facPublished = m.facPublished /\ X.began = m.began
    BY <1>1 DEF Emulators
  <1> HIDE DEF X
  <1>5. mem'[p] = X
    BY <1>1, <1>2
  <1>6. MemInv(mem[p])'
    <2>1. (\A n \in Nodes : NodeMemInv(mem[p], n))'
      BY <1>1, <1>2, <1>4, <1>5 DEF MemInv, NodeMemInv, NotBefore
    <2>2. FacilityMemInv(mem[p])'
      BY <1>1, <1>2, <1>4, <1>5 DEF MemInv, FacilityMemInv, NotBefore
    <2>3. SumsInv(mem[p])'
      <3>1. pending(X) = pending(m)
        BY <1>4 DEF pending
      <3>2. pending(mem[p])' = pending(m) /\ Sum(used)' = Sum(used)
        BY <1>2, <1>5, <3>1, DiskSame DEF pending
      <3>3. Sum(mem[p].delta)' = Sum(m.delta) /\ Sum(mem[p].last)' = Sum(m.last)
            /\ Sum(pending(mem[p]))' = Sum(pending(m))
        BY <1>4, <1>5, <3>2
      <3> QED
        BY <1>1, <1>4, <1>5, <3>2, <3>3 DEF MemInv, SumsInv
    <2> QED
      BY <1>4, <1>5, <2>1, <2>2, <2>3 DEF MemInv
  <1>7. disk' \in [Nodes -> Ledgers] /\ facDisk' \in Facilities
        /\ shown' \in [Counters -> [start : Nat, j : Nat]] /\ used' \in [Nodes -> Nat] /\ starts' \in Nat
    BY <1>2 DEF EmuInv, EmuTypeOK
  <1> USE DEF m
  <1> QED
    BY <1>1, <1>2, <1>3, <1>4, <1>6, <1>7, EmuInvFrom

(* A start: the ledgers of the disk or new ones.                           *)
LEMMA NewInv ==
    ASSUME EmuInv, NEW p \in Procs, NEW c \in Clusters, New(p, c)
    PROVE  EmuInv'
  <1> DEFINE ledgers == [n \in Nodes |-> loadNodeLedger(disk[n], starts')]
             fac == loadFacilityLedger(facDisk, c, starts')
             began == [hosts |-> Sum([n \in Nodes |-> ledgers[n].j]), it |-> fac.j]
             X == [Down EXCEPT !.up = TRUE, !.ledger = ledgers, !.last = [n \in Nodes |-> ledgers[n].j],
                               !.fac = fac, !.facPublished = fac, !.began = began]
  <1>1. /\ mem' = [mem EXCEPT ![p] = X] /\ (\A q \in Procs : ~mem[q].up) /\ starts' = starts + 1
        /\ \A n \in Nodes : ledgers[n].file = "whole"
        /\ fac.file = "whole" /\ UNCHANGED <<disk, facDisk, shown, used>>
    BY DEF New, lockRoot
  <1>2. EmuTypeOK /\ starts \in Nat
    BY DEF EmuInv, EmuTypeOK
  <1>3. ledgers \in [Nodes -> Ledgers]
    BY <1>1, <1>2 DEF EmuTypeOK, loadNodeLedger, Ledger, Ledgers
  <1>4. fac \in Facilities /\ fac.cluster = c
    BY <1>1, <1>2 DEF EmuTypeOK, loadFacilityLedger, Facilities
  <1>5. \A n \in Nodes : \/ disk[n].file # "none" /\ ledgers[n] = disk[n]
                         \/ disk[n].file = "none" /\ ledgers[n].start = starts + 1 /\ ledgers[n].j = 0
    BY <1>1 DEF loadNodeLedger, Ledger
  <1>6. \/ fac = facDisk
        \/ /\ fac.start = starts + 1 /\ fac.j = 0
           /\ facDisk.file = "none" \/ facDisk.cluster # c
    BY <1>1 DEF loadFacilityLedger
  <1> DEFINE lasts == [n \in Nodes |-> ledgers[n].j]
             zero == [n \in Nodes |-> 0]
  <1>7. lasts \in [Nodes -> Nat] /\ lasts \in [Nodes -> Int] /\ zero \in [Nodes -> Int] /\ \A n \in Nodes : lasts[n] = ledgers[n].j
    BY <1>3 DEF Ledgers
  <1>8. Sum(lasts) \in Int /\ Sum(zero) = 0
    BY <1>7, SumInt, SumZero
  <1>9. fac.j \in Nat /\ began = [hosts |-> Sum(lasts), it |-> fac.j]
    BY <1>4 DEF Facilities
  <1> HIDE DEF ledgers, fac, lasts
  <1>10. began \in [hosts : Int, it : Int] /\ began.it = fac.j /\ began.hosts = Sum(lasts)
    BY <1>8, <1>9
  <1>11. X = [Down EXCEPT !.up = TRUE, !.ledger = ledgers, !.last = lasts,
                          !.fac = fac, !.facPublished = fac, !.began = began]
    BY DEF lasts
  <1> HIDE DEF began, X
  <1>12. /\ X \in Emulators
         /\ X.up /\ ~X.ticking /\ X.todo = {} /\ X.runner = zero /\ X.base = zero /\ X.ledger = ledgers /\ X.last = lasts
         /\ X.delta = zero /\ X.fac = fac /\ X.facPublished = fac /\ X.began = began
    <2>1. DOMAIN Down = {"up", "todo", "ticking", "runner", "base", "ledger", "last", "delta", "fac", "facPublished", "began"}
      BY DEF Down
    <2>2. /\ X.up = TRUE /\ X.ticking = FALSE /\ X.todo = {} /\ X.runner = zero /\ X.base = zero /\ X.ledger = ledgers
          /\ X.last = lasts /\ X.delta = zero /\ X.fac = fac /\ X.facPublished = fac /\ X.began = began
      BY <1>11 DEF Down
    <2>3. X = [up |-> X.up, todo |-> X.todo, ticking |-> X.ticking, runner |-> X.runner, base |-> X.base,
               ledger |-> X.ledger, last |-> X.last, delta |-> X.delta, fac |-> X.fac,
               facPublished |-> X.facPublished, began |-> X.began]
      BY <1>11 DEF Down
    <2>4. zero \in [Nodes -> Nat]
      OBVIOUS
    <2> QED
      BY <1>3, <1>4, <1>7, <1>10, <2>2, <2>3, <2>4 DEF Emulators
  <1>13. mem'[p] = X
    BY <1>1, <1>2 DEF EmuTypeOK
  <1>14. Sum(used)' = Sum(used) /\ Sum(used) \in Nat
    BY <1>1, <1>2, SumNat DEF EmuTypeOK
  <1>15. (\A n \in Nodes : NodeDiskInv(n))'
    BY <1>1, <1>2 DEF EmuInv, EmuTypeOK, NodeDiskInv, NotBefore, Counters, Ledgers
  <1>16. FacilityDiskInv'
    BY <1>1, <1>2, <1>14 DEF EmuInv, EmuTypeOK, FacilityDiskInv, NotBefore, Counters, Facilities
  <1>17. MemInv(mem[p])'
    <2>1. (\A n \in Nodes : NodeMemInv(mem[p], n))'
      <3> SUFFICES ASSUME NEW n \in Nodes PROVE NodeMemInv(mem[p], n)'
        BY DEF NodeMemInv
      <3>1. NodeDiskInv(n) /\ shown[n].start \in Nat /\ shown[n].j \in Nat /\ used[n] \in Nat /\ disk[n].start \in Nat
            /\ disk[n].j \in Nat /\ ledgers[n].j \in Nat /\ ledgers[n].start \in Nat
        BY <1>2, <1>3 DEF EmuInv, EmuTypeOK, Counters, Ledgers
      <3>2. X.base[n] = 0 /\ X.runner[n] = 0 /\ X.delta[n] = 0 /\ X.last[n] = ledgers[n].j /\ X.ledger[n] = ledgers[n]
        BY <1>7, <1>12
      <3>3. ledgers[n].start <= starts + 1 /\ ledgers[n].j <= used[n] /\ NotBefore(ledgers[n].start, ledgers[n].j, shown[n])
            /\ (disk[n].file # "none" => disk[n].start = ledgers[n].start /\ disk[n].j = ledgers[n].j)
        BY <1>2, <1>5, <3>1 DEF NodeDiskInv, NotBefore
      <3> QED
        BY <1>1, <1>12, <1>13, <3>1, <3>2, <3>3 DEF NodeMemInv, NotBefore
    <2>2. FacilityMemInv(mem[p])'
      <3>1. FacilityDiskInv /\ shown[c].start \in Nat /\ shown[c].j \in Nat /\ facDisk.start \in Nat
            /\ facDisk.j \in Nat /\ fac.j \in Nat /\ fac.start \in Nat
        BY <1>2, <1>4 DEF EmuInv, EmuTypeOK, Counters, Facilities
      <3> QED
        BY <1>1, <1>2, <1>4, <1>6, <1>12, <1>13, <3>1 DEF FacilityMemInv, FacilityDiskInv, NotBefore
    <2>3. SumsInv(mem[p])'
      <3>1. pending(X) \in [Nodes -> Int] /\ \A n \in Nodes : pending(X)[n] = 0
        BY <1>3, <1>7, <1>12 DEF pending, Ledgers
      <3>2. Sum(pending(X)) = 0
        BY <3>1, SumZero
      <3>3. Sum(pending(mem[p]))' = 0 /\ Sum(mem[p].delta)' = 0 /\ Sum(mem[p].last)' = Sum(lasts)
        <4>1. pending(mem[p])' = pending(X)
          BY <1>13 DEF pending
        <4> QED
          BY <1>8, <1>12, <1>13, <3>2, <4>1
      <3>4. fac.j <= Sum(used)
        BY <1>6, <1>14 DEF EmuInv, FacilityDiskInv
      <3> QED
        BY <1>8, <1>9, <1>10, <1>12, <1>13, <1>14, <3>3, <3>4 DEF SumsInv
    <2> QED
      BY <1>12, <1>13, <2>1, <2>2, <2>3 DEF MemInv
  <1>18. disk' \in [Nodes -> Ledgers] /\ facDisk' \in Facilities
        /\ shown' \in [Counters -> [start : Nat, j : Nat]] /\ used' \in [Nodes -> Nat] /\ starts' \in Nat
    BY <1>1, <1>2 DEF EmuTypeOK
  <1> QED
    BY <1>1, <1>12, <1>15, <1>16, <1>17, <1>18, EmuInvFrom

(* What a step of a member leaves in the emulator.                         *)
LEMMA StepMemberFields ==
    ASSUME EmuInv, NEW p \in Procs, NEW n \in Nodes, NEW d \in {0, 1}, NEW o \in Outcomes, StepMember(p, n, d, o)
    PROVE  \E X \in Emulators, a \in Nat, e \in Nat :
             /\ mem' = [mem EXCEPT ![p] = X]
             /\ X.up = mem[p].up /\ X.ticking = mem[p].ticking /\ X.todo = mem[p].todo \ {n}
             /\ X.fac = mem[p].fac /\ X.facPublished = mem[p].facPublished /\ X.began = mem[p].began
             /\ \A k \in Nodes : k # n => /\ X.runner[k] = mem[p].runner[k] /\ X.base[k] = mem[p].base[k]
                                         /\ X.ledger[k] = mem[p].ledger[k] /\ X.last[k] = mem[p].last[k]
                                         /\ X.delta[k] = mem[p].delta[k]
             /\ X.runner[n] = mem[p].runner[n] + d /\ X.runner[n] - X.base[n] = mem[p].runner[n] + d - mem[p].base[n] - a
             /\ X.base[n] <= X.runner[n]
             /\ X.ledger[n].file = mem[p].ledger[n].file /\ X.ledger[n].start = mem[p].ledger[n].start
             /\ X.ledger[n].j = mem[p].ledger[n].j + a
             /\ X.last[n] = mem[p].last[n] + e /\ X.delta[n] = e /\ X.last[n] <= X.ledger[n].j
             /\ \/ o = "ok" /\ X.last[n] = X.ledger[n].j /\ disk' = [disk EXCEPT ![n] = X.ledger[n]]
                \/ o # "ok" /\ e = 0 /\ disk' = disk
  <1> DEFINE m == mem[p]
             S == [m EXCEPT !.runner[n] = @ + d]
             C == IF o = "stepFails" THEN S ELSE accrue(S, n)
             X == reading(C, n, o = "ok")
  <1>1. mem \in [Procs -> Emulators] /\ m \in Emulators /\ MemInv(m) /\ (~m.up => m = Down) /\ n \in m.todo
    BY DEF EmuInv, EmuTypeOK, StepMember
  <1>2. mem' = [mem EXCEPT ![p] = X] /\ disk' = IF o = "ok" THEN [disk EXCEPT ![n] = C.ledger[n]] ELSE disk
    BY DEF StepMember
  <1>3. m.up /\ NodeMemInv(m, n)
    BY <1>1 DEF Down, MemInv
  <1> HIDE DEF m, S, C, X
  <1>4. /\ S \in Emulators /\ S.up = m.up /\ S.ticking = m.ticking /\ S.todo = m.todo /\ S.base = m.base
        /\ S.ledger = m.ledger /\ S.last = m.last
        /\ S.delta = m.delta /\ S.fac = m.fac /\ S.facPublished = m.facPublished /\ S.began = m.began
        /\ S.runner = [m.runner EXCEPT ![n] = @ + d]
    <2> DEFINE R == [m.runner EXCEPT ![n] = @ + d]
    <2>1. R \in [Nodes -> Nat]
      BY <1>1 DEF Emulators
    <2>2. S = [m EXCEPT !.runner = R]
      BY DEF S
    <2> HIDE DEF R
    <2>3. /\ S \in Emulators /\ S.up = m.up /\ S.ticking = m.ticking /\ S.todo = m.todo /\ S.base = m.base
          /\ S.ledger = m.ledger /\ S.last = m.last
          /\ S.delta = m.delta /\ S.fac = m.fac /\ S.facPublished = m.facPublished /\ S.began = m.began
          /\ S.runner = R
      BY <1>1, <2>1, <2>2 DEF Emulators
    <2> QED
      BY <2>3 DEF R
  <1>5. PICK a \in Nat :
        /\ C \in Emulators /\ C.up = m.up /\ C.ticking = m.ticking /\ C.todo = m.todo /\ C.runner = S.runner
        /\ C.last = m.last /\ C.delta = m.delta /\ C.fac = m.fac /\ C.facPublished = m.facPublished /\ C.began = m.began
        /\ \A k \in Nodes : k # n => C.base[k] = m.base[k] /\ C.ledger[k] = m.ledger[k]
        /\ C.runner[n] - C.base[n] = m.runner[n] + d - m.base[n] - a /\ C.base[n] <= C.runner[n]
        /\ C.ledger[n].file = m.ledger[n].file /\ C.ledger[n].start = m.ledger[n].start
        /\ C.ledger[n].j = m.ledger[n].j + a
    <2>1. S.runner[n] = m.runner[n] + d /\ S.runner[n] \in Nat /\ m.base[n] \in Nat /\ m.base[n] <= m.runner[n] /\ m.runner[n] \in Nat
          /\ m.ledger[n].j \in Nat /\ m.ledger \in [Nodes -> Ledgers] /\ m.base \in [Nodes -> Nat] /\ m.ledger[n] \in Ledgers
      BY <1>1, <1>3, <1>4 DEF NodeMemInv, Emulators, Ledgers
    <2>2. CASE o = "stepFails"
      <3>1. C = S
        BY <2>2 DEF C
      <3> QED
        BY <1>3, <1>4, <2>1, <3>1, 0 \in Nat, S.runner[n] - S.base[n] = m.runner[n] + d - m.base[n] - 0, S.base[n] <= S.runner[n],
           m.ledger[n].j = m.ledger[n].j + 0
    <2>3. CASE o # "stepFails"
      <3> DEFINE a == S.runner[n] - S.base[n]
                 L == [m.ledger EXCEPT ![n].j = @ + a]
                 B == [m.base EXCEPT ![n] = S.runner[n]]
      <3>1. a \in Nat /\ ~(a < 0)
        BY <1>4, <2>1
      <3>2. C = [S EXCEPT !.base[n] = S.runner[n], !.ledger[n].j = @ + a]
        BY <2>3, <3>1 DEF C, accrue
      <3>3. C = [S EXCEPT !.base = B, !.ledger = L]
        BY <1>4, <3>2 DEF Emulators
      <3>4. L \in [Nodes -> Ledgers] /\ L[n].j = m.ledger[n].j + a /\ L[n].file = m.ledger[n].file /\ L[n].start = m.ledger[n].start
            /\ \A k \in Nodes : k # n => L[k] = m.ledger[k]
        BY <2>1, <3>1 DEF Ledgers
      <3>5. B \in [Nodes -> Nat] /\ B[n] = S.runner[n] /\ \A k \in Nodes : k # n => B[k] = m.base[k]
        BY <2>1
      <3> HIDE DEF L, B
      <3>6. C.base = B /\ C.ledger = L /\ C.runner = S.runner /\ C.up = S.up /\ C.ticking = S.ticking /\ C.todo = S.todo
            /\ C.last = S.last /\ C.delta = S.delta /\ C.fac = S.fac /\ C.facPublished = S.facPublished /\ C.began = S.began
            /\ C \in Emulators
        BY <1>4, <3>3, <3>4, <3>5 DEF Emulators
      <3>7. C.runner[n] - C.base[n] = m.runner[n] + d - m.base[n] - a /\ C.base[n] <= C.runner[n]
        BY <1>4, <2>1, <3>1, <3>5, <3>6
      <3> QED
        BY <1>4, <3>1, <3>4, <3>5, <3>6, <3>7
    <2> QED
      BY <2>2, <2>3
  <1>6. PICK e \in Nat :
        /\ X \in Emulators /\ X.up = m.up /\ X.ticking = m.ticking /\ X.todo = m.todo \ {n} /\ X.runner = C.runner
        /\ X.base = C.base /\ X.ledger = C.ledger /\ X.fac = m.fac /\ X.facPublished = m.facPublished /\ X.began = m.began
        /\ \A k \in Nodes : k # n => X.last[k] = m.last[k] /\ X.delta[k] = m.delta[k]
        /\ X.last[n] = m.last[n] + e /\ X.delta[n] = e /\ X.last[n] <= X.ledger[n].j
        /\ \/ o = "ok" /\ X.last[n] = X.ledger[n].j
           \/ o # "ok" /\ e = 0
    <2> DEFINE now == IF o = "ok" THEN C.ledger[n].j ELSE C.last[n]
               e == now - m.last[n]
    <2>1. C.ledger[n].j \in Nat /\ m.last[n] \in Nat /\ m.ledger[n].j \in Nat /\ C.last[n] = m.last[n] /\ m.last[n] <= C.ledger[n].j
          /\ m.last \in [Nodes -> Nat] /\ m.delta \in [Nodes -> Int]
      BY <1>1, <1>3, <1>5 DEF NodeMemInv, Emulators, Ledgers
    <2>2. now \in Nat /\ e \in Nat /\ now = m.last[n] + e /\ now <= C.ledger[n].j
          /\ ((o = "ok" /\ now = C.ledger[n].j) \/ (o # "ok" /\ e = 0))
      BY <2>1
    <2>3. X = [C EXCEPT !.last[n] = now, !.delta[n] = e, !.todo = @ \ {n}]
      BY <1>5 DEF X, reading
    <2> DEFINE A == [m.last EXCEPT ![n] = now]
               D == [m.delta EXCEPT ![n] = e]
               T == m.todo \ {n}
    <2> HIDE DEF now, e
    <2>4. X = [C EXCEPT !.last = A, !.delta = D, !.todo = T]
      BY <1>5, <2>3 DEF Emulators
    <2>5. A \in [Nodes -> Nat] /\ D \in [Nodes -> Int] /\ T \in SUBSET Nodes /\ A[n] = now /\ D[n] = e
          /\ \A k \in Nodes : k # n => A[k] = m.last[k] /\ D[k] = m.delta[k]
      BY <1>1, <2>1, <2>2 DEF Emulators
    <2> HIDE DEF A, D, T
    <2>6. X.last = A /\ X.delta = D /\ X.todo = T /\ X.base = C.base /\ X.ledger = C.ledger /\ X.runner = C.runner /\ X.up = C.up
          /\ X.ticking = C.ticking /\ X.fac = C.fac /\ X.facPublished = C.facPublished /\ X.began = C.began /\ X \in Emulators
      BY <1>5, <2>4, <2>5 DEF Emulators
    <2>7. X.todo = m.todo \ {n}
      BY <2>6 DEF T
    <2> QED
      BY <1>5, <2>2, <2>5, <2>6, <2>7
  <1>7. \A k \in Nodes : k # n => X.runner[k] = m.runner[k]
    BY <1>1, <1>4, <1>5, <1>6 DEF Emulators
  <1>8. X.runner[n] = m.runner[n] + d
    BY <1>1, <1>4, <1>5, <1>6 DEF Emulators
  <1>9. X \in Emulators /\ a \in Nat /\ e \in Nat
        /\ mem' = [mem EXCEPT ![p] = X]
        /\ X.up = m.up /\ X.ticking = m.ticking /\ X.todo = m.todo \ {n}
        /\ X.fac = m.fac /\ X.facPublished = m.facPublished /\ X.began = m.began
        /\ \A k \in Nodes : k # n => /\ X.runner[k] = m.runner[k] /\ X.base[k] = m.base[k]
                                    /\ X.ledger[k] = m.ledger[k] /\ X.last[k] = m.last[k] /\ X.delta[k] = m.delta[k]
    BY <1>2, <1>5, <1>6, <1>7
  <1>10. /\ X.runner[n] - X.base[n] = m.runner[n] + d - m.base[n] - a /\ X.base[n] <= X.runner[n]
         /\ X.ledger[n].file = m.ledger[n].file /\ X.ledger[n].start = m.ledger[n].start
         /\ X.ledger[n].j = m.ledger[n].j + a
         /\ X.last[n] = m.last[n] + e /\ X.delta[n] = e /\ X.last[n] <= X.ledger[n].j
         /\ \/ o = "ok" /\ X.last[n] = X.ledger[n].j /\ disk' = [disk EXCEPT ![n] = X.ledger[n]]
            \/ o # "ok" /\ e = 0 /\ disk' = disk
    BY <1>2, <1>5, <1>6
  <1> QED
    BY <1>8, <1>9, <1>10 DEF m

(* stepMember: energy moves from the runner to the ledger, and to the last *)
(* reading when the write landed.                                          *)
LEMMA StepMemberInv ==
    ASSUME EmuInv, NEW p \in Procs, NEW n \in Nodes, NEW d \in {0, 1}, NEW o \in Outcomes, StepMember(p, n, d, o)
    PROVE  EmuInv'
  <1> DEFINE m == mem[p]
  <1>1. PICK X \in Emulators, a \in Nat, e \in Nat :
             /\ mem' = [mem EXCEPT ![p] = X]
             /\ X.up = m.up /\ X.ticking = m.ticking /\ X.todo = m.todo \ {n}
             /\ X.fac = m.fac /\ X.facPublished = m.facPublished /\ X.began = m.began
             /\ \A k \in Nodes : k # n => /\ X.runner[k] = m.runner[k] /\ X.base[k] = m.base[k]
                                         /\ X.ledger[k] = m.ledger[k] /\ X.last[k] = m.last[k]
                                         /\ X.delta[k] = m.delta[k]
             /\ X.runner[n] = m.runner[n] + d /\ X.runner[n] - X.base[n] = m.runner[n] + d - m.base[n] - a
             /\ X.base[n] <= X.runner[n]
             /\ X.ledger[n].file = m.ledger[n].file /\ X.ledger[n].start = m.ledger[n].start
             /\ X.ledger[n].j = m.ledger[n].j + a
             /\ X.last[n] = m.last[n] + e /\ X.delta[n] = e /\ X.last[n] <= X.ledger[n].j
             /\ \/ o = "ok" /\ X.last[n] = X.ledger[n].j /\ disk' = [disk EXCEPT ![n] = X.ledger[n]]
                \/ o # "ok" /\ e = 0 /\ disk' = disk
    BY StepMemberFields
  <1>2. mem \in [Procs -> Emulators] /\ m \in Emulators /\ MemInv(m) /\ n \in m.todo /\ m.up
    BY DEF EmuInv, EmuTypeOK, StepMember, Down
  <1>3. m.ticking
    BY <1>2 DEF MemInv
  <1>4. used' = [used EXCEPT ![n] = @ + d] /\ UNCHANGED <<facDisk, shown, starts>>
    BY DEF StepMember
  <1>5. mem'[p] = X
    BY <1>1, <1>2
  <1> HIDE DEF m
  <1>6. /\ used \in [Nodes -> Nat] /\ used \in [Nodes -> Int] /\ used' \in [Nodes -> Nat] /\ used' \in [Nodes -> Int]
        /\ d \in Int /\ used'[n] = used[n] + d /\ \A k \in Nodes : k # n => used'[k] = used[k]
        /\ disk \in [Nodes -> Ledgers] /\ facDisk \in Facilities /\ starts \in Nat
        /\ shown \in [Counters -> [start : Nat, j : Nat]]
    BY <1>4 DEF EmuInv, EmuTypeOK
  <1>7. Sum(used') = Sum(used) + d /\ Sum(used) \in Nat
    BY <1>6, SumStep, SumNat
  <1>8. Sum(used)' = Sum(used) + d
    BY <1>7
  <1>9. disk' \in [Nodes -> Ledgers] /\ facDisk' \in Facilities
        /\ shown' \in [Counters -> [start : Nat, j : Nat]] /\ starts' \in Nat
    BY <1>1, <1>4, <1>6 DEF Emulators
  <1>10. \A k \in Nodes : NodeMemInv(m, k) /\ NodeDiskInv(k)
    BY <1>2 DEF MemInv, EmuInv
  <1>11. \A k \in Nodes : /\ m.runner[k] \in Nat /\ m.base[k] \in Nat /\ m.ledger[k] \in Ledgers /\ m.last[k] \in Nat /\ m.delta[k] \in Int
                          /\ X.runner[k] \in Nat /\ X.base[k] \in Nat /\ X.ledger[k] \in Ledgers /\ X.last[k] \in Nat /\ X.delta[k] \in Int
                          /\ m.ledger[k].j \in Nat /\ m.ledger[k].start \in Nat /\ X.ledger[k].j \in Nat /\ X.ledger[k].start \in Nat
                          /\ used[k] \in Nat /\ disk[k].start \in Nat /\ disk[k].j \in Nat
                          /\ shown[k].start \in Nat /\ shown[k].j \in Nat
    BY <1>1, <1>2, <1>6 DEF Emulators, Ledgers, Counters
  <1>12. d \in Nat /\ m.delta[n] = 0
    BY <1>2, <1>10 DEF NodeMemInv
  <1>13. (\A k \in Nodes : NodeDiskInv(k))'
    <2> SUFFICES ASSUME NEW k \in Nodes PROVE NodeDiskInv(k)'
      BY DEF NodeDiskInv
    <2>1. CASE k # n \/ o # "ok"
      <3>1. disk'[k] = disk[k] /\ used'[k] >= used[k] /\ used'[k] \in Nat
        BY <1>1, <1>6, <1>11, <1>12, <2>1
      <3> QED
        BY <1>4, <1>6, <1>10, <1>11, <3>1 DEF NodeDiskInv, NotBefore
    <2>2. CASE k = n /\ o = "ok"
      <3>1. disk'[n] = X.ledger[n] /\ disk'[n].j = m.last[n] + e /\ disk'[n].start = m.ledger[n].start /\ X.last[n] = X.ledger[n].j
        BY <1>1, <1>6, <2>2
      <3>2. disk'[n].j <= used'[n] /\ disk'[n].start <= starts
        BY <1>1, <1>6, <1>10, <1>11, <1>12, <3>1 DEF NodeMemInv
      <3>3. NotBefore(disk'[n].start, disk'[n].j, shown[n])
        BY <1>10, <1>11, <3>1 DEF NodeMemInv, NotBefore
      <3>4. shown[n].start <= starts /\ shown[n].j <= used'[n]
        BY <1>6, <1>10, <1>11, <1>12 DEF NodeDiskInv
      <3> QED
        BY <1>4, <2>2, <3>2, <3>3, <3>4 DEF NodeDiskInv, NotBefore
    <2> QED
      BY <2>1, <2>2
  <1>14. FacilityDiskInv'
    <2>1. FacilityDiskInv /\ facDisk.j \in Nat /\ \A c \in Clusters : shown[c].j \in Nat
      BY <1>6 DEF EmuInv, Facilities, Counters
    <2>2. facDisk.j <= Sum(used) + d /\ \A c \in Clusters : shown[c].j <= Sum(used) + d
      BY <1>7, <1>12, <2>1 DEF FacilityDiskInv
    <2> QED
      BY <1>4, <1>8, <2>1, <2>2 DEF FacilityDiskInv, NotBefore
  <1>15. (\A k \in Nodes : NodeMemInv(mem[p], k))'
    <2> SUFFICES ASSUME NEW k \in Nodes PROVE NodeMemInv(mem[p], k)'
      BY DEF NodeMemInv
    <2>1. CASE k # n
      <3>1. disk'[k] = disk[k] /\ used'[k] = used[k]
        BY <1>1, <1>6, <2>1
      <3>2. /\ X.base[k] = m.base[k] /\ X.runner[k] = m.runner[k] /\ X.ledger[k] = m.ledger[k] /\ X.last[k] = m.last[k]
            /\ X.delta[k] = m.delta[k] /\ (k \in X.todo <=> k \in m.todo) /\ X.ticking = m.ticking
        BY <1>1, <2>1
      <3> QED
        BY <1>4, <1>5, <1>10, <1>11, <3>1, <3>2 DEF NodeMemInv, NotBefore
    <2>2. CASE k = n
      <3>1. /\ X.base[n] <= X.runner[n] /\ X.last[n] <= X.ledger[n].j
            /\ X.ledger[n].j + X.runner[n] - X.base[n] <= used'[n]
            /\ X.ledger[n].file = "whole" /\ X.ledger[n].start <= starts
        BY <1>1, <1>6, <1>10, <1>11, <1>12 DEF NodeMemInv
      <3>2. NotBefore(X.ledger[n].start, X.last[n], shown[n])
        BY <1>1, <1>10, <1>11 DEF NodeMemInv, NotBefore
      <3>3. disk'[n].file # "none" => disk'[n].start = X.ledger[n].start /\ disk'[n].j = X.last[n]
        <4>1. CASE o = "ok"
          BY <1>1, <1>6, <4>1
        <4>2. CASE o # "ok"
          BY <1>1, <1>10, <1>11, <4>2 DEF NodeMemInv
        <4> QED
          BY <4>1, <4>2
      <3>4. n \notin X.todo /\ X.ticking /\ X.delta[n] >= 0
        BY <1>1, <1>3, <1>11
      <3> QED
        BY <1>4, <1>5, <2>2, <3>1, <3>2, <3>3, <3>4 DEF NodeMemInv, NotBefore
    <2> QED
      BY <2>1, <2>2
  <1>16. FacilityMemInv(mem[p])'
    BY <1>1, <1>2, <1>4, <1>5 DEF MemInv, FacilityMemInv, NotBefore
  <1>17. SumsInv(mem[p])'
    <2>1. /\ m.last \in [Nodes -> Int] /\ X.last \in [Nodes -> Int] /\ m.delta \in [Nodes -> Int] /\ X.delta \in [Nodes -> Int]
          /\ pending(m) \in [Nodes -> Int] /\ pending(X) \in [Nodes -> Int]
      <3>1. pending(m) \in [Nodes -> Int] /\ pending(X) \in [Nodes -> Int]
        BY <1>2, PendingType
      <3> QED
        BY <1>2, <3>1 DEF Emulators
    <2>11. e \in Int /\ d - e \in Int
      BY <1>6
    <2>2. Sum(X.last) = Sum(m.last) + e
      <3>1. X.last[n] = m.last[n] + e /\ \A k \in Nodes : k # n => X.last[k] = m.last[k]
        BY <1>1
      <3> QED
        BY <2>1, <2>11, <3>1, SumStep
    <2>3. Sum(X.delta) = Sum(m.delta) + e
      <3>1. X.delta[n] = m.delta[n] + e /\ \A k \in Nodes : k # n => X.delta[k] = m.delta[k]
        BY <1>1, <1>12
      <3> QED
        BY <2>1, <2>11, <3>1, SumStep
    <2>4. Sum(pending(X)) = Sum(pending(m)) + (d - e)
      <3>1. pending(X)[n] = pending(m)[n] + (d - e)
        <4>1. pending(X)[n] = X.ledger[n].j - X.last[n] + X.runner[n] - X.base[n]
              /\ pending(m)[n] = m.ledger[n].j - m.last[n] + m.runner[n] - m.base[n]
          BY DEF pending
        <4>2. X.ledger[n].j = m.ledger[n].j + a /\ X.last[n] = m.last[n] + e
              /\ X.runner[n] - X.base[n] = m.runner[n] + d - m.base[n] - a
          BY <1>1
        <4>3. m.ledger[n].j \in Int /\ m.last[n] \in Int /\ m.runner[n] \in Int /\ m.base[n] \in Int
              /\ X.runner[n] \in Int /\ X.base[n] \in Int /\ X.ledger[n].j \in Int /\ X.last[n] \in Int
          BY <1>11
        <4> QED
          BY <1>6, <4>1, <4>2, <4>3
      <3>2. \A k \in Nodes : k # n => pending(X)[k] = pending(m)[k]
        BY <1>1 DEF pending
      <3> QED
        BY <2>1, <2>11, <3>1, <3>2, SumStep
    <2>5. Sum(m.last) \in Int /\ Sum(m.delta) \in Int /\ Sum(pending(m)) \in Int
      BY <2>1, SumInt
    <2>6. pending(mem[p])' = pending(X)
      BY <1>5 DEF pending
    <2>7. Sum(mem[p].last)' = Sum(m.last) + e /\ Sum(mem[p].delta)' = Sum(m.delta) + e /\ Sum(pending(mem[p]))' = Sum(pending(m)) + (d - e)
      BY <1>5, <2>2, <2>3, <2>4, <2>6
    <2>8. m.fac.j \in Int /\ m.began.it \in Int /\ m.began.hosts \in Int
      BY <1>2 DEF Emulators, Facilities
    <2>9. SumsInv(m)
      BY <1>2 DEF MemInv
    <2> QED
      <3>1. X.fac = m.fac /\ X.began = m.began
        BY <1>1
      <3>2. /\ m.fac.j + (Sum(m.delta) + e) + (Sum(pending(m)) + (d - e)) <= Sum(used) + d
            /\ m.fac.j + (Sum(m.delta) + e) - m.began.it = Sum(m.last) + e - m.began.hosts
        <4> DEFINE A == m.fac.j
                   B == Sum(m.delta)
                   C == Sum(pending(m))
                   U == Sum(used)
                   L == Sum(m.last)
                   I == m.began.it
                   H == m.began.hosts
        <4>1. A + B + C <= U /\ A + B - I = L - H
          BY <2>9 DEF SumsInv
        <4>2. A \in Int /\ B \in Int /\ C \in Int /\ U \in Int /\ L \in Int /\ I \in Int /\ H \in Int /\ d \in Int
          BY <1>6, <1>7, <2>5, <2>8
        <4> HIDE DEF A, B, C, U, L, I, H
        <4>3. A + (B + e) + (C + (d - e)) <= U + d /\ A + (B + e) - I = L + e - H
          BY <2>11, <4>1, <4>2
        <4> QED
          BY <4>3 DEF A, B, C, U, L, I, H
      <3> QED
        <4>1. (mem[p].fac.j)' = m.fac.j /\ (mem[p].began.it)' = m.began.it /\ (mem[p].began.hosts)' = m.began.hosts
          BY <1>5, <3>1
        <4> QED
          BY <1>6, <1>7, <1>8, <2>5, <2>7, <2>8, <2>11, <3>2, <4>1 DEF SumsInv
  <1>18. MemInv(mem[p])'
    BY <1>1, <1>2, <1>3, <1>5, <1>15, <1>16, <1>17 DEF MemInv
  <1> USE DEF m
  <1> QED
    BY <1>1, <1>2, <1>6, <1>9, <1>13, <1>14, <1>18, EmuInvFrom

(* tickFacility: the deltas of the hosts move into the facility, and no    *)
(* shown counter goes back.                                                *)
LEMMA TickEndInv ==
    ASSUME EmuInv, NEW p \in Procs, NEW ok \in BOOLEAN, TickEnd(p, ok)
    PROVE  EmuInv' /\ \A c \in Counters : NotBefore(shown'[c].start, shown'[c].j, shown[c])
  <1> DEFINE m == mem[p]
             zero == [n \in Nodes |-> 0]
             g == Sum(m.delta)
             fac == [m.fac EXCEPT !.j = @ + g]
             M == [m EXCEPT !.fac.j = @ + hostDeltas(m), !.ticking = FALSE]
             pub == facShown(M, ok)
             X == [M EXCEPT !.facPublished = pub, !.delta = zero]
  <1>1. mem \in [Procs -> Emulators] /\ m \in Emulators /\ MemInv(m) /\ m.ticking /\ m.todo = {} /\ m.up
    BY DEF EmuInv, EmuTypeOK, TickEnd, Down
  <1>2. /\ facDisk' = IF ok THEN M.fac ELSE facDisk
        /\ mem' = [mem EXCEPT ![p] = X]
        /\ shown' = [c \in Counters |-> IF c = pub.cluster THEN [start |-> pub.start, j |-> pub.j]
                                        ELSE IF c \in Clusters THEN shown[c] ELSE [start |-> M.ledger[c].start, j |-> M.last[c]]]
        /\ UNCHANGED <<disk, used, starts>>
    BY DEF TickEnd
  <1>3. /\ used \in [Nodes -> Nat] /\ disk \in [Nodes -> Ledgers] /\ facDisk \in Facilities /\ starts \in Nat
        /\ shown \in [Counters -> [start : Nat, j : Nat]] /\ FacilityDiskInv /\ \A n \in Nodes : NodeDiskInv(n)
    BY DEF EmuInv, EmuTypeOK
  <1>4. (\A n \in Nodes : NodeMemInv(m, n)) /\ FacilityMemInv(m) /\ SumsInv(m)
    BY <1>1 DEF MemInv
  <1>5. Sum(used)' = Sum(used) /\ Sum(used) \in Nat
    BY <1>2, <1>3, SumNat
  <1> HIDE DEF m
  <1>6. /\ m.delta \in [Nodes -> Int] /\ m.delta \in [Nodes -> Nat] /\ m.last \in [Nodes -> Nat] /\ m.ledger \in [Nodes -> Ledgers]
        /\ m.fac \in Facilities /\ m.fac.j \in Nat /\ m.facPublished \in Facilities /\ m.facPublished.j \in Nat
    BY <1>1, <1>4 DEF Emulators, Facilities, NodeMemInv
  <1>7. g \in Nat
    BY <1>6, SumNat
  <1> HIDE DEF g
  <1>8. fac \in Facilities /\ fac.j = m.fac.j + g /\ fac.start = m.fac.start /\ fac.file = m.fac.file /\ fac.cluster = m.fac.cluster
    BY <1>6, <1>7 DEF Facilities
  <1>9. M = [m EXCEPT !.fac = fac, !.ticking = FALSE]
    BY <1>1 DEF hostDeltas, g, Emulators
  <1> HIDE DEF fac, M
  <1>10. /\ M \in Emulators /\ M.fac = fac /\ ~M.ticking /\ M.up /\ M.todo = m.todo /\ M.runner = m.runner /\ M.base = m.base
         /\ M.ledger = m.ledger /\ M.last = m.last /\ M.facPublished = m.facPublished /\ M.began = m.began
    BY <1>1, <1>8, <1>9 DEF Emulators
  <1>11. /\ pub \in Facilities /\ pub.file = "whole" /\ pub.cluster = fac.cluster /\ pub.start = fac.start
         /\ pub.j <= fac.j /\ pub.j >= m.facPublished.j /\ pub.j \in Nat
         /\ (ok => pub = fac) /\ (~ok => pub = m.facPublished)
    BY <1>4, <1>6, <1>7, <1>8, <1>10 DEF facShown, FacilityMemInv, Facilities
  <1> HIDE DEF pub, zero
  <1>12. zero \in [Nodes -> Int] /\ \A n \in Nodes : zero[n] = 0
    BY DEF zero
  <1>13. /\ X \in Emulators /\ X.fac = fac /\ ~X.ticking /\ X.up /\ X.todo = {} /\ X.runner = m.runner /\ X.base = m.base
         /\ X.ledger = m.ledger /\ X.last = m.last /\ X.facPublished = pub /\ X.began = m.began /\ X.delta = zero
    BY <1>1, <1>10, <1>11, <1>12 DEF Emulators
  <1> HIDE DEF X
  <1>14. mem'[p] = X
    BY <1>1, <1>2
  <1>15. facDisk' = IF ok THEN fac ELSE facDisk
    BY <1>2, <1>10
  <1>16. pub.cluster \in Clusters
    BY <1>4, <1>8, <1>11 DEF FacilityMemInv
  <1>17. /\ shown'[pub.cluster] = [start |-> pub.start, j |-> pub.j]
         /\ \A c \in Clusters : c # pub.cluster => shown'[c] = shown[c]
         /\ \A n \in Nodes : shown'[n] = [start |-> m.ledger[n].start, j |-> m.last[n]]
    BY <1>2, <1>10, <1>16, EmuAssumption DEF Counters
  <1>18. \A n \in Nodes : /\ m.runner[n] \in Nat /\ m.base[n] \in Nat /\ m.last[n] \in Nat /\ m.ledger[n].j \in Nat
                          /\ m.ledger[n].start \in Nat /\ used[n] \in Nat /\ disk[n].j \in Nat /\ disk[n].start \in Nat
    BY <1>1, <1>3 DEF Emulators, Ledgers
  <1>19. (\A n \in Nodes : NodeDiskInv(n))'
    <2> SUFFICES ASSUME NEW n \in Nodes PROVE NodeDiskInv(n)'
      BY DEF NodeDiskInv
    <2> DEFINE r == [start |-> m.ledger[n].start, j |-> m.last[n]]
    <2>0. shown'[n] = r /\ r.start = m.ledger[n].start /\ r.j = m.last[n]
      BY <1>17
    <2> HIDE DEF r
    <2>1. shown'[n].start = m.ledger[n].start /\ shown'[n].j = m.last[n]
      BY <2>0
    <2>2. m.ledger[n].start <= starts /\ m.last[n] <= used[n]
          /\ (disk[n].file # "none" => disk[n].start = m.ledger[n].start /\ disk[n].j = m.last[n])
      BY <1>4, <1>18 DEF NodeMemInv
    <2> QED
      BY <1>2, <1>3, <1>18, <2>1, <2>2 DEF NodeDiskInv, NotBefore
  <1>20. Sum(pending(m)) \in Nat
    <2>1. pending(m) \in [Nodes -> Nat]
      BY <1>4, <1>18 DEF pending, NodeMemInv
    <2> QED
      BY <2>1, SumNat
  <1>21. fac.j <= Sum(used) /\ fac.j \in Nat /\ fac.j + Sum(pending(m)) <= Sum(used)
    BY <1>4, <1>5, <1>6, <1>7, <1>8, <1>20 DEF SumsInv, g
  <1>22. FacilityDiskInv'
    <2>1. facDisk'.start <= starts /\ facDisk'.j <= Sum(used)
      <3>1. CASE ok
        BY <1>4, <1>8, <1>15, <1>21, <3>1 DEF FacilityMemInv
      <3>2. CASE ~ok
        BY <1>3, <1>15, <3>2 DEF FacilityDiskInv
      <3> QED
        BY <3>1, <3>2
    <2>2. ASSUME NEW c \in Clusters
          PROVE  /\ shown'[c].start <= starts /\ shown'[c].j <= Sum(used)
                 /\ facDisk'.file # "none" /\ facDisk'.cluster = c => NotBefore(facDisk'.start, facDisk'.j, shown'[c])
      <3>1. CASE c = pub.cluster
        <4>1. shown'[c].start = pub.start /\ shown'[c].j = pub.j
          BY <1>17, <3>1
        <4>2. pub.start <= starts /\ pub.j <= Sum(used) /\ pub.start \in Nat
          BY <1>4, <1>5, <1>8, <1>11, <1>21 DEF FacilityMemInv, Facilities
        <4>3. facDisk'.file # "none" /\ facDisk'.cluster = c => facDisk'.start = pub.start /\ facDisk'.j = pub.j
          BY <1>4, <1>8, <1>11, <1>15, <3>1 DEF FacilityMemInv
        <4> QED
          BY <1>11, <4>1, <4>2, <4>3 DEF NotBefore
      <3>2. CASE c # pub.cluster
        <4>1. facDisk'.cluster = c => facDisk' = facDisk
          BY <1>11, <1>15, <3>2
        <4> QED
          BY <1>3, <1>17, <3>2, <4>1 DEF FacilityDiskInv, NotBefore
      <3> QED
        BY <3>1, <3>2
    <2> QED
      BY <1>2, <1>5, <2>1, <2>2 DEF FacilityDiskInv, NotBefore
  <1>23. (\A n \in Nodes : NodeMemInv(mem[p], n))'
    <2> SUFFICES ASSUME NEW n \in Nodes PROVE NodeMemInv(mem[p], n)'
      BY DEF NodeMemInv
    <2> DEFINE r == [start |-> m.ledger[n].start, j |-> m.last[n]]
    <2>0. shown'[n] = r /\ r.start = m.ledger[n].start /\ r.j = m.last[n]
      BY <1>17
    <2> HIDE DEF r
    <2>1. shown'[n].start = m.ledger[n].start /\ shown'[n].j = m.last[n]
      BY <2>0
    <2> QED
      BY <1>2, <1>4, <1>12, <1>13, <1>14, <1>18, <2>1 DEF NodeMemInv, NotBefore
  <1>24. FacilityMemInv(mem[p])'
    <2>1. shown'[fac.cluster].start = pub.start /\ shown'[fac.cluster].j = pub.j
      BY <1>11, <1>17
    <2>2. facDisk'.file # "none" /\ facDisk'.cluster = fac.cluster => facDisk'.start = pub.start /\ facDisk'.j = pub.j
      BY <1>4, <1>8, <1>11, <1>15 DEF FacilityMemInv
    <2>3. fac.cluster \in Clusters /\ fac.file = "whole" /\ fac.start <= starts
      BY <1>4, <1>8 DEF FacilityMemInv
    <2> QED
      BY <1>2, <1>11, <1>13, <1>14, <2>1, <2>2, <2>3 DEF FacilityMemInv, NotBefore
  <1>25. SumsInv(mem[p])'
    <2>1. pending(mem[p])' = pending(m)
      BY <1>13, <1>14 DEF pending
    <2>2. Sum(zero) = 0
      BY <1>12, SumZero
    <2>3. Sum(pending(mem[p]))' = Sum(pending(m)) /\ Sum(mem[p].delta)' = 0 /\ Sum(mem[p].last)' = Sum(m.last)
      BY <1>13, <1>14, <2>1, <2>2
    <2>4. Sum(m.last) \in Int /\ m.began.it \in Int /\ m.began.hosts \in Int
      <3>1. m.last \in [Nodes -> Int]
        BY <1>6
      <3> QED
        BY <1>1, <3>1, SumInt DEF Emulators
    <2>5. (mem[p].fac.j)' = fac.j /\ (mem[p].began.it)' = m.began.it /\ (mem[p].began.hosts)' = m.began.hosts
      BY <1>13, <1>14
    <2>6. fac.j - m.began.it = Sum(m.last) - m.began.hosts
      BY <1>4, <1>6, <1>7, <1>8, <2>4 DEF SumsInv, g
    <2> QED
      BY <1>5, <1>20, <1>21, <2>3, <2>4, <2>5, <2>6 DEF SumsInv
  <1>26. MemInv(mem[p])'
    BY <1>13, <1>14, <1>23, <1>24, <1>25 DEF MemInv
  <1>27. disk' \in [Nodes -> Ledgers] /\ facDisk' \in Facilities /\ used' \in [Nodes -> Nat] /\ starts' \in Nat
    BY <1>2, <1>3, <1>8, <1>15
  <1>28. shown' \in [Counters -> [start : Nat, j : Nat]]
    <2>1. pub.start \in Nat /\ pub.j \in Nat
      BY <1>11 DEF Facilities
    <2>2. \A c \in Counters : c \notin Clusters => M.ledger[c].start \in Nat /\ M.last[c] \in Nat
      BY <1>10, <1>18 DEF Counters
    <2> QED
      BY <1>2, <1>3, <2>1, <2>2
  <1>29. ASSUME NEW c \in Counters PROVE NotBefore(shown'[c].start, shown'[c].j, shown[c])
    <2>0. shown[c].start \in Nat /\ shown[c].j \in Nat
      BY <1>3
    <2>1. CASE c = pub.cluster
      <3>1. shown'[c].start = pub.start /\ shown'[c].j = pub.j
        BY <1>17, <2>1
      <3>2. NotBefore(m.facPublished.start, m.facPublished.j, shown[c]) /\ pub.start = m.facPublished.start
        BY <1>4, <1>8, <1>11, <2>1 DEF FacilityMemInv
      <3> QED
        BY <1>6, <1>11, <2>0, <3>1, <3>2 DEF NotBefore
    <2>2. CASE c \in Clusters /\ c # pub.cluster
      BY <1>17, <2>0, <2>2 DEF NotBefore
    <2>3. CASE c \in Nodes
      <3> DEFINE r == [start |-> m.ledger[c].start, j |-> m.last[c]]
      <3>1. shown'[c] = r /\ r.start = m.ledger[c].start /\ r.j = m.last[c]
        BY <1>17, <2>3
      <3> HIDE DEF r
      <3>2. NotBefore(m.ledger[c].start, m.last[c], shown[c])
        BY <1>4, <2>3 DEF NodeMemInv
      <3> QED
        BY <3>1, <3>2
    <2> QED
      BY <2>1, <2>2, <2>3 DEF Counters
  <1> USE DEF m
  <1>30. EmuInv'
    BY <1>1, <1>2, <1>13, <1>19, <1>22, <1>26, <1>27, <1>28, EmuInvFrom
  <1> QED
    BY <1>29, <1>30

(* A ledger that goes away, or that cannot be read any more.               *)
LEMMA LedgerGoesInv ==
    ASSUME EmuInv, NEW n \in Nodes, LedgerLost(n) \/ LedgerDamaged(n)
    PROVE  EmuInv'
  <1>1. UNCHANGED <<mem, facDisk, shown, used, starts>>
    BY DEF LedgerLost, LedgerDamaged
  <1>2. EmuTypeOK /\ disk[n].file = "whole"
    BY DEF EmuInv, LedgerLost, LedgerDamaged
  <1>3. /\ disk' \in [Nodes -> Ledgers] /\ \A k \in Nodes : k # n => disk'[k] = disk[k]
        /\ \/ disk'[n].file = "none" /\ disk'[n].start = 0 /\ disk'[n].j = 0
           \/ disk'[n].file = "damaged" /\ disk'[n].start = disk[n].start /\ disk'[n].j = disk[n].j
    BY <1>2 DEF LedgerLost, LedgerDamaged, EmuTypeOK, Ledgers, NoLedger, Ledger
  <1>4. EmuTypeOK' /\ OneUp'
    BY <1>1, <1>3 DEF EmuInv, EmuTypeOK, OneUp
  <1>5. Sum(used)' = Sum(used)
    BY <1>1
  <1>6. \A k \in Nodes : used[k] \in Nat /\ starts \in Nat
    BY <1>2 DEF EmuTypeOK
  <1>7. (\A k \in Nodes : NodeDiskInv(k))'
    <2> SUFFICES ASSUME NEW k \in Nodes PROVE NodeDiskInv(k)'
      BY DEF NodeDiskInv
    <2>1. CASE k = n
      BY <1>1, <1>2, <1>3, <1>6, <2>1 DEF EmuInv, NodeDiskInv, NotBefore
    <2>2. CASE k # n
      BY <1>1, <1>3, <2>2 DEF EmuInv, NodeDiskInv, NotBefore
    <2> QED
      BY <2>1, <2>2
  <1>8. FacilityDiskInv'
    BY <1>1, <1>5 DEF EmuInv, FacilityDiskInv, NotBefore
  <1>9. (\A p \in Procs : MemInv(mem[p]) /\ (~mem[p].up => mem[p] = Down))'
    <2> SUFFICES ASSUME NEW p \in Procs PROVE MemInv(mem[p])' /\ (~mem'[p].up => mem'[p] = Down)
      BY DEF Down
    <2>1. ~mem'[p].up => mem'[p] = Down
      BY <1>1 DEF EmuInv
    <2>2. ASSUME mem[p].up PROVE MemInv(mem[p])'
      <3>1. MemInv(mem[p])
        BY DEF EmuInv
      <3>2. (\A k \in Nodes : NodeMemInv(mem[p], k))'
        <4> SUFFICES ASSUME NEW k \in Nodes PROVE NodeMemInv(mem[p], k)'
          BY DEF NodeMemInv
        <4>1. disk'[k].file # "none" => disk[k].file # "none" /\ disk'[k].start = disk[k].start /\ disk'[k].j = disk[k].j
          BY <1>2, <1>3
        <4> QED
          BY <1>1, <2>2, <3>1, <4>1 DEF MemInv, NodeMemInv, NotBefore
      <3>3. FacilityMemInv(mem[p])'
        BY <1>1, <2>2, <3>1 DEF MemInv, FacilityMemInv, NotBefore
      <3>4. SumsInv(mem[p])'
        <4>1. pending(mem[p])' = pending(mem[p])
          BY <1>1 DEF pending
        <4>2. Sum(pending(mem[p]))' = Sum(pending(mem[p])) /\ Sum(mem[p].delta)' = Sum(mem[p].delta) /\ Sum(mem[p].last)' = Sum(mem[p].last)
          BY <1>1, <4>1
        <4> QED
          BY <1>1, <1>5, <2>2, <3>1, <4>2 DEF MemInv, SumsInv
      <3> QED
        BY <1>1, <2>2, <3>1, <3>2, <3>3, <3>4 DEF MemInv
    <2>3. ~mem[p].up => MemInv(mem[p])'
      BY <1>1 DEF MemInv
    <2> QED
      BY <2>1, <2>2, <2>3
  <1> QED
    BY <1>4, <1>7, <1>8, <1>9 DEF EmuInv

(* Every step of the emulator keeps the invariant.                         *)
LEMMA EmuNextInv == EmuInv /\ [EmuNext]_emuVars => EmuInv'
  <1> SUFFICES ASSUME EmuInv, [EmuNext]_emuVars PROVE EmuInv'
    OBVIOUS
  <1>1. ASSUME NEW p \in Procs, NEW c \in Clusters, New(p, c) PROVE EmuInv'
    BY <1>1, NewInv
  <1>2. ASSUME NEW p \in Procs, Close(p) \/ EmuCrash(p) PROVE EmuInv'
    BY <1>2, StopInv
  <1>3. ASSUME NEW p \in Procs, TickBegin(p) PROVE EmuInv'
    BY <1>3, TickBeginInv
  <1>4. ASSUME NEW p \in Procs, NEW n \in Nodes, NEW d \in {0, 1}, NEW o \in Outcomes, StepMember(p, n, d, o) PROVE EmuInv'
    BY <1>4, StepMemberInv
  <1>5. ASSUME NEW p \in Procs, NEW ok \in BOOLEAN, TickEnd(p, ok) PROVE EmuInv'
    BY <1>5, TickEndInv
  <1>6. ASSUME NEW n \in Nodes, LedgerLost(n) \/ LedgerDamaged(n) PROVE EmuInv'
    BY <1>6, LedgerGoesInv
  <1>7. CASE UNCHANGED emuVars
    <2>1. UNCHANGED <<mem, disk, facDisk, shown, used, starts>>
      BY <1>7 DEF emuVars
    <2>2. /\ (\A n \in Nodes : NodeDiskInv(n))' /\ FacilityDiskInv' /\ Sum(used)' = Sum(used)
      BY <2>1, DiskSame
    <2>3. EmuTypeOK' /\ OneUp'
      BY <2>1 DEF EmuInv, EmuTypeOK, OneUp
    <2>4. (\A p \in Procs : MemInv(mem[p]) /\ (~mem[p].up => mem[p] = Down))'
      <3> SUFFICES ASSUME NEW p \in Procs PROVE MemInv(mem[p])' /\ (~mem'[p].up => mem'[p] = Down)
        BY DEF Down
      <3>1. MemInv(mem[p]) /\ (~mem[p].up => mem[p] = Down)
        BY DEF EmuInv
      <3>2. pending(mem[p])' = pending(mem[p])
        BY <2>1 DEF pending
      <3>3. Sum(pending(mem[p]))' = Sum(pending(mem[p])) /\ Sum(mem[p].delta)' = Sum(mem[p].delta) /\ Sum(mem[p].last)' = Sum(mem[p].last)
        BY <2>1, <3>2
      <3>4. SumsInv(mem[p]) => SumsInv(mem[p])'
        BY <2>1, <2>2, <3>3 DEF SumsInv
      <3>5. FacilityMemInv(mem[p]) => FacilityMemInv(mem[p])'
        BY <2>1 DEF FacilityMemInv, NotBefore
      <3>6. (\A n \in Nodes : NodeMemInv(mem[p], n)) => (\A n \in Nodes : NodeMemInv(mem[p], n))'
        BY <2>1 DEF NodeMemInv, NotBefore
      <3>7. MemInv(mem[p])'
        BY <2>1, <3>1, <3>4, <3>5, <3>6 DEF MemInv
      <3> QED
        BY <2>1, <3>1, <3>7
    <2> QED
      BY <2>2, <2>3, <2>4 DEF EmuInv
  <1> QED
    BY <1>1, <1>2, <1>3, <1>4, <1>5, <1>6, <1>7 DEF EmuNext

(* The invariant of the emulator holds throughout.                         *)
LEMMA EmuAlways == EmuSpec => []EmuInv
  BY EmuInitInv, EmuNextInv, PTL DEF EmuSpec

(* IT energy is the energy of the hosts (tickFacility, hostDelta): since a *)
(* simulator started, the facility ledger grew by what the shown counters  *)
(* of its hosts grew, whatever steps and writes failed.                    *)
THEOREM FacilityFollows == EmuSpec => []FacilityIsItsHosts
  <1>1. EmuInv => FacilityIsItsHosts
    <2> SUFFICES ASSUME EmuInv, NEW p \in Procs, mem[p].up, ~mem[p].ticking
                 PROVE  mem[p].fac.j - mem[p].began.it = Sum(mem[p].last) - mem[p].began.hosts
      BY DEF FacilityIsItsHosts
    <2>1. mem[p] \in Emulators /\ MemInv(mem[p])
      BY DEF EmuInv, EmuTypeOK
    <2>2. mem[p].delta \in [Nodes -> Int] /\ \A n \in Nodes : mem[p].delta[n] = 0
      BY <2>1 DEF MemInv, NodeMemInv, Emulators
    <2>3. Sum(mem[p].delta) = 0
      BY <2>2, SumZero
    <2>4. mem[p].fac.j \in Int /\ mem[p].began.it \in Int
      BY <2>1 DEF Emulators, Facilities
    <2>5. mem[p].fac.j + Sum(mem[p].delta) - mem[p].began.it = Sum(mem[p].last) - mem[p].began.hosts
      BY <2>1 DEF MemInv, SumsInv
    <2>6. mem[p].fac.j + (Sum(mem[p].delta) - mem[p].began.it) = mem[p].fac.j - mem[p].began.it
      BY <2>3, <2>4
    <2> QED
      BY <2>5, <2>6
  <1> QED
    BY <1>1, EmuAlways, PTL

(* What a step does to the counters and to what was used.                  *)
LEMMA CounterStep ==
    ASSUME EmuInv, EmuInv', EmuNext
    PROVE  /\ \A n \in Nodes : used'[n] >= used[n]
           /\ Sum(used') >= Sum(used)
           /\ \A c \in Counters : NotBefore(shown'[c].start, shown'[c].j, shown[c])
  <1>1. /\ used \in [Nodes -> Nat] /\ used \in [Nodes -> Int] /\ \A c \in Counters : shown[c].start \in Nat /\ shown[c].j \in Nat
    BY DEF EmuInv, EmuTypeOK
  <1>2. Sum(used) \in Int
    BY <1>1, SumInt
  <1> DEFINE Goal == /\ \A n \in Nodes : used'[n] >= used[n]
                     /\ Sum(used') >= Sum(used)
                     /\ \A c \in Counters : NotBefore(shown'[c].start, shown'[c].j, shown[c])
  <1>3. (shown' = shown /\ used' = used) => Goal
    BY <1>1, <1>2 DEF NotBefore
  <1>4. ASSUME NEW p \in Procs, NEW n \in Nodes, NEW d \in {0, 1}, NEW o \in Outcomes, StepMember(p, n, d, o)
        PROVE  Goal
    <2>1. used' = [used EXCEPT ![n] = @ + d] /\ shown' = shown
      BY <1>4 DEF StepMember
    <2>2. used' \in [Nodes -> Int] /\ d \in Int /\ used'[n] = used[n] + d /\ \A k \in Nodes : k # n => used'[k] = used[k]
      BY <1>1, <2>1
    <2>3. Sum(used') = Sum(used) + d
      BY <1>1, <2>2, SumStep
    <2> QED
      BY <1>1, <1>2, <2>1, <2>2, <2>3 DEF NotBefore
  <1>5. ASSUME NEW p \in Procs, NEW ok \in BOOLEAN, TickEnd(p, ok)
        PROVE  Goal
    <2>1. used' = used
      BY <1>5 DEF TickEnd
    <2>2. \A c \in Counters : NotBefore(shown'[c].start, shown'[c].j, shown[c])
      BY <1>5, TickEndInv
    <2> QED
      BY <1>1, <1>2, <2>1, <2>2
  <1>6. ASSUME NEW p \in Procs, (\E c \in Clusters : New(p, c)) \/ Close(p) \/ EmuCrash(p) \/ TickBegin(p)
        PROVE  Goal
    <2>1. shown' = shown /\ used' = used
      BY <1>6 DEF New, Close, EmuCrash, TickBegin
    <2> QED
      BY <1>3, <2>1
  <1>7. ASSUME NEW n \in Nodes, LedgerLost(n) \/ LedgerDamaged(n)
        PROVE  Goal
    <2>1. shown' = shown /\ used' = used
      BY <1>7 DEF LedgerLost, LedgerDamaged
    <2> QED
      BY <1>3, <2>1
  <1> HIDE DEF Goal
  <1>8. Goal
    BY <1>4, <1>5, <1>6, <1>7 DEF EmuNext
  <1> QED
    BY <1>8 DEF Goal

(* Every counter the emulator exports is a durable counter (stepMember,    *)
(* tickFacility, loadNodeLedger, loadFacilityLedger, lockRoot): no crash,  *)
(* failed step, failed write, lost or damaged ledger or second simulator   *)
(* makes it go back within a series or show energy that was not used.      *)
THEOREM EmuDurable == EmuSpec => CountersAreDurable
  <1> DEFINE real == [c \in Counters |-> IF c \in Clusters THEN Sum(used) ELSE used[c]]
  <1>1. EmuInit => Abstract!Init
    <2> SUFFICES ASSUME EmuInit PROVE Abstract!Init
      OBVIOUS
    <2>1. used \in [Nodes -> Int] /\ \A n \in Nodes : used[n] = 0
      BY DEF EmuInit
    <2>2. Sum(used) = 0
      BY <2>1, SumZero
    <2> QED
      BY <2>1, <2>2 DEF EmuInit, Abstract!Init, Counters
  <1>2. EmuInv /\ EmuInv' /\ [EmuNext]_emuVars => [Abstract!Next]_<<shown, real>>
    <2> SUFFICES ASSUME EmuInv, EmuInv', [EmuNext]_emuVars PROVE [Abstract!Next]_<<shown, real>>
      OBVIOUS
    <2>1. CASE EmuNext
      <3>1. /\ \A n \in Nodes : used'[n] >= used[n]
            /\ Sum(used') >= Sum(used)
            /\ \A c \in Counters : NotBefore(shown'[c].start, shown'[c].j, shown[c])
        BY <2>1, CounterStep
      <3>2. /\ \A n \in Nodes : shown'[n].j <= used'[n]
            /\ \A c \in Clusters : shown'[c].j <= Sum(used')
        BY DEF EmuInv, NodeDiskInv, FacilityDiskInv
      <3>3. real' = [c \in Counters |-> IF c \in Clusters THEN Sum(used') ELSE used'[c]]
        OBVIOUS
      <3>4. \A c \in Counters : real'[c] >= real[c] /\ shown'[c].j <= real'[c]
        BY <3>1, <3>2, <3>3 DEF Counters
      <3>5. Abstract!Consume
        BY <3>4 DEF Abstract!Consume
      <3>6. \A c \in Counters : Abstract!Show(c)
        BY <3>1, <3>4 DEF Abstract!Show, NotBefore
      <3> QED
        BY <3>5, <3>6 DEF Abstract!Next
    <2>2. CASE UNCHANGED emuVars
      <3>1. shown' = shown /\ used' = used
        BY <2>2 DEF emuVars
      <3> QED
        BY <3>1
    <2> QED
      BY <2>1, <2>2
  <1> QED
    BY <1>1, <1>2, EmuAlways, PTL DEF EmuSpec, CountersAreDurable, Abstract!Spec

(* Both ways of reading an emulated node's energy show a durable counter:  *)
(* the counters the emulator exports (Tick, New, Close, with crashes, lost *)
(* and damaged ledgers and a second simulator) and the file of a live view *)
(* (NewLiveNode, Read, Write, AdvanceTo, with kills and removed roots).    *)
THEOREM ReadingsDurable == EmuSpec /\ LiveSpec => ReadingsAreDurable
  BY EmuDurable, ReadsDurable DEF ReadingsAreDurable
=============================================================================
