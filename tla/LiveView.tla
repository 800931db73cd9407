------------------------------ MODULE LiveView ------------------------------
(***************************************************************************)
(* A Live node of simulator/pkg/hwemu behind its FUSE view (hwfuse): reads *)
(* step the node to their time and put what they return on disk first,     *)
(* writes are answered as the driver answers them and written through, the *)
(* emulator's tick steps the node as well, and a restart resumes the tree  *)
(* (Ensure) and seeds a new Node from it (NewNode).                        *)
(*                                                                         *)
(* One counter stands for every emulator-owned file and counts time; the   *)
(* scene of power caps stands for the agent-writable files.                *)
(***************************************************************************)
EXTENDS Knobs

CONSTANTS LiveT, LiveFaults   \* bounds: time, and kills, failed writes, removed trees

VARIABLES
    clock,     \* the host's clock
    root,      \* the tree on disk: its files, and which render made them
    live,      \* the Node, or NoNode
    read,      \* what the last read of the counter returned
    took,      \* the driver state the writers were told of
    unsaved,   \* a write through to disk failed and is still due (afilesDirty)
    liveFaults

liveVars == <<clock, root, live, read, took, unsaved, liveFaults>>

Caps == FilesOf("caps")
NoRoot == [render |-> 0, energy |-> 0, a |-> [f \in Caps |-> <<>>]]
NoNode == [up |-> FALSE, now |-> 0, start |-> 0, seed |-> 0, last |-> 0, model |-> Boot("caps")]

LiveInit ==
    /\ clock = 0 /\ root = NoRoot /\ live = NoNode
    /\ read = [start |-> 0, j |-> 0] /\ took = Boot("caps") /\ unsaved = FALSE /\ liveFaults = 0

LiveFault == liveFaults < LiveFaults /\ liveFaults' = liveFaults + 1
May(ok) == IF ok THEN liveFaults' = liveFaults ELSE LiveFault

(* energy_uj at the node's time.                                           *)
Energy(n) == n.seed + n.now - n.start

(***************************************************************************)
(* Ensure and NewNode.                                                     *)
(***************************************************************************)

(* An absent root is rendered, and its counters are new series; nothing a  *)
(* tree has is replaced.                                                   *)
Ensure(r) ==
    IF r.render # 0 THEN r
    ELSE [render |-> clock + 1, energy |-> 0, a |-> [f \in Caps |-> <<current(f, Boot("caps"))>>]]

NewLiveNode ==
    /\ ~live.up
    /\ root.render = 0 => clock >= read.start
    /\ LET r == Ensure(root)
           st == seedFrom("caps", r.a)
       IN /\ root' = r
          /\ live' = [up |-> TRUE, now |-> clock, start |-> clock, seed |-> r.energy, last |-> r.energy, model |-> st]
          /\ took' = st
    /\ unsaved' = FALSE
    /\ UNCHANGED <<clock, read, liveFaults>>

(***************************************************************************)
(* Steps, reads and writes, under the node's lock.                         *)
(***************************************************************************)

KeepsToTheTick(r, n, ok) == r

(* normalizeAFiles: every file shows the model, or is due again.           *)
writeThrough(r, n, ok) == IF ok THEN [r EXCEPT !.a = [f \in Caps |-> <<current(f, n.model)>>]] ELSE r

(* The tick's time may be behind a read's: the step ends at the node's.    *)
AdvanceTo(t, ok) ==
    /\ live.up /\ May(ok)
    /\ LET n == [live EXCEPT !.now = IF t < @ THEN @ ELSE t]
       IN /\ live' = [n EXCEPT !.last = IF ok THEN Energy(n) ELSE @]
          /\ root' = IF ok THEN [writeThrough(root, n, TRUE) EXCEPT !.energy = Energy(n)] ELSE root
          /\ unsaved' = (unsaved /\ ~ok)
    /\ UNCHANGED <<clock, read, took>>

(* A read within the quantum is served at the node's time.                 *)
advanceLive(n, at) == IF at - n.now < 1 THEN n ELSE [n EXCEPT !.now = at]

(* What a reader saw is on disk before the read returns.                   *)
serve(n, r, ok) ==
    IF Energy(n) = n.last THEN [n |-> n, r |-> r, ok |-> TRUE]
    ELSE IF ok THEN [n |-> [n EXCEPT !.last = Energy(n)], r |-> [r EXCEPT !.energy = Energy(n)], ok |-> TRUE]
    ELSE [n |-> n, r |-> r, ok |-> FALSE]

LiveRead(at, ok) ==
    /\ live.up /\ May(ok)
    /\ LET n == advanceLive(live, at)
           s == serve(n, root, ok)
       IN /\ live' = s.n /\ root' = s.r
          /\ read' = IF s.ok THEN [start |-> root.render, j |-> Energy(n)] ELSE read
    /\ UNCHANGED <<clock, took, unsaved>>

(* applyWrite, then the file is written through; a failure is the next     *)
(* step's.  A refused value changes nothing.                               *)
LiveWrite(f, v, at, ok) ==
    /\ live.up /\ May(ok)
    /\ LET n == advanceLive(live, at)
           res == handle(f, n.model, v, FALSE)
           m == [n EXCEPT !.model = res.st]
       IN IF res.ok
          THEN /\ live' = m /\ root' = writeThrough(root, m, ok)
               /\ took' = res.st /\ unsaved' = ~ok
          ELSE live' = n /\ UNCHANGED <<root, took, unsaved>>
    /\ UNCHANGED <<clock, read>>

(***************************************************************************)
(* Time, and what goes wrong.                                              *)
(***************************************************************************)
ClockTicks == clock < LiveT /\ clock' = clock + 1 /\ UNCHANGED <<root, live, read, took, unsaved, liveFaults>>
Killed == live.up /\ LiveFault /\ live' = NoNode /\ UNCHANGED <<clock, root, read, took, unsaved>>
RootRemoved ==
    /\ ~live.up /\ root.render # 0 /\ LiveFault /\ root' = NoRoot
    /\ UNCHANGED <<clock, live, read, took, unsaved>>

Late(t) == t \in {clock - 1, clock} /\ t >= 0
LiveValues == {5, 9}

LiveNext ==
    \/ NewLiveNode \/ ClockTicks \/ Killed \/ RootRemoved
    \/ \E t \in 0..LiveT, ok \in BOOLEAN : Late(t) /\ (AdvanceTo(t, ok) \/ LiveRead(t, ok))
    \/ \E t \in 0..LiveT, ok \in BOOLEAN, f \in Caps, v \in LiveValues : Late(t) /\ LiveWrite(f, v, t, ok)

(***************************************************************************)
(* Properties.                                                             *)
(***************************************************************************)

LiveCounters == INSTANCE DurableCounter
                  WITH Counters <- {"energy"}, shown <- [c \in {"energy"} |-> read], real <- [c \in {"energy"} |-> clock]

(* What readers of the view see of a counter is a durable counter: within  *)
(* a rendered tree it never goes back, whatever ticks, reads and kills     *)
(* come between two reads (LiveRead, advanceLive, AdvanceTo, NewNode).     *)
ReadsAreDurable == LiveCounters!Spec

(* A write the view took is in effect after a kill and a restart over the  *)
(* same tree, unless its write through had failed and no step had repeated *)
(* it (LiveWrite, normalizeAFiles, addAFile).                              *)
TakenSurvives == [][NewLiveNode /\ root.render # 0 /\ ~unsaved => took' = took]_liveVars
=============================================================================
