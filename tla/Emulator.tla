------------------------------ MODULE Emulator ------------------------------
(***************************************************************************)
(* The emulator of simulator/pkg/emulate: New (the lock on its root, the   *)
(* ledgers of the nodes and of the facility), Tick (members stepped on     *)
(* workers, each ledger persisted before it is published, the facility     *)
(* after them) and Close, with crashes, failed steps and writes, ledgers   *)
(* that go away or cannot be read, and a second simulator on the root.     *)
(*                                                                         *)
(* Energy is counted in units.  The host counter of a node stands for each *)
(* of its counters, IT energy for each of the facility's; the power of     *)
(* legacy nodes, which adds to IT energy without a ledger, is left out.    *)
(***************************************************************************)
EXTENDS Integers, FiniteSets, FiniteSetsExt

CONSTANTS
    Nodes,                          \* the members
    Clusters,                       \* the cluster names a simulator may be started with
    Procs,                          \* simulators on the same root, numbered
    MaxUsed, MaxStarts, EmuFaults   \* bounds: energy of the nodes, starts, faults

VARIABLES
    mem,       \* process -> its Emulator
    disk,      \* node -> state/ledger.json
    facDisk,   \* facility-ledger.json
    shown,     \* counter -> its series and value in the last snapshot
    used,      \* node -> energy its emulated hardware has used so far
    starts,    \* starts so far, which stands for the time of the latest
    emuFaults

emuVars == <<mem, disk, facDisk, shown, used, starts, emuFaults>>

NoCluster == "none"

(* The facility counters of two clusters are different series, and none    *)
(* is a node's.                                                            *)
ASSUME EmuAssumption == IsFiniteSet(Nodes) /\ Nodes \cap Clusters = {} /\ NoCluster \notin Clusters
Counters == Nodes \cup Clusters
Ledger(f, s, j) == [file |-> f, start |-> s, j |-> j]
NoLedger == Ledger("none", 0, 0)
NoFacility == [file |-> "none", start |-> 0, j |-> 0, cluster |-> NoCluster]
Sum(f) == MapThenSumSet(LAMBDA n : f[n], Nodes)

(* A process that does not run keeps nothing.                              *)
Down == [up |-> FALSE, todo |-> {}, ticking |-> FALSE,
         runner |-> [n \in Nodes |-> 0], base |-> [n \in Nodes |-> 0],
         ledger |-> [n \in Nodes |-> NoLedger], last |-> [n \in Nodes |-> 0],
         delta |-> [n \in Nodes |-> 0], fac |-> NoFacility, facPublished |-> NoFacility,
         began |-> [hosts |-> 0, it |-> 0]]

EmuInit ==
    /\ mem = [p \in Procs |-> Down]
    /\ disk = [n \in Nodes |-> NoLedger] /\ facDisk = NoFacility
    /\ shown = [c \in Counters |-> [start |-> 0, j |-> 0]]
    /\ used = [n \in Nodes |-> 0] /\ starts = 0 /\ emuFaults = 0

(***************************************************************************)
(* New and Close.                                                          *)
(***************************************************************************)

TwoSimulators(p) == ~mem[p].up

(* An exclusive flock, which goes away with its process.                   *)
lockRoot(p) == \A q \in Procs : ~mem[q].up

(* No ledger starts one; one that cannot be read is never reset.           *)
loadNodeLedger(l, now) == IF l.file = "none" THEN Ledger("whole", now, 0) ELSE l

(* The ledger of another cluster is replaced by a new one.                 *)
loadFacilityLedger(l, cluster, now) ==
    IF l.file = "none" \/ (l.file = "whole" /\ l.cluster # cluster)
    THEN [file |-> "whole", start |-> now, j |-> 0, cluster |-> cluster] ELSE l

(* Processes are numbered: the next to start is the lowest that is down.   *)
New(p, cluster) ==
    /\ ~mem[p].up /\ \A q \in Procs : q < p => mem[q].up
    /\ starts < MaxStarts /\ starts' = starts + 1
    /\ lockRoot(p)
    /\ LET ledgers == [n \in Nodes |-> loadNodeLedger(disk[n], starts')]
           fac == loadFacilityLedger(facDisk, cluster, starts')
       IN /\ \A n \in Nodes : ledgers[n].file = "whole"
          /\ fac.file = "whole"
          /\ mem' = [mem EXCEPT ![p] = [Down EXCEPT
                        !.up = TRUE, !.ledger = ledgers, !.last = [n \in Nodes |-> ledgers[n].j],
                        !.fac = fac, !.facPublished = fac,
                        !.began = [hosts |-> Sum([n \in Nodes |-> ledgers[n].j]), it |-> fac.j]]]
    /\ UNCHANGED <<disk, facDisk, shown, used, emuFaults>>

(* Close waits for the tick; a crash does not.                             *)
Close(p) ==
    /\ mem[p].up /\ ~mem[p].ticking
    /\ mem' = [mem EXCEPT ![p] = Down]
    /\ UNCHANGED <<disk, facDisk, shown, used, starts, emuFaults>>

EmuCrash(p) ==
    /\ mem[p].up /\ mem[p].ticking
    /\ emuFaults < EmuFaults /\ emuFaults' = emuFaults + 1
    /\ mem' = [mem EXCEPT ![p] = Down]
    /\ UNCHANGED <<disk, facDisk, shown, used, starts>>

(***************************************************************************)
(* Tick.                                                                   *)
(***************************************************************************)

TickBegin(p) ==
    /\ mem[p].up /\ ~mem[p].ticking
    /\ mem' = [mem EXCEPT ![p].ticking = TRUE, ![p].todo = Nodes]
    /\ UNCHANGED <<disk, facDisk, shown, used, starts, emuFaults>>

(* ledgerAccrue: the increase of the runner's counter since the last tick; *)
(* a counter that went back adds nothing.                                  *)
accrue(m, n) ==
    LET d == m.runner[n] - m.base[n]
    IN [m EXCEPT !.base[n] = m.runner[n], !.ledger[n].j = IF d < 0 THEN @ ELSE @ + d]

(* The snapshot shows the ledger once it is persisted, else the last good  *)
(* reading; hostDelta is the increase of what is shown.                    *)
reading(m, n, good) ==
    LET now == IF good THEN m.ledger[n].j ELSE m.last[n]
    IN [m EXCEPT !.last[n] = now, !.delta[n] = now - m.last[n], !.todo = @ \ {n}]

(* stepMember on a worker: the runner steps, also when it reports an error;*)
(* a ledger write lands whole or not at all, and finds the path again when *)
(* the file was removed.                                                   *)
StepMember(p, n, d, outcome) ==
    /\ n \in mem[p].todo
    /\ Sum(used) + d <= MaxUsed /\ used' = [used EXCEPT ![n] = @ + d]
    /\ outcome # "ok" => emuFaults < EmuFaults
    /\ emuFaults' = emuFaults + (IF outcome = "ok" THEN 0 ELSE 1)
    /\ LET stepped == [mem[p] EXCEPT !.runner[n] = @ + d]
           counted == IF outcome = "stepFails" THEN stepped ELSE accrue(stepped, n)
       IN /\ mem' = [mem EXCEPT ![p] = reading(counted, n, outcome = "ok")]
          /\ disk' = IF outcome = "ok" THEN [disk EXCEPT ![n] = counted.ledger[n]] ELSE disk
    /\ UNCHANGED <<facDisk, shown, starts>>

DeltaFromLedgers(m) == Sum([n \in Nodes |-> m.ledger[n].j]) - m.began.hosts + m.began.it - m.fac.j

(* What the hosts' shown energies grew by in this tick.                    *)
hostDeltas(m) == Sum(m.delta)

(* The facility's energies as last persisted.                              *)
facShown(m, ok) == IF ok THEN m.fac ELSE m.facPublished

(* tickFacility and the publication of the snapshot.                       *)
TickEnd(p, ok) ==
    /\ mem[p].ticking /\ mem[p].todo = {}
    /\ ~ok => emuFaults < EmuFaults
    /\ emuFaults' = emuFaults + (IF ok THEN 0 ELSE 1)
    /\ LET m == [mem[p] EXCEPT !.fac.j = @ + hostDeltas(mem[p]), !.ticking = FALSE]
           published == facShown(m, ok)
       IN /\ facDisk' = IF ok THEN m.fac ELSE facDisk
          /\ mem' = [mem EXCEPT ![p] = [m EXCEPT !.facPublished = published, !.delta = [n \in Nodes |-> 0]]]
          /\ shown' = [c \in Counters |->
                         IF c = published.cluster THEN [start |-> published.start, j |-> published.j]
                         ELSE IF c \in Clusters THEN shown[c] ELSE [start |-> m.ledger[c].start, j |-> m.last[c]]]
    /\ UNCHANGED <<disk, used, starts>>

(***************************************************************************)
(* External: something removes a ledger, or leaves it unreadable.          *)
(***************************************************************************)
LedgerLost(n) ==
    /\ disk[n].file = "whole" /\ emuFaults < EmuFaults /\ emuFaults' = emuFaults + 1
    /\ disk' = [disk EXCEPT ![n] = NoLedger]
    /\ UNCHANGED <<mem, facDisk, shown, used, starts>>

LedgerDamaged(n) ==
    /\ disk[n].file = "whole" /\ emuFaults < EmuFaults /\ emuFaults' = emuFaults + 1
    /\ disk' = [disk EXCEPT ![n].file = "damaged"]
    /\ UNCHANGED <<mem, facDisk, shown, used, starts>>

Outcomes == {"ok", "stepFails", "writeFails"}

EmuNext ==
    \/ \E p \in Procs :
          \/ \E c \in Clusters : New(p, c)
          \/ Close(p) \/ EmuCrash(p) \/ TickBegin(p)
          \/ \E n \in Nodes, d \in {0, 1}, o \in Outcomes : StepMember(p, n, d, o)
          \/ \E ok \in BOOLEAN : TickEnd(p, ok)
    \/ \E n \in Nodes : LedgerLost(n) \/ LedgerDamaged(n)

(***************************************************************************)
(* Properties.                                                             *)
(***************************************************************************)

Abstract == INSTANCE DurableCounter
              WITH real <- [c \in Counters |-> IF c \in Clusters THEN Sum(used) ELSE used[c]]

(* Every exported counter is a durable counter (stepMember, tickFacility,  *)
(* loadNodeLedger, lockRoot): no crash, failed step, failed write, damaged *)
(* ledger or second simulator makes it go back within a series or show     *)
(* energy that was not used.                                               *)
CountersAreDurable == Abstract!Spec

(* IT energy is the energy of the hosts: since a simulator started, the    *)
(* facility ledger grew by what the hosts' shown counters grew, whatever   *)
(* steps and writes failed on the way (tickFacility, hostDelta).           *)
FacilityIsItsHosts ==
    \A p \in Procs : mem[p].up /\ ~mem[p].ticking =>
        mem[p].fac.j - mem[p].began.it = Sum(mem[p].last) - mem[p].began.hosts

=============================================================================
