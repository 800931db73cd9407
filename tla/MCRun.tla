------------------------------- MODULE MCRun -------------------------------
(* Two jobs of a GPU unit each: a gang on a node that has both units, the   *)
(* same gang where it never fits, and two jobs that take turns on one unit. *)
EXTENDS WorkloadRun
CONSTANTS first, second

TheGroup == [j \in Jobs |-> IF j = first THEN 1 ELSE 2]
One == [j \in Jobs |-> 1]
Due == <<0, 1>>
Scene(gang, units, completion, faults) ==
    [gangOf |-> [j \in Jobs |-> IF gang THEN Jobs ELSE {}], units |-> [n \in GpuNodes |-> units], completion |-> completion, faults |-> faults]
TheScenes == {Scene(TRUE, 2, "kwok", 2), Scene(TRUE, 1, "kwok", 0), Scene(FALSE, 1, "kwok", 1), Scene(FALSE, 1, "delete", 1)}

Spec == /\ RunSpec
        /\ WF_runVars(FullTick) /\ WF_runVars(Working)
        /\ \A j \in Jobs : WF_runVars(PodAppears(j)) /\ WF_runVars(PodMoves(j))
=============================================================================
