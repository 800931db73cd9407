----------------------------- MODULE OneAnswer -----------------------------
(***************************************************************************)
(* What a reader of a changing source promises: the view it works from is  *)
(* replaced as a whole, by what the source said since the reader last      *)
(* began to ask; what it could not get is unknown, and nothing is left     *)
(* over from an earlier round.  A value is the version of the source it    *)
(* was read from, 0 for unknown.                                           *)
(***************************************************************************)
EXTENDS Naturals

CONSTANT Keys  \* what is read

VARIABLES
    grouped, \* one query answers for all keys
    world,   \* the version of the source
    asked,   \* the version when the reader began this round
    view     \* view[k]: the value in use of key k

Unknown == [k \in Keys |-> 0]
Views == [Keys -> {0} \cup (asked..world)]

Changes == world' = world + 1 /\ UNCHANGED <<grouped, asked, view>>

\* A round begins, with the view of the last or with none.
Begin == asked' = world /\ view' \in {view, Unknown} /\ UNCHANGED <<grouped, world>>

Replace ==
    /\ view' \in Views
    /\ grouped => \A j, k \in Keys : view'[j] # 0 /\ view'[k] # 0 => view'[j] = view'[k]
    /\ UNCHANGED <<grouped, world, asked>>

Init == grouped \in BOOLEAN /\ world = 1 /\ asked = 1 /\ view = Unknown
Next == Changes \/ Begin \/ Replace
Spec == Init /\ [][Next]_<<grouped, world, asked, view>>
============================================================================
