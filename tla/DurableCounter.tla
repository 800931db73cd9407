--------------------------- MODULE DurableCounter ---------------------------
(***************************************************************************)
(* What a scraper may rely on in an exported counter: within one series    *)
(* (one start time) it only grows, it never shows more than was consumed,  *)
(* and a reset comes with a later start time, as OTLP asks.  Emulator      *)
(* implements it across ticks that fail, crashes and restarts.             *)
(***************************************************************************)
EXTENDS Naturals

CONSTANT Counters
VARIABLES shown,   \* counter -> [start, j], as last exported
          real     \* counter -> what was consumed so far

Init == /\ shown = [c \in Counters |-> [start |-> 0, j |-> 0]]
        /\ real = [c \in Counters |-> 0]

Consume == \A c \in Counters : real'[c] >= real[c]

Show(c) ==
    /\ shown'[c].j <= real'[c]
    /\ \/ shown'[c].start = shown[c].start /\ shown'[c].j >= shown[c].j
       \/ shown'[c].start > shown[c].start

Next == Consume /\ \A c \in Counters : Show(c)

Spec == Init /\ [][Next]_<<shown, real>>
=============================================================================
