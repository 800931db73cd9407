------------------------------ MODULE Readings ------------------------------
(***************************************************************************)
(* What an emulated node shows of its energy, in both ways it is read: the *)
(* counters the emulator exports, and the files of a live view.            *)
(***************************************************************************)
EXTENDS Emulator, LiveView

(* Every counter the emulator's nodes and the live view show is durable    *)
(* (Emulator: CountersAreDurable, LiveView: ReadsAreDurable).              *)
ReadingsAreDurable == CountersAreDurable /\ ReadsAreDurable
=============================================================================
