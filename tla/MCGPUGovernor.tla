-------------------------- MODULE MCGPUGovernor --------------------------
(* Instances of GPUGovernor: what the GPUs of the node can do, and what is *)
(* asked of them.                                                          *)
EXTENDS GPUGovernor

SameTable == [nvidia |-> [g \in GPUs |-> "memory"], amd |-> [g \in GPUs |-> "both"]]

SomePresets == [nvidia |-> {"efficient", "low"}, amd |-> {"efficient", "auto"}]
============================================================================
