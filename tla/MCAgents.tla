-------------------------------- MODULE MCAgents ---------------------------------
(* Instances of Agents for TLC. *)
EXTENDS Agents, TLC

Interchangeable ==
    Permutations(Processes) \cup Permutations(Calls) \cup Permutations(Contents)
================================================================================
