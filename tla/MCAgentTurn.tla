---------------------------- MODULE MCAgentTurn ----------------------------
(* Small instances of AgentTurn for TLC. *)
EXTENDS AgentTurn, TLC

Symmetry == Permutations(Msgs) \cup Permutations(Calls) \cup Permutations(Conns)
=============================================================================
