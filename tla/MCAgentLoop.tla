------------------------------ MODULE MCAgentLoop ------------------------------
(* Model-checking instance of AgentLoop.                                   *)
EXTENDS AgentLoop, TLC

Symmetry == Permutations(Cmds) \union Permutations(Invs) \union Permutations(Requests)
=============================================================================
