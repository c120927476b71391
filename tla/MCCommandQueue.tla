---------------------------- MODULE MCCommandQueue ----------------------------
(* Model-checking instance of CommandQueue.                                *)
EXTENDS CommandQueue, TLC

Symmetry == Permutations(Hosts) \union Permutations(Cmds)
              \union Permutations(Streams) \union Permutations(Calls)
=============================================================================
