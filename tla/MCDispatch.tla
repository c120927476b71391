------------------------------ MODULE MCDispatch ------------------------------
(* Model-checking instance of Dispatch.                                    *)
EXTENDS Dispatch, TLC

Symmetry == Permutations(Calls) \union Permutations(Hosts) \union Permutations(Invs)
=============================================================================
