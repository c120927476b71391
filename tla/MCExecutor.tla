------------------------------- MODULE MCExecutor -------------------------------
(* Model-checking instance of Executor.                                    *)
EXTENDS Executor
=============================================================================
