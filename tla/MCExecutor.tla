------------------------------ MODULE MCExecutor ------------------------------
(* The executor with the constants of tools/executor.py.                   *)
EXTENDS Executor
=============================================================================
