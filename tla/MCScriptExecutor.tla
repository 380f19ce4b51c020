-------------------------- MODULE MCScriptExecutor --------------------------
(***************************************************************************)
(* Small scripts for TLC: the names of the executors.                      *)
(***************************************************************************)
EXTENDS ScriptExecutor

\* One script whose parallel blocks have up to two branches.
FlatExecutors == {<< >>, <<1>>, <<2>>}
FlatFrames == [e \in FlatExecutors |-> IF e = << >> THEN 1 ELSE 0]
=============================================================================
