-------------------------- MODULE MCTaskWorkflow --------------------------
(* TaskWorkflow for TLC.  Agents and runs are interchangeable: no action   *)
(* names one of them.                                                      *)
EXTENDS TaskWorkflow, TLC

Symmetric == Permutations(Agents) \cup Permutations(Runs)

=============================================================================
