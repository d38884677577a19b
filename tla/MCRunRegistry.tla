--------------------------- MODULE MCRunRegistry ---------------------------
(* RunRegistry for TLC: no action names a watcher or a run.                *)
EXTENDS RunRegistry, TLC

Symmetric == Permutations(Watchers) \cup Permutations(Runs)

=============================================================================
