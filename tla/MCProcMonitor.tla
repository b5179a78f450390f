--------------------------- MODULE MCProcMonitor ---------------------------
(* Symmetry of the goroutines, for the safety runs, and a joint bound on   *)
(* what happens to the file, for the liveness run.                         *)
EXTENDS ProcMonitor, TLC

Symmetry == Permutations(Runs) \cup Permutations(Checks)

\* Restart lines and faults, taken together.
MaxTroubles == 2

LiveSpec ==
  /\ Init
  /\ [][Next /\ written' + faults' <= MaxTroubles]_vars
  /\ Fairness
=============================================================================
