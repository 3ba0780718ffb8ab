--------------------------- MODULE MCBenchmarkRun ---------------------------
(* Two configurations whose plans share a task; only A pairs two solvers.  *)
EXTENDS BenchmarkRun, TLC

CONSTANTS A, B
MCConfigs == {A, B}
MCTasks == 1..4
MCPlan == (A :> {1, 2, 3}) @@ (B :> {3, 4})
=============================================================================
