------------------------------- MODULE MCSimulationRuns -------------------------------
(* Three requests: two that race and one afterwards, or one after each restart.            *)
EXTENDS SimulationRuns

CONSTANTS r1, r2, r3, p1, p2
=======================================================================================
