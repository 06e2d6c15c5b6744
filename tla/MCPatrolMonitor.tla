--------------------------- MODULE MCPatrolMonitor ---------------------------
(* Two checkpoints, a guard and two overlapping runs of the monitor.       *)
EXTENDS PatrolRounds
=============================================================================
