---------------------------- MODULE PatrolRounds -----------------------------
(***************************************************************************)
(* PatrolMonitor, with variables and constants that no other component     *)
(* names: the instance of it that is checked, and that can be spoken of    *)
(* beside the guards' shifts.                                              *)
(***************************************************************************)
EXTENDS Server

CONSTANTS Monitors, Checkpoints

VARIABLES checkpoint, overdue, alerts, patrolPc, point, round, visit, todo,
          crossed

M == INSTANCE PatrolMonitor WITH pc <- patrolPc

ASSUME PatrolAssumption == None \notin Checkpoints

PatrolSpec     == M!Spec
PatrolFairSpec == M!FairSpec

-----------------------------------------------------------------------------
(* One active alert at most, and only while the checkpoint is overdue or   *)
(* being scanned, unless a scan or another run of the monitor came between.*)
AlertsAreTrue == M!AlertsAreTrue

(* Whatever becomes overdue is scanned or alerted.                         *)
MissedIsAlerted == M!MissedIsAlerted
=============================================================================
