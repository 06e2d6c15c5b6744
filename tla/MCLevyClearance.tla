-------------------------- MODULE MCLevyClearance --------------------------
(* Small instances of LevyClearance: a grace period of one tick. *)
EXTENDS LevyAccess

MCGrace == 1
=============================================================================
