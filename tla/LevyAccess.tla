----------------------------- MODULE LevyAccess ------------------------------
(***************************************************************************)
(* LevyClearance, with variables and constants that no other component     *)
(* names: the instance of it that is checked, and that can be spoken of    *)
(* beside the gate.                                                        *)
(***************************************************************************)
EXTENDS Integers, Server

CONSTANTS Levies, Grace, GraceSettings, MaxTime, MaxChanges

VARIABLES now, approvedAt, graceOn, due, bill, cleared, changes, overlapped,
          levyPc, levy, at, verdict, snap

L == INSTANCE LevyClearance WITH pc <- levyPc

(* The grace period is a time, the setting is on or off.                   *)
ASSUME LevyAssumption ==
    /\ Grace \in Nat /\ MaxTime \in Nat /\ MaxChanges \in Nat
    /\ GraceSettings \subseteq BOOLEAN
    /\ None \notin Nat \cup Levies

LevySpec     == L!Spec
LevyFairSpec == L!FairSpec

-----------------------------------------------------------------------------
(* updateResidentLevyCleared, its copies and the RolesGuard: the flag goes *)
(* on when it must and off only for cause, unless requests overlap.        *)
FlagIsTrue == L!FlagIsTrue

(* Whatever made the flag stale, the cron corrects it.                     *)
StaleFlagIsCorrected == L!StaleFlagIsCorrected
=============================================================================
