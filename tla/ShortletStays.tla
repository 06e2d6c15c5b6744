---------------------------- MODULE ShortletStays ----------------------------
(***************************************************************************)
(* Shortlets, with variables and constants that no other component names:  *)
(* the instance of it that is checked, and that can be spoken of beside    *)
(* the registrations that are charged for.                                 *)
(***************************************************************************)
EXTENDS Server

CONSTANTS Properties, Bookings, PropertyOf

VARIABLES propertyStatus, feePaid, yearOver, booking, ended, inside,
          shortletPc, subject, read, cron, found, propertyOverlapped

Stay == INSTANCE Shortlets WITH status <- propertyStatus, pc <- shortletPc,
                                overlapped <- propertyOverlapped

(* A booking is of one property.                                           *)
ASSUME ShortletsAssumption ==
    /\ PropertyOf \in [Bookings -> Properties]
    /\ None \notin Properties \cup Bookings \cup {"ACTIVE", "CHECKED_IN"}

ShortletSpec     == Stay!Spec
ShortletFairSpec == Stay!FairSpec

-----------------------------------------------------------------------------
(* What bookings and properties are shown as is what they are, however     *)
(* scans, activations and the scheduler interleave.                        *)
StatusIsTrue == Stay!StatusIsTrue

(* What is suspended is only activated, and what has expired is not,       *)
(* unless two writers of the property overlap.                             *)
ShortletDecisionsHold == Stay!DecisionsHold

(* The scheduler ends what is over.                                        *)
WhatIsOverEnds == Stay!WhatIsOverEnds
=============================================================================
