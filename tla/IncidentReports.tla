--------------------------- MODULE IncidentReports ---------------------------
(***************************************************************************)
(* IncidentLifecycle, with variables and constants that no other component *)
(* names: the instance of it that is checked, and that can be spoken of    *)
(* beside the guards' shifts.                                              *)
(***************************************************************************)
EXTENDS Server

CONSTANTS Incidents, Services, OtherStatuses

VARIABLES kind, status, guardSos, chat, gps, told, forked, cut, overlapped,
          outside, incidentPc, subject, action, snap

I == INSTANCE IncidentLifecycle WITH pc <- incidentPc

(* There are two services, and statuses that SosService does not know.     *)
ASSUME IncidentsAssumption ==
    /\ Services \subseteq {"sos", "incident"}
    /\ OtherStatuses \subseteq {"ASSIGNED", "IN_PROGRESS", "OVERDUE", "BREACHED"}

IncidentSpec == I!Spec

-----------------------------------------------------------------------------
(* Chat room and guard's alarm agree with the incident, unless requests    *)
(* about it overlapped or were cut off in IncidentService.                 *)
RecordsAgree == I!RecordsAgree

(* The timeline ends with the status, tells nothing twice, and chains but  *)
(* for what overlapped.                                                    *)
TimelineIsTrue == I!TimelineIsTrue

(* sos-transition.service.ts: what is over stays over, unless requests     *)
(* overlap or IncidentService writes to it.                                *)
OverStaysOver == I!OverStaysOver
=============================================================================
