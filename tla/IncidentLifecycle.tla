------------------------- MODULE IncidentLifecycle -------------------------
(***************************************************************************)
(* Emergencies and other incidents: sos.service.ts with its transition,    *)
(* timeline and chat services, and incident.service.ts.                    *)
(*                                                                         *)
(* Two services write the same Incident row.  SosService judges a status   *)
(* it read first, then does everything in one transaction.                 *)
(* IncidentService judges nothing and writes status, timeline entry and    *)
(* chat room by separate statements.                                       *)
(***************************************************************************)
EXTENDS Integers, FiniteSets, Server

CONSTANTS
    Incidents,      \* incidents that may be reported
    Services,       \* the services in use: "sos", "incident"
    OtherStatuses   \* statuses only updateIncidentStatus can give

VARIABLES
    kind,           \* what was reported, and through which service
    status,         \* Incident.status
    guardSos,       \* GuardSOS.status of a guard's alarm
    chat,           \* the incident's chat room
    gps,            \* GPS_ACTIVATED entries of the timeline
    told,           \* the status the last entry of the timeline tells
    forked,         \* history: an entry's previousStatus was not the last told
    cut,            \* history: a request about it ended half way
    overlapped,     \* history: two requests were about it at once
    outside,        \* history: IncidentService wrote to it
    pc, subject, action, snap   \* a request: position, incidents, SosAction,
                                \* status it read

record  == <<kind, status, guardSos, chat, gps>>
marks   == <<cut, overlapped, outside>>
history == <<told, forked, marks>>
request == <<pc, subject, action, snap>>
vars    == <<record, history, request>>

SosKinds   == {"GUARD", "RESIDENT", "ADMIN"}
Kinds      == SosKinds \cup {"RESIDENT_SOS", "EMERGENCY", "REPORT"}
Emergency  == Kinds \ {"REPORT"}
ByResident == {"RESIDENT", "RESIDENT_SOS"}

Active   == {"OPEN", "UNDER_REVIEW", "ESCALATED", "ASSIGNED", "IN_PROGRESS"}
Over     == {"RESOLVED", "FALSE_ALARM", "CLOSED"}
Statuses == {"OPEN", "UNDER_REVIEW", "ESCALATED"} \cup Over \cup OtherStatuses
Actions  == {"ACKNOWLEDGE", "ESCALATE", "SILENCE", "RESOLVE", "FALSE_ALARM",
             "CLOSE"}
Positions == {"idle", "act", "locate", "report", "resolveAll", "entry",
              "closing"}

Init ==
    /\ kind = [i \in Incidents |-> "NONE"]
    /\ status = [i \in Incidents |-> "NONE"]
    /\ guardSos = [i \in Incidents |-> "NONE"]
    /\ chat = [i \in Incidents |-> "NONE"]
    /\ gps = [i \in Incidents |-> 0]
    /\ told = [i \in Incidents |-> "NONE"]
    /\ forked = {}
    /\ cut = {}
    /\ overlapped = {}
    /\ outside = {}
    /\ pc = [t \in Threads |-> "idle"]
    /\ subject = [t \in Threads |-> {}]
    /\ action = [t \in Threads |-> None]
    /\ snap = [t \in Threads |-> None]

(* A request begins to concern incidents. *)
Touch(incidents) ==
    overlapped' = overlapped
        \cup {i \in incidents : \E t \in Threads : i \in subject[t]}

FromOutside(incidents) ==
    /\ "incident" \in Services
    /\ outside' = outside \cup incidents

Start(t, position, incidents) ==
    /\ pc[t] = "idle"
    /\ Touch(incidents)
    /\ pc' = [pc EXCEPT ![t] = position]
    /\ subject' = [subject EXCEPT ![t] = incidents]

GoTo(t, position) ==
    /\ pc' = [pc EXCEPT ![t] = position]
    /\ UNCHANGED <<subject, action, snap>>

Leave(t) ==
    /\ pc' = [pc EXCEPT ![t] = "idle"]
    /\ subject' = [subject EXCEPT ![t] = {}]
    /\ action' = [action EXCEPT ![t] = None]
    /\ snap' = [snap EXCEPT ![t] = None]

SetStatus(incidents, s) ==
    status' = [i \in Incidents |-> IF i \in incidents THEN s ELSE status[i]]

Tell(incidents, s) ==
    told' = [i \in Incidents |-> IF i \in incidents THEN s ELSE told[i]]

(* Whatever the request has committed stays; only IncidentService commits  *)
(* before its end.                                                         *)
HalfWay == {"report", "entry", "closing"}

Fail(t) ==
    /\ pc[t] # "idle"
    /\ cut' = IF pc[t] \in HalfWay THEN cut \cup subject[t] ELSE cut
    /\ Leave(t)
    /\ UNCHANGED <<record, told, forked, overlapped, outside>>

-----------------------------------------------------------------------------
(* SosService. *)

(* Incident, alarm, room, timeline and notifications are one transaction.  *)
OpenSos(i, k, s, located) ==
    /\ "sos" \in Services
    /\ status[i] = "NONE"
    /\ kind' = [kind EXCEPT ![i] = k]
    /\ SetStatus({i}, s)
    /\ Tell({i}, s)
    /\ gps' = [gps EXCEPT ![i] = located]
    /\ guardSos' = IF k = "GUARD" THEN [guardSos EXCEPT ![i] = "ACTIVE"]
                   ELSE guardSos
    /\ chat' = [chat EXCEPT ![i] = "OPEN"]
    /\ UNCHANGED <<forked, marks, request>>

(* An alarm may carry a position; an administrator may escalate at once. *)
CreateGuardSos(i) == \E located \in 0..1 : OpenSos(i, "GUARD", "OPEN", located)

CreateResidentSos(i) ==
    \E located \in 0..1 : OpenSos(i, "RESIDENT", "OPEN", located)

CreateAdminSos(i) ==
    \E s \in {"OPEN", "ESCALATED"} : OpenSos(i, "ADMIN", s, 0)

(* assertAllowed *)
Allowed_Completed(current, a) ==
    /\ current # "CLOSED"
    /\ a = "CLOSE" => current \in Over
Allowed(current, a) ==
    /\ current # "CLOSED"
    /\ a = "CLOSE" => current \in Over
    /\ a \in {"ACKNOWLEDGE", "ESCALATE", "SILENCE"} => current \notin Over

RequireIncident(i) == kind[i] \in Emergency

BeginAct(t, i, a) ==
    /\ "sos" \in Services
    /\ RequireIncident(i)
    /\ Allowed(status[i], a)
    /\ Start(t, "act", {i})
    /\ action' = [action EXCEPT ![t] = a]
    /\ snap' = [snap EXCEPT ![t] = status[i]]
    /\ UNCHANGED <<record, told, forked, cut, outside>>

(* updateFor *)
NextStatus(a, current) ==
    CASE a = "ACKNOWLEDGE" -> "UNDER_REVIEW"
      [] a = "ESCALATE"    -> "ESCALATED"
      [] a = "SILENCE"     -> current
      [] a = "RESOLVE"     -> "RESOLVED"
      [] a = "FALSE_ALARM" -> "FALSE_ALARM"
      [] a = "CLOSE"       -> "CLOSED"

(* nextStatus of the entry is the one the update returned. *)
EntryStatus(t, i) == NextStatus(action[t], status[i])

GuardSosStatus(a, current) ==
    CASE a = "ACKNOWLEDGE" -> "ACKNOWLEDGED"
      [] a = "RESOLVE"     -> "RESOLVED"
      [] OTHER             -> current

IsClosingAction_NotFalseAlarm(a) == a \in {"RESOLVE", "CLOSE"}
IsClosingAction(a) == a \in {"RESOLVE", "FALSE_ALARM", "CLOSE"}

(* The update of the incident comes first and locks it: another act waits, *)
(* then overwrites without looking at the status again.                    *)
CommitAct(t) ==
    LET a == action[t] IN
    /\ pc[t] = "act"
    /\ \E i \in subject[t] :
          /\ SetStatus({i}, NextStatus(a, status[i]))
          /\ Tell({i}, EntryStatus(t, i))
          /\ forked' = IF snap[t] = told[i] THEN forked ELSE forked \cup {i}
          /\ guardSos' = IF guardSos[i] = "NONE" THEN guardSos
                         ELSE [guardSos EXCEPT ![i] = GuardSosStatus(a, @)]
          /\ chat' = IF IsClosingAction(a) /\ chat[i] = "OPEN"
                     THEN [chat EXCEPT ![i] = "CLOSED"] ELSE chat
    /\ Leave(t)
    /\ UNCHANGED <<kind, gps, marks>>

AssertIncidentIsActive(i) == status[i] \notin Over

BeginUpdateLocation(t, i) ==
    /\ "sos" \in Services
    /\ RequireIncident(i)
    /\ chat[i] # "NONE"         \* only participants of the chat
    /\ AssertIncidentIsActive(i)
    /\ Start(t, "locate", {i})
    /\ UNCHANGED <<record, told, forked, cut, outside, action, snap>>

GpsAlreadyActivated_Unchecked(i) == FALSE
GpsAlreadyActivated(i) == gps[i] > 0

(* Here too the incident is updated, and locked, before the timeline is    *)
(* searched.                                                               *)
CommitUpdateLocation(t) ==
    /\ pc[t] = "locate"
    /\ \E i \in subject[t] :
          gps' = IF GpsAlreadyActivated(i) THEN gps
                 ELSE [gps EXCEPT ![i] = @ + 1]
    /\ Leave(t)
    /\ UNCHANGED <<kind, status, guardSos, chat, history>>

-----------------------------------------------------------------------------
(* IncidentService. *)

(* createIncident, createResidentSOS: the incident first ... *)
CreateIncident(i) ==
    \E k \in {"EMERGENCY", "REPORT"} : kind' = [kind EXCEPT ![i] = k]

ReportResidentSos(i) == kind' = [kind EXCEPT ![i] = "RESIDENT_SOS"]

ReportIncident(t, i) ==
    /\ FromOutside({i})
    /\ status[i] = "NONE"
    /\ CreateIncident(i) \/ ReportResidentSos(i)
    /\ SetStatus({i}, "OPEN")
    /\ Tell({i}, "OPEN")
    /\ Start(t, "report", {i})
    /\ UNCHANGED <<guardSos, chat, gps, forked, cut, action, snap>>

(* ... its room later: by then it may be resolved. *)
CreateIncidentChat(t) ==
    /\ pc[t] = "report"
    /\ chat' = [i \in Incidents |->
                  IF i \in subject[t] /\ chat[i] = "NONE" THEN "OPEN"
                  ELSE chat[i]]
    /\ Leave(t)
    /\ UNCHANGED <<kind, status, guardSos, gps, history>>

(* assignIncident, startIncident: no entry, and any status before. *)
StartIncident(i) ==
    /\ FromOutside({i})
    /\ Touch({i})
    /\ status[i] # "NONE"
    /\ SetStatus({i}, "UNDER_REVIEW")
    /\ UNCHANGED <<kind, guardSos, chat, gps, told, forked, cut, request>>

(* mapTimelineEvent: the other statuses leave no entry. *)
Told == Over \cup {"ESCALATED"}

UpdateIncidentStatus(t, i) ==
    /\ FromOutside({i})
    /\ status[i] # "NONE"
    /\ \E s \in Statuses :
          /\ SetStatus({i}, s)
          /\ IF s \in Told
             THEN /\ Start(t, "entry", {i})
                  /\ snap' = [snap EXCEPT ![t] = s]
                  /\ UNCHANGED action
             ELSE pc[t] = "idle" /\ Touch({i}) /\ UNCHANGED request
    /\ UNCHANGED <<kind, guardSos, chat, gps, told, forked, cut>>

CompleteIncident(t, i) ==
    /\ FromOutside({i})
    /\ status[i] # "NONE"
    /\ SetStatus({i}, "RESOLVED")
    /\ Start(t, "entry", {i})
    /\ snap' = [snap EXCEPT ![t] = "RESOLVED"]
    /\ UNCHANGED <<kind, guardSos, chat, gps, told, forked, cut, action>>

(* resolveAllResidentSOS reads which ones are active ... *)
FindResidentSos(t) ==
    LET found == {i \in Incidents : kind[i] \in ByResident
                                    /\ status[i] \in Active}
    IN
    /\ found # {}
    /\ FromOutside(found)
    /\ Start(t, "resolveAll", found)
    /\ UNCHANGED <<record, told, forked, cut, action, snap>>

(* ... and resolves them whatever they are by then. *)
ResolveAllResidentSos(t) ==
    /\ pc[t] = "resolveAll"
    /\ SetStatus(subject[t], "RESOLVED")
    /\ pc' = [pc EXCEPT ![t] = "entry"]
    /\ snap' = [snap EXCEPT ![t] = "RESOLVED"]
    /\ UNCHANGED <<kind, guardSos, chat, gps, history, subject, action>>

ClosesChat(s) == s \in Over

WriteEntry(t) ==
    /\ pc[t] = "entry"
    /\ Tell(subject[t], snap[t])
    /\ IF ClosesChat(snap[t]) THEN GoTo(t, "closing") ELSE Leave(t)
    /\ UNCHANGED <<record, forked, marks>>

(* closeIncidentChat, room after room; one that does not exist yet is left.*)
CloseIncidentChat(t) ==
    /\ pc[t] = "closing"
    /\ \E i \in subject[t] :
          /\ chat' = IF chat[i] = "OPEN" THEN [chat EXCEPT ![i] = "CLOSED"]
                     ELSE chat
          /\ IF subject[t] = {i} THEN Leave(t)
             ELSE /\ subject' = [subject EXCEPT ![t] = @ \ {i}]
                  /\ UNCHANGED <<pc, action, snap>>
    /\ UNCHANGED <<kind, status, guardSos, gps, history>>

-----------------------------------------------------------------------------

SosStep(t) ==
    \/ \E i \in Incidents, a \in Actions : BeginAct(t, i, a)
    \/ \E i \in Incidents : BeginUpdateLocation(t, i)
    \/ CommitAct(t)
    \/ CommitUpdateLocation(t)

IncidentStep(t) ==
    \/ \E i \in Incidents :
          \/ ReportIncident(t, i)
          \/ UpdateIncidentStatus(t, i)
          \/ CompleteIncident(t, i)
    \/ CreateIncidentChat(t)
    \/ FindResidentSos(t)
    \/ ResolveAllResidentSos(t)
    \/ WriteEntry(t)
    \/ CloseIncidentChat(t)

Next ==
    \/ \E i \in Incidents :
          \/ CreateGuardSos(i) \/ CreateResidentSos(i) \/ CreateAdminSos(i)
          \/ StartIncident(i)
    \/ \E t \in Threads : SosStep(t) \/ IncidentStep(t) \/ Fail(t)

Spec == Init /\ [][Next]_vars

-----------------------------------------------------------------------------
(* Properties. *)

TypeOK ==
    /\ kind \in [Incidents -> Kinds \cup {"NONE"}]
    /\ status \in [Incidents -> Statuses \cup {"NONE"}]
    /\ guardSos \in [Incidents -> {"NONE", "ACTIVE", "ACKNOWLEDGED", "RESOLVED"}]
    /\ chat \in [Incidents -> {"NONE", "OPEN", "CLOSED"}]
    /\ gps \in [Incidents -> Nat]
    /\ told \in [Incidents -> Statuses \cup {"NONE"}]
    /\ forked \subseteq Incidents
    /\ cut \subseteq Incidents
    /\ overlapped \subseteq Incidents
    /\ outside \subseteq Incidents
    /\ pc \in [Threads -> Positions]
    /\ subject \in [Threads -> SUBSET Incidents]
    /\ action \in [Threads -> Actions \cup {None}]
    /\ snap \in [Threads -> Statuses \cup {None}]

(* Nobody writes into the chat of an emergency that is over: SosService    *)
(* closes it in the transaction that ends the emergency, however its acts  *)
(* overlap.                                                                *)
OverIsReadOnly == \A i \in Incidents \ outside :
    status[i] \in Over => chat[i] = "CLOSED"

(* The last entry of the timeline tells the status the emergency has,      *)
(* however acts overlap, also after a SILENCE, which does not set it.      *)
TimelineTellsStatus == \A i \in Incidents \ outside : told[i] = status[i]

(* The guard's alarm and its incident agree on acknowledgement and         *)
(* resolution, however acts overlap.                                       *)
GuardSosAgrees == \A i \in Incidents \ outside : guardSos[i] # "NONE" =>
    /\ status[i] = "UNDER_REVIEW" => guardSos[i] = "ACKNOWLEDGED"
    /\ status[i] = "RESOLVED" => guardSos[i] = "RESOLVED"

(* GPS_ACTIVATED is recorded once, by the alarm or by the first position,  *)
(* however many devices report at the same time and whoever else writes:   *)
(* the search for the entry is behind the lock of the incident.            *)
GpsActivatedOnce == \A i \in Incidents : gps[i] <= 1

(* Every entry SosService writes starts from the status the one before it  *)
(* told, unless two requests were about the emergency at once or           *)
(* IncidentService, which skips entries, wrote to it.                      *)
TimelineIsAChain == forked \subseteq overlapped \cup outside

(* Under the same condition an emergency that is over stays over, and one  *)
(* that is closed stays closed.                                            *)
OverStaysOver == [][\A i \in Incidents \ (overlapped \cup outside)' :
    /\ status[i] \in Over => status'[i] \in Over
    /\ status[i] = "CLOSED" => status'[i] = "CLOSED"]_vars

(* Whichever service ended it, the chat of an incident that is over is     *)
(* closed once no request about it is under way, unless one was cut off    *)
(* half way or two overlapped (a room created late stays open).            *)
ChatFollowsIncident == \A i \in Incidents \ (cut \cup overlapped) :
    status[i] \in Over /\ (\A t \in Threads : i \notin subject[t])
        => chat[i] = "CLOSED"

(* What is recorded of an emergency outside its own row agrees with it:    *)
(* the chat room of either service, and the guard's alarm.                 *)
RecordsAgree == OverIsReadOnly /\ GuardSosAgrees /\ ChatFollowsIncident

(* The timeline can be trusted: its end tells the status, nothing is told  *)
(* twice, and its entries chain but for what overlapped.                   *)
TimelineIsTrue == TimelineTellsStatus /\ GpsActivatedOnce /\ TimelineIsAChain
=============================================================================
