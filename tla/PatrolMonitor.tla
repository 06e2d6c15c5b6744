---------------------------- MODULE PatrolMonitor ----------------------------
(***************************************************************************)
(* Patrol: the checkpoints and scans of src/apis/guard/guard.service.ts    *)
(* and the cron job of src/apis/patrol-monitoring, which raises an alert   *)
(* for a checkpoint that was not scanned in time.                          *)
(*                                                                         *)
(* A guard's scan and the monitor write the same rows without knowing of   *)
(* each other: the scan is stored before it resolves alerts, the monitor   *)
(* reads the last scan before it looks for an alert and raises one, and a  *)
(* run of the monitor does not wait for the one before.                    *)
(***************************************************************************)
EXTENDS Integers, Server

CONSTANTS
    Monitors,       \* runs of the cron job that may overlap
    Checkpoints

VARIABLES
    checkpoint,     \* PatrolCheckpoint: no row, no QR code yet, complete
    overdue,        \* checkpoints not scanned within requiredFrequency
    alerts,         \* ACTIVE MissedCheckpointAlert rows of each checkpoint
    pc, point,      \* a request: position, its checkpoint
    round, visit, todo, \* a monitor: position, checkpoint in hand, those left
    crossed         \* history: checkpoints scanned between the judgement of a
                    \* monitor and its alert, judged by two monitors at a time,
                    \* or whose recording was cut

tables  == <<checkpoint, overdue, alerts>>
request == <<pc, point>>
monitor == <<round, visit, todo>>
vars    == <<tables, request, monitor, crossed>>

Init ==
    /\ checkpoint = [c \in Checkpoints |-> "none"]
    /\ overdue = {}
    /\ alerts = [c \in Checkpoints |-> 0]
    /\ pc = [t \in Threads |-> "idle"]
    /\ point = [t \in Threads |-> None]
    /\ round = [m \in Monitors |-> "idle"]
    /\ visit = [m \in Monitors |-> None]
    /\ todo = [m \in Monitors |-> {}]
    /\ crossed = {}

-----------------------------------------------------------------------------
(* Requests. *)

Start(t, position, c) ==
    /\ pc[t] = "idle"
    /\ pc' = [pc EXCEPT ![t] = position]
    /\ point' = [point EXCEPT ![t] = c]

Leave(t) ==
    /\ pc' = [pc EXCEPT ![t] = "idle"]
    /\ point' = [point EXCEPT ![t] = None]

Visited(c) == \E m \in Monitors : visit[m] = c
Cross(c)   == crossed' = crossed \cup {c}

(* Any await may throw; what was written before stays. *)
Fail(t) ==
    /\ pc[t] # "idle"
    /\ Leave(t)
    /\ IF pc[t] = "resolve" THEN Cross(point[t]) ELSE UNCHANGED crossed
    /\ UNCHANGED <<tables, monitor>>

(* The row is there before its QR code is. *)
CreateCheckpoint(t, c) ==
    /\ checkpoint[c] = "none"
    /\ checkpoint' = [checkpoint EXCEPT ![c] = "blank"]
    /\ Start(t, "qrCode", c)
    /\ UNCHANGED <<overdue, alerts, monitor, crossed>>

StoreQrCode(t) ==
    /\ pc[t] = "qrCode"
    /\ checkpoint' = [checkpoint EXCEPT ![point[t]] = "complete"]
    /\ Leave(t)
    /\ UNCHANGED <<overdue, alerts, monitor, crossed>>

(* requiredFrequency minutes have gone by since the last scan. *)
BecomeOverdue(c) ==
    /\ checkpoint[c] # "none"
    /\ c \notin overdue
    /\ overdue' = overdue \cup {c}
    /\ UNCHANGED <<checkpoint, alerts, request, monitor, crossed>>

(* The scan is stored first, the alerts it answers are resolved after it.  *)
ScanCheckpoint(t, c) ==
    /\ checkpoint[c] = "complete"
    /\ overdue' = overdue \ {c}
    /\ Start(t, "resolve", c)
    /\ IF Visited(c) THEN Cross(c) ELSE UNCHANGED crossed
    /\ UNCHANGED <<checkpoint, alerts, monitor>>

RemainingAlerts_Left(c) == alerts[c]
RemainingAlerts(c) == 0

ResolveAlerts(t) ==
    LET c == point[t] IN
    /\ pc[t] = "resolve"
    /\ alerts' = [alerts EXCEPT ![c] = RemainingAlerts(c)]
    /\ crossed' = IF Visited(c) THEN crossed ELSE crossed \ {c}
    /\ Leave(t)
    /\ UNCHANGED <<checkpoint, overdue, monitor>>

-----------------------------------------------------------------------------
(* The cron job. *)

(* Every five minutes, whether or not the last run has ended. *)
StartRound(m) ==
    LET points == {c \in Checkpoints : checkpoint[c] # "none"} IN
    /\ round[m] = "idle"
    /\ points # {}
    /\ round' = [round EXCEPT ![m] = "judge"]
    /\ todo' = [todo EXCEPT ![m] = points]
    /\ UNCHANGED <<tables, request, visit, crossed>>

(* continue: on to the next checkpoint, if there is one. *)
Proceed(m, rest) ==
    /\ todo' = [todo EXCEPT ![m] = rest]
    /\ visit' = [visit EXCEPT ![m] = None]
    /\ round' = [round EXCEPT ![m] = IF rest = {} THEN "idle" ELSE "judge"]

IsMissed_Never(c) == FALSE
IsMissed(c) == c \in overdue

JudgeCheckpoint(m, c) ==
    /\ round[m] = "judge"
    /\ c \in todo[m]
    /\ IF IsMissed(c)
       THEN /\ round' = [round EXCEPT ![m] = "check"]
            /\ visit' = [visit EXCEPT ![m] = c]
            /\ IF Visited(c) THEN Cross(c) ELSE UNCHANGED crossed
            /\ UNCHANGED todo
       ELSE Proceed(m, todo[m] \ {c}) /\ UNCHANGED crossed
    /\ UNCHANGED <<tables, request>>

AlreadyAlerted(c) == alerts[c] > 0

FindAlert(m) ==
    /\ round[m] = "check"
    /\ IF AlreadyAlerted(visit[m])
       THEN Proceed(m, todo[m] \ {visit[m]})
       ELSE /\ round' = [round EXCEPT ![m] = "raise"]
            /\ UNCHANGED <<visit, todo>>
    /\ UNCHANGED <<tables, request, crossed>>

RaiseAlert(m) ==
    /\ round[m] = "raise"
    /\ alerts' = [alerts EXCEPT ![visit[m]] = @ + 1]
    /\ Proceed(m, todo[m] \ {visit[m]})
    /\ UNCHANGED <<checkpoint, overdue, request, crossed>>

(* An exception in the loop leaves the remaining checkpoints unvisited. *)
RoundFails(m) ==
    /\ round[m] # "idle"
    /\ Proceed(m, {})
    /\ UNCHANGED <<tables, request, crossed>>

-----------------------------------------------------------------------------

Request(t) ==
    \/ \E c \in Checkpoints : CreateCheckpoint(t, c)
    \/ \E c \in Checkpoints : ScanCheckpoint(t, c)
    \/ StoreQrCode(t) \/ ResolveAlerts(t) \/ Fail(t)

Judge(m) == \E c \in Checkpoints : JudgeCheckpoint(m, c)

Monitor(m) ==
    StartRound(m) \/ Judge(m) \/ FindAlert(m) \/ RaiseAlert(m) \/ RoundFails(m)

Next ==
    \/ \E c \in Checkpoints : BecomeOverdue(c)
    \/ \E t \in Threads : Request(t)
    \/ \E m \in Monitors : Monitor(m)

Spec == Init /\ [][Next]_vars

(* The cron job starts again and again, a run of it goes on or ends, and   *)
(* the runs do not throw for ever at the same checkpoint.                  *)
Fairness ==
    /\ \A m \in Monitors : WF_vars(Monitor(m))
    /\ \A c \in Checkpoints :
          /\ SF_vars(\E m \in Monitors : JudgeCheckpoint(m, c))
          /\ SF_vars(\E m \in Monitors : visit[m] = c /\ FindAlert(m))
          /\ SF_vars(\E m \in Monitors : visit[m] = c /\ RaiseAlert(m))

FairSpec == Spec /\ Fairness

-----------------------------------------------------------------------------
(* Properties. *)

(* Every table holds rows of its own kind and every request a checkpoint.  *)
TypeOK ==
    /\ checkpoint \in [Checkpoints -> {"none", "blank", "complete"}]
    /\ overdue \subseteq Checkpoints
    /\ alerts \in [Checkpoints -> Nat]
    /\ pc \in [Threads -> {"idle", "qrCode", "resolve"}]
    /\ point \in [Threads -> Checkpoints \cup {None}]
    /\ round \in [Monitors -> {"idle", "judge", "check", "raise"}]
    /\ visit \in [Monitors -> Checkpoints \cup {None}]
    /\ todo \in [Monitors -> SUBSET Checkpoints]
    /\ crossed \subseteq Checkpoints

(* patrol-monitoring.service.ts:46 "avoid duplicate active alerts": a      *)
(* checkpoint has at most one ACTIVE alert, and has one only while it is   *)
(* overdue or its scan is being recorded, unless since its last recorded   *)
(* scan one came in between the judgement of the monitor and its alert,    *)
(* two runs of the monitor judged it at a time, or a recording was cut.    *)
BeingScanned(c) == \E t \in Threads : pc[t] = "resolve" /\ point[t] = c

AlertsAreTrue == \A c \in Checkpoints \ crossed :
    /\ alerts[c] <= 1
    /\ alerts[c] = 1 => c \in overdue \/ BeingScanned(c)

(* Whatever becomes overdue is scanned or alerted. *)
MissedIsAlerted == \A c \in Checkpoints :
    c \in overdue ~> (c \notin overdue \/ alerts[c] > 0)
=============================================================================
