---------------------------- MODULE VisitorGate ----------------------------
(***************************************************************************)
(* Visitor passes at the estate gate: visitor.service.ts and the tracking  *)
(* sessions of tracking.service.ts.                                        *)
(*                                                                         *)
(* A resident invites, edits and revokes; guards scan, validate, deny,     *)
(* check in and check out.  Every handler judges a visitor row it read     *)
(* before its transaction, so two handlers of one visitor can both find    *)
(* their step legal.  The gate queue has one row per visitor and status.   *)
(***************************************************************************)
EXTENDS Integers, FiniteSets, Server

CONSTANTS
    Visitors,
    MaxEntries,     \* bound on total_entries
    MaxUpdates,     \* bound on the edits of an invitation
    MaxSessions     \* bound on the active sessions of a visitor

ASSUME ThreadsAssumption == IsFiniteSet(Threads) /\ Threads # {}
ASSUME BoundsAssumption ==
    MaxEntries \in Nat /\ MaxUpdates \in Nat /\ MaxSessions \in Nat
ASSUME NoneAssumption == None \notin Visitors

VARIABLES
    status,         \* Visitor.status
    remaining,      \* Visitor.remaining_entries
    expired,        \* visitors whose expiresAt has passed
    queue,          \* statuses of the visitor's GateQueue rows
    sessions,       \* active TrackingSessions of the visitor
    inside,         \* CHECK_IN rows less CHECK_OUT rows of the gate log
    stopped,        \* history: visitors with a session ended by hand
    updates,        \* edits counted by MaxUpdates
    disturbed,      \* history: visitors two requests were about at once, or
                    \* whose pass was found expired while they were inside
    pc, visitor     \* a request: position and argument

request  == <<pc, visitor>>
tracking == <<sessions, stopped>>
pass     == <<status, remaining, expired, updates>>
vars     == <<pass, queue, tracking, inside, disturbed, request>>

Statuses  == {"NONE", "PENDING", "CHECKED_IN", "CHECKED_OUT", "EXPIRED",
              "DENIED", "REVOKED"}
Positions == {"idle", "update", "expire", "deny", "admit", "tracked",
              "checkOut", "revoke"}
Entries   == 1..MaxEntries

Init ==
    /\ status = [v \in Visitors |-> "NONE"]
    /\ remaining = [v \in Visitors |-> 0]
    /\ expired = {}
    /\ queue = [v \in Visitors |-> {}]
    /\ sessions = [v \in Visitors |-> 0]
    /\ inside = [v \in Visitors |-> 0]
    /\ stopped = {}
    /\ updates = [v \in Visitors |-> 0]
    /\ disturbed = {}
    /\ pc = [t \in Threads |-> "idle"]
    /\ visitor = [t \in Threads |-> None]

Start(t, v, position) ==
    /\ pc[t] = "idle"
    /\ status[v] # "NONE"
    /\ pc' = [pc EXCEPT ![t] = position]
    /\ visitor' = [visitor EXCEPT ![t] = v]
    /\ disturbed' = IF \E u \in Threads : visitor[u] = v
                    THEN disturbed \cup {v} ELSE disturbed
    /\ UNCHANGED <<pass, queue, tracking, inside>>

End(t) ==
    /\ pc' = [pc EXCEPT ![t] = "idle"]
    /\ visitor' = [visitor EXCEPT ![t] = None]

Leave(t) == End(t) /\ UNCHANGED disturbed

(* A check-in that has updated the visitor's row, and not committed, holds *)
(* the row: other writers wait.                                            *)
Locked(v) == \E t \in Threads : pc[t] = "tracked" /\ visitor[t] = v

SetStatus(v, s) == status' = [status EXCEPT ![v] = s]

(* An exception, an aborted transaction, a crash.  The session a check-in  *)
(* started is on another connection and survives.                          *)
Fail(t) ==
    /\ pc[t] # "idle"
    /\ Leave(t)
    /\ UNCHANGED <<pass, queue, tracking, inside>>

-----------------------------------------------------------------------------
(* The resident. *)

CreateVisitor(v) ==
    /\ status[v] = "NONE"
    /\ SetStatus(v, "PENDING")
    /\ \E n \in Entries : remaining' = [remaining EXCEPT ![v] = n]
    /\ UNCHANGED <<expired, updates, queue, tracking, inside, disturbed,
                   request>>

BeginUpdate(t, v) ==
    /\ status[v] # "REVOKED"
    /\ updates[v] < MaxUpdates
    /\ Start(t, v, "update")

(* An edit may move the date, refill the entries, both or neither; status  *)
(* is left alone, an expired or denied pass stays so.                      *)
CommitUpdate(t) ==
    LET v == visitor[t] IN
    /\ pc[t] = "update"
    /\ ~Locked(v)
    /\ expired' \in {expired, expired \ {v}}
    /\ \/ UNCHANGED remaining
       \/ \E n \in Entries : remaining' = [remaining EXCEPT ![v] = n]
    /\ updates' = [updates EXCEPT ![v] = @ + 1]
    /\ Leave(t)
    /\ UNCHANGED <<status, queue, tracking, inside>>

BeginRevoke(t, v) ==
    /\ status[v] \notin {"REVOKED", "CHECKED_IN"}
    /\ Start(t, v, "revoke")

CommitRevoke(t) ==
    LET v == visitor[t] IN
    /\ pc[t] = "revoke"
    /\ ~Locked(v)
    /\ SetStatus(v, "REVOKED")
    /\ Leave(t)
    /\ UNCHANGED <<remaining, expired, updates, queue, tracking, inside>>

(* Time passes expiresAt. *)
Expire(v) ==
    /\ v \notin expired
    /\ status[v] # "NONE"
    /\ expired' = expired \cup {v}
    /\ UNCHANGED <<status, remaining, updates, queue, tracking, inside,
                   disturbed, request>>

-----------------------------------------------------------------------------
(* The gate. *)

(* validateVisitor and checkIn both mark a pass they find expired, without *)
(* asking whether the visitor is inside.                                   *)
FindExpired(t, v) ==
    /\ v \in expired
    /\ status[v] # "REVOKED"
    /\ Start(t, v, "expire")

MarkExpired(t) ==
    LET v == visitor[t] IN
    /\ pc[t] = "expire"
    /\ ~Locked(v)
    /\ SetStatus(v, "EXPIRED")
    /\ disturbed' = IF status[v] = "CHECKED_IN" THEN disturbed \cup {v}
                    ELSE disturbed
    /\ End(t)
    /\ UNCHANGED <<remaining, expired, updates, queue, tracking, inside>>

(* Any pass can be scanned, any number of times. *)
ScanQR(v) ==
    /\ status[v] # "NONE"
    /\ queue' = [queue EXCEPT ![v] = @ \cup {"WAITING"}]
    /\ UNCHANGED <<pass, tracking, inside, disturbed, request>>

(* updateMany of the WAITING row: unique (visitorId, status) aborts the    *)
(* transaction when a row with the new status is already there.            *)
CanLeaveQueue(v, newStatus) ==
    "WAITING" \in queue[v] => newStatus \notin queue[v]

LeaveQueue(v, newStatus) ==
    IF "WAITING" \in queue[v]
    THEN [queue EXCEPT ![v] = (@ \ {"WAITING"}) \cup {newStatus}]
    ELSE queue

BeginDeny(t, v) ==
    /\ status[v] \notin {"DENIED", "CHECKED_IN", "REVOKED"}
    /\ Start(t, v, "deny")

CommitDeny(t) ==
    LET v == visitor[t] IN
    /\ pc[t] = "deny"
    /\ ~Locked(v)
    /\ CanLeaveQueue(v, "DENIED")
    /\ SetStatus(v, "DENIED")
    /\ queue' = LeaveQueue(v, "DENIED")
    /\ Leave(t)
    /\ UNCHANGED <<remaining, expired, updates, tracking, inside>>

HasEntries_Unchecked(v) == TRUE
HasEntries(v) == remaining[v] > 0

MayEnter_IfRevoked(v) == status[v] # "CHECKED_IN"
MayEnter(v) == status[v] \notin {"REVOKED", "CHECKED_IN"}

BeginCheckIn(t, v) ==
    /\ MayEnter(v)
    /\ v \notin expired
    /\ HasEntries(v)
    /\ Start(t, v, "admit")

SessionsStarted_None(v) == sessions
SessionsStarted(v) == [sessions EXCEPT ![v] = @ + 1]

(* Inside the transaction, after its writes, on another connection. *)
StartTracking(t) ==
    LET v == visitor[t] IN
    /\ pc[t] = "admit"
    /\ ~Locked(v)
    /\ CanLeaveQueue(v, "APPROVED")
    /\ sessions[v] < MaxSessions
    /\ sessions' = SessionsStarted(v)
    /\ pc' = [pc EXCEPT ![t] = "tracked"]
    /\ UNCHANGED <<pass, queue, stopped, inside, disturbed, visitor>>

CheckedInStatus == "CHECKED_IN"

CommitCheckIn(t) ==
    LET v == visitor[t] IN
    /\ pc[t] = "tracked"
    /\ SetStatus(v, CheckedInStatus)
    /\ remaining' = [remaining EXCEPT ![v] = @ - 1]
    /\ inside' = [inside EXCEPT ![v] = @ + 1]
    /\ queue' = LeaveQueue(v, "APPROVED")
    /\ Leave(t)
    /\ UNCHANGED <<expired, updates, tracking>>

BeginCheckOut(t, v) ==
    /\ status[v] = "CHECKED_IN"
    /\ Start(t, v, "checkOut")

(* All active sessions end with the transaction; stopTracking of the one   *)
(* read before it then changes nothing.                                    *)
CommitCheckOut(t) ==
    LET v == visitor[t] IN
    /\ pc[t] = "checkOut"
    /\ ~Locked(v)
    /\ SetStatus(v, "CHECKED_OUT")
    /\ sessions' = [sessions EXCEPT ![v] = 0]
    /\ stopped' = stopped \ {v}
    /\ inside' = [inside EXCEPT ![v] = @ - 1]
    /\ Leave(t)
    /\ UNCHANGED <<remaining, expired, updates, queue>>

(* tracking/start and tracking/stop, by hand. *)
ManualStart(v) ==
    /\ status[v] # "NONE"
    /\ sessions[v] < MaxSessions
    /\ sessions' = [sessions EXCEPT ![v] = @ + 1]
    /\ UNCHANGED <<pass, queue, stopped, inside, disturbed, request>>

ManualStop(v) ==
    /\ sessions[v] > 0
    /\ sessions' = [sessions EXCEPT ![v] = @ - 1]
    /\ stopped' = stopped \cup {v}
    /\ UNCHANGED <<pass, queue, inside, disturbed, request>>

-----------------------------------------------------------------------------

Begin(t, v) ==
    \/ BeginUpdate(t, v) \/ BeginRevoke(t, v) \/ FindExpired(t, v)
    \/ BeginDeny(t, v) \/ BeginCheckIn(t, v) \/ BeginCheckOut(t, v)

Finish(t) ==
    \/ CommitUpdate(t) \/ CommitRevoke(t) \/ MarkExpired(t) \/ CommitDeny(t)
    \/ StartTracking(t) \/ CommitCheckIn(t) \/ CommitCheckOut(t) \/ Fail(t)

Next ==
    \/ \E v \in Visitors :
          \/ CreateVisitor(v) \/ Expire(v) \/ ScanQR(v)
          \/ ManualStart(v) \/ ManualStop(v)
    \/ \E t \in Threads, v \in Visitors : Begin(t, v)
    \/ \E t \in Threads : Finish(t)

Spec == Init /\ [][Next]_vars

-----------------------------------------------------------------------------
(* Properties. *)

TypeOK ==
    /\ status \in [Visitors -> Statuses]
    /\ remaining \in [Visitors -> Int]
    /\ expired \subseteq Visitors
    /\ queue \in [Visitors -> SUBSET {"WAITING", "APPROVED", "DENIED"}]
    /\ sessions \in [Visitors -> Nat]
    /\ inside \in [Visitors -> Int]
    /\ stopped \subseteq Visitors
    /\ updates \in [Visitors -> Nat]
    /\ disturbed \subseteq Visitors
    /\ pc \in [Threads -> Positions]
    /\ visitor \in [Threads -> Visitors \cup {None}]

(* remaining_entries is checked before the transaction that decrements it: *)
(* a pass is overused by at most one entry for every other request in      *)
(* flight, so never when requests are handled one at a time.               *)
Entering(v) == {t \in Threads : pc[t] \in {"admit", "tracked"}
                                /\ visitor[t] = v}

EntriesBounded == \A v \in Visitors :
    remaining[v] - Cardinality(Entering(v)) >= 1 - Cardinality(Threads)

(* Whoever is shown as inside is being tracked, unless somebody ended a    *)
(* session by hand: a check-out of one entry never ends the tracking of    *)
(* the next, however the two overlap.                                      *)
InsideIsTracked == \A v \in Visitors :
    status[v] = "CHECKED_IN" => sessions[v] > 0 \/ v \in stopped

(* The gate log accounts for whoever is inside, and can therefore be       *)
(* checked out, unless requests about the visitor overlapped or the pass   *)
(* was found expired meanwhile.                                            *)
GateLogMatches == \A v \in Visitors \ disturbed :
    inside[v] = IF status[v] = "CHECKED_IN" THEN 1 ELSE 0

(* Whoever is inside is known to be: shown and logged as such, and tracked. *)
InsideIsAccountedFor == InsideIsTracked /\ GateLogMatches

(* visitor.service.ts:698 "Cannot deny a visitor already inside the        *)
(* estate", :1326 the same of a revocation, :848 "Visitor pass revoked":   *)
(* a visitor leaves CHECKED_IN by a check-out and nobody leaves REVOKED,   *)
(* under the same exceptions.                                              *)
DecisionsHold == [][\A v \in Visitors \ disturbed' :
    /\ status[v] = "CHECKED_IN" => status'[v] \in {"CHECKED_IN", "CHECKED_OUT"}
    /\ status[v] = "REVOKED" => status'[v] = "REVOKED"]_vars
=============================================================================
