------------------------- MODULE VisitorGateProofs -------------------------
(* Theorems about VisitorGate for any number of requests, visitors and     *)
(* entries, and below them those about LevyClearance.                      *)
EXTENDS VisitorGate, LevyAccess, FiniteSetTheorems, TLAPS

-----------------------------------------------------------------------------
(* The inductive invariant. *)

(* A request is about a visitor who was invited.                           *)
PositionsOK == \A t \in Threads : pc[t] # "idle" =>
    visitor[t] \in Visitors /\ status[visitor[t]] # "NONE"

(* A visitor who never had two requests has at most one ...                *)
OneRequest == \A t, u \in Threads :
    visitor[t] \in Visitors \ disturbed /\ visitor[u] = visitor[t] => u = t

(* ... and is as this one has judged.                                      *)
JudgedOK == \A t \in Threads : pc[t] # "idle" /\ visitor[t] \notin disturbed =>
    /\ pc[t] \in {"deny", "admit", "tracked", "revoke"} =>
           status[visitor[t]] \notin {"REVOKED", "CHECKED_IN"}
    /\ pc[t] = "expire" => status[visitor[t]] # "REVOKED"
    /\ pc[t] = "checkOut" => status[visitor[t]] = "CHECKED_IN"

(* The lock on the visitor's row keeps a check-out from ending the session *)
(* that a check-in has started and not yet committed.                      *)
TrackedOK == \A t \in Threads : pc[t] = "tracked" =>
    sessions[visitor[t]] > 0 \/ visitor[t] \in stopped

IInv == TypeOK /\ PositionsOK /\ OneRequest /\ JudgedOK /\ TrackedOK
        /\ InsideIsAccountedFor /\ EntriesBounded

USE BoundsAssumption, NoneAssumption

-----------------------------------------------------------------------------
(* Every step preserves each part of it. *)

(* Every handler writes what the type allows.                              *)
LEMMA TypeStep ==
    ASSUME TypeOK, PositionsOK, Next
    PROVE  TypeOK'
<1>1. ASSUME NEW v \in Visitors, CreateVisitor(v)
      PROVE  TypeOK'
  BY <1>1 DEF TypeOK, Statuses, Positions, CreateVisitor, SetStatus, Entries,
     tracking, request
<1>2. ASSUME NEW t \in Threads, NEW v \in Visitors, BeginUpdate(t, v)
      PROVE  TypeOK'
  BY <1>2 DEF TypeOK, Statuses, Positions, BeginUpdate, Start, pass, tracking
<1>3. ASSUME NEW t \in Threads, CommitUpdate(t)
      PROVE  TypeOK'
  BY <1>3 DEF TypeOK, Statuses, Positions, PositionsOK, CommitUpdate, Entries,
     Leave, End, tracking
<1>4. ASSUME NEW t \in Threads, NEW v \in Visitors, BeginRevoke(t, v)
      PROVE  TypeOK'
  BY <1>4 DEF TypeOK, Statuses, Positions, BeginRevoke, Start, pass, tracking
<1>5. ASSUME NEW t \in Threads, CommitRevoke(t)
      PROVE  TypeOK'
  BY <1>5 DEF TypeOK, Statuses, Positions, PositionsOK, CommitRevoke,
     SetStatus, Leave, End, tracking
<1>6. ASSUME NEW v \in Visitors, Expire(v)
      PROVE  TypeOK'
  BY <1>6 DEF TypeOK, Statuses, Positions, Expire, tracking, request
<1>7. ASSUME NEW t \in Threads, NEW v \in Visitors, FindExpired(t, v)
      PROVE  TypeOK'
  BY <1>7 DEF TypeOK, Statuses, Positions, FindExpired, Start, pass, tracking
<1>8. ASSUME NEW t \in Threads, MarkExpired(t)
      PROVE  TypeOK'
  BY <1>8 DEF TypeOK, Statuses, Positions, PositionsOK, MarkExpired,
     SetStatus, End, tracking
<1>9. ASSUME NEW v \in Visitors, ScanQR(v)
      PROVE  TypeOK'
  BY <1>9 DEF TypeOK, Statuses, Positions, ScanQR, pass, tracking, request
<1>10. ASSUME NEW t \in Threads, NEW v \in Visitors, BeginDeny(t, v)
      PROVE  TypeOK'
  BY <1>10 DEF TypeOK, Statuses, Positions, BeginDeny, Start, pass, tracking
<1>11. ASSUME NEW t \in Threads, CommitDeny(t)
      PROVE  TypeOK'
  BY <1>11 DEF TypeOK, Statuses, Positions, PositionsOK, CommitDeny,
     SetStatus, Leave, End, LeaveQueue, tracking
<1>12. ASSUME NEW t \in Threads, NEW v \in Visitors, BeginCheckIn(t, v)
      PROVE  TypeOK'
  BY <1>12 DEF TypeOK, Statuses, Positions, BeginCheckIn, MayEnter,
     HasEntries, Start, pass, tracking
<1>13. ASSUME NEW t \in Threads, StartTracking(t)
      PROVE  TypeOK'
  BY <1>13 DEF TypeOK, Statuses, Positions, PositionsOK, StartTracking,
     SessionsStarted, pass
<1>14. ASSUME NEW t \in Threads, CommitCheckIn(t)
      PROVE  TypeOK'
  BY <1>14 DEF TypeOK, Statuses, Positions, PositionsOK, CommitCheckIn,
     SetStatus, CheckedInStatus, Leave, End, LeaveQueue, tracking
<1>15. ASSUME NEW t \in Threads, NEW v \in Visitors, BeginCheckOut(t, v)
      PROVE  TypeOK'
  BY <1>15 DEF TypeOK, Statuses, Positions, BeginCheckOut, Start, pass,
     tracking
<1>16. ASSUME NEW t \in Threads, CommitCheckOut(t)
      PROVE  TypeOK'
  BY <1>16 DEF TypeOK, Statuses, Positions, PositionsOK, CommitCheckOut,
     SetStatus, Locked, Leave, End
<1>17. ASSUME NEW v \in Visitors, ManualStart(v)
      PROVE  TypeOK'
  BY <1>17 DEF TypeOK, Statuses, Positions, ManualStart, pass, request
<1>18. ASSUME NEW v \in Visitors, ManualStop(v)
      PROVE  TypeOK'
  BY <1>18 DEF TypeOK, Statuses, Positions, ManualStop, pass, request
<1>19. ASSUME NEW t \in Threads, Fail(t)
      PROVE  TypeOK'
  BY <1>19 DEF TypeOK, Statuses, Positions, PositionsOK, Fail, Leave, End,
     pass, tracking
<1>20. QED
  BY <1>1, <1>2, <1>3, <1>4, <1>5, <1>6, <1>7, <1>8, <1>9, <1>10, <1>11,
     <1>12, <1>13, <1>14, <1>15, <1>16, <1>17, <1>18, <1>19 DEF Next, Begin,
     Finish

(* No visitor is uninvited.                                                *)
LEMMA PositionsStep ==
    ASSUME TypeOK, PositionsOK, Next
    PROVE  PositionsOK'
<1>1. ASSUME NEW v \in Visitors, CreateVisitor(v)
      PROVE  PositionsOK'
  BY <1>1 DEF TypeOK, PositionsOK, CreateVisitor, SetStatus, Entries,
     tracking, request
<1>2. ASSUME NEW t \in Threads, NEW v \in Visitors, BeginUpdate(t, v)
      PROVE  PositionsOK'
  BY <1>2 DEF TypeOK, PositionsOK, BeginUpdate, Start, pass, tracking
<1>3. ASSUME NEW t \in Threads, CommitUpdate(t)
      PROVE  PositionsOK'
  BY <1>3 DEF TypeOK, PositionsOK, CommitUpdate, Entries, Leave, End, tracking
<1>4. ASSUME NEW t \in Threads, NEW v \in Visitors, BeginRevoke(t, v)
      PROVE  PositionsOK'
  BY <1>4 DEF TypeOK, PositionsOK, BeginRevoke, Start, pass, tracking
<1>5. ASSUME NEW t \in Threads, CommitRevoke(t)
      PROVE  PositionsOK'
  BY <1>5 DEF TypeOK, PositionsOK, CommitRevoke, SetStatus, Leave, End,
     tracking
<1>6. ASSUME NEW t \in Threads, NEW v \in Visitors, FindExpired(t, v)
      PROVE  PositionsOK'
  BY <1>6 DEF TypeOK, PositionsOK, FindExpired, Start, pass, tracking
<1>7. ASSUME NEW t \in Threads, MarkExpired(t)
      PROVE  PositionsOK'
  BY <1>7 DEF TypeOK, PositionsOK, MarkExpired, SetStatus, End, tracking
<1>8. ASSUME NEW t \in Threads, NEW v \in Visitors, BeginDeny(t, v)
      PROVE  PositionsOK'
  BY <1>8 DEF TypeOK, PositionsOK, BeginDeny, Start, pass, tracking
<1>9. ASSUME NEW t \in Threads, CommitDeny(t)
      PROVE  PositionsOK'
  BY <1>9 DEF TypeOK, PositionsOK, CommitDeny, SetStatus, Leave, End,
     LeaveQueue, tracking
<1>10. ASSUME NEW t \in Threads, NEW v \in Visitors, BeginCheckIn(t, v)
      PROVE  PositionsOK'
  BY <1>10 DEF TypeOK, PositionsOK, BeginCheckIn, MayEnter, HasEntries, Start,
     pass, tracking
<1>11. ASSUME NEW t \in Threads, StartTracking(t)
      PROVE  PositionsOK'
  BY <1>11 DEF TypeOK, PositionsOK, StartTracking, SessionsStarted, pass
<1>12. ASSUME NEW t \in Threads, CommitCheckIn(t)
      PROVE  PositionsOK'
  BY <1>12 DEF TypeOK, PositionsOK, CommitCheckIn, SetStatus, CheckedInStatus,
     Leave, End, LeaveQueue, tracking
<1>13. ASSUME NEW t \in Threads, NEW v \in Visitors, BeginCheckOut(t, v)
      PROVE  PositionsOK'
  BY <1>13 DEF TypeOK, PositionsOK, BeginCheckOut, Start, pass, tracking
<1>14. ASSUME NEW t \in Threads, CommitCheckOut(t)
      PROVE  PositionsOK'
  BY <1>14 DEF TypeOK, PositionsOK, CommitCheckOut, SetStatus, Locked, Leave,
     End
<1>15. ASSUME NEW t \in Threads, Fail(t)
      PROVE  PositionsOK'
  BY <1>15 DEF TypeOK, PositionsOK, Fail, Leave, End, pass, tracking
<1>16. ASSUME \/ \E v \in Visitors : Expire(v)
              \/ \E v \in Visitors : ScanQR(v)
              \/ \E v \in Visitors : ManualStart(v)
              \/ \E v \in Visitors : ManualStop(v)
      PROVE  PositionsOK'
  BY <1>16 DEF TypeOK, PositionsOK, Expire, tracking, request, ScanQR, pass,
     ManualStart, ManualStop
<1>17. QED
  BY <1>1, <1>2, <1>3, <1>4, <1>5, <1>6, <1>7, <1>8, <1>9, <1>10, <1>11,
     <1>12, <1>13, <1>14, <1>15, <1>16 DEF Next, Begin, Finish

(* A second request about a visitor marks the visitor as disturbed.        *)
LEMMA OneStep ==
    ASSUME TypeOK, OneRequest, Next
    PROVE  OneRequest'
<1>1. ASSUME NEW t \in Threads, NEW v \in Visitors, BeginUpdate(t, v)
      PROVE  OneRequest'
  BY <1>1 DEF TypeOK, OneRequest, BeginUpdate, Start, pass, tracking
<1>2. ASSUME NEW t \in Threads, CommitUpdate(t)
      PROVE  OneRequest'
  BY <1>2 DEF TypeOK, OneRequest, CommitUpdate, Entries, Leave, End, tracking
<1>3. ASSUME NEW t \in Threads, NEW v \in Visitors, BeginRevoke(t, v)
      PROVE  OneRequest'
  BY <1>3 DEF TypeOK, OneRequest, BeginRevoke, Start, pass, tracking
<1>4. ASSUME NEW t \in Threads, CommitRevoke(t)
      PROVE  OneRequest'
  BY <1>4 DEF TypeOK, OneRequest, CommitRevoke, SetStatus, Leave, End,
     tracking
<1>5. ASSUME NEW t \in Threads, NEW v \in Visitors, FindExpired(t, v)
      PROVE  OneRequest'
  BY <1>5 DEF TypeOK, OneRequest, FindExpired, Start, pass, tracking
<1>6. ASSUME NEW t \in Threads, MarkExpired(t)
      PROVE  OneRequest'
  BY <1>6 DEF TypeOK, OneRequest, MarkExpired, SetStatus, End, tracking
<1>7. ASSUME NEW t \in Threads, NEW v \in Visitors, BeginDeny(t, v)
      PROVE  OneRequest'
  BY <1>7 DEF TypeOK, OneRequest, BeginDeny, Start, pass, tracking
<1>8. ASSUME NEW t \in Threads, CommitDeny(t)
      PROVE  OneRequest'
  BY <1>8 DEF TypeOK, OneRequest, CommitDeny, SetStatus, Leave, End,
     LeaveQueue, tracking
<1>9. ASSUME NEW t \in Threads, NEW v \in Visitors, BeginCheckIn(t, v)
      PROVE  OneRequest'
  BY <1>9 DEF TypeOK, OneRequest, BeginCheckIn, MayEnter, HasEntries, Start,
     pass, tracking
<1>10. ASSUME NEW t \in Threads, StartTracking(t)
      PROVE  OneRequest'
  BY <1>10 DEF TypeOK, OneRequest, StartTracking, SessionsStarted, pass
<1>11. ASSUME NEW t \in Threads, CommitCheckIn(t)
      PROVE  OneRequest'
  BY <1>11 DEF TypeOK, OneRequest, CommitCheckIn, SetStatus, CheckedInStatus,
     Leave, End, LeaveQueue, tracking
<1>12. ASSUME NEW t \in Threads, NEW v \in Visitors, BeginCheckOut(t, v)
      PROVE  OneRequest'
  BY <1>12 DEF TypeOK, OneRequest, BeginCheckOut, Start, pass, tracking
<1>13. ASSUME NEW t \in Threads, CommitCheckOut(t)
      PROVE  OneRequest'
  BY <1>13 DEF TypeOK, OneRequest, CommitCheckOut, SetStatus, Locked, Leave,
     End
<1>14. ASSUME NEW t \in Threads, Fail(t)
      PROVE  OneRequest'
  BY <1>14 DEF TypeOK, OneRequest, Fail, Leave, End, pass, tracking
<1>15. ASSUME \/ \E v \in Visitors : CreateVisitor(v)
              \/ \E v \in Visitors : Expire(v)
              \/ \E v \in Visitors : ScanQR(v)
              \/ \E v \in Visitors : ManualStart(v)
              \/ \E v \in Visitors : ManualStop(v)
      PROVE  OneRequest'
  BY <1>15 DEF TypeOK, OneRequest, CreateVisitor, SetStatus, Entries,
     tracking, request, Expire, ScanQR, pass, ManualStart, ManualStop
<1>16. QED
  BY <1>1, <1>2, <1>3, <1>4, <1>5, <1>6, <1>7, <1>8, <1>9, <1>10, <1>11,
     <1>12, <1>13, <1>14, <1>15 DEF Next, Begin, Finish

(* Undisturbed, nobody else writes a status that a request has judged.     *)
LEMMA JudgedStep ==
    ASSUME TypeOK, PositionsOK, OneRequest, JudgedOK, Next
    PROVE  JudgedOK'
<1>1. ASSUME NEW v \in Visitors, CreateVisitor(v)
      PROVE  JudgedOK'
  BY <1>1 DEF TypeOK, PositionsOK, JudgedOK, CreateVisitor, SetStatus,
     Entries, tracking, request
<1>2. ASSUME NEW t \in Threads, NEW v \in Visitors, BeginUpdate(t, v)
      PROVE  JudgedOK'
  BY <1>2 DEF TypeOK, PositionsOK, JudgedOK, BeginUpdate, Start, pass,
     tracking
<1>3. ASSUME NEW t \in Threads, CommitUpdate(t)
      PROVE  JudgedOK'
  BY <1>3 DEF TypeOK, PositionsOK, JudgedOK, OneRequest, CommitUpdate,
     Entries, Leave, End, tracking
<1>4. ASSUME NEW t \in Threads, NEW v \in Visitors, BeginRevoke(t, v)
      PROVE  JudgedOK'
  BY <1>4 DEF TypeOK, PositionsOK, JudgedOK, BeginRevoke, Start, pass,
     tracking
<1>5. ASSUME NEW t \in Threads, CommitRevoke(t)
      PROVE  JudgedOK'
  BY <1>5 DEF TypeOK, PositionsOK, JudgedOK, OneRequest, CommitRevoke,
     SetStatus, Leave, End, tracking
<1>6. ASSUME NEW t \in Threads, NEW v \in Visitors, FindExpired(t, v)
      PROVE  JudgedOK'
  BY <1>6 DEF TypeOK, PositionsOK, JudgedOK, FindExpired, Start, pass,
     tracking
<1>7. ASSUME NEW t \in Threads, MarkExpired(t)
      PROVE  JudgedOK'
  BY <1>7 DEF TypeOK, PositionsOK, JudgedOK, OneRequest, MarkExpired,
     SetStatus, End, tracking
<1>8. ASSUME NEW t \in Threads, NEW v \in Visitors, BeginDeny(t, v)
      PROVE  JudgedOK'
  BY <1>8 DEF TypeOK, PositionsOK, JudgedOK, BeginDeny, Start, pass, tracking
<1>9. ASSUME NEW t \in Threads, CommitDeny(t)
      PROVE  JudgedOK'
  BY <1>9 DEF TypeOK, PositionsOK, JudgedOK, OneRequest, CommitDeny,
     SetStatus, Leave, End, LeaveQueue, tracking
<1>10. ASSUME NEW t \in Threads, NEW v \in Visitors, BeginCheckIn(t, v)
      PROVE  JudgedOK'
  BY <1>10 DEF TypeOK, PositionsOK, JudgedOK, BeginCheckIn, MayEnter,
     HasEntries, Start, pass, tracking
<1>11. ASSUME NEW t \in Threads, StartTracking(t)
      PROVE  JudgedOK'
  BY <1>11 DEF TypeOK, PositionsOK, JudgedOK, OneRequest, StartTracking,
     SessionsStarted, pass
<1>12. ASSUME NEW t \in Threads, CommitCheckIn(t)
      PROVE  JudgedOK'
  BY <1>12 DEF TypeOK, PositionsOK, JudgedOK, OneRequest, CommitCheckIn,
     SetStatus, CheckedInStatus, Leave, End, LeaveQueue, tracking
<1>13. ASSUME NEW t \in Threads, NEW v \in Visitors, BeginCheckOut(t, v)
      PROVE  JudgedOK'
  BY <1>13 DEF TypeOK, PositionsOK, JudgedOK, BeginCheckOut, Start, pass,
     tracking
<1>14. ASSUME NEW t \in Threads, CommitCheckOut(t)
      PROVE  JudgedOK'
  BY <1>14 DEF TypeOK, PositionsOK, JudgedOK, OneRequest, CommitCheckOut,
     SetStatus, Locked, Leave, End
<1>15. ASSUME NEW t \in Threads, Fail(t)
      PROVE  JudgedOK'
  BY <1>15 DEF TypeOK, PositionsOK, JudgedOK, OneRequest, Fail, Leave, End,
     pass, tracking
<1>16. ASSUME \/ \E v \in Visitors : Expire(v)
              \/ \E v \in Visitors : ScanQR(v)
              \/ \E v \in Visitors : ManualStart(v)
              \/ \E v \in Visitors : ManualStop(v)
      PROVE  JudgedOK'
  BY <1>16 DEF TypeOK, PositionsOK, JudgedOK, Expire, tracking, request,
     ScanQR, pass, ManualStart, ManualStop
<1>17. QED
  BY <1>1, <1>2, <1>3, <1>4, <1>5, <1>6, <1>7, <1>8, <1>9, <1>10, <1>11,
     <1>12, <1>13, <1>14, <1>15, <1>16 DEF Next, Begin, Finish

(* A session outlives every check-out that is committed before its check-in.*)
LEMMA TrackedStep ==
    ASSUME TypeOK, PositionsOK, TrackedOK, Next
    PROVE  TrackedOK'
<1>1. ASSUME NEW t \in Threads, NEW v \in Visitors, BeginUpdate(t, v)
      PROVE  TrackedOK'
  BY <1>1 DEF TypeOK, PositionsOK, TrackedOK, BeginUpdate, Start, pass,
     tracking
<1>2. ASSUME NEW t \in Threads, CommitUpdate(t)
      PROVE  TrackedOK'
  BY <1>2 DEF TypeOK, PositionsOK, TrackedOK, CommitUpdate, Entries, Leave,
     End, tracking
<1>3. ASSUME NEW t \in Threads, NEW v \in Visitors, BeginRevoke(t, v)
      PROVE  TrackedOK'
  BY <1>3 DEF TypeOK, PositionsOK, TrackedOK, BeginRevoke, Start, pass,
     tracking
<1>4. ASSUME NEW t \in Threads, CommitRevoke(t)
      PROVE  TrackedOK'
  BY <1>4 DEF TypeOK, PositionsOK, TrackedOK, CommitRevoke, SetStatus, Leave,
     End, tracking
<1>5. ASSUME NEW t \in Threads, NEW v \in Visitors, FindExpired(t, v)
      PROVE  TrackedOK'
  BY <1>5 DEF TypeOK, PositionsOK, TrackedOK, FindExpired, Start, pass,
     tracking
<1>6. ASSUME NEW t \in Threads, MarkExpired(t)
      PROVE  TrackedOK'
  BY <1>6 DEF TypeOK, PositionsOK, TrackedOK, MarkExpired, SetStatus, End,
     tracking
<1>7. ASSUME NEW t \in Threads, NEW v \in Visitors, BeginDeny(t, v)
      PROVE  TrackedOK'
  BY <1>7 DEF TypeOK, PositionsOK, TrackedOK, BeginDeny, Start, pass, tracking
<1>8. ASSUME NEW t \in Threads, CommitDeny(t)
      PROVE  TrackedOK'
  BY <1>8 DEF TypeOK, PositionsOK, TrackedOK, CommitDeny, SetStatus, Leave,
     End, LeaveQueue, tracking
<1>9. ASSUME NEW t \in Threads, NEW v \in Visitors, BeginCheckIn(t, v)
      PROVE  TrackedOK'
  BY <1>9 DEF TypeOK, PositionsOK, TrackedOK, BeginCheckIn, MayEnter,
     HasEntries, Start, pass, tracking
<1>10. ASSUME NEW t \in Threads, StartTracking(t)
      PROVE  TrackedOK'
  BY <1>10 DEF TypeOK, PositionsOK, TrackedOK, StartTracking, SessionsStarted,
     pass
<1>11. ASSUME NEW t \in Threads, CommitCheckIn(t)
      PROVE  TrackedOK'
  BY <1>11 DEF TypeOK, PositionsOK, TrackedOK, CommitCheckIn, SetStatus,
     CheckedInStatus, Leave, End, LeaveQueue, tracking
<1>12. ASSUME NEW t \in Threads, NEW v \in Visitors, BeginCheckOut(t, v)
      PROVE  TrackedOK'
  BY <1>12 DEF TypeOK, PositionsOK, TrackedOK, BeginCheckOut, Start, pass,
     tracking
<1>13. ASSUME NEW t \in Threads, CommitCheckOut(t)
      PROVE  TrackedOK'
  BY <1>13 DEF TypeOK, PositionsOK, TrackedOK, CommitCheckOut, SetStatus,
     Locked, Leave, End
<1>14. ASSUME NEW v \in Visitors, ManualStart(v)
      PROVE  TrackedOK'
  BY <1>14 DEF TypeOK, PositionsOK, TrackedOK, ManualStart, pass, request
<1>15. ASSUME NEW v \in Visitors, ManualStop(v)
      PROVE  TrackedOK'
  BY <1>15 DEF TypeOK, PositionsOK, TrackedOK, ManualStop, pass, request
<1>16. ASSUME NEW t \in Threads, Fail(t)
      PROVE  TrackedOK'
  BY <1>16 DEF TypeOK, PositionsOK, TrackedOK, Fail, Leave, End, pass,
     tracking
<1>17. ASSUME \/ \E v \in Visitors : CreateVisitor(v)
              \/ \E v \in Visitors : Expire(v)
              \/ \E v \in Visitors : ScanQR(v)
      PROVE  TrackedOK'
  BY <1>17 DEF TypeOK, PositionsOK, TrackedOK, CreateVisitor, SetStatus,
     Entries, tracking, request, Expire, ScanQR, pass
<1>18. QED
  BY <1>1, <1>2, <1>3, <1>4, <1>5, <1>6, <1>7, <1>8, <1>9, <1>10, <1>11,
     <1>12, <1>13, <1>14, <1>15, <1>16, <1>17 DEF Next, Begin, Finish

(* Whoever is checked in has a session.                                    *)
LEMMA InsideStep ==
    ASSUME TypeOK, PositionsOK, TrackedOK, InsideIsTracked, Next
    PROVE  InsideIsTracked'
<1>1. ASSUME NEW v \in Visitors, CreateVisitor(v)
      PROVE  InsideIsTracked'
  BY <1>1 DEF TypeOK, PositionsOK, InsideIsTracked, CreateVisitor, SetStatus,
     Entries, tracking, request
<1>2. ASSUME NEW t \in Threads, CommitRevoke(t)
      PROVE  InsideIsTracked'
  BY <1>2 DEF TypeOK, PositionsOK, InsideIsTracked, CommitRevoke, SetStatus,
     Leave, End, tracking
<1>3. ASSUME NEW t \in Threads, MarkExpired(t)
      PROVE  InsideIsTracked'
  BY <1>3 DEF TypeOK, PositionsOK, InsideIsTracked, MarkExpired, SetStatus,
     End, tracking
<1>4. ASSUME NEW t \in Threads, CommitDeny(t)
      PROVE  InsideIsTracked'
  BY <1>4 DEF TypeOK, PositionsOK, InsideIsTracked, CommitDeny, SetStatus,
     Leave, End, LeaveQueue, tracking
<1>5. ASSUME NEW t \in Threads, StartTracking(t)
      PROVE  InsideIsTracked'
  BY <1>5 DEF TypeOK, PositionsOK, InsideIsTracked, StartTracking,
     SessionsStarted, pass
<1>6. ASSUME NEW t \in Threads, CommitCheckIn(t)
      PROVE  InsideIsTracked'
  BY <1>6 DEF TypeOK, PositionsOK, InsideIsTracked, TrackedOK, CommitCheckIn,
     SetStatus, CheckedInStatus, Leave, End, LeaveQueue, tracking
<1>7. ASSUME NEW t \in Threads, CommitCheckOut(t)
      PROVE  InsideIsTracked'
  BY <1>7 DEF TypeOK, PositionsOK, InsideIsTracked, CommitCheckOut, SetStatus,
     Locked, Leave, End
<1>8. ASSUME NEW v \in Visitors, ManualStart(v)
      PROVE  InsideIsTracked'
  BY <1>8 DEF TypeOK, PositionsOK, InsideIsTracked, ManualStart, pass, request
<1>9. ASSUME NEW v \in Visitors, ManualStop(v)
      PROVE  InsideIsTracked'
  BY <1>9 DEF TypeOK, PositionsOK, InsideIsTracked, ManualStop, pass, request
<1>10. ASSUME \/ \E t \in Threads, v \in Visitors : BeginUpdate(t, v)
              \/ \E t \in Threads : CommitUpdate(t)
              \/ \E t \in Threads, v \in Visitors : BeginRevoke(t, v)
              \/ \E v \in Visitors : Expire(v)
              \/ \E t \in Threads, v \in Visitors : FindExpired(t, v)
              \/ \E v \in Visitors : ScanQR(v)
              \/ \E t \in Threads, v \in Visitors : BeginDeny(t, v)
              \/ \E t \in Threads, v \in Visitors : BeginCheckIn(t, v)
              \/ \E t \in Threads, v \in Visitors : BeginCheckOut(t, v)
              \/ \E t \in Threads : Fail(t)
      PROVE  InsideIsTracked'
  BY <1>10 DEF TypeOK, PositionsOK, InsideIsTracked, BeginUpdate, Start, pass,
     tracking, CommitUpdate, Entries, Leave, End, BeginRevoke, Expire,
     request, FindExpired, ScanQR, BeginDeny, BeginCheckIn, MayEnter,
     HasEntries, BeginCheckOut, Fail
<1>11. QED
  BY <1>1, <1>2, <1>3, <1>4, <1>5, <1>6, <1>7, <1>8, <1>9, <1>10 DEF Next,
     Begin, Finish

(* Undisturbed, who enters was outside and who leaves was inside.          *)
LEMMA LogStep ==
    ASSUME TypeOK, PositionsOK, JudgedOK, GateLogMatches, Next
    PROVE  GateLogMatches'
<1>1. ASSUME NEW v \in Visitors, CreateVisitor(v)
      PROVE  GateLogMatches'
  BY <1>1 DEF TypeOK, PositionsOK, GateLogMatches, CreateVisitor, SetStatus,
     Entries, tracking, request
<1>2. ASSUME NEW t \in Threads, NEW v \in Visitors, BeginUpdate(t, v)
      PROVE  GateLogMatches'
  BY <1>2 DEF TypeOK, PositionsOK, GateLogMatches, BeginUpdate, Start, pass,
     tracking
<1>3. ASSUME NEW t \in Threads, NEW v \in Visitors, BeginRevoke(t, v)
      PROVE  GateLogMatches'
  BY <1>3 DEF TypeOK, PositionsOK, GateLogMatches, BeginRevoke, Start, pass,
     tracking
<1>4. ASSUME NEW t \in Threads, CommitRevoke(t)
      PROVE  GateLogMatches'
  BY <1>4 DEF TypeOK, PositionsOK, GateLogMatches, JudgedOK, CommitRevoke,
     SetStatus, Leave, End, tracking
<1>5. ASSUME NEW t \in Threads, NEW v \in Visitors, FindExpired(t, v)
      PROVE  GateLogMatches'
  BY <1>5 DEF TypeOK, PositionsOK, GateLogMatches, FindExpired, Start, pass,
     tracking
<1>6. ASSUME NEW t \in Threads, MarkExpired(t)
      PROVE  GateLogMatches'
  BY <1>6 DEF TypeOK, PositionsOK, GateLogMatches, JudgedOK, MarkExpired,
     SetStatus, End, tracking
<1>7. ASSUME NEW t \in Threads, NEW v \in Visitors, BeginDeny(t, v)
      PROVE  GateLogMatches'
  BY <1>7 DEF TypeOK, PositionsOK, GateLogMatches, BeginDeny, Start, pass,
     tracking
<1>8. ASSUME NEW t \in Threads, CommitDeny(t)
      PROVE  GateLogMatches'
  BY <1>8 DEF TypeOK, PositionsOK, GateLogMatches, JudgedOK, CommitDeny,
     SetStatus, Leave, End, LeaveQueue, tracking
<1>9. ASSUME NEW t \in Threads, NEW v \in Visitors, BeginCheckIn(t, v)
      PROVE  GateLogMatches'
  BY <1>9 DEF TypeOK, PositionsOK, GateLogMatches, BeginCheckIn, MayEnter,
     HasEntries, Start, pass, tracking
<1>10. ASSUME NEW t \in Threads, CommitCheckIn(t)
      PROVE  GateLogMatches'
  BY <1>10 DEF TypeOK, PositionsOK, GateLogMatches, JudgedOK, CommitCheckIn,
     SetStatus, CheckedInStatus, Leave, End, LeaveQueue, tracking
<1>11. ASSUME NEW t \in Threads, NEW v \in Visitors, BeginCheckOut(t, v)
      PROVE  GateLogMatches'
  BY <1>11 DEF TypeOK, PositionsOK, GateLogMatches, BeginCheckOut, Start,
     pass, tracking
<1>12. ASSUME NEW t \in Threads, CommitCheckOut(t)
      PROVE  GateLogMatches'
  BY <1>12 DEF TypeOK, PositionsOK, GateLogMatches, JudgedOK, CommitCheckOut,
     SetStatus, Locked, Leave, End
<1>13. ASSUME \/ \E t \in Threads : CommitUpdate(t)
              \/ \E v \in Visitors : Expire(v)
              \/ \E v \in Visitors : ScanQR(v)
              \/ \E t \in Threads : StartTracking(t)
              \/ \E v \in Visitors : ManualStart(v)
              \/ \E v \in Visitors : ManualStop(v)
              \/ \E t \in Threads : Fail(t)
      PROVE  GateLogMatches'
  BY <1>13 DEF TypeOK, PositionsOK, GateLogMatches, CommitUpdate, Entries,
     Leave, End, tracking, Expire, request, ScanQR, pass, StartTracking,
     SessionsStarted, ManualStart, ManualStop, Fail
<1>14. QED
  BY <1>1, <1>2, <1>3, <1>4, <1>5, <1>6, <1>7, <1>8, <1>9, <1>10, <1>11,
     <1>12, <1>13 DEF Next, Begin, Finish

-----------------------------------------------------------------------------
(* Entries: counting who is about to enter. *)

LEMMA EnteringFinite ==
    ASSUME NEW v
    PROVE  /\ IsFiniteSet(Entering(v))
           /\ Cardinality(Entering(v)) \in Nat
           /\ Cardinality(Entering(v)) <= Cardinality(Threads)
           /\ Cardinality(Threads) \in Nat \ {0}
<1>1. Entering(v) \in SUBSET Threads
  BY DEF Entering
<1>2. QED
  BY <1>1, ThreadsAssumption, FS_Subset, FS_CardinalityType, FS_EmptySet

LEMMA EnteringFiniteNext ==
    ASSUME NEW v
    PROVE  /\ IsFiniteSet(Entering(v)')
           /\ Cardinality(Entering(v)') \in Nat
           /\ Cardinality(Entering(v)') <= Cardinality(Threads)
<1>1. Entering(v)' \in SUBSET Threads
  BY DEF Entering
<1>2. QED
  BY <1>1, ThreadsAssumption, FS_Subset, FS_CardinalityType

(* Whoever has an entry left may use it, however many may at once.         *)
LEMMA EntryLeft ==
    ASSUME NEW v, NEW n \in Int, n > 0
    PROVE  n - Cardinality(Entering(v)') >= 1 - Cardinality(Threads)
  BY EnteringFinite, EnteringFiniteNext

(* A step that takes no entry and lets nobody else try.                    *)
LEMMA EntriesQuiet ==
    ASSUME TypeOK, EntriesBounded, NEW v \in Visitors,
           remaining'[v] = remaining[v],
           Entering(v)' \subseteq Entering(v)
    PROVE  remaining'[v] - Cardinality(Entering(v)') >= 1 - Cardinality(Threads)
<1>1. Cardinality(Entering(v)') <= Cardinality(Entering(v))
  BY EnteringFinite, FS_Subset
<1>2. /\ remaining[v] \in Int
      /\ remaining[v] - Cardinality(Entering(v)) >= 1 - Cardinality(Threads)
  BY DEF TypeOK, EntriesBounded
<1>3. QED
  BY <1>1, <1>2, EnteringFinite, EnteringFiniteNext

(* A pass is overused by at most one entry for every other request.        *)
LEMMA EntriesStep ==
    ASSUME TypeOK, PositionsOK, EntriesBounded, Next
    PROVE  EntriesBounded'
<1>1. ASSUME NEW v \in Visitors, CreateVisitor(v)
      PROVE  EntriesBounded'
  <2>1. /\ remaining'[v] \in Int /\ remaining'[v] > 0
        /\ \A x \in Visitors \ {v} : remaining'[x] = remaining[x]
        /\ \A x \in Visitors : Entering(x)' \subseteq Entering(x)
    BY <1>1 DEF CreateVisitor, Entries, TypeOK, Entering, request
  <2>2. QED
    BY <2>1, EntryLeft, EntriesQuiet DEF EntriesBounded
<1>2. ASSUME NEW t \in Threads, CommitUpdate(t)
      PROVE  EntriesBounded'
  <2>1. \A x \in Visitors : Entering(x)' \subseteq Entering(x)
    BY <1>2 DEF CommitUpdate, Leave, End, TypeOK, Entering
  <2>2. \A x \in Visitors : \/ remaining'[x] = remaining[x]
                            \/ remaining'[x] \in Int /\ remaining'[x] > 0
    BY <1>2 DEF CommitUpdate, Entries, TypeOK, PositionsOK
  <2>3. QED
    BY <2>1, <2>2, EntryLeft, EntriesQuiet DEF EntriesBounded
<1>3. ASSUME NEW t \in Threads, NEW v \in Visitors, BeginCheckIn(t, v)
      PROVE  EntriesBounded'
  <2>1. remaining' = remaining /\ remaining[v] \in Int /\ remaining[v] > 0
    BY <1>3 DEF BeginCheckIn, HasEntries, Start, pass, TypeOK
  <2>2. \A x \in Visitors \ {v} : Entering(x)' \subseteq Entering(x)
    BY <1>3 DEF BeginCheckIn, Start, TypeOK, Entering
  <2>3. QED
    BY <2>1, <2>2, EntryLeft, EntriesQuiet DEF EntriesBounded
<1>4. ASSUME NEW t \in Threads, CommitCheckIn(t)
      PROVE  EntriesBounded'
  <2>1. PICK v \in Visitors : v = visitor[t]
    BY <1>4 DEF CommitCheckIn, PositionsOK
  <2>2. /\ t \in Entering(v)
        /\ remaining'[v] = remaining[v] - 1
        /\ remaining[v] \in Int
        /\ \A x \in Visitors \ {v} : remaining'[x] = remaining[x]
    BY <1>4, <2>1 DEF CommitCheckIn, TypeOK, Entering
  <2>3. \A x \in Visitors : Entering(x)' = Entering(x) \ {t}
    BY <1>4 DEF CommitCheckIn, Leave, End, TypeOK, Entering
  <2>4. Cardinality(Entering(v)') = Cardinality(Entering(v)) - 1
    BY <2>2, <2>3, EnteringFinite, FS_RemoveElement
  <2>5. remaining[v] - Cardinality(Entering(v)) >= 1 - Cardinality(Threads)
    BY DEF EntriesBounded
  <2>6. remaining'[v] - Cardinality(Entering(v)') >= 1 - Cardinality(Threads)
    BY <2>2, <2>4, <2>5, EnteringFinite
  <2>7. QED
    BY <2>2, <2>3, <2>6, EntriesQuiet DEF EntriesBounded
<1>5. ASSUME \A x \in Visitors :
                 remaining' = remaining /\ Entering(x)' \subseteq Entering(x)
      PROVE  EntriesBounded'
  BY <1>5, EntriesQuiet DEF EntriesBounded
<1>6. ASSUME NEW x \in Visitors,
             \/ \E t \in Threads, v \in Visitors : BeginUpdate(t, v)
             \/ \E t \in Threads, v \in Visitors : BeginRevoke(t, v)
             \/ \E t \in Threads : CommitRevoke(t)
             \/ \E v \in Visitors : Expire(v)
             \/ \E t \in Threads, v \in Visitors : FindExpired(t, v)
             \/ \E t \in Threads : MarkExpired(t)
             \/ \E v \in Visitors : ScanQR(v)
             \/ \E t \in Threads, v \in Visitors : BeginDeny(t, v)
             \/ \E t \in Threads : CommitDeny(t)
             \/ \E t \in Threads : StartTracking(t)
             \/ \E t \in Threads, v \in Visitors : BeginCheckOut(t, v)
             \/ \E t \in Threads : CommitCheckOut(t)
             \/ \E v \in Visitors : ManualStart(v)
             \/ \E v \in Visitors : ManualStop(v)
             \/ \E t \in Threads : Fail(t)
      PROVE  remaining' = remaining /\ Entering(x)' \subseteq Entering(x)
  BY <1>6 DEF TypeOK, Entering, BeginUpdate, Start, pass, tracking,
     BeginRevoke, CommitRevoke, SetStatus, Leave, End, Expire, request,
     FindExpired, MarkExpired, ScanQR, BeginDeny, CommitDeny, LeaveQueue,
     StartTracking, SessionsStarted, BeginCheckOut, CommitCheckOut, Locked,
     ManualStart, ManualStop, Fail
<1>7. QED
  BY <1>1, <1>2, <1>3, <1>4, <1>5, <1>6 DEF Next, Begin, Finish

-----------------------------------------------------------------------------
(* What was decided at the gate. *)

DecisionKept == \A v \in Visitors \ disturbed' :
    /\ status[v] = "CHECKED_IN" => status'[v] \in {"CHECKED_IN", "CHECKED_OUT"}
    /\ status[v] = "REVOKED" => status'[v] = "REVOKED"

(* No step undoes what was decided since its request began.                *)
LEMMA DecisionStep ==
    ASSUME TypeOK, PositionsOK, JudgedOK, Next
    PROVE  DecisionKept
<1>1. ASSUME NEW v \in Visitors, CreateVisitor(v)
      PROVE  DecisionKept
  BY <1>1 DEF TypeOK, PositionsOK, DecisionKept, CreateVisitor, SetStatus,
     Entries, tracking, request
<1>2. ASSUME NEW t \in Threads, CommitRevoke(t)
      PROVE  DecisionKept
  BY <1>2 DEF TypeOK, PositionsOK, DecisionKept, JudgedOK, CommitRevoke,
     SetStatus, Leave, End, tracking
<1>3. ASSUME NEW t \in Threads, MarkExpired(t)
      PROVE  DecisionKept
  BY <1>3 DEF TypeOK, PositionsOK, DecisionKept, JudgedOK, MarkExpired,
     SetStatus, End, tracking
<1>4. ASSUME NEW t \in Threads, CommitDeny(t)
      PROVE  DecisionKept
  BY <1>4 DEF TypeOK, PositionsOK, DecisionKept, JudgedOK, CommitDeny,
     SetStatus, Leave, End, LeaveQueue, tracking
<1>5. ASSUME NEW t \in Threads, CommitCheckIn(t)
      PROVE  DecisionKept
  BY <1>5 DEF TypeOK, PositionsOK, DecisionKept, JudgedOK, CommitCheckIn,
     SetStatus, CheckedInStatus, Leave, End, LeaveQueue, tracking
<1>6. ASSUME NEW t \in Threads, CommitCheckOut(t)
      PROVE  DecisionKept
  BY <1>6 DEF TypeOK, PositionsOK, DecisionKept, JudgedOK, CommitCheckOut,
     SetStatus, Locked, Leave, End
<1>7. ASSUME \/ \E t \in Threads, v \in Visitors : BeginUpdate(t, v)
             \/ \E t \in Threads : CommitUpdate(t)
             \/ \E t \in Threads, v \in Visitors : BeginRevoke(t, v)
             \/ \E v \in Visitors : Expire(v)
             \/ \E t \in Threads, v \in Visitors : FindExpired(t, v)
             \/ \E v \in Visitors : ScanQR(v)
             \/ \E t \in Threads, v \in Visitors : BeginDeny(t, v)
             \/ \E t \in Threads, v \in Visitors : BeginCheckIn(t, v)
             \/ \E t \in Threads : StartTracking(t)
             \/ \E t \in Threads, v \in Visitors : BeginCheckOut(t, v)
             \/ \E v \in Visitors : ManualStart(v)
             \/ \E v \in Visitors : ManualStop(v)
             \/ \E t \in Threads : Fail(t)
      PROVE  DecisionKept
  BY <1>7 DEF TypeOK, PositionsOK, DecisionKept, BeginUpdate, Start, pass,
     tracking, CommitUpdate, Entries, Leave, End, BeginRevoke, Expire,
     request, FindExpired, ScanQR, BeginDeny, BeginCheckIn, MayEnter,
     HasEntries, StartTracking, SessionsStarted, BeginCheckOut, ManualStart,
     ManualStop, Fail
<1>8. QED
  BY <1>1, <1>2, <1>3, <1>4, <1>5, <1>6, <1>7 DEF Next, Begin, Finish

-----------------------------------------------------------------------------
(* The theorems. *)

LEMMA InitIInv == Init => IInv
<1> SUFFICES ASSUME Init
             PROVE  IInv
  OBVIOUS
<1>1. TypeOK /\ PositionsOK /\ OneRequest /\ JudgedOK /\ TrackedOK
  BY  DEF Init, TypeOK, Statuses, Positions, PositionsOK, OneRequest,
     JudgedOK, TrackedOK
<1>2. InsideIsAccountedFor
  BY DEF Init, InsideIsAccountedFor, InsideIsTracked, GateLogMatches
<1>3. ASSUME NEW v \in Visitors
      PROVE  remaining[v] = 0 /\ Entering(v) = {}
  BY DEF Init, Entering
<1>4. EntriesBounded
  BY <1>3, EnteringFinite, FS_EmptySet DEF EntriesBounded
<1>5. QED
  BY <1>1, <1>2, <1>4 DEF IInv

LEMMA StepIInv == IInv /\ [Next]_vars => IInv'
<1> SUFFICES ASSUME IInv, [Next]_vars
             PROVE  IInv'
  OBVIOUS
<1>1. CASE Next
  BY <1>1, TypeStep, PositionsStep, OneStep, JudgedStep, TrackedStep,
     InsideStep, LogStep, EntriesStep DEF IInv, InsideIsAccountedFor
<1>2. CASE UNCHANGED vars
  BY <1>2 DEF IInv, TypeOK, PositionsOK, OneRequest, JudgedOK, TrackedOK,
     InsideIsAccountedFor, InsideIsTracked, GateLogMatches, EntriesBounded,
     Entering, vars, pass, tracking, request
<1>3. QED
  BY <1>1, <1>2

LEMMA AlwaysIInv == Spec => []IInv
  BY InitIInv, StepIInv, PTL DEF Spec

(* Every variable keeps its type. *)
THEOREM TypeCorrect == Spec => []TypeOK
<1>1. IInv => TypeOK
  BY DEF IInv
<1>2. QED
  BY <1>1, AlwaysIInv, PTL

(* visitor.service.ts checks remaining_entries before the transaction that *)
(* decrements it: for any number of guards a pass is overused by at most   *)
(* one entry for each of the others.                                       *)
THEOREM EntriesAreBounded == Spec => []EntriesBounded
<1>1. IInv => EntriesBounded
  BY DEF IInv
<1>2. QED
  BY <1>1, AlwaysIInv, PTL

(* Whoever is shown inside is tracked, whatever overlaps, and is inside by *)
(* the gate log, unless requests about the visitor overlapped.             *)
THEOREM InsideIsAlwaysAccountedFor == Spec => []InsideIsAccountedFor
<1>1. IInv => InsideIsAccountedFor
  BY DEF IInv
<1>2. QED
  BY <1>1, AlwaysIInv, PTL

(* Who is inside leaves by a check-out and a revocation is final, unless   *)
(* requests about the visitor overlapped.                                  *)
THEOREM DecisionsAlwaysHold == Spec => DecisionsHold
<1>1. IInv /\ [Next]_vars => [DecisionKept]_vars
  BY DecisionStep DEF IInv
<1>2. QED
  BY <1>1, AlwaysIInv, PTL DEF Spec, DecisionsHold, DecisionKept

-----------------------------------------------------------------------------
(* LevyClearance, whose flag bars a resident whom the visitors come to see *)
(* from the app: theorems for any number of requests and levies, any grace *)
(* period and any bound on the clock.                                      *)

-----------------------------------------------------------------------------
(* The inductive invariant. *)

(* While requests have not overlapped, one at most is under way.           *)
LevyOneRequest == ~overlapped =>
    \A t, u \in Threads : levyPc[t] # "idle" /\ levyPc[u] # "idle" => t = u

(* The world has not moved on since a request looked, but for the clock:   *)
(* it goes on to its query and comes to a verdict for the reasons the rule *)
(* gives, and the flag the guard has read is the one there is.             *)
Unpaying(t, l) == l # levy[t] /\ bill[l] = "UNPAID" /\ due[l] <= at[t]

LevyJudgedOK == ~overlapped => \A t \in Threads :
    /\ levyPc[t] \in {"query", "guardQuery"} => approvedAt # None
    /\ levyPc[t] = "query" => at[t] >= approvedAt + Grace
    /\ levyPc[t] = "guardQuery" /\ graceOn => at[t] >= approvedAt + Grace
    /\ levyPc[t] \in {"guard", "guardQuery", "guardWrite"} =>
          approvedAt # None /\ snap[t] = cleared
    /\ ~verdict[t] => /\ approvedAt # None
                      /\ graceOn => at[t] >= approvedAt + Grace
                      /\ \E l \in Levies : Unpaying(t, l)

(* A payment under way has its levy, others have none, and the verdict of  *)
(* a request is TRUE until it has one.                                     *)
LevyPositionsOK == \A t \in Threads :
    /\ levyPc[t] = "pay" => levy[t] \in Levies
    /\ levyPc[t] # "pay" => levy[t] = None
    /\ ~verdict[t] => levyPc[t] \in {"write", "pay", "guardWrite"}

(* PaidUpIsCleared, whether or not a request is under way.                 *)
ClearedOK ==
    ~overlapped /\ approvedAt # None /\ L!Unpaid = {} => cleared

LevyIInv == L!TypeOK /\ LevyPositionsOK /\ LevyOneRequest /\ LevyJudgedOK
            /\ ClearedOK

USE LevyAssumption

-----------------------------------------------------------------------------
(* Every step preserves each part of it. *)

(* Every step writes what the type allows.                                 *)
LEMMA LevyTypeStep ==
    ASSUME L!TypeOK, LevyPositionsOK, L!Next
    PROVE  L!TypeOK'
<1>1. ASSUME L!Tick
      PROVE  L!TypeOK'
  BY <1>1 DEF L!TypeOK, L!Times, L!Positions, L!Tick, L!request
<1>2. ASSUME L!ReviewResident
      PROVE  L!TypeOK'
  BY <1>2 DEF L!TypeOK, L!Times, L!Positions, L!ReviewResident, L!Overlap,
     L!request
<1>3. ASSUME L!VerifyNin
      PROVE  L!TypeOK'
  BY <1>3 DEF L!TypeOK, L!Times, L!Positions, L!VerifyNin, L!Overlap,
     L!request
<1>4. ASSUME L!UpdateSettings
      PROVE  L!TypeOK'
  BY <1>4 DEF L!TypeOK, L!Times, L!Positions, L!UpdateSettings, L!Overlap,
     L!request
<1>5. ASSUME NEW l \in Levies, L!UpdateLevy(l)
      PROVE  L!TypeOK'
  BY <1>5 DEF L!TypeOK, L!Times, L!Positions, L!UpdateLevy, L!Overlap,
     L!request
<1>6. ASSUME NEW t \in Threads, NEW l \in Levies, L!CreateLevy(t, l)
      PROVE  L!TypeOK'
  BY <1>6 DEF L!TypeOK, L!Times, L!Positions, L!CreateLevy, L!Start, L!Overlap
<1>7. ASSUME NEW t \in Threads, NEW l \in Levies, L!BeginPayment(t, l)
      PROVE  L!TypeOK'
  BY <1>7 DEF L!TypeOK, L!Times, L!Positions, L!BeginPayment, L!Start,
     L!Overlap, L!Enforced, L!Overdue, L!IsDue, L!world
<1>8. ASSUME NEW t \in Threads, L!Cron(t)
      PROVE  L!TypeOK'
  BY <1>8 DEF L!TypeOK, L!Times, L!Positions, L!Cron, L!Start, L!Overlap,
     L!world
<1>9. ASSUME NEW t \in Threads, L!Login(t)
      PROVE  L!TypeOK'
  BY <1>9 DEF L!TypeOK, L!Times, L!Positions, L!Login, L!Start, L!Overlap,
     L!world
<1>10. ASSUME NEW t \in Threads, L!GuardReadsResident(t)
      PROVE  L!TypeOK'
  BY <1>10 DEF L!TypeOK, L!Times, L!Positions, L!GuardReadsResident, L!Start,
     L!Overlap, L!world
<1>11. ASSUME NEW t \in Threads, L!ReadResident(t)
      PROVE  L!TypeOK'
  BY <1>11 DEF L!TypeOK, L!Times, L!Positions, L!ReadResident, L!GoTo,
     L!Enforced, L!world
<1>12. ASSUME NEW t \in Threads, L!QueryOverdue(t)
      PROVE  L!TypeOK'
  BY <1>12 DEF L!TypeOK, L!Times, L!Positions, L!QueryOverdue, L!GoTo,
     L!Overdue, L!IsDue, L!world
<1>13. ASSUME NEW t \in Threads, L!WriteFlag(t)
      PROVE  L!TypeOK'
  BY <1>13 DEF L!TypeOK, L!Times, L!Positions, L!WriteFlag, L!Leave, L!world
<1>14. ASSUME NEW t \in Threads, L!CommitPayment(t)
      PROVE  L!TypeOK'
  BY <1>14 DEF L!TypeOK, L!Times, L!Positions, LevyPositionsOK,
     L!CommitPayment, L!Leave, L!PaidFlag, L!PaidBill
<1>15. ASSUME NEW t \in Threads, L!GuardReadsSettings(t)
      PROVE  L!TypeOK'
  BY <1>15 DEF L!TypeOK, L!Times, L!Positions, L!GuardReadsSettings, L!GoTo,
     L!world
<1>16. ASSUME NEW t \in Threads, L!GuardWritesFlag(t)
      PROVE  L!TypeOK'
  BY <1>16 DEF L!TypeOK, L!Times, L!Positions, L!GuardWritesFlag, L!Leave,
     L!world
<1>17. ASSUME NEW t \in Threads, L!Fail(t)
      PROVE  L!TypeOK'
  BY <1>17 DEF L!TypeOK, L!Times, L!Positions, L!Fail, L!Leave, L!world
<1>18. QED
  BY <1>1, <1>2, <1>3, <1>4, <1>5, <1>6, <1>7, <1>8, <1>9, <1>10, <1>11,
     <1>12, <1>13, <1>14, <1>15, <1>16, <1>17 DEF L!Next, L!Continue

(* The levy comes with the payment and goes with it.                       *)
LEMMA LevyPositionsStep ==
    ASSUME L!TypeOK, LevyPositionsOK, L!Next
    PROVE  LevyPositionsOK'
<1>1. ASSUME NEW t \in Threads, NEW l \in Levies, L!CreateLevy(t, l)
      PROVE  LevyPositionsOK'
  BY <1>1 DEF L!TypeOK, LevyPositionsOK, L!CreateLevy, L!Start, L!Overlap
<1>2. ASSUME NEW t \in Threads, NEW l \in Levies, L!BeginPayment(t, l)
      PROVE  LevyPositionsOK'
  BY <1>2 DEF L!TypeOK, LevyPositionsOK, L!BeginPayment, L!Start, L!Overlap,
     L!Enforced, L!Overdue, L!IsDue, L!world
<1>3. ASSUME NEW t \in Threads, L!Cron(t)
      PROVE  LevyPositionsOK'
  BY <1>3 DEF L!TypeOK, LevyPositionsOK, L!Cron, L!Start, L!Overlap, L!world
<1>4. ASSUME NEW t \in Threads, L!Login(t)
      PROVE  LevyPositionsOK'
  BY <1>4 DEF L!TypeOK, LevyPositionsOK, L!Login, L!Start, L!Overlap, L!world
<1>5. ASSUME NEW t \in Threads, L!GuardReadsResident(t)
      PROVE  LevyPositionsOK'
  BY <1>5 DEF L!TypeOK, LevyPositionsOK, L!GuardReadsResident, L!Start,
     L!Overlap, L!world
<1>6. ASSUME NEW t \in Threads, L!ReadResident(t)
      PROVE  LevyPositionsOK'
  BY <1>6 DEF L!TypeOK, LevyPositionsOK, L!ReadResident, L!GoTo, L!Enforced,
     L!world
<1>7. ASSUME NEW t \in Threads, L!QueryOverdue(t)
      PROVE  LevyPositionsOK'
  BY <1>7 DEF L!TypeOK, LevyPositionsOK, L!QueryOverdue, L!GoTo, L!Overdue,
     L!IsDue, L!world
<1>8. ASSUME NEW t \in Threads, L!WriteFlag(t)
      PROVE  LevyPositionsOK'
  BY <1>8 DEF L!TypeOK, LevyPositionsOK, L!WriteFlag, L!Leave, L!world
<1>9. ASSUME NEW t \in Threads, L!CommitPayment(t)
      PROVE  LevyPositionsOK'
  BY <1>9 DEF L!TypeOK, LevyPositionsOK, L!CommitPayment, L!Leave, L!PaidFlag,
     L!PaidBill
<1>10. ASSUME NEW t \in Threads, L!GuardReadsSettings(t)
      PROVE  LevyPositionsOK'
  BY <1>10 DEF L!TypeOK, LevyPositionsOK, L!GuardReadsSettings, L!GoTo,
     L!world
<1>11. ASSUME NEW t \in Threads, L!GuardWritesFlag(t)
      PROVE  LevyPositionsOK'
  BY <1>11 DEF L!TypeOK, LevyPositionsOK, L!GuardWritesFlag, L!Leave, L!world
<1>12. ASSUME NEW t \in Threads, L!Fail(t)
      PROVE  LevyPositionsOK'
  BY <1>12 DEF L!TypeOK, LevyPositionsOK, L!Fail, L!Leave, L!world
<1>13. ASSUME \/ L!Tick
              \/ L!ReviewResident
              \/ L!VerifyNin
              \/ L!UpdateSettings
              \/ \E l \in Levies : L!UpdateLevy(l)
      PROVE  LevyPositionsOK'
  BY <1>13 DEF L!TypeOK, LevyPositionsOK, L!Tick, L!request, L!ReviewResident,
     L!Overlap, L!VerifyNin, L!UpdateSettings, L!UpdateLevy
<1>14. QED
  BY <1>1, <1>2, <1>3, <1>4, <1>5, <1>6, <1>7, <1>8, <1>9, <1>10, <1>11,
     <1>12, <1>13 DEF L!Next, L!Continue

(* A request that begins during another one is an overlap.                 *)
LEMMA LevyOneStep ==
    ASSUME L!TypeOK, LevyOneRequest, L!Next
    PROVE  LevyOneRequest'
<1>1. ASSUME NEW t \in Threads, NEW l \in Levies, L!CreateLevy(t, l)
      PROVE  LevyOneRequest'
  BY <1>1 DEF L!TypeOK, LevyOneRequest, L!CreateLevy, L!Start, L!Overlap
<1>2. ASSUME NEW t \in Threads, NEW l \in Levies, L!BeginPayment(t, l)
      PROVE  LevyOneRequest'
  BY <1>2 DEF L!TypeOK, LevyOneRequest, L!BeginPayment, L!Start, L!Overlap,
     L!Enforced, L!Overdue, L!IsDue, L!world
<1>3. ASSUME NEW t \in Threads, L!Cron(t)
      PROVE  LevyOneRequest'
  BY <1>3 DEF L!TypeOK, LevyOneRequest, L!Cron, L!Start, L!Overlap, L!world
<1>4. ASSUME NEW t \in Threads, L!Login(t)
      PROVE  LevyOneRequest'
  BY <1>4 DEF L!TypeOK, LevyOneRequest, L!Login, L!Start, L!Overlap, L!world
<1>5. ASSUME NEW t \in Threads, L!GuardReadsResident(t)
      PROVE  LevyOneRequest'
  BY <1>5 DEF L!TypeOK, LevyOneRequest, L!GuardReadsResident, L!Start,
     L!Overlap, L!world
<1>6. ASSUME NEW t \in Threads, L!ReadResident(t)
      PROVE  LevyOneRequest'
  BY <1>6 DEF L!TypeOK, LevyOneRequest, L!ReadResident, L!GoTo, L!Enforced,
     L!world
<1>7. ASSUME NEW t \in Threads, L!QueryOverdue(t)
      PROVE  LevyOneRequest'
  BY <1>7 DEF L!TypeOK, LevyOneRequest, L!QueryOverdue, L!GoTo, L!Overdue,
     L!IsDue, L!world
<1>8. ASSUME NEW t \in Threads, L!WriteFlag(t)
      PROVE  LevyOneRequest'
  BY <1>8 DEF L!TypeOK, LevyOneRequest, L!WriteFlag, L!Leave, L!world
<1>9. ASSUME NEW t \in Threads, L!CommitPayment(t)
      PROVE  LevyOneRequest'
  BY <1>9 DEF L!TypeOK, LevyOneRequest, L!CommitPayment, L!Leave, L!PaidFlag,
     L!PaidBill
<1>10. ASSUME NEW t \in Threads, L!GuardReadsSettings(t)
      PROVE  LevyOneRequest'
  BY <1>10 DEF L!TypeOK, LevyOneRequest, L!GuardReadsSettings, L!GoTo, L!world
<1>11. ASSUME NEW t \in Threads, L!GuardWritesFlag(t)
      PROVE  LevyOneRequest'
  BY <1>11 DEF L!TypeOK, LevyOneRequest, L!GuardWritesFlag, L!Leave, L!world
<1>12. ASSUME NEW t \in Threads, L!Fail(t)
      PROVE  LevyOneRequest'
  BY <1>12 DEF L!TypeOK, LevyOneRequest, L!Fail, L!Leave, L!world
<1>13. ASSUME \/ L!Tick
              \/ L!ReviewResident
              \/ L!VerifyNin
              \/ L!UpdateSettings
              \/ \E l \in Levies : L!UpdateLevy(l)
      PROVE  LevyOneRequest'
  BY <1>13 DEF L!TypeOK, LevyOneRequest, L!Tick, L!request, L!ReviewResident,
     L!Overlap, L!VerifyNin, L!UpdateSettings, L!UpdateLevy
<1>14. QED
  BY <1>1, <1>2, <1>3, <1>4, <1>5, <1>6, <1>7, <1>8, <1>9, <1>10, <1>11,
     <1>12, <1>13 DEF L!Next, L!Continue

(* What a lone request has read stays as it was until the request ends.    *)
LEMMA LevyJudgedStep ==
    ASSUME L!TypeOK, LevyPositionsOK, LevyOneRequest, LevyJudgedOK, L!Next
    PROVE  LevyJudgedOK'
<1>1. ASSUME L!Tick
      PROVE  LevyJudgedOK'
  BY <1>1 DEF L!TypeOK, L!Times, LevyJudgedOK, Unpaying, LevyPositionsOK,
     LevyOneRequest, L!Tick, L!request
<1>2. ASSUME L!ReviewResident
      PROVE  LevyJudgedOK'
  BY <1>2 DEF L!TypeOK, L!Times, LevyJudgedOK, Unpaying, LevyPositionsOK,
     LevyOneRequest, L!ReviewResident, L!Overlap, L!request
<1>3. ASSUME L!VerifyNin
      PROVE  LevyJudgedOK'
  BY <1>3 DEF L!TypeOK, L!Times, LevyJudgedOK, Unpaying, LevyPositionsOK,
     LevyOneRequest, L!VerifyNin, L!Overlap, L!request
<1>4. ASSUME L!UpdateSettings
      PROVE  LevyJudgedOK'
  BY <1>4 DEF L!TypeOK, L!Times, LevyJudgedOK, Unpaying, LevyPositionsOK,
     LevyOneRequest, L!UpdateSettings, L!Overlap, L!request
<1>5. ASSUME NEW l \in Levies, L!UpdateLevy(l)
      PROVE  LevyJudgedOK'
  BY <1>5 DEF L!TypeOK, L!Times, LevyJudgedOK, Unpaying, LevyPositionsOK,
     LevyOneRequest, L!UpdateLevy, L!Overlap, L!request
<1>6. ASSUME NEW t \in Threads, NEW l \in Levies, L!CreateLevy(t, l)
      PROVE  LevyJudgedOK'
  BY <1>6 DEF L!TypeOK, L!Times, LevyJudgedOK, Unpaying, LevyPositionsOK,
     LevyOneRequest, L!CreateLevy, L!Start, L!Overlap
<1>7. ASSUME NEW t \in Threads, NEW l \in Levies, L!BeginPayment(t, l)
      PROVE  LevyJudgedOK'
  BY <1>7 DEF L!TypeOK, L!Times, LevyJudgedOK, Unpaying, LevyPositionsOK,
     LevyOneRequest, L!BeginPayment, L!Start, L!Overlap, L!Enforced,
     L!Overdue, L!IsDue, L!world
<1>8. ASSUME NEW t \in Threads, L!Cron(t)
      PROVE  LevyJudgedOK'
  BY <1>8 DEF L!TypeOK, L!Times, LevyJudgedOK, Unpaying, LevyPositionsOK,
     LevyOneRequest, L!Cron, L!Start, L!Overlap, L!world
<1>9. ASSUME NEW t \in Threads, L!Login(t)
      PROVE  LevyJudgedOK'
  BY <1>9 DEF L!TypeOK, L!Times, LevyJudgedOK, Unpaying, LevyPositionsOK,
     LevyOneRequest, L!Login, L!Start, L!Overlap, L!world
<1>10. ASSUME NEW t \in Threads, L!GuardReadsResident(t)
      PROVE  LevyJudgedOK'
  BY <1>10 DEF L!TypeOK, L!Times, LevyJudgedOK, Unpaying, LevyPositionsOK,
     LevyOneRequest, L!GuardReadsResident, L!Start, L!Overlap, L!world
<1>11. ASSUME NEW t \in Threads, L!ReadResident(t)
      PROVE  LevyJudgedOK'
  BY <1>11 DEF L!TypeOK, L!Times, LevyJudgedOK, Unpaying, LevyPositionsOK,
     LevyOneRequest, L!ReadResident, L!GoTo, L!Enforced, L!world
<1>12. ASSUME NEW t \in Threads, L!QueryOverdue(t)
      PROVE  LevyJudgedOK'
  BY <1>12 DEF L!TypeOK, L!Times, LevyJudgedOK, Unpaying, LevyPositionsOK,
     LevyOneRequest, L!QueryOverdue, L!GoTo, L!Overdue, L!IsDue, L!world
<1>13. ASSUME NEW t \in Threads, L!WriteFlag(t)
      PROVE  LevyJudgedOK'
  BY <1>13 DEF L!TypeOK, L!Times, LevyJudgedOK, Unpaying, LevyPositionsOK,
     LevyOneRequest, L!WriteFlag, L!Leave, L!world
<1>14. ASSUME NEW t \in Threads, L!CommitPayment(t)
      PROVE  LevyJudgedOK'
  BY <1>14 DEF L!TypeOK, L!Times, LevyJudgedOK, Unpaying, LevyPositionsOK,
     LevyOneRequest, L!CommitPayment, L!Leave, L!PaidFlag, L!PaidBill
<1>15. ASSUME NEW t \in Threads, L!GuardReadsSettings(t)
      PROVE  LevyJudgedOK'
  BY <1>15 DEF L!TypeOK, L!Times, LevyJudgedOK, Unpaying, LevyPositionsOK,
     LevyOneRequest, L!GuardReadsSettings, L!GoTo, L!world
<1>16. ASSUME NEW t \in Threads, L!GuardWritesFlag(t)
      PROVE  LevyJudgedOK'
  BY <1>16 DEF L!TypeOK, L!Times, LevyJudgedOK, Unpaying, LevyPositionsOK,
     LevyOneRequest, L!GuardWritesFlag, L!Leave, L!world
<1>17. ASSUME NEW t \in Threads, L!Fail(t)
      PROVE  LevyJudgedOK'
  BY <1>17 DEF L!TypeOK, L!Times, LevyJudgedOK, Unpaying, LevyPositionsOK,
     LevyOneRequest, L!Fail, L!Leave, L!world
<1>18. QED
  BY <1>1, <1>2, <1>3, <1>4, <1>5, <1>6, <1>7, <1>8, <1>9, <1>10, <1>11,
     <1>12, <1>13, <1>14, <1>15, <1>16, <1>17 DEF L!Next, L!Continue

(* The flag that is written is that of the levies there are.               *)
LEMMA ClearedStep ==
    ASSUME L!TypeOK, LevyPositionsOK, LevyJudgedOK, ClearedOK, L!Next
    PROVE  ClearedOK'
<1>1. ASSUME L!Tick
      PROVE  ClearedOK'
  BY <1>1 DEF L!TypeOK, ClearedOK, L!Unpaid, L!Tick, L!request
<1>2. ASSUME L!ReviewResident
      PROVE  ClearedOK'
  BY <1>2 DEF L!TypeOK, ClearedOK, L!Unpaid, L!ReviewResident, L!Overlap,
     L!request
<1>3. ASSUME L!VerifyNin
      PROVE  ClearedOK'
  BY <1>3 DEF L!TypeOK, ClearedOK, L!Unpaid, L!VerifyNin, L!Overlap, L!request
<1>4. ASSUME L!UpdateSettings
      PROVE  ClearedOK'
  BY <1>4 DEF L!TypeOK, ClearedOK, L!Unpaid, L!UpdateSettings, L!Overlap,
     L!request
<1>5. ASSUME NEW l \in Levies, L!UpdateLevy(l)
      PROVE  ClearedOK'
  BY <1>5 DEF L!TypeOK, ClearedOK, L!Unpaid, L!UpdateLevy, L!Overlap,
     L!request
<1>6. ASSUME NEW t \in Threads, NEW l \in Levies, L!CreateLevy(t, l)
      PROVE  ClearedOK'
  BY <1>6 DEF L!TypeOK, ClearedOK, L!Unpaid, L!CreateLevy, L!Start, L!Overlap
<1>7. ASSUME NEW t \in Threads, NEW l \in Levies, L!BeginPayment(t, l)
      PROVE  ClearedOK'
  BY <1>7 DEF L!TypeOK, ClearedOK, L!Unpaid, L!BeginPayment, L!Start,
     L!Overlap, L!Enforced, L!Overdue, L!IsDue, L!world
<1>8. ASSUME NEW t \in Threads, L!Cron(t)
      PROVE  ClearedOK'
  BY <1>8 DEF L!TypeOK, ClearedOK, L!Unpaid, L!Cron, L!Start, L!Overlap,
     L!world
<1>9. ASSUME NEW t \in Threads, L!Login(t)
      PROVE  ClearedOK'
  BY <1>9 DEF L!TypeOK, ClearedOK, L!Unpaid, L!Login, L!Start, L!Overlap,
     L!world
<1>10. ASSUME NEW t \in Threads, L!GuardReadsResident(t)
      PROVE  ClearedOK'
  BY <1>10 DEF L!TypeOK, ClearedOK, L!Unpaid, L!GuardReadsResident, L!Start,
     L!Overlap, L!world
<1>11. ASSUME NEW t \in Threads, L!ReadResident(t)
      PROVE  ClearedOK'
  BY <1>11 DEF L!TypeOK, ClearedOK, L!Unpaid, L!ReadResident, L!GoTo,
     L!Enforced, L!world
<1>12. ASSUME NEW t \in Threads, L!QueryOverdue(t)
      PROVE  ClearedOK'
  BY <1>12 DEF L!TypeOK, ClearedOK, L!Unpaid, L!QueryOverdue, L!GoTo,
     L!Overdue, L!IsDue, L!world
<1>13. ASSUME NEW t \in Threads, L!WriteFlag(t)
      PROVE  ClearedOK'
  BY <1>13 DEF L!TypeOK, ClearedOK, L!Unpaid, LevyPositionsOK, LevyJudgedOK,
     Unpaying, L!WriteFlag, L!Leave, L!world
<1>14. ASSUME NEW t \in Threads, L!CommitPayment(t)
      PROVE  ClearedOK'
  BY <1>14 DEF L!TypeOK, ClearedOK, L!Unpaid, LevyPositionsOK, LevyJudgedOK,
     Unpaying, L!CommitPayment, L!Leave, L!PaidFlag, L!PaidBill
<1>15. ASSUME NEW t \in Threads, L!GuardReadsSettings(t)
      PROVE  ClearedOK'
  BY <1>15 DEF L!TypeOK, ClearedOK, L!Unpaid, L!GuardReadsSettings, L!GoTo,
     L!world
<1>16. ASSUME NEW t \in Threads, L!GuardWritesFlag(t)
      PROVE  ClearedOK'
  BY <1>16 DEF L!TypeOK, ClearedOK, L!Unpaid, LevyPositionsOK, LevyJudgedOK,
     Unpaying, L!GuardWritesFlag, L!Leave, L!world
<1>17. ASSUME NEW t \in Threads, L!Fail(t)
      PROVE  ClearedOK'
  BY <1>17 DEF L!TypeOK, ClearedOK, L!Unpaid, L!Fail, L!Leave, L!world
<1>18. QED
  BY <1>1, <1>2, <1>3, <1>4, <1>5, <1>6, <1>7, <1>8, <1>9, <1>10, <1>11,
     <1>12, <1>13, <1>14, <1>15, <1>16, <1>17 DEF L!Next, L!Continue

(* The flag goes off only in the last step of a request, whose verdict is  *)
(* what the rule says of the time it looked.                               *)
LEMMA CauseStep ==
    ASSUME LevyIInv, L!Next
    PROVE  L!FlaggedForCause
<1>1. ASSUME NEW t \in Threads, ~verdict[t], ~overlapped
      PROVE  L!Restricted(at[t])
  BY <1>1 DEF LevyIInv, LevyJudgedOK, Unpaying, L!Restricted
<1>2. ASSUME NEW t \in Threads,
             L!WriteFlag(t) \/ L!CommitPayment(t) \/ L!GuardWritesFlag(t)
      PROVE  L!FlaggedForCause
  <2>1. cleared /\ ~cleared' => ~verdict[t]
    BY <1>2 DEF L!WriteFlag, L!CommitPayment, L!PaidFlag, L!GuardWritesFlag
  <2>2. QED
    BY <1>1, <2>1 DEF L!FlaggedForCause
<1>3. CASE L!ReviewResident \/ L!VerifyNin
  BY <1>3 DEF L!ReviewResident, L!VerifyNin, L!FlaggedForCause
<1>4. CASE UNCHANGED cleared
  BY <1>4 DEF L!FlaggedForCause
<1>5. CASE \/ L!Tick \/ L!UpdateSettings
           \/ \E l \in Levies : L!UpdateLevy(l)
           \/ \E t \in Threads, l \in Levies :
                 L!CreateLevy(t, l) \/ L!BeginPayment(t, l)
           \/ \E t \in Threads :
                 \/ L!Cron(t) \/ L!Login(t) \/ L!GuardReadsResident(t)
                 \/ L!ReadResident(t) \/ L!QueryOverdue(t)
                 \/ L!GuardReadsSettings(t) \/ L!Fail(t)
  <2>1. UNCHANGED cleared
    BY <1>5 DEF L!Tick, L!UpdateSettings, L!UpdateLevy, L!CreateLevy,
       L!BeginPayment, L!Cron, L!Login, L!GuardReadsResident, L!ReadResident,
       L!QueryOverdue, L!GuardReadsSettings, L!Fail
  <2>2. QED
    BY <1>4, <2>1
<1>6. QED
  BY <1>2, <1>3, <1>5 DEF L!Next, L!Continue

-----------------------------------------------------------------------------
(* The theorems. *)

LEMMA LevyInitIInv ==
    L!Init => LevyIInv
<1> SUFFICES ASSUME L!Init
             PROVE  LevyIInv
  OBVIOUS
<1>1. L!TypeOK
  <2>1. 0 \in L!Times /\ 0 \in 0..MaxChanges /\ "idle" \in L!Positions
    BY DEF L!Times, L!Positions
  <2>2. QED
    BY <2>1 DEF L!Init, L!TypeOK
<1>2. LevyPositionsOK /\ LevyOneRequest /\ LevyJudgedOK /\ ClearedOK
  BY DEF L!Init, LevyPositionsOK, LevyOneRequest, LevyJudgedOK, ClearedOK
<1>3. QED
  BY <1>1, <1>2 DEF LevyIInv

LEMMA LevyStepIInv ==
    LevyIInv /\ [L!Next]_(L!vars) => LevyIInv'
<1> SUFFICES ASSUME LevyIInv, [L!Next]_(L!vars)
             PROVE  LevyIInv'
  OBVIOUS
<1>1. CASE L!Next
  BY <1>1, LevyTypeStep, LevyPositionsStep, LevyOneStep, LevyJudgedStep,
     ClearedStep DEF LevyIInv
<1>2. CASE UNCHANGED L!vars
  BY <1>2 DEF LevyIInv, L!TypeOK, LevyPositionsOK, LevyOneRequest,
     LevyJudgedOK, Unpaying, ClearedOK, L!Unpaid, L!vars, L!world, L!request
<1>3. QED
  BY <1>1, <1>2

LEMMA LevyAlwaysIInv ==
    L!Spec => []LevyIInv
  BY LevyInitIInv, LevyStepIInv, PTL DEF L!Spec

(* Every variable keeps its type. *)
THEOREM LevyTypesCorrect ==
    LevySpec => []L!TypeOK
<1>1. LevyIInv => L!TypeOK
  BY DEF LevyIInv
<1>2. QED
  BY <1>1, LevyAlwaysIInv, PTL DEF LevySpec

(* updateResidentLevyCleared, its copies and the RolesGuard: without       *)
(* overlap an approved resident who owes nothing is cleared, and nobody    *)
(* loses the flag who was not restricted at the time the request looked,   *)
(* for any number of requests and levies.                                  *)
THEOREM FlagIsAlwaysTrue ==
    LevySpec => FlagIsTrue
<1>1. LevyIInv' => (L!TypeOK /\ L!PaidUpIsCleared)'
  BY DEF LevyIInv, ClearedOK, L!PaidUpIsCleared
<1>2. LevyIInv /\ [L!Next]_(L!vars)
      => [(L!TypeOK /\ L!PaidUpIsCleared)' /\ L!FlaggedForCause]_(L!vars)
  BY <1>1, LevyStepIInv, CauseStep
<1>3. QED
  BY <1>2, LevyAlwaysIInv, PTL DEF LevySpec, FlagIsTrue, L!Spec, L!FlagIsTrue
=============================================================================
