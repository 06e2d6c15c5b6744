----------------------- MODULE FacilityChargesProofs -----------------------
(* Theorems about FacilityCharges for any number of requests and items,    *)
(* any fee, limits and wallet, and below them those about Shortlets.       *)
EXTENDS FacilityCharges, ShortletStays, FiniteSetTheorems, TLAPS

-----------------------------------------------------------------------------
(* The inductive invariant. *)

(* Where a request stands tells what it is about.                          *)
PositionsOK == \A t \in Threads : pc[t] # "idle" =>
    /\ item[t] \in Items
    /\ pc[t] \in {"approve", "free", "resubmit"} => kind[item[t]] = "vehicle"
    /\ pc[t] = "approvePass" => kind[item[t]] = "pass"
    /\ pc[t] \in {"activate", "expire", "plate", "other"} =>
           kind[item[t]] = "business"
    /\ pc[t] = "refuse" =>
           kind[item[t]] \in {"vehicle", "pass"} /\ status[item[t]] # "NONE"
    /\ pc[t] \in {"plate", "other"} => MaxVisits > 0

(* What holds of every row, whatever overlaps.                             *)
RowsOK == \A i \in Items :
    /\ status[i] = "NONE" => payment[i] = "NONE" /\ i \in due
    /\ status[i] = "EXPIRED" => kind[i] = "business"
    /\ kind[i] = "pass" => (i \in charged <=> i \notin due)
    /\ i \in free => kind[i] = "vehicle"

(* An item that never had two requests has at most one.                    *)
OneRequest == \A t, u \in Threads :
    item[t] \in Items \ overlapped /\ item[u] = item[t] => u = t

(* Its row then shows whether its fee is due ...                           *)
DueOK == \A i \in Items \ (overlapped \cup due) :
    /\ kind[i] = "vehicle"  => status[i] \in {"ACTIVE", "SUSPENDED"}
    /\ kind[i] = "business" => status[i] \in {"ACTIVE", "SUSPENDED"}
    /\ kind[i] \in {"pass", "business"} => payment[i] = "PAID"

(* ... and the row that its one request has judged is still that row.      *)
Paying == {"approve", "wallet", "charge", "refuse", "resubmit"}

JudgedOK == \A t \in Threads : pc[t] # "idle" /\ item[t] \notin overlapped =>
    /\ pc[t] \in Paying => item[t] \in due
    /\ pc[t] \in Paying \cup {"free"} /\ kind[item[t]] # "pass" =>
           status[item[t]] # "SUSPENDED"
    /\ pc[t] = "approvePass" => status[item[t]] = "PENDING"
    /\ pc[t] = "expire" => status[item[t]] = "ACTIVE" /\ item[t] \in over
    /\ pc[t] = "activate" => payment[item[t]] = "PAID"

IInv == TypeOK /\ PositionsOK /\ RowsOK /\ OneRequest /\ DueOK /\ JudgedOK
        /\ FeeChargedOnce /\ PaymentIsTrue /\ LimitsBounded

USE FeeAssumption, ItemsAssumption

-----------------------------------------------------------------------------
(* Every step preserves each part of it. *)

(* Every handler writes what the type allows.                              *)
LEMMA TypeStep ==
    ASSUME TypeOK, PositionsOK, Next
    PROVE  TypeOK'
<1>1. ASSUME NEW i \in Items, Register(i)
      PROVE  TypeOK'
  BY <1>1 DEF TypeOK, Kinds, Statuses, Payments, Positions, Register,
     CreateVehicle, CreatePass, RegisterBusiness, SetStatus, SetPayment,
     Claimed, day, history, request
<1>2. ASSUME NEW t \in Threads, NEW i \in Items, RegisterAndPay(t, i)
      PROVE  TypeOK'
  BY <1>2 DEF TypeOK, Kinds, Statuses, Payments, Positions, RegisterAndPay,
     Start, Touch, Claimed, rows, day, history
<1>3. ASSUME NEW t \in Threads, NEW i \in Items, BeginApproval(t, i)
      PROVE  TypeOK'
  BY <1>3 DEF TypeOK, Kinds, Statuses, Payments, Positions, BeginApproval,
     Start, Touch, Claimed, Approvable, rows, day, history
<1>4. ASSUME NEW t \in Threads, CountActive(t)
      PROVE  TypeOK'
  BY <1>4 DEF TypeOK, Kinds, Statuses, Payments, Positions, PositionsOK,
     CountActive, GoTo, rows, day, history
<1>5. ASSUME NEW t \in Threads, ApproveFree(t)
      PROVE  TypeOK'
  BY <1>5 DEF TypeOK, Kinds, Statuses, Payments, Positions, PositionsOK,
     ApproveFree, SetStatus, Leave, day
<1>6. ASSUME NEW i \in Items, RejectVehicle(i)
      PROVE  TypeOK'
  BY <1>6 DEF TypeOK, Kinds, Statuses, Payments, Positions, RejectVehicle,
     SetStatus, Touch, Claimed, day, request
<1>7. ASSUME NEW i \in Items, Suspend(i)
      PROVE  TypeOK'
  BY <1>7 DEF TypeOK, Kinds, Statuses, Payments, Positions, Suspend,
     SuspendVehicle, SuspendRegistration, SetStatus, Touch, Claimed, day,
     history, request
<1>8. ASSUME NEW t \in Threads, NEW i \in Items, BeginResubmit(t, i)
      PROVE  TypeOK'
  BY <1>8 DEF TypeOK, Kinds, Statuses, Payments, Positions, BeginResubmit,
     Start, Touch, Claimed, rows, day, history
<1>9. ASSUME NEW t \in Threads, CommitResubmit(t)
      PROVE  TypeOK'
  BY <1>9 DEF TypeOK, Kinds, Statuses, Payments, Positions, PositionsOK,
     CommitResubmit, SetStatus, Leave, day, history
<1>10. ASSUME NEW t \in Threads, NEW i \in Items, BeginPayment(t, i)
      PROVE  TypeOK'
  BY <1>10 DEF TypeOK, Kinds, Statuses, Payments, Positions, BeginPayment,
     Start, Touch, Claimed, Payable, rows, day, history
<1>11. ASSUME NEW t \in Threads, ReadWallet(t)
      PROVE  TypeOK'
  BY <1>11 DEF TypeOK, Kinds, Statuses, Payments, Positions, PositionsOK,
     ReadWallet, HasFunds, RecordsRefusal, GoTo, Leave, rows, day, history
<1>12. ASSUME NEW t \in Threads, CommitRefusal(t)
      PROVE  TypeOK'
  BY <1>12 DEF TypeOK, Kinds, Statuses, Payments, Positions, PositionsOK,
     CommitRefusal, RefuseVehicle, RefusePass, SetStatus, SetPayment,
     RefusedPayment, Leave, day, history
<1>13. ASSUME NEW t \in Threads, CommitCharge(t)
      PROVE  TypeOK'
  BY <1>13 DEF TypeOK, Kinds, Statuses, Payments, Positions, PositionsOK,
     CommitCharge, ChargeWallet, SetStatus, SetPayment, ChargedStatus,
     PaidStatus, Leave, day
<1>14. ASSUME NEW t \in Threads, NEW i \in Items, BeginApprovePass(t, i)
      PROVE  TypeOK'
  BY <1>14 DEF TypeOK, Kinds, Statuses, Payments, Positions, BeginApprovePass,
     Start, Touch, Claimed, rows, day, history
<1>15. ASSUME NEW t \in Threads, CommitApprovePass(t)
      PROVE  TypeOK'
  BY <1>15 DEF TypeOK, Kinds, Statuses, Payments, Positions, PositionsOK,
     CommitApprovePass, SetStatus, Leave, day, history
<1>16. ASSUME NEW i \in Items, RejectPass(i)
      PROVE  TypeOK'
  BY <1>16 DEF TypeOK, Kinds, Statuses, Payments, Positions, RejectPass,
     SetStatus, Touch, Claimed, day, history, request
<1>17. ASSUME NEW t \in Threads, NEW i \in Items, BeginActivate(t, i)
      PROVE  TypeOK'
  BY <1>17 DEF TypeOK, Kinds, Statuses, Payments, Positions, BeginActivate,
     Start, Touch, Claimed, Activatable, rows, day, history
<1>18. ASSUME NEW t \in Threads, CommitActivate(t)
      PROVE  TypeOK'
  BY <1>18 DEF TypeOK, Kinds, Statuses, Payments, Positions, PositionsOK,
     CommitActivate, SetStatus, Leave, day, history
<1>19. ASSUME NEW i \in Items, PeriodEnds(i)
      PROVE  TypeOK'
  BY <1>19 DEF TypeOK, Kinds, Statuses, Payments, Positions, PeriodEnds, day,
     history, request
<1>20. ASSUME NEW t \in Threads, NEW i \in Items, BeginVerify(t, i)
      PROVE  TypeOK'
  BY <1>20 DEF TypeOK, Kinds, Statuses, Payments, Positions, BeginVerify,
     Start, Touch, Claimed, FoundExpired, rows, day, history
<1>21. ASSUME NEW t \in Threads, MarkExpired(t)
      PROVE  TypeOK'
  BY <1>21 DEF TypeOK, Kinds, Statuses, Payments, Positions, PositionsOK,
     MarkExpired, SetStatus, SetPayment, Leave, day
<1>22. ASSUME NEW t \in Threads, NEW i \in Items, BeginVisit(t, i)
      PROVE  TypeOK'
  BY <1>22 DEF TypeOK, Kinds, Statuses, Payments, Positions, BeginVisit,
     Start, Touch, Claimed, PlatesLeft, VisitsLeft, rows, day, history
<1>23. ASSUME NEW t \in Threads, LogVisit(t)
      PROVE  TypeOK'
  BY <1>23 DEF TypeOK, Kinds, Statuses, Payments, Positions, PositionsOK,
     LogVisit, Leave, history
<1>24. ASSUME NEW t \in Threads, Fail(t)
      PROVE  TypeOK'
  BY <1>24 DEF TypeOK, Kinds, Statuses, Payments, Positions, PositionsOK,
     Fail, Leave, rows, day, history
<1>25. ASSUME NewDay
      PROVE  TypeOK'
  BY <1>25 DEF TypeOK, Kinds, Statuses, Payments, Positions, NewDay, history,
     request
<1>26. QED
  BY <1>1, <1>2, <1>3, <1>4, <1>5, <1>6, <1>7, <1>8, <1>9, <1>10, <1>11,
     <1>12, <1>13, <1>14, <1>15, <1>16, <1>17, <1>18, <1>19, <1>20, <1>21,
     <1>22, <1>23, <1>24, <1>25 DEF Next, Begin, Continue

(* No request forgets what it is about.                                    *)
LEMMA PositionsStep ==
    ASSUME TypeOK, PositionsOK, Next
    PROVE  PositionsOK'
<1>1. ASSUME NEW i \in Items, Register(i)
      PROVE  PositionsOK'
  BY <1>1 DEF TypeOK, PositionsOK, Register, CreateVehicle, CreatePass,
     RegisterBusiness, SetStatus, SetPayment, Claimed, day, history, request
<1>2. ASSUME NEW t \in Threads, NEW i \in Items, RegisterAndPay(t, i)
      PROVE  PositionsOK'
  BY <1>2 DEF TypeOK, PositionsOK, RegisterAndPay, Start, Touch, Claimed,
     rows, day, history
<1>3. ASSUME NEW t \in Threads, NEW i \in Items, BeginApproval(t, i)
      PROVE  PositionsOK'
  BY <1>3 DEF TypeOK, PositionsOK, BeginApproval, Start, Touch, Claimed,
     Approvable, rows, day, history
<1>4. ASSUME NEW t \in Threads, CountActive(t)
      PROVE  PositionsOK'
  BY <1>4 DEF TypeOK, PositionsOK, CountActive, GoTo, rows, day, history
<1>5. ASSUME NEW t \in Threads, ApproveFree(t)
      PROVE  PositionsOK'
  BY <1>5 DEF TypeOK, PositionsOK, ApproveFree, SetStatus, Leave, day
<1>6. ASSUME NEW i \in Items, RejectVehicle(i)
      PROVE  PositionsOK'
  BY <1>6 DEF TypeOK, PositionsOK, RejectVehicle, SetStatus, Touch, Claimed,
     day, request
<1>7. ASSUME NEW i \in Items, Suspend(i)
      PROVE  PositionsOK'
  BY <1>7 DEF TypeOK, PositionsOK, Suspend, SuspendVehicle,
     SuspendRegistration, SetStatus, Touch, Claimed, day, history, request
<1>8. ASSUME NEW t \in Threads, NEW i \in Items, BeginResubmit(t, i)
      PROVE  PositionsOK'
  BY <1>8 DEF TypeOK, PositionsOK, BeginResubmit, Start, Touch, Claimed, rows,
     day, history
<1>9. ASSUME NEW t \in Threads, CommitResubmit(t)
      PROVE  PositionsOK'
  BY <1>9 DEF TypeOK, PositionsOK, CommitResubmit, SetStatus, Leave, day,
     history
<1>10. ASSUME NEW t \in Threads, NEW i \in Items, BeginPayment(t, i)
      PROVE  PositionsOK'
  BY <1>10 DEF TypeOK, PositionsOK, BeginPayment, Start, Touch, Claimed,
     Payable, rows, day, history
<1>11. ASSUME NEW t \in Threads, ReadWallet(t)
      PROVE  PositionsOK'
  BY <1>11 DEF TypeOK, PositionsOK, ReadWallet, HasFunds, RecordsRefusal,
     GoTo, Leave, rows, day, history
<1>12. ASSUME NEW t \in Threads, CommitRefusal(t)
      PROVE  PositionsOK'
  BY <1>12 DEF TypeOK, PositionsOK, CommitRefusal, RefuseVehicle, RefusePass,
     SetStatus, SetPayment, RefusedPayment, Leave, day, history
<1>13. ASSUME NEW t \in Threads, CommitCharge(t)
      PROVE  PositionsOK'
  BY <1>13 DEF TypeOK, PositionsOK, CommitCharge, ChargeWallet, SetStatus,
     SetPayment, ChargedStatus, PaidStatus, Leave, day
<1>14. ASSUME NEW t \in Threads, NEW i \in Items, BeginApprovePass(t, i)
      PROVE  PositionsOK'
  BY <1>14 DEF TypeOK, PositionsOK, BeginApprovePass, Start, Touch, Claimed,
     rows, day, history
<1>15. ASSUME NEW t \in Threads, CommitApprovePass(t)
      PROVE  PositionsOK'
  BY <1>15 DEF TypeOK, PositionsOK, CommitApprovePass, SetStatus, Leave, day,
     history
<1>16. ASSUME NEW i \in Items, RejectPass(i)
      PROVE  PositionsOK'
  BY <1>16 DEF TypeOK, PositionsOK, RejectPass, SetStatus, Touch, Claimed,
     day, history, request
<1>17. ASSUME NEW t \in Threads, NEW i \in Items, BeginActivate(t, i)
      PROVE  PositionsOK'
  BY <1>17 DEF TypeOK, PositionsOK, BeginActivate, Start, Touch, Claimed,
     Activatable, rows, day, history
<1>18. ASSUME NEW t \in Threads, CommitActivate(t)
      PROVE  PositionsOK'
  BY <1>18 DEF TypeOK, PositionsOK, CommitActivate, SetStatus, Leave, day,
     history
<1>19. ASSUME NEW t \in Threads, NEW i \in Items, BeginVerify(t, i)
      PROVE  PositionsOK'
  BY <1>19 DEF TypeOK, PositionsOK, BeginVerify, Start, Touch, Claimed,
     FoundExpired, rows, day, history
<1>20. ASSUME NEW t \in Threads, MarkExpired(t)
      PROVE  PositionsOK'
  BY <1>20 DEF TypeOK, PositionsOK, MarkExpired, SetStatus, SetPayment, Leave,
     day
<1>21. ASSUME NEW t \in Threads, NEW i \in Items, BeginVisit(t, i)
      PROVE  PositionsOK'
  BY <1>21 DEF TypeOK, PositionsOK, BeginVisit, Start, Touch, Claimed,
     PlatesLeft, VisitsLeft, rows, day, history
<1>22. ASSUME NEW t \in Threads, LogVisit(t)
      PROVE  PositionsOK'
  BY <1>22 DEF TypeOK, PositionsOK, LogVisit, Leave, history
<1>23. ASSUME NEW t \in Threads, Fail(t)
      PROVE  PositionsOK'
  BY <1>23 DEF TypeOK, PositionsOK, Fail, Leave, rows, day, history
<1>24. ASSUME \/ \E i \in Items : PeriodEnds(i)
              \/ NewDay
      PROVE  PositionsOK'
  BY <1>24 DEF TypeOK, PositionsOK, PeriodEnds, day, history, request, NewDay
<1>25. QED
  BY <1>1, <1>2, <1>3, <1>4, <1>5, <1>6, <1>7, <1>8, <1>9, <1>10, <1>11,
     <1>12, <1>13, <1>14, <1>15, <1>16, <1>17, <1>18, <1>19, <1>20, <1>21,
     <1>22, <1>23, <1>24 DEF Next, Begin, Continue

(* Handlers keep what holds of every row.                                  *)
LEMMA RowsStep ==
    ASSUME TypeOK, PositionsOK, RowsOK, Next
    PROVE  RowsOK'
<1>1. ASSUME NEW i \in Items, Register(i)
      PROVE  RowsOK'
  BY <1>1 DEF TypeOK, PositionsOK, RowsOK, Register, CreateVehicle,
     CreatePass, RegisterBusiness, SetStatus, SetPayment, Claimed, day,
     history, request
<1>2. ASSUME NEW t \in Threads, ApproveFree(t)
      PROVE  RowsOK'
  BY <1>2 DEF TypeOK, PositionsOK, RowsOK, ApproveFree, SetStatus, Leave, day
<1>3. ASSUME NEW i \in Items, RejectVehicle(i)
      PROVE  RowsOK'
  BY <1>3 DEF TypeOK, PositionsOK, RowsOK, RejectVehicle, SetStatus, Touch,
     Claimed, day, request
<1>4. ASSUME NEW i \in Items, Suspend(i)
      PROVE  RowsOK'
  BY <1>4 DEF TypeOK, PositionsOK, RowsOK, Suspend, SuspendVehicle,
     SuspendRegistration, SetStatus, Touch, Claimed, day, history, request
<1>5. ASSUME NEW t \in Threads, CommitResubmit(t)
      PROVE  RowsOK'
  BY <1>5 DEF TypeOK, PositionsOK, RowsOK, CommitResubmit, SetStatus, Leave,
     day, history
<1>6. ASSUME NEW t \in Threads, CommitRefusal(t)
      PROVE  RowsOK'
  BY <1>6 DEF TypeOK, PositionsOK, RowsOK, CommitRefusal, RefuseVehicle,
     RefusePass, SetStatus, SetPayment, RefusedPayment, Leave, day, history
<1>7. ASSUME NEW t \in Threads, CommitCharge(t)
      PROVE  RowsOK'
  BY <1>7 DEF TypeOK, PositionsOK, RowsOK, CommitCharge, ChargeWallet,
     SetStatus, SetPayment, ChargedStatus, PaidStatus, Leave, day
<1>8. ASSUME NEW t \in Threads, CommitApprovePass(t)
      PROVE  RowsOK'
  BY <1>8 DEF TypeOK, PositionsOK, RowsOK, CommitApprovePass, SetStatus,
     Leave, day, history
<1>9. ASSUME NEW i \in Items, RejectPass(i)
      PROVE  RowsOK'
  BY <1>9 DEF TypeOK, PositionsOK, RowsOK, RejectPass, SetStatus, Touch,
     Claimed, day, history, request
<1>10. ASSUME NEW t \in Threads, CommitActivate(t)
      PROVE  RowsOK'
  BY <1>10 DEF TypeOK, PositionsOK, RowsOK, CommitActivate, SetStatus, Leave,
     day, history
<1>11. ASSUME NEW t \in Threads, MarkExpired(t)
      PROVE  RowsOK'
  BY <1>11 DEF TypeOK, PositionsOK, RowsOK, MarkExpired, SetStatus,
     SetPayment, Leave, day
<1>12. ASSUME \/ \E t \in Threads, i \in Items : RegisterAndPay(t, i)
              \/ \E t \in Threads, i \in Items : BeginApproval(t, i)
              \/ \E t \in Threads : CountActive(t)
              \/ \E t \in Threads, i \in Items : BeginResubmit(t, i)
              \/ \E t \in Threads, i \in Items : BeginPayment(t, i)
              \/ \E t \in Threads : ReadWallet(t)
              \/ \E t \in Threads, i \in Items : BeginApprovePass(t, i)
              \/ \E t \in Threads, i \in Items : BeginActivate(t, i)
              \/ \E i \in Items : PeriodEnds(i)
              \/ \E t \in Threads, i \in Items : BeginVerify(t, i)
              \/ \E t \in Threads, i \in Items : BeginVisit(t, i)
              \/ \E t \in Threads : LogVisit(t)
              \/ \E t \in Threads : Fail(t)
              \/ NewDay
      PROVE  RowsOK'
  BY <1>12 DEF TypeOK, PositionsOK, RowsOK, RegisterAndPay, Start, Touch,
     Claimed, rows, day, history, BeginApproval, Approvable, CountActive,
     GoTo, BeginResubmit, BeginPayment, Payable, ReadWallet, HasFunds,
     RecordsRefusal, Leave, BeginApprovePass, BeginActivate, Activatable,
     PeriodEnds, request, BeginVerify, FoundExpired, BeginVisit, PlatesLeft,
     VisitsLeft, LogVisit, Fail, NewDay
<1>13. QED
  BY <1>1, <1>2, <1>3, <1>4, <1>5, <1>6, <1>7, <1>8, <1>9, <1>10, <1>11, <1>12
  DEF Next, Begin, Continue

(* A second request about an item marks it as overlapped.                  *)
LEMMA OneStep ==
    ASSUME TypeOK, OneRequest, Next
    PROVE  OneRequest'
<1>1. ASSUME NEW i \in Items, Register(i)
      PROVE  OneRequest'
  BY <1>1 DEF TypeOK, OneRequest, Register, CreateVehicle, CreatePass,
     RegisterBusiness, SetStatus, SetPayment, Claimed, day, history, request
<1>2. ASSUME NEW t \in Threads, NEW i \in Items, RegisterAndPay(t, i)
      PROVE  OneRequest'
  BY <1>2 DEF TypeOK, OneRequest, RegisterAndPay, Start, Touch, Claimed, rows,
     day, history
<1>3. ASSUME NEW t \in Threads, NEW i \in Items, BeginApproval(t, i)
      PROVE  OneRequest'
  BY <1>3 DEF TypeOK, OneRequest, BeginApproval, Start, Touch, Claimed,
     Approvable, rows, day, history
<1>4. ASSUME NEW t \in Threads, CountActive(t)
      PROVE  OneRequest'
  BY <1>4 DEF TypeOK, OneRequest, CountActive, GoTo, rows, day, history
<1>5. ASSUME NEW t \in Threads, ApproveFree(t)
      PROVE  OneRequest'
  BY <1>5 DEF TypeOK, OneRequest, ApproveFree, SetStatus, Leave, day
<1>6. ASSUME NEW i \in Items, RejectVehicle(i)
      PROVE  OneRequest'
  BY <1>6 DEF TypeOK, OneRequest, RejectVehicle, SetStatus, Touch, Claimed,
     day, request
<1>7. ASSUME NEW i \in Items, Suspend(i)
      PROVE  OneRequest'
  BY <1>7 DEF TypeOK, OneRequest, Suspend, SuspendVehicle,
     SuspendRegistration, SetStatus, Touch, Claimed, day, history, request
<1>8. ASSUME NEW t \in Threads, NEW i \in Items, BeginResubmit(t, i)
      PROVE  OneRequest'
  BY <1>8 DEF TypeOK, OneRequest, BeginResubmit, Start, Touch, Claimed, rows,
     day, history
<1>9. ASSUME NEW t \in Threads, CommitResubmit(t)
      PROVE  OneRequest'
  BY <1>9 DEF TypeOK, OneRequest, CommitResubmit, SetStatus, Leave, day,
     history
<1>10. ASSUME NEW t \in Threads, NEW i \in Items, BeginPayment(t, i)
      PROVE  OneRequest'
  BY <1>10 DEF TypeOK, OneRequest, BeginPayment, Start, Touch, Claimed,
     Payable, rows, day, history
<1>11. ASSUME NEW t \in Threads, ReadWallet(t)
      PROVE  OneRequest'
  BY <1>11 DEF TypeOK, OneRequest, ReadWallet, HasFunds, RecordsRefusal, GoTo,
     Leave, rows, day, history
<1>12. ASSUME NEW t \in Threads, CommitRefusal(t)
      PROVE  OneRequest'
  BY <1>12 DEF TypeOK, OneRequest, CommitRefusal, RefuseVehicle, RefusePass,
     SetStatus, SetPayment, RefusedPayment, Leave, day, history
<1>13. ASSUME NEW t \in Threads, CommitCharge(t)
      PROVE  OneRequest'
  BY <1>13 DEF TypeOK, OneRequest, CommitCharge, ChargeWallet, SetStatus,
     SetPayment, ChargedStatus, PaidStatus, Leave, day
<1>14. ASSUME NEW t \in Threads, NEW i \in Items, BeginApprovePass(t, i)
      PROVE  OneRequest'
  BY <1>14 DEF TypeOK, OneRequest, BeginApprovePass, Start, Touch, Claimed,
     rows, day, history
<1>15. ASSUME NEW t \in Threads, CommitApprovePass(t)
      PROVE  OneRequest'
  BY <1>15 DEF TypeOK, OneRequest, CommitApprovePass, SetStatus, Leave, day,
     history
<1>16. ASSUME NEW i \in Items, RejectPass(i)
      PROVE  OneRequest'
  BY <1>16 DEF TypeOK, OneRequest, RejectPass, SetStatus, Touch, Claimed, day,
     history, request
<1>17. ASSUME NEW t \in Threads, NEW i \in Items, BeginActivate(t, i)
      PROVE  OneRequest'
  BY <1>17 DEF TypeOK, OneRequest, BeginActivate, Start, Touch, Claimed,
     Activatable, rows, day, history
<1>18. ASSUME NEW t \in Threads, CommitActivate(t)
      PROVE  OneRequest'
  BY <1>18 DEF TypeOK, OneRequest, CommitActivate, SetStatus, Leave, day,
     history
<1>19. ASSUME NEW i \in Items, PeriodEnds(i)
      PROVE  OneRequest'
  BY <1>19 DEF TypeOK, OneRequest, PeriodEnds, day, history, request
<1>20. ASSUME NEW t \in Threads, NEW i \in Items, BeginVerify(t, i)
      PROVE  OneRequest'
  BY <1>20 DEF TypeOK, OneRequest, BeginVerify, Start, Touch, Claimed,
     FoundExpired, rows, day, history
<1>21. ASSUME NEW t \in Threads, MarkExpired(t)
      PROVE  OneRequest'
  BY <1>21 DEF TypeOK, OneRequest, MarkExpired, SetStatus, SetPayment, Leave,
     day
<1>22. ASSUME NEW t \in Threads, NEW i \in Items, BeginVisit(t, i)
      PROVE  OneRequest'
  BY <1>22 DEF TypeOK, OneRequest, BeginVisit, Start, Touch, Claimed,
     PlatesLeft, VisitsLeft, rows, day, history
<1>23. ASSUME NEW t \in Threads, LogVisit(t)
      PROVE  OneRequest'
  BY <1>23 DEF TypeOK, OneRequest, LogVisit, Leave, history
<1>24. ASSUME NEW t \in Threads, Fail(t)
      PROVE  OneRequest'
  BY <1>24 DEF TypeOK, OneRequest, Fail, Leave, rows, day, history
<1>25. ASSUME NewDay
      PROVE  OneRequest'
  BY <1>25 DEF TypeOK, OneRequest, NewDay, history, request
<1>26. QED
  BY <1>1, <1>2, <1>3, <1>4, <1>5, <1>6, <1>7, <1>8, <1>9, <1>10, <1>11,
     <1>12, <1>13, <1>14, <1>15, <1>16, <1>17, <1>18, <1>19, <1>20, <1>21,
     <1>22, <1>23, <1>24, <1>25 DEF Next, Begin, Continue

(* Without overlap an item whose fee is not due is shown as paid.          *)
LEMMA DueStep ==
    ASSUME TypeOK, PositionsOK, RowsOK, JudgedOK, DueOK, Next
    PROVE  DueOK'
<1>1. ASSUME NEW i \in Items, Register(i)
      PROVE  DueOK'
  BY <1>1 DEF TypeOK, DueOK, RowsOK, Register, CreateVehicle, CreatePass,
     RegisterBusiness, SetStatus, SetPayment, Claimed, day, history, request
<1>2. ASSUME NEW t \in Threads, ApproveFree(t)
      PROVE  DueOK'
  BY <1>2 DEF TypeOK, DueOK, PositionsOK, JudgedOK, RowsOK, Paying,
     ApproveFree, SetStatus, Leave, day
<1>3. ASSUME NEW i \in Items, RejectVehicle(i)
      PROVE  DueOK'
  BY <1>3 DEF TypeOK, DueOK, RejectVehicle, SetStatus, Touch, Claimed, day,
     request
<1>4. ASSUME NEW i \in Items, Suspend(i)
      PROVE  DueOK'
  BY <1>4 DEF TypeOK, DueOK, Suspend, SuspendVehicle, SuspendRegistration,
     SetStatus, Touch, Claimed, day, history, request
<1>5. ASSUME NEW t \in Threads, CommitResubmit(t)
      PROVE  DueOK'
  BY <1>5 DEF TypeOK, DueOK, PositionsOK, JudgedOK, RowsOK, Paying,
     CommitResubmit, SetStatus, Leave, day, history
<1>6. ASSUME NEW t \in Threads, CommitRefusal(t)
      PROVE  DueOK'
  BY <1>6 DEF TypeOK, DueOK, PositionsOK, JudgedOK, RowsOK, Paying,
     CommitRefusal, RefuseVehicle, RefusePass, SetStatus, SetPayment,
     RefusedPayment, Leave, day, history
<1>7. ASSUME NEW t \in Threads, CommitCharge(t)
      PROVE  DueOK'
  BY <1>7 DEF TypeOK, DueOK, PositionsOK, JudgedOK, RowsOK, Paying,
     CommitCharge, ChargeWallet, SetStatus, SetPayment, ChargedStatus,
     PaidStatus, Leave, day
<1>8. ASSUME NEW t \in Threads, CommitApprovePass(t)
      PROVE  DueOK'
  BY <1>8 DEF TypeOK, DueOK, PositionsOK, JudgedOK, RowsOK, Paying,
     CommitApprovePass, SetStatus, Leave, day, history
<1>9. ASSUME NEW i \in Items, RejectPass(i)
      PROVE  DueOK'
  BY <1>9 DEF TypeOK, DueOK, RejectPass, SetStatus, Touch, Claimed, day,
     history, request
<1>10. ASSUME NEW t \in Threads, CommitActivate(t)
      PROVE  DueOK'
  BY <1>10 DEF TypeOK, DueOK, PositionsOK, JudgedOK, RowsOK, Paying,
     CommitActivate, SetStatus, Leave, day, history
<1>11. ASSUME NEW t \in Threads, MarkExpired(t)
      PROVE  DueOK'
  BY <1>11 DEF TypeOK, DueOK, PositionsOK, JudgedOK, RowsOK, Paying,
     MarkExpired, SetStatus, SetPayment, Leave, day
<1>12. ASSUME \/ \E t \in Threads, i \in Items : RegisterAndPay(t, i)
              \/ \E t \in Threads, i \in Items : BeginApproval(t, i)
              \/ \E t \in Threads : CountActive(t)
              \/ \E t \in Threads, i \in Items : BeginResubmit(t, i)
              \/ \E t \in Threads, i \in Items : BeginPayment(t, i)
              \/ \E t \in Threads : ReadWallet(t)
              \/ \E t \in Threads, i \in Items : BeginApprovePass(t, i)
              \/ \E t \in Threads, i \in Items : BeginActivate(t, i)
              \/ \E i \in Items : PeriodEnds(i)
              \/ \E t \in Threads, i \in Items : BeginVerify(t, i)
              \/ \E t \in Threads, i \in Items : BeginVisit(t, i)
              \/ \E t \in Threads : LogVisit(t)
              \/ \E t \in Threads : Fail(t)
              \/ NewDay
      PROVE  DueOK'
  BY <1>12 DEF TypeOK, DueOK, RegisterAndPay, Start, Touch, Claimed, rows,
     day, history, BeginApproval, Approvable, CountActive, GoTo,
     BeginResubmit, BeginPayment, Payable, ReadWallet, HasFunds,
     RecordsRefusal, Leave, BeginApprovePass, BeginActivate, Activatable,
     PeriodEnds, request, BeginVerify, FoundExpired, BeginVisit, PlatesLeft,
     VisitsLeft, LogVisit, Fail, NewDay
<1>13. QED
  BY <1>1, <1>2, <1>3, <1>4, <1>5, <1>6, <1>7, <1>8, <1>9, <1>10, <1>11, <1>12
  DEF Next, Begin, Continue

(* Without overlap nobody else writes a row that a request has judged.     *)
LEMMA JudgedStep ==
    ASSUME TypeOK, PositionsOK, RowsOK, OneRequest, DueOK, JudgedOK, Next
    PROVE  JudgedOK'
<1>1. ASSUME NEW i \in Items, Register(i)
      PROVE  JudgedOK'
  BY <1>1 DEF TypeOK, PositionsOK, JudgedOK, Paying, Register, CreateVehicle,
     CreatePass, RegisterBusiness, SetStatus, SetPayment, Claimed, day,
     history, request
<1>2. ASSUME NEW t \in Threads, NEW i \in Items, RegisterAndPay(t, i)
      PROVE  JudgedOK'
  BY <1>2 DEF TypeOK, PositionsOK, JudgedOK, Paying, RowsOK, RegisterAndPay,
     Start, Touch, Claimed, rows, day, history
<1>3. ASSUME NEW t \in Threads, NEW i \in Items, BeginApproval(t, i)
      PROVE  JudgedOK'
  BY <1>3 DEF TypeOK, PositionsOK, JudgedOK, Paying, DueOK, RowsOK,
     BeginApproval, Start, Touch, Claimed, Approvable, rows, day, history
<1>4. ASSUME NEW t \in Threads, CountActive(t)
      PROVE  JudgedOK'
  BY <1>4 DEF TypeOK, PositionsOK, JudgedOK, Paying, OneRequest, CountActive,
     GoTo, rows, day, history
<1>5. ASSUME NEW t \in Threads, ApproveFree(t)
      PROVE  JudgedOK'
  BY <1>5 DEF TypeOK, PositionsOK, JudgedOK, Paying, OneRequest, ApproveFree,
     SetStatus, Leave, day
<1>6. ASSUME NEW i \in Items, RejectVehicle(i)
      PROVE  JudgedOK'
  BY <1>6 DEF TypeOK, PositionsOK, JudgedOK, Paying, RejectVehicle, SetStatus,
     Touch, Claimed, day, request
<1>7. ASSUME NEW i \in Items, Suspend(i)
      PROVE  JudgedOK'
  BY <1>7 DEF TypeOK, PositionsOK, JudgedOK, Paying, Suspend, SuspendVehicle,
     SuspendRegistration, SetStatus, Touch, Claimed, day, history, request
<1>8. ASSUME NEW t \in Threads, NEW i \in Items, BeginResubmit(t, i)
      PROVE  JudgedOK'
  BY <1>8 DEF TypeOK, PositionsOK, JudgedOK, Paying, DueOK, BeginResubmit,
     Start, Touch, Claimed, rows, day, history
<1>9. ASSUME NEW t \in Threads, CommitResubmit(t)
      PROVE  JudgedOK'
  BY <1>9 DEF TypeOK, PositionsOK, JudgedOK, Paying, OneRequest,
     CommitResubmit, SetStatus, Leave, day, history
<1>10. ASSUME NEW t \in Threads, NEW i \in Items, BeginPayment(t, i)
      PROVE  JudgedOK'
  BY <1>10 DEF TypeOK, PositionsOK, JudgedOK, Paying, DueOK, RowsOK,
     BeginPayment, Start, Touch, Claimed, Payable, rows, day, history
<1>11. ASSUME NEW t \in Threads, ReadWallet(t)
      PROVE  JudgedOK'
  BY <1>11 DEF TypeOK, PositionsOK, JudgedOK, Paying, OneRequest, ReadWallet,
     HasFunds, RecordsRefusal, GoTo, Leave, rows, day, history
<1>12. ASSUME NEW t \in Threads, CommitRefusal(t)
      PROVE  JudgedOK'
  BY <1>12 DEF TypeOK, PositionsOK, JudgedOK, Paying, OneRequest,
     CommitRefusal, RefuseVehicle, RefusePass, SetStatus, SetPayment,
     RefusedPayment, Leave, day, history
<1>13. ASSUME NEW t \in Threads, CommitCharge(t)
      PROVE  JudgedOK'
  BY <1>13 DEF TypeOK, PositionsOK, JudgedOK, Paying, OneRequest,
     CommitCharge, ChargeWallet, SetStatus, SetPayment, ChargedStatus,
     PaidStatus, Leave, day
<1>14. ASSUME NEW t \in Threads, NEW i \in Items, BeginApprovePass(t, i)
      PROVE  JudgedOK'
  BY <1>14 DEF TypeOK, PositionsOK, JudgedOK, Paying, BeginApprovePass, Start,
     Touch, Claimed, rows, day, history
<1>15. ASSUME NEW t \in Threads, CommitApprovePass(t)
      PROVE  JudgedOK'
  BY <1>15 DEF TypeOK, PositionsOK, JudgedOK, Paying, OneRequest,
     CommitApprovePass, SetStatus, Leave, day, history
<1>16. ASSUME NEW i \in Items, RejectPass(i)
      PROVE  JudgedOK'
  BY <1>16 DEF TypeOK, PositionsOK, JudgedOK, Paying, RejectPass, SetStatus,
     Touch, Claimed, day, history, request
<1>17. ASSUME NEW t \in Threads, NEW i \in Items, BeginActivate(t, i)
      PROVE  JudgedOK'
  BY <1>17 DEF TypeOK, PositionsOK, JudgedOK, Paying, BeginActivate, Start,
     Touch, Claimed, Activatable, rows, day, history
<1>18. ASSUME NEW t \in Threads, CommitActivate(t)
      PROVE  JudgedOK'
  BY <1>18 DEF TypeOK, PositionsOK, JudgedOK, Paying, OneRequest,
     CommitActivate, SetStatus, Leave, day, history
<1>19. ASSUME NEW i \in Items, PeriodEnds(i)
      PROVE  JudgedOK'
  BY <1>19 DEF TypeOK, PositionsOK, JudgedOK, Paying, PeriodEnds, day,
     history, request
<1>20. ASSUME NEW t \in Threads, NEW i \in Items, BeginVerify(t, i)
      PROVE  JudgedOK'
  BY <1>20 DEF TypeOK, PositionsOK, JudgedOK, Paying, BeginVerify, Start,
     Touch, Claimed, FoundExpired, rows, day, history
<1>21. ASSUME NEW t \in Threads, MarkExpired(t)
      PROVE  JudgedOK'
  BY <1>21 DEF TypeOK, PositionsOK, JudgedOK, Paying, OneRequest, MarkExpired,
     SetStatus, SetPayment, Leave, day
<1>22. ASSUME NEW t \in Threads, NEW i \in Items, BeginVisit(t, i)
      PROVE  JudgedOK'
  BY <1>22 DEF TypeOK, PositionsOK, JudgedOK, Paying, BeginVisit, Start,
     Touch, Claimed, PlatesLeft, VisitsLeft, rows, day, history
<1>23. ASSUME NEW t \in Threads, LogVisit(t)
      PROVE  JudgedOK'
  BY <1>23 DEF TypeOK, PositionsOK, JudgedOK, Paying, OneRequest, LogVisit,
     Leave, history
<1>24. ASSUME NEW t \in Threads, Fail(t)
      PROVE  JudgedOK'
  BY <1>24 DEF TypeOK, PositionsOK, JudgedOK, Paying, OneRequest, Fail, Leave,
     rows, day, history
<1>25. ASSUME NewDay
      PROVE  JudgedOK'
  BY <1>25 DEF TypeOK, PositionsOK, JudgedOK, Paying, NewDay, history, request
<1>26. QED
  BY <1>1, <1>2, <1>3, <1>4, <1>5, <1>6, <1>7, <1>8, <1>9, <1>10, <1>11,
     <1>12, <1>13, <1>14, <1>15, <1>16, <1>17, <1>18, <1>19, <1>20, <1>21,
     <1>22, <1>23, <1>24, <1>25 DEF Next, Begin, Continue

(* Only an overlapped item is charged when its fee is not due.             *)
LEMMA FeeStep ==
    ASSUME TypeOK, PositionsOK, JudgedOK, FeeChargedOnce, Next
    PROVE  FeeChargedOnce'
<1>1. ASSUME NEW t \in Threads, NEW i \in Items, RegisterAndPay(t, i)
      PROVE  FeeChargedOnce'
  BY <1>1 DEF TypeOK, FeeChargedOnce, RegisterAndPay, Start, Touch, Claimed,
     rows, day, history
<1>2. ASSUME NEW t \in Threads, NEW i \in Items, BeginApproval(t, i)
      PROVE  FeeChargedOnce'
  BY <1>2 DEF TypeOK, FeeChargedOnce, BeginApproval, Start, Touch, Claimed,
     Approvable, rows, day, history
<1>3. ASSUME NEW i \in Items, RejectVehicle(i)
      PROVE  FeeChargedOnce'
  BY <1>3 DEF TypeOK, FeeChargedOnce, RejectVehicle, SetStatus, Touch,
     Claimed, day, request
<1>4. ASSUME NEW i \in Items, Suspend(i)
      PROVE  FeeChargedOnce'
  BY <1>4 DEF TypeOK, FeeChargedOnce, Suspend, SuspendVehicle,
     SuspendRegistration, SetStatus, Touch, Claimed, day, history, request
<1>5. ASSUME NEW t \in Threads, NEW i \in Items, BeginResubmit(t, i)
      PROVE  FeeChargedOnce'
  BY <1>5 DEF TypeOK, FeeChargedOnce, BeginResubmit, Start, Touch, Claimed,
     rows, day, history
<1>6. ASSUME NEW t \in Threads, NEW i \in Items, BeginPayment(t, i)
      PROVE  FeeChargedOnce'
  BY <1>6 DEF TypeOK, FeeChargedOnce, BeginPayment, Start, Touch, Claimed,
     Payable, rows, day, history
<1>7. ASSUME NEW t \in Threads, CommitCharge(t)
      PROVE  FeeChargedOnce'
  BY <1>7 DEF TypeOK, FeeChargedOnce, PositionsOK, JudgedOK, Paying,
     CommitCharge, ChargeWallet, SetStatus, SetPayment, ChargedStatus,
     PaidStatus, Leave, day
<1>8. ASSUME NEW t \in Threads, NEW i \in Items, BeginApprovePass(t, i)
      PROVE  FeeChargedOnce'
  BY <1>8 DEF TypeOK, FeeChargedOnce, BeginApprovePass, Start, Touch, Claimed,
     rows, day, history
<1>9. ASSUME NEW i \in Items, RejectPass(i)
      PROVE  FeeChargedOnce'
  BY <1>9 DEF TypeOK, FeeChargedOnce, RejectPass, SetStatus, Touch, Claimed,
     day, history, request
<1>10. ASSUME NEW t \in Threads, NEW i \in Items, BeginActivate(t, i)
      PROVE  FeeChargedOnce'
  BY <1>10 DEF TypeOK, FeeChargedOnce, BeginActivate, Start, Touch, Claimed,
     Activatable, rows, day, history
<1>11. ASSUME NEW t \in Threads, NEW i \in Items, BeginVerify(t, i)
      PROVE  FeeChargedOnce'
  BY <1>11 DEF TypeOK, FeeChargedOnce, BeginVerify, Start, Touch, Claimed,
     FoundExpired, rows, day, history
<1>12. ASSUME NEW t \in Threads, NEW i \in Items, BeginVisit(t, i)
      PROVE  FeeChargedOnce'
  BY <1>12 DEF TypeOK, FeeChargedOnce, BeginVisit, Start, Touch, Claimed,
     PlatesLeft, VisitsLeft, rows, day, history
<1>13. ASSUME \/ \E i \in Items : Register(i)
              \/ \E t \in Threads : CountActive(t)
              \/ \E t \in Threads : ApproveFree(t)
              \/ \E t \in Threads : CommitResubmit(t)
              \/ \E t \in Threads : ReadWallet(t)
              \/ \E t \in Threads : CommitRefusal(t)
              \/ \E t \in Threads : CommitApprovePass(t)
              \/ \E t \in Threads : CommitActivate(t)
              \/ \E i \in Items : PeriodEnds(i)
              \/ \E t \in Threads : MarkExpired(t)
              \/ \E t \in Threads : LogVisit(t)
              \/ \E t \in Threads : Fail(t)
              \/ NewDay
      PROVE  FeeChargedOnce'
  BY <1>13 DEF TypeOK, FeeChargedOnce, Register, CreateVehicle, CreatePass,
     RegisterBusiness, SetStatus, SetPayment, Claimed, day, history, request,
     CountActive, GoTo, rows, ApproveFree, Leave, CommitResubmit, ReadWallet,
     HasFunds, RecordsRefusal, CommitRefusal, RefuseVehicle, RefusePass,
     RefusedPayment, CommitApprovePass, CommitActivate, PeriodEnds,
     MarkExpired, LogVisit, Fail, NewDay
<1>14. QED
  BY <1>1, <1>2, <1>3, <1>4, <1>5, <1>6, <1>7, <1>8, <1>9, <1>10, <1>11,
     <1>12, <1>13 DEF Next, Begin, Continue

(* Only a charge makes an item paid.                                       *)
LEMMA PaidStep ==
    ASSUME TypeOK, PositionsOK, RowsOK, DueOK, JudgedOK, PaidIsCharged, Next
    PROVE  PaidIsCharged'
<1>1. ASSUME NEW i \in Items, Register(i)
      PROVE  PaidIsCharged'
  BY <1>1 DEF TypeOK, PaidIsCharged, RowsOK, Register, CreateVehicle,
     CreatePass, RegisterBusiness, SetStatus, SetPayment, Claimed, day,
     history, request
<1>2. ASSUME NEW t \in Threads, CommitRefusal(t)
      PROVE  PaidIsCharged'
  BY <1>2 DEF TypeOK, PaidIsCharged, PositionsOK, RowsOK, JudgedOK, Paying,
     CommitRefusal, RefuseVehicle, RefusePass, SetStatus, SetPayment,
     RefusedPayment, Leave, day, history
<1>3. ASSUME NEW t \in Threads, CommitCharge(t)
      PROVE  PaidIsCharged'
  BY <1>3 DEF TypeOK, PaidIsCharged, PositionsOK, CommitCharge, ChargeWallet,
     SetStatus, SetPayment, ChargedStatus, PaidStatus, Leave, day
<1>4. ASSUME NEW t \in Threads, MarkExpired(t)
      PROVE  PaidIsCharged'
  BY <1>4 DEF TypeOK, PaidIsCharged, PositionsOK, MarkExpired, SetStatus,
     SetPayment, Leave, day
<1>5. ASSUME \/ \E t \in Threads, i \in Items : RegisterAndPay(t, i)
             \/ \E t \in Threads, i \in Items : BeginApproval(t, i)
             \/ \E t \in Threads : CountActive(t)
             \/ \E t \in Threads : ApproveFree(t)
             \/ \E i \in Items : RejectVehicle(i)
             \/ \E i \in Items : Suspend(i)
             \/ \E t \in Threads, i \in Items : BeginResubmit(t, i)
             \/ \E t \in Threads : CommitResubmit(t)
             \/ \E t \in Threads, i \in Items : BeginPayment(t, i)
             \/ \E t \in Threads : ReadWallet(t)
             \/ \E t \in Threads, i \in Items : BeginApprovePass(t, i)
             \/ \E t \in Threads : CommitApprovePass(t)
             \/ \E i \in Items : RejectPass(i)
             \/ \E t \in Threads, i \in Items : BeginActivate(t, i)
             \/ \E t \in Threads : CommitActivate(t)
             \/ \E i \in Items : PeriodEnds(i)
             \/ \E t \in Threads, i \in Items : BeginVerify(t, i)
             \/ \E t \in Threads, i \in Items : BeginVisit(t, i)
             \/ \E t \in Threads : LogVisit(t)
             \/ \E t \in Threads : Fail(t)
             \/ NewDay
      PROVE  PaidIsCharged'
  BY <1>5 DEF TypeOK, PaidIsCharged, RegisterAndPay, Start, Touch, Claimed,
     rows, day, history, BeginApproval, Approvable, CountActive, GoTo,
     ApproveFree, SetStatus, Leave, RejectVehicle, request, Suspend,
     SuspendVehicle, SuspendRegistration, BeginResubmit, CommitResubmit,
     BeginPayment, Payable, ReadWallet, HasFunds, RecordsRefusal,
     BeginApprovePass, CommitApprovePass, RejectPass, BeginActivate,
     Activatable, CommitActivate, PeriodEnds, BeginVerify, FoundExpired,
     BeginVisit, PlatesLeft, VisitsLeft, LogVisit, Fail, NewDay
<1>6. QED
  BY <1>1, <1>2, <1>3, <1>4, <1>5 DEF Next, Begin, Continue

(* A business is shown as expired only when it is.                         *)
LEMMA PeriodStep ==
    ASSUME TypeOK, PositionsOK, RowsOK, JudgedOK, PaidPeriodIsServed, Next
    PROVE  PaidPeriodIsServed'
<1>1. ASSUME NEW i \in Items, Register(i)
      PROVE  PaidPeriodIsServed'
  BY <1>1 DEF TypeOK, PaidPeriodIsServed, Register, CreateVehicle, CreatePass,
     RegisterBusiness, SetStatus, SetPayment, Claimed, day, history, request
<1>2. ASSUME NEW t \in Threads, ApproveFree(t)
      PROVE  PaidPeriodIsServed'
  BY <1>2 DEF TypeOK, PaidPeriodIsServed, PositionsOK, RowsOK, JudgedOK,
     ApproveFree, SetStatus, Leave, day
<1>3. ASSUME NEW i \in Items, RejectVehicle(i)
      PROVE  PaidPeriodIsServed'
  BY <1>3 DEF TypeOK, PaidPeriodIsServed, RejectVehicle, SetStatus, Touch,
     Claimed, day, request
<1>4. ASSUME NEW i \in Items, Suspend(i)
      PROVE  PaidPeriodIsServed'
  BY <1>4 DEF TypeOK, PaidPeriodIsServed, Suspend, SuspendVehicle,
     SuspendRegistration, SetStatus, Touch, Claimed, day, history, request
<1>5. ASSUME NEW t \in Threads, CommitResubmit(t)
      PROVE  PaidPeriodIsServed'
  BY <1>5 DEF TypeOK, PaidPeriodIsServed, PositionsOK, RowsOK, JudgedOK,
     CommitResubmit, SetStatus, Leave, day, history
<1>6. ASSUME NEW t \in Threads, CommitRefusal(t)
      PROVE  PaidPeriodIsServed'
  BY <1>6 DEF TypeOK, PaidPeriodIsServed, PositionsOK, RowsOK, JudgedOK,
     CommitRefusal, RefuseVehicle, RefusePass, SetStatus, SetPayment,
     RefusedPayment, Leave, day, history
<1>7. ASSUME NEW t \in Threads, CommitCharge(t)
      PROVE  PaidPeriodIsServed'
  BY <1>7 DEF TypeOK, PaidPeriodIsServed, PositionsOK, RowsOK, JudgedOK,
     CommitCharge, ChargeWallet, SetStatus, SetPayment, ChargedStatus,
     PaidStatus, Leave, day
<1>8. ASSUME NEW t \in Threads, CommitApprovePass(t)
      PROVE  PaidPeriodIsServed'
  BY <1>8 DEF TypeOK, PaidPeriodIsServed, PositionsOK, RowsOK, JudgedOK,
     CommitApprovePass, SetStatus, Leave, day, history
<1>9. ASSUME NEW i \in Items, RejectPass(i)
      PROVE  PaidPeriodIsServed'
  BY <1>9 DEF TypeOK, PaidPeriodIsServed, RejectPass, SetStatus, Touch,
     Claimed, day, history, request
<1>10. ASSUME NEW t \in Threads, CommitActivate(t)
      PROVE  PaidPeriodIsServed'
  BY <1>10 DEF TypeOK, PaidPeriodIsServed, PositionsOK, RowsOK, JudgedOK,
     CommitActivate, SetStatus, Leave, day, history
<1>11. ASSUME NEW i \in Items, PeriodEnds(i)
      PROVE  PaidPeriodIsServed'
  BY <1>11 DEF TypeOK, PaidPeriodIsServed, PeriodEnds, day, history, request
<1>12. ASSUME NEW t \in Threads, MarkExpired(t)
      PROVE  PaidPeriodIsServed'
  BY <1>12 DEF TypeOK, PaidPeriodIsServed, PositionsOK, RowsOK, JudgedOK,
     MarkExpired, SetStatus, SetPayment, Leave, day
<1>13. ASSUME \/ \E t \in Threads, i \in Items : RegisterAndPay(t, i)
              \/ \E t \in Threads, i \in Items : BeginApproval(t, i)
              \/ \E t \in Threads : CountActive(t)
              \/ \E t \in Threads, i \in Items : BeginResubmit(t, i)
              \/ \E t \in Threads, i \in Items : BeginPayment(t, i)
              \/ \E t \in Threads : ReadWallet(t)
              \/ \E t \in Threads, i \in Items : BeginApprovePass(t, i)
              \/ \E t \in Threads, i \in Items : BeginActivate(t, i)
              \/ \E t \in Threads, i \in Items : BeginVerify(t, i)
              \/ \E t \in Threads, i \in Items : BeginVisit(t, i)
              \/ \E t \in Threads : LogVisit(t)
              \/ \E t \in Threads : Fail(t)
              \/ NewDay
      PROVE  PaidPeriodIsServed'
  BY <1>13 DEF TypeOK, PaidPeriodIsServed, RegisterAndPay, Start, Touch,
     Claimed, rows, day, history, BeginApproval, Approvable, CountActive,
     GoTo, BeginResubmit, BeginPayment, Payable, ReadWallet, HasFunds,
     RecordsRefusal, Leave, BeginApprovePass, BeginActivate, Activatable,
     BeginVerify, FoundExpired, BeginVisit, PlatesLeft, VisitsLeft, LogVisit,
     Fail, NewDay, request
<1>14. QED
  BY <1>1, <1>2, <1>3, <1>4, <1>5, <1>6, <1>7, <1>8, <1>9, <1>10, <1>11,
     <1>12, <1>13 DEF Next, Begin, Continue

-----------------------------------------------------------------------------
(* Limits: counting what is in flight. *)

(* Any set of requests is finite, and no larger than all of them.          *)
LEMMA Requests ==
    ASSUME NEW S \in SUBSET Threads
    PROVE  /\ IsFiniteSet(S)
           /\ Cardinality(S) \in Nat
           /\ Cardinality(S) <= Cardinality(Threads)
           /\ Cardinality(Threads) \in Nat \ {0}
  BY ThreadsAssumption, FS_Subset, FS_CardinalityType, FS_EmptySet

(* Two finite sets have together at most as many elements as both.         *)
LEMMA UnionBounded ==
    ASSUME NEW S, NEW T, IsFiniteSet(S), IsFiniteSet(T)
    PROVE  Cardinality(S \cup T) <= Cardinality(S) + Cardinality(T)
<1>1. /\ Cardinality(S) \in Nat /\ Cardinality(T) \in Nat
      /\ IsFiniteSet(S \cap T)
  BY FS_CardinalityType, FS_Subset
<1>2. Cardinality(S \cap T) \in Nat
  BY <1>1, FS_CardinalityType
<1>3. Cardinality(S \cup T) =
        Cardinality(S) + Cardinality(T) - Cardinality(S \cap T)
  BY FS_Union
<1>4. QED
  BY <1>1, <1>2, <1>3

(* A function has no more values than arguments.                           *)
LEMMA ImageBounded ==
    ASSUME NEW S, IsFiniteSet(S), NEW f
    PROVE  Cardinality({f[x] : x \in S}) <= Cardinality(S)
<1> DEFINE T == {f[x] : x \in S}
           g == [x \in S |-> f[x]]
<1>1. g \in Surjection(S, T)
  BY DEF Surjection
<1>2. QED
  BY <1>1, FS_Surjection

(* Approving more and free vehicles at once is one more free one at most.  *)
FreeOrSoon == FreeNow \cup {item[t] : t \in Freeing}

LEMMA VehiclesStep ==
    ASSUME TypeOK, PositionsOK, RowsOK, RowsOK', TypeOK', PositionsOK',
           FreeVehiclesBounded, Next
    PROVE  FreeVehiclesBounded'
<1>1. ASSUME NEW t \in Threads, CountActive(t), ~ShouldCharge
      PROVE  FreeVehiclesBounded'
  <2>1. FreeNow' = FreeNow /\ FreeNow \subseteq ActiveVehicles
    BY <1>1 DEF CountActive, rows, history, FreeNow, ActiveVehicles, RowsOK,
       TypeOK
  <2>2. IsFiniteSet(ActiveVehicles)
    BY FS_Subset DEF ActiveVehicles
  <2>3. Cardinality(ActiveVehicles) \in Nat
    BY <2>2, FS_CardinalityType
  <2>4. Cardinality(FreeNow') <= FreeLimit
    BY <1>1, <2>1, <2>2, <2>3, FS_Subset, FS_CardinalityType DEF ShouldCharge
  <2>5. /\ IsFiniteSet(Freeing')
        /\ Cardinality(Freeing') <= Cardinality(Threads)
        /\ Cardinality(Freeing') \in Nat /\ Cardinality(Threads) \in Nat
    <3>1. Freeing' \in SUBSET Threads
      BY DEF Freeing
    <3>2. QED
      BY <3>1, Requests
  <2>6. Cardinality({item'[u] : u \in Freeing'}) <= Cardinality(Freeing')
    BY <2>5, ImageBounded
  <2>7. /\ IsFiniteSet(FreeNow')
        /\ IsFiniteSet({item'[u] : u \in Freeing'})
    <3>1. /\ FreeNow' \in SUBSET Items
          /\ {item'[u] : u \in Freeing'} \in SUBSET Items
      BY DEF TypeOK, PositionsOK, FreeNow, Freeing
    <3>2. QED
      BY <3>1, FS_Subset
  <2>8. /\ Cardinality(FreeNow') \in Nat
        /\ Cardinality({item'[u] : u \in Freeing'}) \in Nat
        /\ Cardinality(FreeNow' \cup {item'[u] : u \in Freeing'})
             <= Cardinality(FreeNow') + Cardinality({item'[u] : u \in Freeing'})
        /\ Cardinality(FreeNow' \cup {item'[u] : u \in Freeing'}) \in Nat
    BY <2>7, UnionBounded, FS_CardinalityType, FS_Union
  <2>9. Cardinality(FreeNow' \cup {item'[u] : u \in Freeing'})
          <= FreeLimit + Cardinality(Threads)
    BY <2>4, <2>5, <2>6, <2>8
  <2>10. QED
    BY <2>9 DEF FreeVehiclesBounded
<1>2. ASSUME FreeOrSoon' \subseteq FreeOrSoon
      PROVE  FreeVehiclesBounded'
  <2>1. FreeOrSoon \in SUBSET Items
    BY DEF TypeOK, PositionsOK, FreeOrSoon, FreeNow, Freeing
  <2>2. /\ IsFiniteSet(FreeOrSoon) /\ IsFiniteSet(FreeOrSoon')
        /\ Cardinality(FreeOrSoon') <= Cardinality(FreeOrSoon)
    BY <1>2, <2>1, FS_Subset
  <2>3. /\ Cardinality(FreeOrSoon) \in Nat /\ Cardinality(FreeOrSoon') \in Nat
        /\ Cardinality(Threads) \in Nat
    BY <2>2, ThreadsAssumption, FS_CardinalityType
  <2>4. Cardinality(FreeOrSoon') <= FreeLimit + Cardinality(Threads)
    BY <2>2, <2>3 DEF FreeVehiclesBounded, FreeOrSoon
  <2>5. QED
    BY <2>4 DEF FreeVehiclesBounded, FreeOrSoon
<1>3. ASSUME NEW t \in Threads, CountActive(t), ShouldCharge
      PROVE  FreeOrSoon' \subseteq FreeOrSoon
  BY <1>3 DEF TypeOK, CountActive, GoTo, rows, history, FreeOrSoon, FreeNow,
     Freeing
<1>4. ASSUME \/ \E i \in Items : Register(i)
             \/ \E t \in Threads, i \in Items : RegisterAndPay(t, i)
             \/ \E t \in Threads, i \in Items : BeginApproval(t, i)
             \/ \E t \in Threads : ApproveFree(t)
             \/ \E i \in Items : RejectVehicle(i)
             \/ \E i \in Items : Suspend(i)
             \/ \E t \in Threads, i \in Items : BeginResubmit(t, i)
             \/ \E t \in Threads : CommitResubmit(t)
             \/ \E t \in Threads, i \in Items : BeginPayment(t, i)
             \/ \E t \in Threads : ReadWallet(t)
             \/ \E t \in Threads : CommitRefusal(t)
             \/ \E t \in Threads : CommitCharge(t)
             \/ \E t \in Threads, i \in Items : BeginApprovePass(t, i)
             \/ \E t \in Threads : CommitApprovePass(t)
             \/ \E i \in Items : RejectPass(i)
             \/ \E t \in Threads, i \in Items : BeginActivate(t, i)
             \/ \E t \in Threads : CommitActivate(t)
             \/ \E i \in Items : PeriodEnds(i)
             \/ \E t \in Threads, i \in Items : BeginVerify(t, i)
             \/ \E t \in Threads : MarkExpired(t)
             \/ \E t \in Threads, i \in Items : BeginVisit(t, i)
             \/ \E t \in Threads : LogVisit(t)
             \/ \E t \in Threads : Fail(t)
             \/ NewDay
      PROVE  FreeOrSoon' \subseteq FreeOrSoon
  BY <1>4 DEF TypeOK, PositionsOK, RowsOK, FreeOrSoon, FreeNow, Freeing,
     Register, CreateVehicle, CreatePass, RegisterBusiness, SetStatus,
     SetPayment, Claimed, day, history, request, RegisterAndPay, Start, Touch,
     rows, BeginApproval, Approvable, ApproveFree, Leave, RejectVehicle,
     Suspend, SuspendVehicle, SuspendRegistration, BeginResubmit,
     CommitResubmit, BeginPayment, Payable, ReadWallet, HasFunds,
     RecordsRefusal, GoTo, CommitRefusal, RefuseVehicle, RefusePass,
     RefusedPayment, CommitCharge, ChargeWallet, ChargedStatus, PaidStatus,
     BeginApprovePass, CommitApprovePass, RejectPass, BeginActivate,
     Activatable, CommitActivate, PeriodEnds, BeginVerify, FoundExpired,
     MarkExpired, BeginVisit, PlatesLeft, VisitsLeft, LogVisit, Fail, NewDay
<1>5. QED
  BY <1>1, <1>2, <1>3, <1>4 DEF Next, Begin, Continue

(* A smaller number of fees costs less.                                    *)
LEMMA FeesGrow ==
    ASSUME NEW m \in Nat, NEW n \in Nat, m <= n
    PROVE  m * Fee <= n * Fee
  OBVIOUS

(* The wallet pays for what is in flight when it was last found to suffice.  *)
LEMMA OverdraftStep ==
    ASSUME TypeOK, OverdraftBounded, Next
    PROVE  OverdraftBounded'
<1> DEFINE n == Cardinality(Threads)
           c == Cardinality(Charging)
           d == Cardinality(Charging')
<1>1. /\ n \in Nat \ {0} /\ c \in Nat /\ d \in Nat /\ c <= n /\ d <= n
      /\ IsFiniteSet(Charging)
  <2>1. Charging \in SUBSET Threads /\ Charging' \in SUBSET Threads
    BY DEF Charging
  <2>2. QED
    BY <2>1, Requests
<1>2. balance \in Int /\ Fee \in Nat /\ balance - c * Fee >= -(n - 1) * Fee
  BY DEF TypeOK, OverdraftBounded
<1>3. ASSUME NEW t \in Threads, ReadWallet(t), HasFunds
      PROVE  OverdraftBounded'
  <2>1. balance' = balance /\ balance >= Fee
    BY <1>3 DEF ReadWallet, HasFunds
  <2>2. d * Fee <= n * Fee
    BY <1>1, FeesGrow
  <2>3. (n - 1) * Fee = n * Fee - Fee
    BY <1>1
  <2>4. /\ d * Fee \in Nat /\ n * Fee \in Nat
        /\ -(n - 1) * Fee = -((n - 1) * Fee)
    BY <1>1
  <2>5. QED
    BY <1>2, <2>1, <2>2, <2>3, <2>4 DEF OverdraftBounded
<1>4. ASSUME NEW t \in Threads, CommitCharge(t)
      PROVE  OverdraftBounded'
  <2>1. balance' = balance - Fee
    BY <1>4 DEF CommitCharge, ChargeWallet
  <2>2. Charging' = Charging \ {t} /\ t \in Charging
    BY <1>4 DEF CommitCharge, ChargeWallet, Leave, Charging, TypeOK
  <2>3. d = c - 1
    BY <1>1, <2>2, FS_RemoveElement
  <2>4. balance' - d * Fee = balance - c * Fee
    <3>1. (c - 1) * Fee = c * Fee - Fee
      BY <1>1
    <3>2. c * Fee \in Int
      BY <1>1
    <3>3. QED
      BY <1>2, <2>1, <2>3, <3>1, <3>2
  <2>5. QED
    BY <1>2, <2>4 DEF OverdraftBounded
<1>5. ASSUME balance' = balance, Charging' \subseteq Charging
      PROVE  OverdraftBounded'
  <2>1. d <= c
    BY <1>1, <1>5, FS_Subset
  <2>2. d * Fee <= c * Fee
    BY <1>1, <2>1, FeesGrow
  <2>3. d * Fee \in Nat /\ c * Fee \in Nat /\ -(n - 1) * Fee \in Int
    BY <1>1
  <2>4. QED
    BY <1>2, <1>5, <2>2, <2>3 DEF OverdraftBounded
<1>6. ASSUME NEW t \in Threads, ReadWallet(t), ~HasFunds
      PROVE  balance' = balance /\ Charging' \subseteq Charging
  BY <1>6 DEF TypeOK, ReadWallet, GoTo, Leave, Charging
<1>7. ASSUME \/ \E i \in Items : Register(i)
             \/ \E t \in Threads, i \in Items : RegisterAndPay(t, i)
             \/ \E t \in Threads, i \in Items : BeginApproval(t, i)
             \/ \E t \in Threads : CountActive(t)
             \/ \E t \in Threads : ApproveFree(t)
             \/ \E i \in Items : RejectVehicle(i)
             \/ \E i \in Items : Suspend(i)
             \/ \E t \in Threads, i \in Items : BeginResubmit(t, i)
             \/ \E t \in Threads : CommitResubmit(t)
             \/ \E t \in Threads, i \in Items : BeginPayment(t, i)
             \/ \E t \in Threads : CommitRefusal(t)
             \/ \E t \in Threads, i \in Items : BeginApprovePass(t, i)
             \/ \E t \in Threads : CommitApprovePass(t)
             \/ \E i \in Items : RejectPass(i)
             \/ \E t \in Threads, i \in Items : BeginActivate(t, i)
             \/ \E t \in Threads : CommitActivate(t)
             \/ \E i \in Items : PeriodEnds(i)
             \/ \E t \in Threads, i \in Items : BeginVerify(t, i)
             \/ \E t \in Threads : MarkExpired(t)
             \/ \E t \in Threads, i \in Items : BeginVisit(t, i)
             \/ \E t \in Threads : LogVisit(t)
             \/ \E t \in Threads : Fail(t)
             \/ NewDay
      PROVE  balance' = balance /\ Charging' \subseteq Charging
  BY <1>7 DEF TypeOK, Charging, Register, CreateVehicle, CreatePass,
     RegisterBusiness, SetStatus, SetPayment, Claimed, day, history, request,
     RegisterAndPay, Start, Touch, rows, BeginApproval, Approvable,
     CountActive, GoTo, ApproveFree, Leave, RejectVehicle, Suspend,
     SuspendVehicle, SuspendRegistration, BeginResubmit, CommitResubmit,
     BeginPayment, Payable, CommitRefusal, RefuseVehicle, RefusePass,
     RefusedPayment, BeginApprovePass, CommitApprovePass, RejectPass,
     BeginActivate, Activatable, CommitActivate, PeriodEnds, BeginVerify,
     FoundExpired, MarkExpired, BeginVisit, PlatesLeft, VisitsLeft, LogVisit,
     Fail, NewDay
<1>8. QED
  BY <1>3, <1>4, <1>5, <1>6, <1>7 DEF Next, Begin, Continue

(* One more visit is noted by each guard who found the day not yet full.   *)
VisitsBoundedAt(count, position, i) ==
    count[i] + Cardinality(At(position, i))
        <= MaxVisits + Cardinality(Threads) - 1

LEMMA AtFinite ==
    ASSUME NEW position, NEW i
    PROVE  /\ IsFiniteSet(At(position, i))
           /\ Cardinality(At(position, i)) \in Nat
           /\ Cardinality(At(position, i)) <= Cardinality(Threads)
           /\ Cardinality(Threads) \in Nat \ {0}
<1>1. At(position, i) \in SUBSET Threads
  BY DEF At
<1>2. QED
  BY <1>1, Requests

(* What is noted and about to be noted of a day stays within the limit when *)
(* a guard notes a visit, when one leaves, and when a day begins.          *)
LEMMA VisitNoted ==
    ASSUME NEW position \in {"plate", "other"}, NEW i \in Items,
           NEW count \in [Items -> Nat], NEW t \in Threads,
           VisitsBoundedAt(count, position, i),
           t \in At(position, i),
           At(position, i)' = At(position, i) \ {t}
    PROVE  count[i] + 1 + Cardinality(At(position, i)')
               <= MaxVisits + Cardinality(Threads) - 1
<1>1. Cardinality(At(position, i)') = Cardinality(At(position, i)) - 1
  BY AtFinite, FS_RemoveElement
<1>2. QED
  BY <1>1, AtFinite DEF VisitsBoundedAt

LEMMA VisitsShrink ==
    ASSUME NEW position \in {"plate", "other"}, NEW i \in Items,
           NEW count \in [Items -> Nat], VisitsBoundedAt(count, position, i),
           At(position, i)' \subseteq At(position, i)
    PROVE  count[i] + Cardinality(At(position, i)')
               <= MaxVisits + Cardinality(Threads) - 1
<1>1. /\ IsFiniteSet(At(position, i)')
      /\ Cardinality(At(position, i)') <= Cardinality(At(position, i))
  BY AtFinite, FS_Subset
<1>2. Cardinality(At(position, i)') \in Nat
  BY <1>1, FS_CardinalityType
<1>3. QED
  BY <1>1, <1>2, AtFinite DEF VisitsBoundedAt

(* A step that adds nothing to what is noted or about to be.               *)
LEMMA VisitsQuiet ==
    ASSUME TypeOK, VisitsBounded, UNCHANGED <<plates, others>>,
           \A i \in Items : /\ At("plate", i)' \subseteq At("plate", i)
                            /\ At("other", i)' \subseteq At("other", i)
    PROVE  VisitsBounded'
<1>1. ASSUME NEW i \in Items
      PROVE  /\ plates[i] + Cardinality(At("plate", i)')
                    <= MaxVisits + Cardinality(Threads) - 1
             /\ others[i] + Cardinality(At("other", i)')
                    <= MaxVisits + Cardinality(Threads) - 1
  <2>1. /\ VisitsBoundedAt(plates, "plate", i)
        /\ VisitsBoundedAt(others, "other", i)
        /\ plates \in [Items -> Nat] /\ others \in [Items -> Nat]
    BY DEF VisitsBounded, VisitsBoundedAt, TypeOK
  <2>2. QED
    BY <2>1, VisitsShrink
<1>2. QED
  BY <1>1 DEF VisitsBounded

(* A guard who found room for one more.                                    *)
LEMMA RoomLeft ==
    ASSUME NEW position, NEW i, NEW n \in Nat, n < MaxVisits
    PROVE  n + Cardinality(At(position, i)')
               <= MaxVisits + Cardinality(Threads) - 1
<1>1. At(position, i)' \in SUBSET Threads
  BY DEF At
<1>2. /\ Cardinality(At(position, i)') \in Nat
      /\ Cardinality(At(position, i)') <= Cardinality(Threads)
      /\ Cardinality(Threads) \in Nat
  BY <1>1, Requests
<1>3. QED
  BY <1>2

LEMMA VisitsStep ==
    ASSUME TypeOK, PositionsOK, VisitsBounded, Next, TypeOK', PositionsOK'
    PROVE  VisitsBounded'
<1>1. ASSUME NEW t \in Threads, NEW k \in Items, BeginVisit(t, k)
      PROVE  VisitsBounded'
  <2>1. UNCHANGED <<plates, others>>
    BY <1>1 DEF BeginVisit, rows, day
  <2>2. plates \in [Items -> Nat] /\ others \in [Items -> Nat]
    BY DEF TypeOK
  <2>3. ASSUME NEW i \in Items
        PROVE  plates[i] + Cardinality(At("plate", i)')
                   <= MaxVisits + Cardinality(Threads) - 1
    <3>1. CASE PlatesLeft(i)
      BY <2>2, <3>1, RoomLeft DEF PlatesLeft
    <3>2. CASE ~PlatesLeft(i)
      <4>1. At("plate", i)' \subseteq At("plate", i)
        BY <1>1, <3>2, <2>2 DEF BeginVisit, Start, At, TypeOK, PlatesLeft,
           VisitsLeft
      <4>2. VisitsBoundedAt(plates, "plate", i)
        BY DEF VisitsBounded, VisitsBoundedAt
      <4>3. QED
        BY <4>1, <4>2, <2>2, VisitsShrink
    <3>3. QED
      BY <3>1, <3>2
  <2>4. ASSUME NEW i \in Items
        PROVE  others[i] + Cardinality(At("other", i)')
                   <= MaxVisits + Cardinality(Threads) - 1
    <3>1. CASE VisitsLeft(i)
      <4>1. others[i] < MaxVisits
        BY <2>2, <3>1 DEF VisitsLeft
      <4>2. QED
        BY <2>2, <4>1, RoomLeft
    <3>2. CASE ~VisitsLeft(i)
      <4>1. At("other", i)' \subseteq At("other", i)
        BY <1>1, <3>2, <2>2 DEF BeginVisit, Start, At, TypeOK, PlatesLeft,
           VisitsLeft
      <4>2. VisitsBoundedAt(others, "other", i)
        BY DEF VisitsBounded, VisitsBoundedAt
      <4>3. QED
        BY <4>1, <4>2, <2>2, VisitsShrink
    <3>3. QED
      BY <3>1, <3>2
  <2>5. QED
    BY <2>1, <2>3, <2>4 DEF VisitsBounded
<1>2. ASSUME NEW t \in Threads, LogVisit(t)
      PROVE  VisitsBounded'
  <2>1. /\ plates \in [Items -> Nat] /\ others \in [Items -> Nat]
        /\ plates' \in [Items -> Nat] /\ others' \in [Items -> Nat]
        /\ item[t] \in Items
    BY <1>2 DEF TypeOK, PositionsOK, LogVisit
  <2>2. ASSUME NEW i \in Items
        PROVE  /\ At("plate", i)' = At("plate", i) \ {t}
               /\ At("other", i)' = At("other", i) \ {t}
    BY <1>2 DEF LogVisit, Leave, At, TypeOK
  <2>3. ASSUME NEW i \in Items
        PROVE  plates'[i] + Cardinality(At("plate", i)')
                   <= MaxVisits + Cardinality(Threads) - 1
    <3>1. VisitsBoundedAt(plates, "plate", i)
      BY DEF VisitsBounded, VisitsBoundedAt
    <3>2. CASE pc[t] = "plate" /\ item[t] = i
      <4>1. t \in At("plate", i) /\ plates'[i] = plates[i] + 1
        BY <1>2, <2>1, <3>2 DEF LogVisit, At
      <4>2. QED
        BY <2>1, <2>2, <3>1, <4>1, VisitNoted
    <3>3. CASE ~(pc[t] = "plate" /\ item[t] = i)
      <4>1. plates'[i] = plates[i]
        BY <1>2, <2>1, <3>3 DEF LogVisit
      <4>2. QED
        BY <2>1, <2>2, <3>1, <4>1, VisitsShrink
    <3>4. QED
      BY <3>2, <3>3
  <2>4. ASSUME NEW i \in Items
        PROVE  others'[i] + Cardinality(At("other", i)')
                   <= MaxVisits + Cardinality(Threads) - 1
    <3>1. VisitsBoundedAt(others, "other", i)
      BY DEF VisitsBounded, VisitsBoundedAt
    <3>2. CASE pc[t] = "other" /\ item[t] = i
      <4>1. t \in At("other", i) /\ others'[i] = others[i] + 1
        BY <1>2, <2>1, <3>2 DEF LogVisit, At
      <4>2. QED
        BY <2>1, <2>2, <3>1, <4>1, VisitNoted
    <3>3. CASE ~(pc[t] = "other" /\ item[t] = i)
      <4>1. others'[i] = others[i]
        BY <1>2, <2>1, <3>3 DEF LogVisit
      <4>2. QED
        BY <2>1, <2>2, <3>1, <4>1, VisitsShrink
    <3>4. QED
      BY <3>2, <3>3
  <2>5. QED
    BY <2>3, <2>4 DEF VisitsBounded
<1>3. CASE NewDay
  <2>1. /\ \A i \in Items : plates'[i] = 0 /\ others'[i] = 0
        /\ UNCHANGED <<pc, item>>
    BY <1>3 DEF NewDay, request
  <2>2. ASSUME NEW i \in Items, NEW position \in {"plate", "other"}
        PROVE  0 + Cardinality(At(position, i)')
                   <= MaxVisits + Cardinality(Threads) - 1
    <3>1. CASE MaxVisits > 0
      BY <3>1, RoomLeft
    <3>2. CASE ~(MaxVisits > 0)
      <4>1. At(position, i)' = {}
        BY <3>2 DEF At, PositionsOK
      <4>2. QED
        BY <4>1, AtFinite, FS_EmptySet
    <3>3. QED
      BY <3>1, <3>2
  <2>3. QED
    BY <2>1, <2>2 DEF VisitsBounded
<1>4. ASSUME \/ \E i \in Items : Register(i)
             \/ \E t \in Threads, i \in Items : RegisterAndPay(t, i)
             \/ \E t \in Threads, i \in Items : BeginApproval(t, i)
             \/ \E t \in Threads : CountActive(t)
             \/ \E t \in Threads : ApproveFree(t)
             \/ \E i \in Items : RejectVehicle(i)
             \/ \E i \in Items : Suspend(i)
             \/ \E t \in Threads, i \in Items : BeginResubmit(t, i)
             \/ \E t \in Threads : CommitResubmit(t)
             \/ \E t \in Threads, i \in Items : BeginPayment(t, i)
             \/ \E t \in Threads : ReadWallet(t)
             \/ \E t \in Threads : CommitRefusal(t)
             \/ \E t \in Threads : CommitCharge(t)
             \/ \E t \in Threads, i \in Items : BeginApprovePass(t, i)
             \/ \E t \in Threads : CommitApprovePass(t)
             \/ \E i \in Items : RejectPass(i)
             \/ \E t \in Threads, i \in Items : BeginActivate(t, i)
             \/ \E t \in Threads : CommitActivate(t)
             \/ \E i \in Items : PeriodEnds(i)
             \/ \E t \in Threads, i \in Items : BeginVerify(t, i)
             \/ \E t \in Threads : MarkExpired(t)
             \/ \E t \in Threads : Fail(t)
      PROVE  /\ UNCHANGED <<plates, others>>
             /\ \A k \in Items : /\ At("plate", k)' \subseteq At("plate", k)
                               /\ At("other", k)' \subseteq At("other", k)
  BY <1>4 DEF TypeOK, At, Register, CreateVehicle, CreatePass,
     RegisterBusiness, SetStatus, SetPayment, Claimed, day, history, request,
     RegisterAndPay, Start, Touch, rows, BeginApproval, Approvable,
     CountActive, GoTo, ApproveFree, Leave, RejectVehicle, Suspend,
     SuspendVehicle, SuspendRegistration, BeginResubmit, CommitResubmit,
     BeginPayment, Payable, ReadWallet, HasFunds, RecordsRefusal,
     CommitRefusal, RefuseVehicle, RefusePass, RefusedPayment, CommitCharge,
     ChargeWallet, ChargedStatus, PaidStatus, BeginApprovePass,
     CommitApprovePass, RejectPass, BeginActivate, Activatable,
     CommitActivate, PeriodEnds, BeginVerify, FoundExpired, MarkExpired, Fail
<1>5. QED
  BY <1>1, <1>2, <1>3, <1>4, VisitsQuiet DEF Next, Begin, Continue

-----------------------------------------------------------------------------
(* What an administrator decided. *)

DecisionKept == \A i \in Items \ overlapped' :
    /\ kind[i] = "business" /\ status[i] = "SUSPENDED" /\ status'[i] # "SUSPENDED"
          => payment[i] = "PAID" /\ balance' = balance
    /\ kind[i] = "vehicle" /\ status[i] = "SUSPENDED"
          => status'[i] \in {"SUSPENDED", "REJECTED"}
    /\ kind[i] = "pass" /\ status[i] = "REJECTED" => status'[i] = "REJECTED"

(* No step of a request undoes what was decided while it did not run.      *)
LEMMA DecisionStep ==
    ASSUME TypeOK, PositionsOK, RowsOK, JudgedOK, Next
    PROVE  DecisionKept
<1>1. ASSUME NEW i \in Items, Register(i)
      PROVE  DecisionKept
  BY <1>1 DEF TypeOK, DecisionKept, Register, CreateVehicle, CreatePass,
     RegisterBusiness, SetStatus, SetPayment, Claimed, day, history, request
<1>2. ASSUME NEW t \in Threads, ApproveFree(t)
      PROVE  DecisionKept
  BY <1>2 DEF TypeOK, DecisionKept, PositionsOK, RowsOK, JudgedOK, Paying,
     ApproveFree, SetStatus, Leave, day
<1>3. ASSUME NEW i \in Items, RejectVehicle(i)
      PROVE  DecisionKept
  BY <1>3 DEF TypeOK, DecisionKept, RejectVehicle, SetStatus, Touch, Claimed,
     day, request
<1>4. ASSUME NEW i \in Items, Suspend(i)
      PROVE  DecisionKept
  BY <1>4 DEF TypeOK, DecisionKept, Suspend, SuspendVehicle,
     SuspendRegistration, SetStatus, Touch, Claimed, day, history, request
<1>5. ASSUME NEW t \in Threads, CommitResubmit(t)
      PROVE  DecisionKept
  BY <1>5 DEF TypeOK, DecisionKept, PositionsOK, RowsOK, JudgedOK, Paying,
     CommitResubmit, SetStatus, Leave, day, history
<1>6. ASSUME NEW t \in Threads, CommitRefusal(t)
      PROVE  DecisionKept
  BY <1>6 DEF TypeOK, DecisionKept, PositionsOK, RowsOK, JudgedOK, Paying,
     CommitRefusal, RefuseVehicle, RefusePass, SetStatus, SetPayment,
     RefusedPayment, Leave, day, history
<1>7. ASSUME NEW t \in Threads, CommitCharge(t)
      PROVE  DecisionKept
  BY <1>7 DEF TypeOK, DecisionKept, PositionsOK, RowsOK, JudgedOK, Paying,
     CommitCharge, ChargeWallet, SetStatus, SetPayment, ChargedStatus,
     PaidStatus, Leave, day
<1>8. ASSUME NEW t \in Threads, CommitApprovePass(t)
      PROVE  DecisionKept
  BY <1>8 DEF TypeOK, DecisionKept, PositionsOK, RowsOK, JudgedOK, Paying,
     CommitApprovePass, SetStatus, Leave, day, history
<1>9. ASSUME NEW i \in Items, RejectPass(i)
      PROVE  DecisionKept
  BY <1>9 DEF TypeOK, DecisionKept, RejectPass, SetStatus, Touch, Claimed,
     day, history, request
<1>10. ASSUME NEW t \in Threads, CommitActivate(t)
      PROVE  DecisionKept
  BY <1>10 DEF TypeOK, DecisionKept, PositionsOK, RowsOK, JudgedOK, Paying,
     CommitActivate, SetStatus, Leave, day, history
<1>11. ASSUME NEW t \in Threads, MarkExpired(t)
      PROVE  DecisionKept
  BY <1>11 DEF TypeOK, DecisionKept, PositionsOK, RowsOK, JudgedOK, Paying,
     MarkExpired, SetStatus, SetPayment, Leave, day
<1>12. ASSUME \/ \E t \in Threads, i \in Items : RegisterAndPay(t, i)
              \/ \E t \in Threads, i \in Items : BeginApproval(t, i)
              \/ \E t \in Threads : CountActive(t)
              \/ \E t \in Threads, i \in Items : BeginResubmit(t, i)
              \/ \E t \in Threads, i \in Items : BeginPayment(t, i)
              \/ \E t \in Threads : ReadWallet(t)
              \/ \E t \in Threads, i \in Items : BeginApprovePass(t, i)
              \/ \E t \in Threads, i \in Items : BeginActivate(t, i)
              \/ \E i \in Items : PeriodEnds(i)
              \/ \E t \in Threads, i \in Items : BeginVerify(t, i)
              \/ \E t \in Threads, i \in Items : BeginVisit(t, i)
              \/ \E t \in Threads : LogVisit(t)
              \/ \E t \in Threads : Fail(t)
              \/ NewDay
      PROVE  DecisionKept
  BY <1>12 DEF TypeOK, DecisionKept, RegisterAndPay, Start, Touch, Claimed,
     rows, day, history, BeginApproval, Approvable, CountActive, GoTo,
     BeginResubmit, BeginPayment, Payable, ReadWallet, HasFunds,
     RecordsRefusal, Leave, BeginApprovePass, BeginActivate, Activatable,
     PeriodEnds, request, BeginVerify, FoundExpired, BeginVisit, PlatesLeft,
     VisitsLeft, LogVisit, Fail, NewDay
<1>13. QED
  BY <1>1, <1>2, <1>3, <1>4, <1>5, <1>6, <1>7, <1>8, <1>9, <1>10, <1>11, <1>12
  DEF Next, Begin, Continue

-----------------------------------------------------------------------------
(* The theorems. *)

(* Nothing is in flight at start. *)
LEMMA InitLimits == Init => LimitsBounded
<1> SUFFICES ASSUME Init
             PROVE  LimitsBounded
  OBVIOUS
<1>1. Cardinality(Threads) \in Nat \ {0} /\ Cardinality({}) = 0
  BY ThreadsAssumption, FS_CardinalityType, FS_EmptySet
<1>2. FreeNow \cup {item[t] : t \in Freeing} = {}
  BY DEF Init, FreeNow, Freeing
<1>3. FreeVehiclesBounded
  BY <1>1, <1>2 DEF FreeVehiclesBounded
<1>4. Charging = {} /\ balance \in Nat
  BY ResidentsAssumption DEF Init, Charging
<1>5. OverdraftBounded
  <2>1. /\ (Cardinality(Threads) - 1) * Fee \in Nat
        /\ -(Cardinality(Threads) - 1) * Fee
             = -((Cardinality(Threads) - 1) * Fee)
    BY <1>1
  <2>2. QED
    BY <1>1, <1>4, <2>1 DEF OverdraftBounded
<1>6. ASSUME NEW i \in Items
      PROVE  At("plate", i) = {} /\ At("other", i) = {}
             /\ plates[i] = 0 /\ others[i] = 0
  BY DEF Init, At
<1>7. VisitsBounded
  BY <1>1, <1>6 DEF VisitsBounded
<1>8. QED
  BY <1>3, <1>5, <1>7 DEF LimitsBounded

LEMMA InitIInv == Init => IInv
<1> SUFFICES ASSUME Init
             PROVE  IInv
  OBVIOUS
<1>1. TypeOK
  BY ResidentsAssumption DEF Init, TypeOK, Kinds, Statuses, Payments,
     Positions
<1>2. PositionsOK /\ RowsOK /\ OneRequest /\ DueOK /\ JudgedOK
  BY DEF Init, PositionsOK, RowsOK, OneRequest, DueOK, JudgedOK
<1>3. FeeChargedOnce /\ PaymentIsTrue
  BY DEF Init, FeeChargedOnce, PaymentIsTrue, PaidIsCharged,
     PaidPeriodIsServed
<1>4. QED
  BY <1>1, <1>2, <1>3, InitLimits DEF IInv

LEMMA StepIInv == IInv /\ [Next]_vars => IInv'
<1> SUFFICES ASSUME IInv, [Next]_vars
             PROVE  IInv'
  OBVIOUS
<1>1. CASE Next
  <2>1. TypeOK' /\ PositionsOK' /\ RowsOK' /\ OneRequest' /\ DueOK' /\ JudgedOK'
    BY <1>1, TypeStep, PositionsStep, RowsStep, OneStep, DueStep, JudgedStep
       DEF IInv
  <2>2. FeeChargedOnce' /\ PaymentIsTrue'
    BY <1>1, FeeStep, PaidStep, PeriodStep DEF IInv, PaymentIsTrue
  <2>3. LimitsBounded'
    BY <1>1, <2>1, VehiclesStep, OverdraftStep, VisitsStep
       DEF IInv, LimitsBounded
  <2>4. QED
    BY <2>1, <2>2, <2>3 DEF IInv
<1>2. CASE UNCHANGED vars
  <2>1. TypeOK' /\ PositionsOK' /\ RowsOK' /\ OneRequest' /\ DueOK' /\ JudgedOK'
    BY <1>2 DEF IInv, TypeOK, PositionsOK, RowsOK, OneRequest, DueOK,
       JudgedOK, vars, rows, day, history, request
  <2>2. FeeChargedOnce' /\ PaymentIsTrue'
    BY <1>2 DEF IInv, FeeChargedOnce, PaymentIsTrue, PaidIsCharged,
       PaidPeriodIsServed, vars, rows, day, history, request
  <2>3. LimitsBounded'
    BY <1>2 DEF IInv, LimitsBounded, FreeVehiclesBounded, FreeNow, Freeing,
       OverdraftBounded, Charging, VisitsBounded, At, vars, rows, day,
       history, request
  <2>4. QED
    BY <2>1, <2>2, <2>3 DEF IInv
<1>3. QED
  BY <1>1, <1>2

LEMMA AlwaysIInv == Spec => []IInv
  BY InitIInv, StepIInv, PTL DEF Spec

(* Every variable keeps its type. *)
THEOREM TypeCorrect == Spec => []TypeOK
<1>1. IInv => TypeOK
  BY DEF IInv
<1>2. QED
  BY <1>1, AlwaysIInv, PTL

(* However many requests, a fee is charged twice only of an item that two  *)
(* of them were about at once: vehicle.service.ts, heavy-vehicle.service.ts *)
(* and business-hub.service.ts judge a row before they charge for it.      *)
THEOREM FeesAreChargedOnce == Spec => []FeeChargedOnce
<1>1. IInv => FeeChargedOnce
  BY DEF IInv
<1>2. QED
  BY <1>1, AlwaysIInv, PTL

(* What is shown as paid was charged, and lasts as long as was paid. *)
THEOREM PaymentIsAlwaysTrue == Spec => []PaymentIsTrue
<1>1. IInv => PaymentIsTrue
  BY DEF IInv
<1>2. QED
  BY <1>1, AlwaysIInv, PTL

(* Free vehicles, the wallet and the visits of a day pass their limits by  *)
(* no more than the number of requests handled at once.                    *)
THEOREM LimitsAreBounded == Spec => []LimitsBounded
<1>1. IInv => LimitsBounded
  BY DEF IInv
<1>2. QED
  BY <1>1, AlwaysIInv, PTL

(* Suspensions and rejections hold unless requests overlap. *)
THEOREM DecisionsAlwaysHold == Spec => DecisionsHold
<1>1. IInv /\ [Next]_vars => [DecisionKept]_vars
  BY DecisionStep DEF IInv
<1>2. QED
  BY <1>1, AlwaysIInv, PTL DEF Spec, DecisionsHold, DecisionKept

-----------------------------------------------------------------------------
(* Shortlets, whose registrations are charged for above: theorems for any  *)
(* number of requests, properties and bookings.                            *)

-----------------------------------------------------------------------------
(* The inductive invariant. *)

(* A booking is made by one request, and none scans it before.             *)
BookingOK == \A t \in Threads : shortletPc[t] = "book" =>
    /\ subject[t] \in Bookings
    /\ booking[subject[t]] = "NONE"
    /\ \A u \in Threads :
           shortletPc[u] = "book" /\ subject[u] = subject[t] => u = t

(* A guard who saw a guest checked in saw what is so until the stay ends.  *)
AccessOK == \A t \in Threads : shortletPc[t] \in {"ENTRY", "EXIT"} =>
    /\ subject[t] \in Bookings
    /\ read[t] \in Stay!Open
    /\ booking[subject[t]] # "NONE"
    /\ read[t] = "CHECKED_IN" /\ subject[t] \notin ended =>
           booking[subject[t]] = "CHECKED_IN"

(* What the scheduler found stays due; a property it found stays active,   *)
(* unless another writer overlaps.                                         *)
FoundOK ==
    /\ cron = "bookings" =>
           \A k \in found : k \in ended /\ booking[k] # "NONE"
    /\ cron = "properties" =>
           \A p \in found \ propertyOverlapped : propertyStatus[p] = "ACTIVE"

(* A property that is about to be activated is paid, and the scheduler is  *)
(* not about to expire it, unless the two overlap.                         *)
ActivationOK == \A t \in Threads : shortletPc[t] = "activate" =>
    /\ subject[t] \in Properties
    /\ subject[t] \notin propertyOverlapped =>
           /\ subject[t] \in feePaid
           /\ cron = "properties" => subject[t] \notin found

ExpiredIsUnpaid == \A p \in Properties :
    propertyStatus[p] = "EXPIRED" => p \notin feePaid

ShortletIInv == Stay!TypeOK /\ BookingOK /\ AccessOK /\ FoundOK /\ ActivationOK
        /\ ExpiredIsUnpaid /\ Stay!StatusIsTrue

USE ShortletsAssumption

-----------------------------------------------------------------------------
(* Every step preserves each part of it. *)

(* Requests and the scheduler write what the type allows.                  *)
LEMMA ShortletTypeStep ==
    ASSUME Stay!TypeOK, BookingOK, AccessOK, ActivationOK, Stay!Next
    PROVE  Stay!TypeOK'
<1>1. ASSUME NEW p \in Properties, Stay!RegisterProperty(p)
      PROVE  Stay!TypeOK'
  BY <1>1 DEF Stay!TypeOK, Stay!RegisterProperty, Stay!request, Stay!hourly,
     Stay!time
<1>2. ASSUME NEW p \in Properties, Stay!SuspendProperty(p)
      PROVE  Stay!TypeOK'
  BY <1>2 DEF Stay!TypeOK, Stay!SuspendProperty, Stay!Touch,
     Stay!BeingWritten, Stay!time, Stay!request, Stay!hourly
<1>3. ASSUME NEW t \in Threads, NEW p \in Properties, Stay!BeginActivate(t, p)
      PROVE  Stay!TypeOK'
  BY <1>3 DEF Stay!TypeOK, Stay!BeginActivate, Stay!Start, Stay!Touch,
     Stay!BeingWritten, Stay!Covered, Stay!rows, Stay!time, Stay!hourly
<1>4. ASSUME NEW t \in Threads, Stay!CommitActivate(t)
      PROVE  Stay!TypeOK'
  BY <1>4 DEF Stay!TypeOK, ActivationOK, Stay!CommitActivate, Stay!Finish,
     Stay!time, Stay!hourly
<1>5. ASSUME NEW t \in Threads, NEW k \in Bookings, Stay!BeginBooking(t, k)
      PROVE  Stay!TypeOK'
  BY <1>5 DEF Stay!TypeOK, Stay!BeginBooking, Stay!Start, Stay!rows,
     Stay!time, Stay!hourly
<1>6. ASSUME NEW t \in Threads, Stay!CommitBooking(t)
      PROVE  Stay!TypeOK'
  BY <1>6 DEF Stay!TypeOK, BookingOK, Stay!CommitBooking, Stay!Finish,
     Stay!time, Stay!hourly
<1>7. ASSUME NEW t \in Threads, NEW k \in Bookings, Stay!BeginAccess(t, k)
      PROVE  Stay!TypeOK'
  BY <1>7 DEF Stay!TypeOK, Stay!BeginAccess, Stay!Start, Stay!Open, Stay!rows,
     Stay!time, Stay!hourly
<1>8. ASSUME NEW t \in Threads, Stay!CommitEntry(t)
      PROVE  Stay!TypeOK'
  BY <1>8 DEF Stay!TypeOK, AccessOK, Stay!CommitEntry, Stay!Finish,
     Stay!ChecksIn, Stay!time, Stay!hourly
<1>9. ASSUME NEW t \in Threads, Stay!CommitExit(t)
      PROVE  Stay!TypeOK'
  BY <1>9 DEF Stay!TypeOK, AccessOK, Stay!CommitExit, Stay!Finish, Stay!time,
     Stay!hourly
<1>10. ASSUME NEW t \in Threads, Stay!Fail(t)
      PROVE  Stay!TypeOK'
  BY <1>10 DEF Stay!TypeOK, Stay!Fail, Stay!Finish, Stay!rows, Stay!time,
     Stay!hourly
<1>11. ASSUME Stay!FindBookings
      PROVE  Stay!TypeOK'
  BY <1>11 DEF Stay!TypeOK, Stay!FindBookings, Stay!DueBookings, Stay!Open,
     Stay!rows, Stay!time, Stay!request
<1>12. ASSUME NEW k \in Bookings, Stay!CompleteBooking(k)
      PROVE  Stay!TypeOK'
  BY <1>12 DEF Stay!TypeOK, Stay!CompleteBooking, Stay!time, Stay!request
<1>13. ASSUME Stay!FindProperties
      PROVE  Stay!TypeOK'
  BY <1>13 DEF Stay!TypeOK, Stay!FindProperties, Stay!DueProperties,
     Stay!Touch, Stay!BeingWritten, Stay!rows, Stay!time, Stay!request
<1>14. ASSUME NEW p \in Properties, Stay!ExpireProperty(p)
      PROVE  Stay!TypeOK'
  BY <1>14 DEF Stay!TypeOK, Stay!ExpireProperty, Stay!time, Stay!request
<1>15. ASSUME Stay!EndRun
      PROVE  Stay!TypeOK'
  BY <1>15 DEF Stay!TypeOK, Stay!EndRun, Stay!rows, Stay!time, Stay!request
<1>16. ASSUME NEW k \in Bookings, Stay!StayEnds(k)
      PROVE  Stay!TypeOK'
  BY <1>16 DEF Stay!TypeOK, Stay!StayEnds, Stay!rows, Stay!request,
     Stay!hourly
<1>17. ASSUME NEW p \in Properties, Stay!YearEnds(p)
      PROVE  Stay!TypeOK'
  BY <1>17 DEF Stay!TypeOK, Stay!YearEnds, Stay!rows, Stay!request,
     Stay!hourly
<1>18. QED
  BY <1>1, <1>2, <1>3, <1>4, <1>5, <1>6, <1>7, <1>8, <1>9, <1>10, <1>11,
     <1>12, <1>13, <1>14, <1>15, <1>16, <1>17
  DEF Stay!Next, Stay!Requests, Stay!Scheduler

(* No two requests make one booking.                                       *)
LEMMA BookingStep ==
    ASSUME Stay!TypeOK, BookingOK, AccessOK, FoundOK, Stay!Next
    PROVE  BookingOK'
<1>1. ASSUME NEW t \in Threads, NEW p \in Properties, Stay!BeginActivate(t, p)
      PROVE  BookingOK'
  BY <1>1 DEF Stay!TypeOK, BookingOK, Stay!BeginActivate, Stay!Start,
     Stay!Touch, Stay!BeingWritten, Stay!Covered, Stay!rows, Stay!time,
     Stay!hourly
<1>2. ASSUME NEW t \in Threads, Stay!CommitActivate(t)
      PROVE  BookingOK'
  BY <1>2 DEF Stay!TypeOK, BookingOK, Stay!CommitActivate, Stay!Finish,
     Stay!time, Stay!hourly
<1>3. ASSUME NEW t \in Threads, NEW k \in Bookings, Stay!BeginBooking(t, k)
      PROVE  BookingOK'
  BY <1>3 DEF Stay!TypeOK, BookingOK, Stay!BeginBooking, Stay!Start,
     Stay!rows, Stay!time, Stay!hourly
<1>4. ASSUME NEW t \in Threads, Stay!CommitBooking(t)
      PROVE  BookingOK'
  BY <1>4 DEF Stay!TypeOK, BookingOK, Stay!CommitBooking, Stay!Finish,
     Stay!time, Stay!hourly
<1>5. ASSUME NEW t \in Threads, NEW k \in Bookings, Stay!BeginAccess(t, k)
      PROVE  BookingOK'
  BY <1>5 DEF Stay!TypeOK, BookingOK, Stay!BeginAccess, Stay!Start, Stay!Open,
     Stay!rows, Stay!time, Stay!hourly
<1>6. ASSUME NEW t \in Threads, Stay!CommitEntry(t)
      PROVE  BookingOK'
  BY <1>6 DEF Stay!TypeOK, BookingOK, AccessOK, Stay!CommitEntry, Stay!Finish,
     Stay!ChecksIn, Stay!time, Stay!hourly
<1>7. ASSUME NEW t \in Threads, Stay!CommitExit(t)
      PROVE  BookingOK'
  BY <1>7 DEF Stay!TypeOK, BookingOK, Stay!CommitExit, Stay!Finish, Stay!time,
     Stay!hourly
<1>8. ASSUME NEW t \in Threads, Stay!Fail(t)
      PROVE  BookingOK'
  BY <1>8 DEF Stay!TypeOK, BookingOK, Stay!Fail, Stay!Finish, Stay!rows,
     Stay!time, Stay!hourly
<1>9. ASSUME NEW k \in Bookings, Stay!CompleteBooking(k)
      PROVE  BookingOK'
  BY <1>9 DEF Stay!TypeOK, BookingOK, FoundOK, Stay!CompleteBooking,
     Stay!time, Stay!request
<1>10. ASSUME \/ \E p \in Properties : Stay!RegisterProperty(p)
              \/ \E p \in Properties : Stay!SuspendProperty(p)
              \/ Stay!FindBookings
              \/ Stay!FindProperties
              \/ \E p \in Properties : Stay!ExpireProperty(p)
              \/ Stay!EndRun
              \/ \E k \in Bookings : Stay!StayEnds(k)
              \/ \E p \in Properties : Stay!YearEnds(p)
      PROVE  BookingOK'
  BY <1>10 DEF Stay!TypeOK, BookingOK, Stay!RegisterProperty, Stay!request,
     Stay!hourly, Stay!time, Stay!SuspendProperty, Stay!Touch,
     Stay!BeingWritten, Stay!FindBookings, Stay!DueBookings, Stay!Open,
     Stay!rows, Stay!FindProperties, Stay!DueProperties, Stay!ExpireProperty,
     Stay!EndRun, Stay!StayEnds, Stay!YearEnds
<1>11. QED
  BY <1>1, <1>2, <1>3, <1>4, <1>5, <1>6, <1>7, <1>8, <1>9, <1>10
  DEF Stay!Next, Stay!Requests, Stay!Scheduler

(* A status a guard has read stays good until the stay ends.               *)
LEMMA AccessStep ==
    ASSUME Stay!TypeOK, BookingOK, AccessOK, FoundOK, Stay!Next
    PROVE  AccessOK'
<1>1. ASSUME NEW t \in Threads, NEW p \in Properties, Stay!BeginActivate(t, p)
      PROVE  AccessOK'
  BY <1>1 DEF Stay!TypeOK, AccessOK, Stay!Open, Stay!BeginActivate,
     Stay!Start, Stay!Touch, Stay!BeingWritten, Stay!Covered, Stay!rows,
     Stay!time, Stay!hourly
<1>2. ASSUME NEW t \in Threads, Stay!CommitActivate(t)
      PROVE  AccessOK'
  BY <1>2 DEF Stay!TypeOK, AccessOK, Stay!Open, Stay!CommitActivate,
     Stay!Finish, Stay!time, Stay!hourly
<1>3. ASSUME NEW t \in Threads, NEW k \in Bookings, Stay!BeginBooking(t, k)
      PROVE  AccessOK'
  BY <1>3 DEF Stay!TypeOK, AccessOK, Stay!Open, Stay!BeginBooking, Stay!Start,
     Stay!rows, Stay!time, Stay!hourly
<1>4. ASSUME NEW t \in Threads, Stay!CommitBooking(t)
      PROVE  AccessOK'
  BY <1>4 DEF Stay!TypeOK, AccessOK, Stay!Open, BookingOK, Stay!CommitBooking,
     Stay!Finish, Stay!time, Stay!hourly
<1>5. ASSUME NEW t \in Threads, NEW k \in Bookings, Stay!BeginAccess(t, k)
      PROVE  AccessOK'
  BY <1>5 DEF Stay!TypeOK, AccessOK, Stay!Open, Stay!BeginAccess, Stay!Start,
     Stay!rows, Stay!time, Stay!hourly
<1>6. ASSUME NEW t \in Threads, Stay!CommitEntry(t)
      PROVE  AccessOK'
  BY <1>6 DEF Stay!TypeOK, AccessOK, Stay!Open, Stay!CommitEntry, Stay!Finish,
     Stay!ChecksIn, Stay!time, Stay!hourly
<1>7. ASSUME NEW t \in Threads, Stay!CommitExit(t)
      PROVE  AccessOK'
  BY <1>7 DEF Stay!TypeOK, AccessOK, Stay!Open, Stay!CommitExit, Stay!Finish,
     Stay!time, Stay!hourly
<1>8. ASSUME NEW t \in Threads, Stay!Fail(t)
      PROVE  AccessOK'
  BY <1>8 DEF Stay!TypeOK, AccessOK, Stay!Open, Stay!Fail, Stay!Finish,
     Stay!rows, Stay!time, Stay!hourly
<1>9. ASSUME NEW k \in Bookings, Stay!CompleteBooking(k)
      PROVE  AccessOK'
  BY <1>9 DEF Stay!TypeOK, AccessOK, Stay!Open, FoundOK, Stay!CompleteBooking,
     Stay!time, Stay!request
<1>10. ASSUME NEW k \in Bookings, Stay!StayEnds(k)
      PROVE  AccessOK'
  BY <1>10 DEF Stay!TypeOK, AccessOK, Stay!Open, Stay!StayEnds, Stay!rows,
     Stay!request, Stay!hourly
<1>11. ASSUME \/ \E p \in Properties : Stay!RegisterProperty(p)
              \/ \E p \in Properties : Stay!SuspendProperty(p)
              \/ Stay!FindBookings
              \/ Stay!FindProperties
              \/ \E p \in Properties : Stay!ExpireProperty(p)
              \/ Stay!EndRun
              \/ \E p \in Properties : Stay!YearEnds(p)
      PROVE  AccessOK'
  BY <1>11 DEF Stay!TypeOK, AccessOK, Stay!Open, Stay!RegisterProperty,
     Stay!request, Stay!hourly, Stay!time, Stay!SuspendProperty, Stay!Touch,
     Stay!BeingWritten, Stay!FindBookings, Stay!DueBookings, Stay!rows,
     Stay!FindProperties, Stay!DueProperties, Stay!ExpireProperty,
     Stay!EndRun, Stay!YearEnds
<1>12. QED
  BY <1>1, <1>2, <1>3, <1>4, <1>5, <1>6, <1>7, <1>8, <1>9, <1>10, <1>11 DEF
     Stay!Next, Stay!Requests, Stay!Scheduler

(* What the scheduler found stays due.                                     *)
LEMMA FoundStep ==
    ASSUME Stay!TypeOK, FoundOK, Stay!Next
    PROVE  FoundOK'
<1>1. ASSUME NEW p \in Properties, Stay!RegisterProperty(p)
      PROVE  FoundOK'
  BY <1>1 DEF Stay!TypeOK, FoundOK, Stay!RegisterProperty, Stay!request,
     Stay!hourly, Stay!time
<1>2. ASSUME NEW p \in Properties, Stay!SuspendProperty(p)
      PROVE  FoundOK'
  BY <1>2 DEF Stay!TypeOK, FoundOK, Stay!SuspendProperty, Stay!Touch,
     Stay!BeingWritten, Stay!time, Stay!request, Stay!hourly
<1>3. ASSUME NEW t \in Threads, NEW p \in Properties, Stay!BeginActivate(t, p)
      PROVE  FoundOK'
  BY <1>3 DEF Stay!TypeOK, FoundOK, Stay!BeginActivate, Stay!Start,
     Stay!Touch, Stay!BeingWritten, Stay!Covered, Stay!rows, Stay!time,
     Stay!hourly
<1>4. ASSUME NEW t \in Threads, Stay!CommitActivate(t)
      PROVE  FoundOK'
  BY <1>4 DEF Stay!TypeOK, FoundOK, Stay!CommitActivate, Stay!Finish,
     Stay!time, Stay!hourly
<1>5. ASSUME NEW t \in Threads, Stay!CommitBooking(t)
      PROVE  FoundOK'
  BY <1>5 DEF Stay!TypeOK, FoundOK, Stay!CommitBooking, Stay!Finish,
     Stay!time, Stay!hourly
<1>6. ASSUME NEW t \in Threads, Stay!CommitEntry(t)
      PROVE  FoundOK'
  BY <1>6 DEF Stay!TypeOK, FoundOK, Stay!CommitEntry, Stay!Finish,
     Stay!ChecksIn, Stay!time, Stay!hourly
<1>7. ASSUME Stay!FindBookings
      PROVE  FoundOK'
  BY <1>7 DEF Stay!TypeOK, FoundOK, Stay!FindBookings, Stay!DueBookings,
     Stay!Open, Stay!rows, Stay!time, Stay!request
<1>8. ASSUME NEW k \in Bookings, Stay!CompleteBooking(k)
      PROVE  FoundOK'
  BY <1>8 DEF Stay!TypeOK, FoundOK, Stay!CompleteBooking, Stay!time,
     Stay!request
<1>9. ASSUME Stay!FindProperties
      PROVE  FoundOK'
  BY <1>9 DEF Stay!TypeOK, FoundOK, Stay!FindProperties, Stay!DueProperties,
     Stay!Touch, Stay!BeingWritten, Stay!rows, Stay!time, Stay!request
<1>10. ASSUME NEW p \in Properties, Stay!ExpireProperty(p)
      PROVE  FoundOK'
  BY <1>10 DEF Stay!TypeOK, FoundOK, Stay!ExpireProperty, Stay!time,
     Stay!request
<1>11. ASSUME Stay!EndRun
      PROVE  FoundOK'
  BY <1>11 DEF Stay!TypeOK, FoundOK, Stay!EndRun, Stay!rows, Stay!time,
     Stay!request
<1>12. ASSUME NEW k \in Bookings, Stay!StayEnds(k)
      PROVE  FoundOK'
  BY <1>12 DEF Stay!TypeOK, FoundOK, Stay!StayEnds, Stay!rows, Stay!request,
     Stay!hourly
<1>13. ASSUME \/ \E t \in Threads, k \in Bookings : Stay!BeginBooking(t, k)
              \/ \E t \in Threads, k \in Bookings : Stay!BeginAccess(t, k)
              \/ \E t \in Threads : Stay!CommitExit(t)
              \/ \E t \in Threads : Stay!Fail(t)
              \/ \E p \in Properties : Stay!YearEnds(p)
      PROVE  FoundOK'
  BY <1>13 DEF Stay!TypeOK, FoundOK, Stay!BeginBooking, Stay!Start, Stay!rows,
     Stay!time, Stay!hourly, Stay!BeginAccess, Stay!Open, Stay!CommitExit,
     Stay!Finish, Stay!Fail, Stay!YearEnds, Stay!request
<1>14. QED
  BY <1>1, <1>2, <1>3, <1>4, <1>5, <1>6, <1>7, <1>8, <1>9, <1>10, <1>11,
     <1>12, <1>13 DEF Stay!Next, Stay!Requests, Stay!Scheduler

(* An activation without overlap is of a property that is paid.            *)
LEMMA ActivationStep ==
    ASSUME Stay!TypeOK, ActivationOK, Stay!Next
    PROVE  ActivationOK'
<1>1. ASSUME NEW p \in Properties, Stay!RegisterProperty(p)
      PROVE  ActivationOK'
  BY <1>1 DEF Stay!TypeOK, ActivationOK, Stay!RegisterProperty, Stay!request,
     Stay!hourly, Stay!time
<1>2. ASSUME NEW p \in Properties, Stay!SuspendProperty(p)
      PROVE  ActivationOK'
  BY <1>2 DEF Stay!TypeOK, ActivationOK, Stay!SuspendProperty, Stay!Touch,
     Stay!BeingWritten, Stay!time, Stay!request, Stay!hourly
<1>3. ASSUME NEW t \in Threads, NEW p \in Properties, Stay!BeginActivate(t, p)
      PROVE  ActivationOK'
  BY <1>3 DEF Stay!TypeOK, ActivationOK, Stay!BeginActivate, Stay!Start,
     Stay!Touch, Stay!BeingWritten, Stay!Covered, Stay!rows, Stay!time,
     Stay!hourly
<1>4. ASSUME NEW t \in Threads, Stay!CommitActivate(t)
      PROVE  ActivationOK'
  BY <1>4 DEF Stay!TypeOK, ActivationOK, Stay!CommitActivate, Stay!Finish,
     Stay!time, Stay!hourly
<1>5. ASSUME NEW t \in Threads, NEW k \in Bookings, Stay!BeginBooking(t, k)
      PROVE  ActivationOK'
  BY <1>5 DEF Stay!TypeOK, ActivationOK, Stay!BeginBooking, Stay!Start,
     Stay!rows, Stay!time, Stay!hourly
<1>6. ASSUME NEW t \in Threads, Stay!CommitBooking(t)
      PROVE  ActivationOK'
  BY <1>6 DEF Stay!TypeOK, ActivationOK, Stay!CommitBooking, Stay!Finish,
     Stay!time, Stay!hourly
<1>7. ASSUME NEW t \in Threads, NEW k \in Bookings, Stay!BeginAccess(t, k)
      PROVE  ActivationOK'
  BY <1>7 DEF Stay!TypeOK, ActivationOK, Stay!BeginAccess, Stay!Start,
     Stay!Open, Stay!rows, Stay!time, Stay!hourly
<1>8. ASSUME NEW t \in Threads, Stay!CommitEntry(t)
      PROVE  ActivationOK'
  BY <1>8 DEF Stay!TypeOK, ActivationOK, Stay!CommitEntry, Stay!Finish,
     Stay!ChecksIn, Stay!time, Stay!hourly
<1>9. ASSUME NEW t \in Threads, Stay!CommitExit(t)
      PROVE  ActivationOK'
  BY <1>9 DEF Stay!TypeOK, ActivationOK, Stay!CommitExit, Stay!Finish,
     Stay!time, Stay!hourly
<1>10. ASSUME NEW t \in Threads, Stay!Fail(t)
      PROVE  ActivationOK'
  BY <1>10 DEF Stay!TypeOK, ActivationOK, Stay!Fail, Stay!Finish, Stay!rows,
     Stay!time, Stay!hourly
<1>11. ASSUME Stay!FindBookings
      PROVE  ActivationOK'
  BY <1>11 DEF Stay!TypeOK, ActivationOK, Stay!FindBookings, Stay!DueBookings,
     Stay!Open, Stay!rows, Stay!time, Stay!request
<1>12. ASSUME NEW k \in Bookings, Stay!CompleteBooking(k)
      PROVE  ActivationOK'
  BY <1>12 DEF Stay!TypeOK, ActivationOK, Stay!CompleteBooking, Stay!time,
     Stay!request
<1>13. ASSUME Stay!FindProperties
      PROVE  ActivationOK'
  BY <1>13 DEF Stay!TypeOK, ActivationOK, Stay!FindProperties,
     Stay!DueProperties, Stay!Touch, Stay!BeingWritten, Stay!rows, Stay!time,
     Stay!request
<1>14. ASSUME NEW p \in Properties, Stay!ExpireProperty(p)
      PROVE  ActivationOK'
  BY <1>14 DEF Stay!TypeOK, ActivationOK, Stay!ExpireProperty, Stay!time,
     Stay!request
<1>15. ASSUME Stay!EndRun
      PROVE  ActivationOK'
  BY <1>15 DEF Stay!TypeOK, ActivationOK, Stay!EndRun, Stay!rows, Stay!time,
     Stay!request
<1>16. ASSUME \/ \E k \in Bookings : Stay!StayEnds(k)
              \/ \E p \in Properties : Stay!YearEnds(p)
      PROVE  ActivationOK'
  BY <1>16 DEF Stay!TypeOK, ActivationOK, Stay!StayEnds, Stay!rows,
     Stay!request, Stay!hourly, Stay!YearEnds
<1>17. QED
  BY <1>1, <1>2, <1>3, <1>4, <1>5, <1>6, <1>7, <1>8, <1>9, <1>10, <1>11,
     <1>12, <1>13, <1>14, <1>15, <1>16
  DEF Stay!Next, Stay!Requests, Stay!Scheduler

(* Expiring a property voids its payment, which only registering makes.    *)
LEMMA ExpiredStep ==
    ASSUME Stay!TypeOK, ActivationOK, ExpiredIsUnpaid, Stay!Next
    PROVE  ExpiredIsUnpaid'
<1>1. ASSUME NEW p \in Properties, Stay!RegisterProperty(p)
      PROVE  ExpiredIsUnpaid'
  BY <1>1 DEF Stay!TypeOK, ExpiredIsUnpaid, Stay!RegisterProperty,
     Stay!request, Stay!hourly, Stay!time
<1>2. ASSUME NEW p \in Properties, Stay!SuspendProperty(p)
      PROVE  ExpiredIsUnpaid'
  BY <1>2 DEF Stay!TypeOK, ExpiredIsUnpaid, Stay!SuspendProperty, Stay!Touch,
     Stay!BeingWritten, Stay!time, Stay!request, Stay!hourly
<1>3. ASSUME NEW t \in Threads, Stay!CommitActivate(t)
      PROVE  ExpiredIsUnpaid'
  BY <1>3 DEF Stay!TypeOK, ExpiredIsUnpaid, ActivationOK, Stay!CommitActivate,
     Stay!Finish, Stay!time, Stay!hourly
<1>4. ASSUME NEW p \in Properties, Stay!ExpireProperty(p)
      PROVE  ExpiredIsUnpaid'
  BY <1>4 DEF Stay!TypeOK, ExpiredIsUnpaid, Stay!ExpireProperty, Stay!time,
     Stay!request
<1>5. ASSUME \/ \E t \in Threads, p \in Properties : Stay!BeginActivate(t, p)
             \/ \E t \in Threads, k \in Bookings : Stay!BeginBooking(t, k)
             \/ \E t \in Threads : Stay!CommitBooking(t)
             \/ \E t \in Threads, k \in Bookings : Stay!BeginAccess(t, k)
             \/ \E t \in Threads : Stay!CommitEntry(t)
             \/ \E t \in Threads : Stay!CommitExit(t)
             \/ \E t \in Threads : Stay!Fail(t)
             \/ Stay!FindBookings
             \/ \E k \in Bookings : Stay!CompleteBooking(k)
             \/ Stay!FindProperties
             \/ Stay!EndRun
             \/ \E k \in Bookings : Stay!StayEnds(k)
             \/ \E p \in Properties : Stay!YearEnds(p)
      PROVE  ExpiredIsUnpaid'
  BY <1>5 DEF Stay!TypeOK, ExpiredIsUnpaid, Stay!BeginActivate, Stay!Start,
     Stay!Touch, Stay!BeingWritten, Stay!Covered, Stay!rows, Stay!time,
     Stay!hourly, Stay!BeginBooking, Stay!CommitBooking, Stay!Finish,
     Stay!BeginAccess, Stay!Open, Stay!CommitEntry, Stay!ChecksIn,
     Stay!CommitExit, Stay!Fail, Stay!FindBookings, Stay!DueBookings,
     Stay!request, Stay!CompleteBooking, Stay!FindProperties,
     Stay!DueProperties, Stay!EndRun, Stay!StayEnds, Stay!YearEnds
<1>6. QED
  BY <1>1, <1>2, <1>3, <1>4, <1>5 DEF Stay!Next, Stay!Requests, Stay!Scheduler

(* Neither a scan nor the scheduler hides a guest who is inside.           *)
LEMMA InsideStep ==
    ASSUME Stay!TypeOK, BookingOK, AccessOK, FoundOK, Stay!InsideIsCheckedIn,
           Stay!Next
    PROVE  Stay!InsideIsCheckedIn'
<1>1. ASSUME NEW t \in Threads, Stay!CommitBooking(t)
      PROVE  Stay!InsideIsCheckedIn'
  BY <1>1 DEF Stay!TypeOK, Stay!InsideIsCheckedIn, BookingOK,
     Stay!CommitBooking, Stay!Finish, Stay!time, Stay!hourly
<1>2. ASSUME NEW t \in Threads, Stay!CommitEntry(t)
      PROVE  Stay!InsideIsCheckedIn'
  BY <1>2 DEF Stay!TypeOK, Stay!InsideIsCheckedIn, AccessOK, Stay!Open,
     Stay!CommitEntry, Stay!Finish, Stay!ChecksIn, Stay!time, Stay!hourly
<1>3. ASSUME NEW t \in Threads, Stay!CommitExit(t)
      PROVE  Stay!InsideIsCheckedIn'
  BY <1>3 DEF Stay!TypeOK, Stay!InsideIsCheckedIn, Stay!CommitExit,
     Stay!Finish, Stay!time, Stay!hourly
<1>4. ASSUME NEW k \in Bookings, Stay!CompleteBooking(k)
      PROVE  Stay!InsideIsCheckedIn'
  BY <1>4 DEF Stay!TypeOK, Stay!InsideIsCheckedIn, FoundOK,
     Stay!CompleteBooking, Stay!time, Stay!request
<1>5. ASSUME NEW k \in Bookings, Stay!StayEnds(k)
      PROVE  Stay!InsideIsCheckedIn'
  BY <1>5 DEF Stay!TypeOK, Stay!InsideIsCheckedIn, Stay!StayEnds, Stay!rows,
     Stay!request, Stay!hourly
<1>6. ASSUME \/ \E p \in Properties : Stay!RegisterProperty(p)
             \/ \E p \in Properties : Stay!SuspendProperty(p)
             \/ \E t \in Threads, p \in Properties : Stay!BeginActivate(t, p)
             \/ \E t \in Threads : Stay!CommitActivate(t)
             \/ \E t \in Threads, k \in Bookings : Stay!BeginBooking(t, k)
             \/ \E t \in Threads, k \in Bookings : Stay!BeginAccess(t, k)
             \/ \E t \in Threads : Stay!Fail(t)
             \/ Stay!FindBookings
             \/ Stay!FindProperties
             \/ \E p \in Properties : Stay!ExpireProperty(p)
             \/ Stay!EndRun
             \/ \E p \in Properties : Stay!YearEnds(p)
      PROVE  Stay!InsideIsCheckedIn'
  BY <1>6 DEF Stay!TypeOK, Stay!InsideIsCheckedIn, Stay!RegisterProperty,
     Stay!request, Stay!hourly, Stay!time, Stay!SuspendProperty, Stay!Touch,
     Stay!BeingWritten, Stay!BeginActivate, Stay!Start, Stay!Covered,
     Stay!rows, Stay!CommitActivate, Stay!Finish, Stay!BeginBooking,
     Stay!BeginAccess, Stay!Open, Stay!Fail, Stay!FindBookings,
     Stay!DueBookings, Stay!FindProperties, Stay!DueProperties,
     Stay!ExpireProperty, Stay!EndRun, Stay!YearEnds
<1>7. QED
  BY <1>1, <1>2, <1>3, <1>4, <1>5, <1>6 DEF Stay!Next, Stay!Requests,
     Stay!Scheduler

(* Only bookings found after their end are completed.                      *)
LEMMA CompletedStep ==
    ASSUME Stay!TypeOK, FoundOK, Stay!CompletedIsOver, Stay!Next
    PROVE  Stay!CompletedIsOver'
<1>1. ASSUME NEW t \in Threads, Stay!CommitBooking(t)
      PROVE  Stay!CompletedIsOver'
  BY <1>1 DEF Stay!TypeOK, Stay!CompletedIsOver, Stay!CommitBooking,
     Stay!Finish, Stay!time, Stay!hourly
<1>2. ASSUME NEW t \in Threads, Stay!CommitEntry(t)
      PROVE  Stay!CompletedIsOver'
  BY <1>2 DEF Stay!TypeOK, Stay!CompletedIsOver, Stay!CommitEntry,
     Stay!Finish, Stay!ChecksIn, Stay!time, Stay!hourly
<1>3. ASSUME NEW k \in Bookings, Stay!CompleteBooking(k)
      PROVE  Stay!CompletedIsOver'
  BY <1>3 DEF Stay!TypeOK, Stay!CompletedIsOver, FoundOK,
     Stay!CompleteBooking, Stay!time, Stay!request
<1>4. ASSUME NEW k \in Bookings, Stay!StayEnds(k)
      PROVE  Stay!CompletedIsOver'
  BY <1>4 DEF Stay!TypeOK, Stay!CompletedIsOver, Stay!StayEnds, Stay!rows,
     Stay!request, Stay!hourly
<1>5. ASSUME \/ \E p \in Properties : Stay!RegisterProperty(p)
             \/ \E p \in Properties : Stay!SuspendProperty(p)
             \/ \E t \in Threads, p \in Properties : Stay!BeginActivate(t, p)
             \/ \E t \in Threads : Stay!CommitActivate(t)
             \/ \E t \in Threads, k \in Bookings : Stay!BeginBooking(t, k)
             \/ \E t \in Threads, k \in Bookings : Stay!BeginAccess(t, k)
             \/ \E t \in Threads : Stay!CommitExit(t)
             \/ \E t \in Threads : Stay!Fail(t)
             \/ Stay!FindBookings
             \/ Stay!FindProperties
             \/ \E p \in Properties : Stay!ExpireProperty(p)
             \/ Stay!EndRun
             \/ \E p \in Properties : Stay!YearEnds(p)
      PROVE  Stay!CompletedIsOver'
  BY <1>5 DEF Stay!TypeOK, Stay!CompletedIsOver, Stay!RegisterProperty,
     Stay!request, Stay!hourly, Stay!time, Stay!SuspendProperty, Stay!Touch,
     Stay!BeingWritten, Stay!BeginActivate, Stay!Start, Stay!Covered,
     Stay!rows, Stay!CommitActivate, Stay!Finish, Stay!BeginBooking,
     Stay!BeginAccess, Stay!Open, Stay!CommitExit, Stay!Fail,
     Stay!FindBookings, Stay!DueBookings, Stay!FindProperties,
     Stay!DueProperties, Stay!ExpireProperty, Stay!EndRun, Stay!YearEnds
<1>6. QED
  BY <1>1, <1>2, <1>3, <1>4, <1>5 DEF Stay!Next, Stay!Requests, Stay!Scheduler

(* Only properties that are paid become active.                            *)
LEMMA ActiveStep ==
    ASSUME Stay!TypeOK, ActivationOK, Stay!ActiveIsPaid, Stay!Next
    PROVE  Stay!ActiveIsPaid'
<1>1. ASSUME NEW p \in Properties, Stay!RegisterProperty(p)
      PROVE  Stay!ActiveIsPaid'
  BY <1>1 DEF Stay!TypeOK, Stay!ActiveIsPaid, Stay!RegisterProperty,
     Stay!request, Stay!hourly, Stay!time
<1>2. ASSUME NEW p \in Properties, Stay!SuspendProperty(p)
      PROVE  Stay!ActiveIsPaid'
  BY <1>2 DEF Stay!TypeOK, Stay!ActiveIsPaid, Stay!SuspendProperty,
     Stay!Touch, Stay!BeingWritten, Stay!time, Stay!request, Stay!hourly
<1>3. ASSUME NEW t \in Threads, NEW p \in Properties, Stay!BeginActivate(t, p)
      PROVE  Stay!ActiveIsPaid'
  BY <1>3 DEF Stay!TypeOK, Stay!ActiveIsPaid, Stay!BeginActivate, Stay!Start,
     Stay!Touch, Stay!BeingWritten, Stay!Covered, Stay!rows, Stay!time,
     Stay!hourly
<1>4. ASSUME NEW t \in Threads, Stay!CommitActivate(t)
      PROVE  Stay!ActiveIsPaid'
  BY <1>4 DEF Stay!TypeOK, Stay!ActiveIsPaid, ActivationOK,
     Stay!CommitActivate, Stay!Finish, Stay!time, Stay!hourly
<1>5. ASSUME Stay!FindProperties
      PROVE  Stay!ActiveIsPaid'
  BY <1>5 DEF Stay!TypeOK, Stay!ActiveIsPaid, Stay!FindProperties,
     Stay!DueProperties, Stay!Touch, Stay!BeingWritten, Stay!rows, Stay!time,
     Stay!request
<1>6. ASSUME NEW p \in Properties, Stay!ExpireProperty(p)
      PROVE  Stay!ActiveIsPaid'
  BY <1>6 DEF Stay!TypeOK, Stay!ActiveIsPaid, Stay!ExpireProperty, Stay!time,
     Stay!request
<1>7. ASSUME \/ \E t \in Threads, k \in Bookings : Stay!BeginBooking(t, k)
             \/ \E t \in Threads : Stay!CommitBooking(t)
             \/ \E t \in Threads, k \in Bookings : Stay!BeginAccess(t, k)
             \/ \E t \in Threads : Stay!CommitEntry(t)
             \/ \E t \in Threads : Stay!CommitExit(t)
             \/ \E t \in Threads : Stay!Fail(t)
             \/ Stay!FindBookings
             \/ \E k \in Bookings : Stay!CompleteBooking(k)
             \/ Stay!EndRun
             \/ \E k \in Bookings : Stay!StayEnds(k)
             \/ \E p \in Properties : Stay!YearEnds(p)
      PROVE  Stay!ActiveIsPaid'
  BY <1>7 DEF Stay!TypeOK, Stay!ActiveIsPaid, Stay!BeginBooking, Stay!Start,
     Stay!rows, Stay!time, Stay!hourly, Stay!CommitBooking, Stay!Finish,
     Stay!BeginAccess, Stay!Open, Stay!CommitEntry, Stay!ChecksIn,
     Stay!CommitExit, Stay!Fail, Stay!FindBookings, Stay!DueBookings,
     Stay!request, Stay!CompleteBooking, Stay!EndRun, Stay!StayEnds,
     Stay!YearEnds
<1>8. QED
  BY <1>1, <1>2, <1>3, <1>4, <1>5, <1>6, <1>7 DEF Stay!Next, Stay!Requests,
     Stay!Scheduler

-----------------------------------------------------------------------------
(* The theorems. *)

LEMMA ShortletInitIInv ==
    Stay!Init => ShortletIInv
  BY DEF Stay!Init, ShortletIInv, Stay!TypeOK, BookingOK, AccessOK, FoundOK,
     ActivationOK, ExpiredIsUnpaid, Stay!StatusIsTrue, Stay!InsideIsCheckedIn,
     Stay!CompletedIsOver, Stay!ActiveIsPaid

LEMMA ShortletStepIInv ==
    ShortletIInv /\ [Stay!Next]_(Stay!vars) => ShortletIInv'
<1> SUFFICES ASSUME ShortletIInv, [Stay!Next]_(Stay!vars)
             PROVE  ShortletIInv'
  OBVIOUS
<1>1. CASE Stay!Next
  BY <1>1, ShortletTypeStep, BookingStep, AccessStep, FoundStep,
     ActivationStep, ExpiredStep, InsideStep, CompletedStep, ActiveStep DEF
     ShortletIInv, Stay!StatusIsTrue
<1>2. CASE UNCHANGED Stay!vars
  BY <1>2 DEF ShortletIInv, Stay!TypeOK, BookingOK, AccessOK, FoundOK,
     ActivationOK, ExpiredIsUnpaid, Stay!StatusIsTrue, Stay!InsideIsCheckedIn,
     Stay!CompletedIsOver, Stay!ActiveIsPaid, Stay!vars, Stay!rows, Stay!time,
     Stay!request, Stay!hourly
<1>3. QED
  BY <1>1, <1>2

LEMMA ShortletAlwaysIInv ==
    Stay!Spec => []ShortletIInv
  BY ShortletInitIInv, ShortletStepIInv, PTL DEF Stay!Spec

(* Every variable keeps its type. *)
THEOREM ShortletTypesCorrect ==
    ShortletSpec => []Stay!TypeOK
<1>1. ShortletIInv => Stay!TypeOK
  BY DEF ShortletIInv
<1>2. QED
  BY <1>1, ShortletAlwaysIInv, PTL DEF ShortletSpec

(* However scans, activations and the scheduler interleave, a guest inside *)
(* is shown so, no lasting stay is completed, and what is active is paid.  *)
THEOREM ShortletStatusIsAlwaysTrue ==
    ShortletSpec => []StatusIsTrue
<1>1. ShortletIInv => Stay!StatusIsTrue
  BY DEF ShortletIInv
<1>2. QED
  BY <1>1, ShortletAlwaysIInv, PTL DEF ShortletSpec, StatusIsTrue

(* What the action property says of one step.                              *)
ShortletDecisionKept == \A p \in Properties \ propertyOverlapped' :
    /\ propertyStatus[p] = "SUSPENDED" =>
           propertyStatus'[p] \in {"SUSPENDED", "ACTIVE"}
    /\ propertyStatus[p] = "EXPIRED"   => propertyStatus'[p] # "ACTIVE"

LEMMA ShortletDecisionStep ==
    ASSUME Stay!TypeOK, FoundOK, ActivationOK, ExpiredIsUnpaid, Stay!Next
    PROVE  ShortletDecisionKept
<1>1. ASSUME NEW p \in Properties, Stay!RegisterProperty(p)
      PROVE  ShortletDecisionKept
  BY <1>1 DEF Stay!TypeOK, ShortletDecisionKept, Stay!RegisterProperty,
     Stay!request, Stay!hourly, Stay!time
<1>2. ASSUME NEW p \in Properties, Stay!SuspendProperty(p)
      PROVE  ShortletDecisionKept
  BY <1>2 DEF Stay!TypeOK, ShortletDecisionKept, Stay!SuspendProperty,
     Stay!Touch, Stay!BeingWritten, Stay!time, Stay!request, Stay!hourly
<1>3. ASSUME NEW t \in Threads, Stay!CommitActivate(t)
      PROVE  ShortletDecisionKept
  BY <1>3 DEF Stay!TypeOK, ShortletDecisionKept, ActivationOK,
     ExpiredIsUnpaid, Stay!CommitActivate, Stay!Finish, Stay!time, Stay!hourly
<1>4. ASSUME NEW p \in Properties, Stay!ExpireProperty(p)
      PROVE  ShortletDecisionKept
  BY <1>4 DEF Stay!TypeOK, ShortletDecisionKept, FoundOK, Stay!ExpireProperty,
     Stay!time, Stay!request
<1>5. ASSUME \/ \E t \in Threads, p \in Properties : Stay!BeginActivate(t, p)
             \/ \E t \in Threads, k \in Bookings : Stay!BeginBooking(t, k)
             \/ \E t \in Threads : Stay!CommitBooking(t)
             \/ \E t \in Threads, k \in Bookings : Stay!BeginAccess(t, k)
             \/ \E t \in Threads : Stay!CommitEntry(t)
             \/ \E t \in Threads : Stay!CommitExit(t)
             \/ \E t \in Threads : Stay!Fail(t)
             \/ Stay!FindBookings
             \/ \E k \in Bookings : Stay!CompleteBooking(k)
             \/ Stay!FindProperties
             \/ Stay!EndRun
             \/ \E k \in Bookings : Stay!StayEnds(k)
             \/ \E p \in Properties : Stay!YearEnds(p)
      PROVE  ShortletDecisionKept
  BY <1>5 DEF Stay!TypeOK, ShortletDecisionKept, Stay!BeginActivate,
     Stay!Start, Stay!Touch, Stay!BeingWritten, Stay!Covered, Stay!rows,
     Stay!time, Stay!hourly, Stay!BeginBooking, Stay!CommitBooking,
     Stay!Finish, Stay!BeginAccess, Stay!Open, Stay!CommitEntry,
     Stay!ChecksIn, Stay!CommitExit, Stay!Fail, Stay!FindBookings,
     Stay!DueBookings, Stay!request, Stay!CompleteBooking,
     Stay!FindProperties, Stay!DueProperties, Stay!EndRun, Stay!StayEnds,
     Stay!YearEnds
<1>6. QED
  BY <1>1, <1>2, <1>3, <1>4, <1>5 DEF Stay!Next, Stay!Requests, Stay!Scheduler

(* Neither the scheduler nor an activation undoes a decision unseen: what  *)
(* is suspended is only activated, and what has expired is not, unless two *)
(* writers of the property overlap.                                        *)
THEOREM ShortletDecisionsAlwaysHold ==
    ShortletSpec => ShortletDecisionsHold
<1>1. ShortletIInv /\ [Stay!Next]_(Stay!vars) => [ShortletDecisionKept]_(Stay!vars)
  BY ShortletDecisionStep DEF ShortletIInv
<1>2. QED
  BY <1>1, ShortletAlwaysIInv, PTL DEF ShortletSpec, ShortletDecisionsHold,
     Stay!Spec, Stay!DecisionsHold, ShortletDecisionKept
=============================================================================
