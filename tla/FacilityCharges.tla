-------------------------- MODULE FacilityCharges --------------------------
(***************************************************************************)
(* What a resident registers for a fee: vehicles (vehicle.service.ts),     *)
(* passes of heavy vehicles (heavy-vehicle.service.ts), businesses         *)
(* (business-hub.service.ts) and shortlets (shortlet.service.ts), of which *)
(* only the registration is here; Shortlets has the rest.                  *)
(*                                                                         *)
(* A row is judged as it was read before the transaction that charges the  *)
(* resident's wallet and updates the row; inside, the wallet is read,      *)
(* compared and decremented.  Items of one resident share the wallet and,  *)
(* when they are vehicles, the number of free ones.                        *)
(***************************************************************************)
EXTENDS Integers, FiniteSets, Server

CONSTANTS
    Items,          \* what the resident may register
    Residents,      \* what kinds of items they have, and what money
    Fee,            \* of every item
    FreeLimit,      \* EstateSettings.freeVehicleLimit
    MaxVisits       \* BusinessRegistration.maxVehiclesAllowed, per day

Kinds == {"vehicle", "pass", "business", "shortlet"}

ASSUME FeeAssumption ==
    Fee \in Nat \ {0} /\ FreeLimit \in Nat /\ MaxVisits \in Nat
ASSUME ThreadsAssumption == IsFiniteSet(Threads) /\ Threads # {}
ASSUME ItemsAssumption == IsFiniteSet(Items) /\ None \notin Items
ASSUME ResidentsAssumption ==
    Residents \subseteq [kind : [Items -> Kinds \cup {None}], balance : Nat]

VARIABLES
    kind,           \* what an item is, or None; never changes
    status,         \* Vehicle.status, HeavyVehiclePass.status,
                    \* BusinessRegistration.registrationStatus
    payment,        \* paymentStatus of passes and businesses
    over,           \* businesses whose expiresAt has passed
    plates, others, \* today's BusinessAccessLog rows of a business: different
                    \* vehicles, and visitors whose vehicle is not named
    balance,        \* Wallet.balance
    charged,        \* history: items whose fee was ever charged
    due,            \* history: items whose fee is to be paid, maybe again
    twice,          \* history: items charged while it was not
    free,           \* history: vehicles last approved without a charge
    overlapped,     \* history: items two requests were about at once
    pc, item        \* a request: position and argument

day     == <<plates, others>>
rows    == <<kind, status, payment, over, day>>
history == <<charged, due, twice, free>>
request == <<pc, item>>
vars    == <<rows, balance, history, overlapped, request>>

Statuses  == {"NONE", "PENDING", "APPROVED", "ACTIVE", "REJECTED",
              "PAYMENT_FAILED", "PENDING_PAYMENT", "SUSPENDED", "EXPIRED"}
Payments  == {"NONE", "PENDING", "UNPAID", "PAID", "FAILED", "EXPIRED"}
Positions == {"idle", "approve", "wallet", "charge", "free", "refuse",
              "resubmit", "approvePass", "activate", "expire",
              "plate", "other"}

Init ==
    /\ \E r \in Residents : kind = r.kind /\ balance = r.balance
    /\ status = [i \in Items |-> "NONE"]
    /\ payment = [i \in Items |-> "NONE"]
    /\ over = {}
    /\ plates = [i \in Items |-> 0]
    /\ others = [i \in Items |-> 0]
    /\ charged = {}
    /\ due = Items
    /\ twice = {}
    /\ free = {}
    /\ overlapped = {}
    /\ pc = [t \in Threads |-> "idle"]
    /\ item = [t \in Threads |-> None]

Claimed(i) == \E t \in Threads : item[t] = i

(* A request begins to concern an item. *)
Touch(i) == overlapped' = IF Claimed(i) THEN overlapped \cup {i} ELSE overlapped

Start(t, i, position) ==
    /\ pc[t] = "idle"
    /\ pc' = [pc EXCEPT ![t] = position]
    /\ item' = [item EXCEPT ![t] = i]
    /\ Touch(i)

GoTo(t, position) ==
    /\ pc' = [pc EXCEPT ![t] = position]
    /\ UNCHANGED <<item, overlapped>>

Leave(t) ==
    /\ pc' = [pc EXCEPT ![t] = "idle"]
    /\ item' = [item EXCEPT ![t] = None]
    /\ UNCHANGED overlapped

SetStatus(i, s)  == status' = [status EXCEPT ![i] = s]
SetPayment(i, p) == payment' = [payment EXCEPT ![i] = p]

(* An exception, an aborted transaction, a crash: every handler here has   *)
(* committed nothing before its last step.                                 *)
Fail(t) ==
    /\ pc[t] # "idle"
    /\ Leave(t)
    /\ UNCHANGED <<rows, balance, history>>

-----------------------------------------------------------------------------
(* Registering without paying.  A business may be registered only while    *)
(* the hub is enabled, which is left open.                                 *)
CreateVehicle(i) ==
    kind[i] = "vehicle" /\ SetStatus(i, "PENDING") /\ SetPayment(i, "NONE")

CreatePass(i) ==
    kind[i] = "pass" /\ SetStatus(i, "PENDING") /\ SetPayment(i, "PENDING")

RegisterBusiness(i) ==
    /\ kind[i] = "business"
    /\ SetStatus(i, "PENDING_PAYMENT") /\ SetPayment(i, "UNPAID")

Register(i) ==
    /\ status[i] = "NONE" /\ ~Claimed(i)
    /\ CreateVehicle(i) \/ CreatePass(i) \/ RegisterBusiness(i)
    /\ UNCHANGED <<kind, over, day, balance, history, overlapped, request>>

(* createPass with PAY_NOW, registerBusiness with payNow, registerProperty. *)
RegisterAndPay(t, i) ==
    /\ kind[i] \in {"pass", "business", "shortlet"}
    /\ status[i] = "NONE" /\ ~Claimed(i)
    /\ Start(t, i, "wallet")
    /\ UNCHANGED <<rows, balance, history>>

-----------------------------------------------------------------------------
(* Vehicles. *)

Approvable_Again(i) == status[i] \in {"PENDING", "PAYMENT_FAILED", "ACTIVE"}
Approvable(i) == status[i] \in {"PENDING", "PAYMENT_FAILED"}

BeginApproval(t, i) ==
    /\ kind[i] = "vehicle"
    /\ Approvable(i)
    /\ Start(t, i, "approve")
    /\ UNCHANGED <<rows, balance, history>>

ActiveVehicles == {i \in Items : kind[i] = "vehicle" /\ status[i] = "ACTIVE"}

(* The limit itself is still free. *)
ShouldCharge_Beyond == Cardinality(ActiveVehicles) > FreeLimit + 2
ShouldCharge == Cardinality(ActiveVehicles) > FreeLimit

CountActive(t) ==
    /\ pc[t] = "approve"
    /\ GoTo(t, IF ShouldCharge THEN "wallet" ELSE "free")
    /\ UNCHANGED <<rows, balance, history>>

ApproveFree(t) ==
    /\ pc[t] = "free"
    /\ SetStatus(item[t], "ACTIVE")
    /\ free' = free \cup {item[t]}
    /\ Leave(t)
    /\ UNCHANGED <<kind, payment, over, day, balance, charged, due, twice>>

(* Whatever the vehicle's status; what was paid is not given back. *)
RejectVehicle(i) ==
    /\ kind[i] = "vehicle"
    /\ status[i] # "NONE"
    /\ SetStatus(i, "REJECTED")
    /\ due' = due \cup {i}
    /\ Touch(i)
    /\ UNCHANGED <<kind, payment, over, day, balance, charged, twice, free, request>>

SuspendVehicle(i) == kind[i] = "vehicle" /\ status[i] # "NONE"

SuspendRegistration(i) == kind[i] = "business" /\ status[i] # "NONE"

Suspend(i) ==
    /\ SuspendVehicle(i) \/ SuspendRegistration(i)
    /\ SetStatus(i, "SUSPENDED")
    /\ Touch(i)
    /\ UNCHANGED <<kind, payment, over, day, balance, history, request>>

BeginResubmit(t, i) ==
    /\ kind[i] = "vehicle"
    /\ status[i] \in {"REJECTED", "PAYMENT_FAILED"}
    /\ Start(t, i, "resubmit")
    /\ UNCHANGED <<rows, balance, history>>

CommitResubmit(t) ==
    /\ pc[t] = "resubmit"
    /\ SetStatus(item[t], "PENDING")
    /\ Leave(t)
    /\ UNCHANGED <<kind, payment, over, day, balance, history>>

-----------------------------------------------------------------------------
(* The charge: approveVehicle, chargePassWallet, payRegistration. *)

(* retryPayment asks only for the payment, payRegistration also refuses a  *)
(* suspended business, and one that is active when it is paid.             *)
Payable_Suspended(i) ==
    \/ kind[i] = "pass" /\ status[i] # "NONE" /\ payment[i] # "PAID"
    \/ /\ kind[i] = "business"
       /\ status[i] # "NONE"
       /\ ~(payment[i] = "PAID" /\ status[i] = "ACTIVE")

Payable(i) ==
    \/ kind[i] = "pass" /\ status[i] # "NONE" /\ payment[i] # "PAID"
    \/ /\ kind[i] = "business"
       /\ status[i] \notin {"NONE", "SUSPENDED"}
       /\ ~(payment[i] = "PAID" /\ status[i] = "ACTIVE")

BeginPayment(t, i) ==
    /\ Payable(i)
    /\ Start(t, i, "wallet")
    /\ UNCHANGED <<rows, balance, history>>

HasFunds == balance >= Fee

(* Too little money is recorded for a vehicle and for a pass that exists;  *)
(* elsewhere it aborts the transaction, the record of it included.         *)
RecordsRefusal(i) == kind[i] \in {"vehicle", "pass"} /\ status[i] # "NONE"

ReadWallet(t) ==
    /\ pc[t] = "wallet"
    /\ \/ HasFunds /\ GoTo(t, "charge")
       \/ ~HasFunds /\ RecordsRefusal(item[t]) /\ GoTo(t, "refuse")
       \/ ~HasFunds /\ ~RecordsRefusal(item[t]) /\ Leave(t)
    /\ UNCHANGED <<rows, balance, history>>

RefusedPayment_Paid == "PAID"
RefusedPayment == "FAILED"

RefuseVehicle(i) ==
    kind[i] = "vehicle" /\ SetStatus(i, "PAYMENT_FAILED") /\ UNCHANGED payment

RefusePass(i) ==
    kind[i] # "vehicle" /\ SetPayment(i, RefusedPayment) /\ UNCHANGED status

CommitRefusal(t) ==
    /\ pc[t] = "refuse"
    /\ RefuseVehicle(item[t]) \/ RefusePass(item[t])
    /\ Leave(t)
    /\ UNCHANGED <<kind, over, day, balance, history>>

ChargedStatus(i) == IF kind[i] # "pass" THEN "ACTIVE"
                    ELSE IF status[i] = "NONE" THEN "PENDING" ELSE status[i]

PaidStatus == "PAID"

ChargeWallet(i) ==
    /\ balance' = balance - Fee
    /\ charged' = charged \cup {i}
    /\ due' = due \ {i}
    /\ twice' = IF i \in due THEN twice ELSE twice \cup {i}

CommitCharge(t) ==
    LET i == item[t] IN
    /\ pc[t] = "charge"
    /\ ChargeWallet(i)
    /\ SetStatus(i, ChargedStatus(i))
    /\ IF kind[i] = "vehicle" THEN UNCHANGED payment ELSE SetPayment(i, PaidStatus)
    /\ over' = over \ {i}
    /\ free' = free \ {i}
    /\ Leave(t)
    /\ UNCHANGED <<kind, day>>

-----------------------------------------------------------------------------
(* Passes. *)

BeginApprovePass(t, i) ==
    /\ kind[i] = "pass"
    /\ status[i] = "PENDING"
    /\ Start(t, i, "approvePass")
    /\ UNCHANGED <<rows, balance, history>>

CommitApprovePass(t) ==
    /\ pc[t] = "approvePass"
    /\ SetStatus(item[t], "APPROVED")
    /\ Leave(t)
    /\ UNCHANGED <<kind, payment, over, day, balance, history>>

RejectPass(i) ==
    /\ kind[i] = "pass"
    /\ status[i] # "NONE"
    /\ SetStatus(i, "REJECTED")
    /\ Touch(i)
    /\ UNCHANGED <<kind, payment, over, day, balance, history, request>>

-----------------------------------------------------------------------------
(* Businesses. *)

Activatable(i) == payment[i] = "PAID" /\ i \notin over

BeginActivate(t, i) ==
    /\ kind[i] = "business"
    /\ status[i] # "NONE"
    /\ Activatable(i)
    /\ Start(t, i, "activate")
    /\ UNCHANGED <<rows, balance, history>>

CommitActivate(t) ==
    /\ pc[t] = "activate"
    /\ SetStatus(item[t], "ACTIVE")
    /\ Leave(t)
    /\ UNCHANGED <<kind, payment, over, day, balance, history>>

(* Time passes expiresAt ... *)
PeriodEnds(i) ==
    /\ kind[i] = "business"
    /\ payment[i] = "PAID"
    /\ i \notin over
    /\ over' = over \cup {i}
    /\ UNCHANGED <<kind, status, payment, day, balance, history, overlapped,
                   request>>

(* ... and verifyPass finds out, at the next visit of a guest. *)
FoundExpired(i) == i \in over

BeginVerify(t, i) ==
    /\ kind[i] = "business"
    /\ status[i] = "ACTIVE" /\ payment[i] = "PAID"
    /\ FoundExpired(i)
    /\ Start(t, i, "expire")
    /\ UNCHANGED <<rows, balance, history>>

MarkExpired(t) ==
    LET i == item[t] IN
    /\ pc[t] = "expire"
    /\ SetStatus(i, "EXPIRED")
    /\ SetPayment(i, "EXPIRED")
    /\ due' = due \cup {i}
    /\ Leave(t)
    /\ UNCHANGED <<kind, over, day, balance, charged, twice, free>>

(* A visitor of a business that is open.  One in a vehicle that has not    *)
(* been there today is counted with such vehicles, one whose vehicle is    *)
(* not named with all the visits of the day; a vehicle that comes again is *)
(* let in, which only leaves less to the others.                           *)
PlatesLeft(i) == plates[i] < MaxVisits
VisitsLeft(i) == plates[i] + others[i] < MaxVisits

BeginVisit(t, i) ==
    /\ kind[i] = "business"
    /\ status[i] = "ACTIVE" /\ payment[i] = "PAID" /\ i \notin over
    /\ \/ PlatesLeft(i) /\ Start(t, i, "plate")
       \/ VisitsLeft(i) /\ Start(t, i, "other")
    /\ UNCHANGED <<rows, balance, history>>

LogVisit(t) ==
    LET Log(count) == [count EXCEPT ![item[t]] = @ + 1] IN
    /\ \/ pc[t] = "plate" /\ plates' = Log(plates) /\ UNCHANGED others
       \/ pc[t] = "other" /\ others' = Log(others) /\ UNCHANGED plates
    /\ Leave(t)
    /\ UNCHANGED <<kind, status, payment, over, balance, history>>

NewDay ==
    /\ plates' = [i \in Items |-> 0]
    /\ others' = [i \in Items |-> 0]
    /\ UNCHANGED <<kind, status, payment, over, balance, history, overlapped,
                   request>>

-----------------------------------------------------------------------------

Begin(t, i) ==
    \/ RegisterAndPay(t, i) \/ BeginApproval(t, i) \/ BeginResubmit(t, i)
    \/ BeginPayment(t, i) \/ BeginApprovePass(t, i) \/ BeginActivate(t, i)
    \/ BeginVerify(t, i) \/ BeginVisit(t, i)

Continue(t) ==
    \/ CountActive(t) \/ ApproveFree(t) \/ CommitResubmit(t)
    \/ ReadWallet(t) \/ CommitRefusal(t) \/ CommitCharge(t)
    \/ CommitApprovePass(t) \/ CommitActivate(t) \/ MarkExpired(t)
    \/ LogVisit(t) \/ Fail(t)

Next ==
    \/ \E i \in Items : \/ Register(i) \/ RejectVehicle(i) \/ Suspend(i)
                        \/ RejectPass(i) \/ PeriodEnds(i)
    \/ \E t \in Threads, i \in Items : Begin(t, i)
    \/ \E t \in Threads : Continue(t)
    \/ NewDay

Spec == Init /\ [][Next]_vars

-----------------------------------------------------------------------------
(* Properties. *)

TypeOK ==
    /\ kind \in [Items -> Kinds \cup {None}]
    /\ status \in [Items -> Statuses]
    /\ payment \in [Items -> Payments]
    /\ over \subseteq Items
    /\ plates \in [Items -> Nat]
    /\ others \in [Items -> Nat]
    /\ balance \in Int
    /\ charged \subseteq Items
    /\ due \subseteq Items
    /\ twice \subseteq charged
    /\ free \subseteq Items
    /\ overlapped \subseteq Items
    /\ pc \in [Threads -> Positions]
    /\ item \in [Threads -> Items \cup {None}]

(* vehicle.service.ts:272 "Vehicle is not awaiting approval",              *)
(* heavy-vehicle.service.ts:241 "has already been paid",                   *)
(* business-hub.service.ts:323 "Already Paid": a fee is charged once each  *)
(* time it falls due (a pass once, a vehicle again after a rejection, a    *)
(* business again after its period), unless two requests about the item    *)
(* overlapped, which judge the same row.                                   *)
FeeChargedOnce == twice \subseteq overlapped

(* Nobody is shown as having paid who was not charged, under any overlap;  *)
(* without one nobody was charged for a pass that is shown as unpaid.      *)
PaidIsCharged == \A i \in Items :
    /\ payment[i] = "PAID" => i \in charged
    /\ kind[i] = "pass" /\ i \notin overlapped
          => (i \in charged <=> payment[i] = "PAID")

(* Active vehicles are counted in the transaction that approves another,   *)
(* which does not keep two approvals from counting the same: one more than *)
(* the limit is free, and one more for every other request in flight.      *)
FreeNow == {i \in free : status[i] = "ACTIVE"}
Freeing == {t \in Threads : pc[t] = "free"}

FreeVehiclesBounded ==
    Cardinality(FreeNow \cup {item[t] : t \in Freeing})
        <= FreeLimit + Cardinality(Threads)

(* The wallet is compared, then decremented: it is overdrawn by at most    *)
(* one fee for every other request in flight.                              *)
Charging == {t \in Threads : pc[t] = "charge"}

OverdraftBounded ==
    balance - Cardinality(Charging) * Fee >= -(Cardinality(Threads) - 1) * Fee

(* business-hub.service.ts:610 "Business vehicle limit reached": vehicles,  *)
(* and visitors who name none, each pass the limit of a day by at most one *)
(* for every other guard.                                                  *)
At(position, i) == {t \in Threads : pc[t] = position /\ item[t] = i}

VisitsBounded == \A i \in Items :
    LET most == MaxVisits + Cardinality(Threads) - 1 IN
    /\ plates[i] + Cardinality(At("plate", i)) <= most
    /\ others[i] + Cardinality(At("other", i)) <= most

(* A business that is shown as expired is: a renewal is not undone by a    *)
(* guard who saw the old period, unless the two overlapped.                *)
PaidPeriodIsServed == \A i \in Items \ overlapped :
    status[i] = "EXPIRED" => i \in over

(* What no request checks under a lock, the number of free vehicles, the   *)
(* wallet and the visits of a day, passes its limit by what is in flight.  *)
LimitsBounded == FreeVehiclesBounded /\ OverdraftBounded /\ VisitsBounded

(* The payment shown is the payment made, and lasts as long as was paid.   *)
PaymentIsTrue == PaidIsCharged /\ PaidPeriodIsServed

(* What an administrator decided stays decided, unless requests about the  *)
(* item overlapped: a suspended business comes back only while it is paid  *)
(* for, a suspended vehicle only by way of a rejection, a rejected pass    *)
(* never.                                                                  *)
DecisionsHold == [][\A i \in Items \ overlapped' :
    /\ kind[i] = "business" /\ status[i] = "SUSPENDED" /\ status'[i] # "SUSPENDED"
          => payment[i] = "PAID" /\ balance' = balance
    /\ kind[i] = "vehicle" /\ status[i] = "SUSPENDED"
          => status'[i] \in {"SUSPENDED", "REJECTED"}
    /\ kind[i] = "pass" /\ status[i] = "REJECTED" => status'[i] = "REJECTED"
    ]_vars
=============================================================================
