--------------------------- MODULE LevyClearance ---------------------------
(***************************************************************************)
(* Resident.levyCleared: whether a resident is barred from the app for     *)
(* unpaid levies.                                                          *)
(*                                                                         *)
(* The flag is derived data that many handlers recompute without a lock:   *)
(* levy payments and levy creation and a five-minute cron (finance.service *)
(* updateResidentLevyCleared), login (auth.service), KYC (resident.service)*)
(* and the RolesGuard of every resident request, which alone honours the   *)
(* estate's applyKycLevyGracePeriod.  poll.service reads the stored flag.  *)
(***************************************************************************)
EXTENDS Integers, FiniteSets, Server

CONSTANTS
    Levies,         \* levies the administration may create, each with the
                    \* resident's assignment; monthly levies are not counted
    Grace,          \* 24 hours
    GraceSettings,  \* values applyKycLevyGracePeriod takes
    MaxTime,        \* bound on the clock
    MaxChanges      \* bound on changes of due dates and of the setting

VARIABLES
    now,            \* the clock
    approvedAt,     \* Resident.approvedAt, set with kycStatus COMPLETED
    graceOn,        \* EstateSettings.applyKycLevyGracePeriod
    due,            \* Levy.dueDate
    bill,           \* LevyAssignment.status: PAID or not
    cleared,        \* Resident.levyCleared
    changes,        \* how many changes MaxChanges has counted
    overlapped,     \* history: a request was handled during another one
    pc, levy,       \* a request: position, levy it pays
    at, verdict, snap   \* its clock, the flag it computed, the flag it read

world   == <<now, approvedAt, graceOn, due, bill, changes>>
request == <<pc, levy, at, verdict, snap>>
vars    == <<world, cleared, overlapped, request>>

Times     == 0..MaxTime
Positions == {"idle", "reconcile", "query", "write", "pay",
              "guard", "guardQuery", "guardWrite"}

Init ==
    /\ now = 0
    /\ approvedAt = None
    /\ graceOn \in GraceSettings
    /\ due = [l \in Levies |-> 0]
    /\ bill = [l \in Levies |-> "NONE"]
    /\ cleared = FALSE
    /\ changes = 0
    /\ overlapped = FALSE
    /\ pc = [t \in Threads |-> "idle"]
    /\ levy = [t \in Threads |-> None]
    /\ at = [t \in Threads |-> 0]
    /\ verdict = [t \in Threads |-> TRUE]
    /\ snap = [t \in Threads |-> TRUE]

GoTo(t, position) ==
    /\ pc' = [pc EXCEPT ![t] = position]
    /\ UNCHANGED overlapped

Overlap == overlapped' = (overlapped \/ \E t \in Threads : pc[t] # "idle")

Start(t, position) ==
    /\ pc[t] = "idle"
    /\ pc' = [pc EXCEPT ![t] = position]
    /\ Overlap

Leave(t) ==
    /\ pc' = [pc EXCEPT ![t] = "idle"]
    /\ UNCHANGED overlapped
    /\ levy' = [levy EXCEPT ![t] = None]
    /\ at' = [at EXCEPT ![t] = 0]
    /\ verdict' = [verdict EXCEPT ![t] = TRUE]
    /\ snap' = [snap EXCEPT ![t] = TRUE]

Fail(t) ==
    /\ pc[t] # "idle"
    /\ Leave(t)
    /\ UNCHANGED <<world, cleared>>

Tick ==
    /\ now < MaxTime
    /\ now' = now + 1
    /\ UNCHANGED <<approvedAt, graceOn, due, bill, changes, cleared,
                   overlapped, request>>

-----------------------------------------------------------------------------
(* Handlers that write once. *)

(* reviewResident approves; bounded so that the grace period ends in time. *)
ReviewResident ==
    /\ Overlap
    /\ approvedAt = None
    /\ now + Grace <= MaxTime
    /\ approvedAt' = now
    /\ cleared' = TRUE
    /\ UNCHANGED <<now, graceOn, due, bill, changes, request>>

(* verifyNinOnly may be repeated: it keeps approvedAt and sets the flag.   *)
VerifyNin ==
    /\ Overlap
    /\ approvedAt # None \/ now + Grace <= MaxTime
    /\ approvedAt' = IF approvedAt = None THEN now ELSE approvedAt
    /\ cleared' = TRUE
    /\ UNCHANGED <<now, graceOn, due, bill, changes, request>>

(* updateLevy moves the due date and recomputes nobody's flag. *)
UpdateLevy(l) ==
    /\ Overlap
    /\ bill[l] # "NONE"
    /\ changes < MaxChanges
    /\ changes' = changes + 1
    /\ \E d \in Times : due' = [due EXCEPT ![l] = d]
    /\ UNCHANGED <<now, approvedAt, graceOn, bill, cleared, request>>

UpdateSettings ==
    /\ Overlap
    /\ changes < MaxChanges
    /\ changes' = changes + 1
    /\ graceOn' \in GraceSettings
    /\ UNCHANGED <<now, approvedAt, due, bill, cleared, request>>

-----------------------------------------------------------------------------
(* updateResidentLevyCleared and its copy in auth.service: read the        *)
(* resident, look for an overdue levy, write the flag.                     *)

Enforced_Never(time) == FALSE
Enforced(time) == approvedAt # None /\ time >= approvedAt + Grace

IsDue_Created(l, time) == TRUE
IsDue(l, time) == due[l] <= time

Overdue(paying, time) ==
    \E l \in Levies \ {paying} : bill[l] = "UNPAID" /\ IsDue(l, time)

(* createLevy commits levy and assignment, then reconciles. *)
CreateLevy(t, l) ==
    /\ bill[l] = "NONE"
    /\ bill' = [bill EXCEPT ![l] = "UNPAID"]
    /\ \E d \in Times : due' = [due EXCEPT ![l] = d]
    /\ Start(t, "reconcile")
    /\ UNCHANGED <<now, approvedAt, graceOn, changes, cleared,
                   levy, at, verdict, snap>>

(* The cron takes approved residents ... *)
Cron(t) ==
    /\ approvedAt # None
    /\ Start(t, "reconcile")
    /\ UNCHANGED <<world, cleared, levy, at, verdict, snap>>

(* ... and login reconciles whoever logs in. *)
Login(t) ==
    /\ Start(t, "reconcile")
    /\ UNCHANGED <<world, cleared, levy, at, verdict, snap>>

ReadResident(t) ==
    /\ pc[t] = "reconcile"
    /\ at' = [at EXCEPT ![t] = now]
    /\ GoTo(t, IF Enforced(now) THEN "query" ELSE "write")
    /\ UNCHANGED <<world, cleared, levy, verdict, snap>>

QueryOverdue(t) ==
    /\ \/ pc[t] = "query" /\ GoTo(t, "write")
       \/ pc[t] = "guardQuery" /\ GoTo(t, "guardWrite")
    /\ verdict' = [verdict EXCEPT ![t] = ~Overdue(None, at[t])]
    /\ UNCHANGED <<world, cleared, levy, at, snap>>

WriteFlag(t) ==
    /\ pc[t] = "write"
    /\ cleared' = verdict[t]
    /\ Leave(t)
    /\ UNCHANGED world

(* A payment that completes a levy: PAID and the flag are one transaction, *)
(* which does not see what other transactions have not committed yet.      *)
PaidFlag(t) == verdict[t]

PaidBill == "PAID"

BeginPayment(t, l) ==
    /\ bill[l] = "UNPAID"
    /\ levy' = [levy EXCEPT ![t] = l]
    /\ at' = [at EXCEPT ![t] = now]
    /\ verdict' = [verdict EXCEPT ![t] = Enforced(now) => ~Overdue(l, now)]
    /\ Start(t, "pay")
    /\ UNCHANGED <<world, cleared, snap>>

CommitPayment(t) ==
    /\ pc[t] = "pay"
    /\ bill' = [bill EXCEPT ![levy[t]] = PaidBill]
    /\ cleared' = PaidFlag(t)
    /\ Leave(t)
    /\ UNCHANGED <<now, approvedAt, graceOn, due, changes>>

-----------------------------------------------------------------------------
(* RolesGuard.canActivate on a route that is not exempt. *)

GuardReadsResident(t) ==
    /\ approvedAt # None
    /\ snap' = [snap EXCEPT ![t] = cleared]
    /\ Start(t, "guard")
    /\ UNCHANGED <<world, cleared, levy, at, verdict>>

GuardReadsSettings(t) ==
    /\ pc[t] = "guard"
    /\ at' = [at EXCEPT ![t] = now]
    /\ GoTo(t, IF graceOn /\ now < approvedAt + Grace
               THEN "guardWrite" ELSE "guardQuery")
    /\ UNCHANGED <<world, cleared, levy, verdict, snap>>

(* The flag is written only when it differs from the one read at the start;*)
(* the request is let through, or refused, whatever the stored flag.       *)
GuardWritesFlag(t) ==
    /\ pc[t] = "guardWrite"
    /\ cleared' = IF snap[t] # verdict[t] THEN verdict[t] ELSE cleared
    /\ Leave(t)
    /\ UNCHANGED world

-----------------------------------------------------------------------------

Continue(t) ==
    \/ ReadResident(t) \/ QueryOverdue(t) \/ WriteFlag(t)
    \/ CommitPayment(t)
    \/ GuardReadsSettings(t) \/ GuardWritesFlag(t)
    \/ Fail(t)

Next ==
    \/ Tick
    \/ ReviewResident \/ VerifyNin \/ UpdateSettings
    \/ \E l \in Levies : UpdateLevy(l)
    \/ \E t \in Threads, l \in Levies : CreateLevy(t, l) \/ BeginPayment(t, l)
    \/ \E t \in Threads :
          Cron(t) \/ Login(t) \/ GuardReadsResident(t) \/ Continue(t)

Spec == Init /\ [][Next]_vars

(* Requests go on or end, the cron comes round whatever else is served,    *)
(* and reconciliation does not fail for ever at its last statement.        *)
Fairness ==
    /\ \A t \in Threads : WF_vars(Continue(t))
    /\ SF_vars(\E t \in Threads : Cron(t))
    /\ SF_vars(\E t \in Threads : ReadResident(t))
    /\ SF_vars(\E t \in Threads : QueryOverdue(t) /\ pc[t] = "query")
    /\ SF_vars(\E t \in Threads : WriteFlag(t))
    /\ WF_vars(Tick)

FairSpec == Spec /\ Fairness

-----------------------------------------------------------------------------
(* Properties. *)

TypeOK ==
    /\ now \in Times
    /\ approvedAt \in Times \cup {None}
    /\ graceOn \in GraceSettings
    /\ due \in [Levies -> Times]
    /\ bill \in [Levies -> {"NONE", "UNPAID", "PAID"}]
    /\ cleared \in BOOLEAN
    /\ changes \in 0..MaxChanges
    /\ overlapped \in BOOLEAN
    /\ pc \in [Threads -> Positions]
    /\ levy \in [Threads -> Levies \cup {None}]
    /\ at \in [Threads -> Times]
    /\ verdict \in [Threads -> BOOLEAN]
    /\ snap \in [Threads -> BOOLEAN]

(* The rule: a resident is restricted for an unpaid levy of the            *)
(* administration that is due, from approval on, or from the end of the    *)
(* grace period where the estate grants one.                               *)
Restricted(time) ==
    /\ approvedAt # None
    /\ graceOn => time >= approvedAt + Grace
    /\ \E l \in Levies : bill[l] = "UNPAID" /\ due[l] <= time

Unpaid == {l \in Levies : bill[l] = "UNPAID"}

(* docs/monthly-resident-levy-changes.md:112 "Resident levyCleared becomes *)
(* true if no unpaid levies remain": when no request is under way, an      *)
(* approved resident who owes nothing is cleared, unless requests have     *)
(* overlapped: two payments that do not see each other leave the flag off. *)
PaidUpIsCleared ==
    /\ ~overlapped /\ \A t \in Threads : pc[t] = "idle"
    /\ approvedAt # None /\ Unpaid = {}
    => cleared

(* Nobody loses the flag without cause: a request that takes it away found *)
(* the resident restricted at the time it looked, unless requests have     *)
(* overlapped.                                                             *)
FlaggedForCause ==
    cleared /\ ~cleared' /\ ~overlapped
        => \E t \in Threads : Restricted(at[t])

(* The flag goes on when it must and off only for cause.                   *)
FlagIsTrue == [][(TypeOK /\ PaidUpIsCleared)' /\ FlaggedForCause]_vars

(* Whatever made the flag stale, it is corrected: the cron comes round.    *)
Stale == approvedAt # None /\ cleared = Restricted(now)

StaleFlagIsCorrected == Stale ~> ~Stale
=============================================================================
