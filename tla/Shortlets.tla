----------------------------- MODULE Shortlets -----------------------------
(***************************************************************************)
(* Homes that residents let to guests: shortlet.service.ts and the hourly  *)
(* shortlet.scheduler.ts.  A property is registered for a year, a booking  *)
(* for a stay; when either is over only the scheduler says so.  It writes  *)
(* what it found some time ago, as requests do that judge a row they read. *)
(*                                                                         *)
(* The fee of a registration is charged in FacilityCharges.                *)
(***************************************************************************)
EXTENDS FiniteSets, Server

CONSTANTS
    Properties, Bookings,
    PropertyOf      \* the property of a booking

VARIABLES
    status,         \* ShortletProperty.status
    feePaid,        \* ShortletProperty.annualFeePaid
    yearOver,       \* properties whose expiresAt has passed
    booking,        \* ShortletBooking.status
    ended,          \* bookings whose checkOutDate has passed
    inside,         \* guests who, by ShortletAccessLog, entered last
    pc, subject,    \* a request: position, property or booking it is about,
    read,           \* and the status of the booking it has read
    cron,           \* position of the scheduler
    found,          \* bookings, then properties, it has yet to write
    overlapped      \* history: properties with two writers at once

rows    == <<status, feePaid, booking, inside>>
time    == <<yearOver, ended>>
request == <<pc, subject, read>>
hourly  == <<cron, found>>
vars    == <<rows, time, request, hourly, overlapped>>

TypeOK ==
    /\ status \in [Properties -> {"NONE", "ACTIVE", "SUSPENDED", "EXPIRED"}]
    /\ feePaid \subseteq Properties
    /\ yearOver \subseteq Properties
    /\ booking \in [Bookings -> {"NONE", "ACTIVE", "CHECKED_IN", "COMPLETED"}]
    /\ ended \subseteq Bookings
    /\ inside \subseteq Bookings
    /\ pc \in [Threads -> {"idle", "activate", "book", "ENTRY", "EXIT"}]
    /\ subject \in [Threads -> Properties \cup Bookings \cup {None}]
    /\ read \in [Threads -> {"ACTIVE", "CHECKED_IN", None}]
    /\ cron \in {"idle", "bookings", "properties"}
    /\ found \subseteq (IF cron = "properties" THEN Properties ELSE Bookings)
    /\ overlapped \subseteq Properties

Init ==
    /\ status = [p \in Properties |-> "NONE"]
    /\ feePaid = {}
    /\ yearOver = {}
    /\ booking = [k \in Bookings |-> "NONE"]
    /\ ended = {}
    /\ inside = {}
    /\ pc = [t \in Threads |-> "idle"]
    /\ subject = [t \in Threads |-> None]
    /\ read = [t \in Threads |-> None]
    /\ cron = "idle"
    /\ found = {}
    /\ overlapped = {}

(* Somebody is about to write the status of p. *)
BeingWritten(p) ==
    \/ \E t \in Threads : pc[t] = "activate" /\ subject[t] = p
    \/ cron = "properties" /\ p \in found

Touch(P) == overlapped' = overlapped \cup {p \in P : BeingWritten(p)}

Start(t, position, x, seen) ==
    /\ pc[t] = "idle"
    /\ pc' = [pc EXCEPT ![t] = position]
    /\ subject' = [subject EXCEPT ![t] = x]
    /\ read' = [read EXCEPT ![t] = seen]

Finish(t) ==
    /\ pc' = [pc EXCEPT ![t] = "idle"]
    /\ subject' = [subject EXCEPT ![t] = None]
    /\ read' = [read EXCEPT ![t] = None]

(* An exception or a restart, with nothing committed. *)
Fail(t) ==
    /\ pc[t] # "idle"
    /\ Finish(t)
    /\ UNCHANGED <<rows, time, hourly, overlapped>>

-----------------------------------------------------------------------------
(* Properties. *)

RegisterProperty(p) ==
    /\ status[p] = "NONE"
    /\ status' = [status EXCEPT ![p] = "ACTIVE"]
    /\ feePaid' = feePaid \cup {p}
    /\ UNCHANGED <<booking, inside, time, request, hourly, overlapped>>

(* validateActiveProperty, but for the status, which activation overrides. *)
Covered(p) == p \in feePaid /\ p \notin yearOver
Usable(p)  == status[p] = "ACTIVE" /\ Covered(p)

SuspendProperty(p) ==
    /\ status[p] # "NONE"
    /\ status' = [status EXCEPT ![p] = "SUSPENDED"]
    /\ Touch({p})
    /\ UNCHANGED <<feePaid, booking, inside, time, request, hourly>>

BeginActivate(t, p) ==
    /\ status[p] # "NONE"
    /\ Covered(p)
    /\ Start(t, "activate", p, None)
    /\ Touch({p})
    /\ UNCHANGED <<rows, time, hourly>>

CommitActivate(t) ==
    /\ pc[t] = "activate"
    /\ status' = [status EXCEPT ![subject[t]] = "ACTIVE"]
    /\ Finish(t)
    /\ UNCHANGED <<feePaid, booking, inside, time, hourly, overlapped>>

-----------------------------------------------------------------------------
(* Bookings.  Their dates are anybody's choice, past ones included. *)

BeginBooking(t, k) ==
    /\ booking[k] = "NONE" /\ \A u \in Threads : subject[u] # k
    /\ Usable(PropertyOf[k])
    /\ Start(t, "book", k, None)
    /\ UNCHANGED <<rows, time, hourly, overlapped>>

CommitBooking(t) ==
    /\ pc[t] = "book"
    /\ booking' = [booking EXCEPT ![subject[t]] = "ACTIVE"]
    /\ Finish(t)
    /\ UNCHANGED <<status, feePaid, inside, time, hourly, overlapped>>

(* verifyAccess *)
BeginAccess(t, k) ==
    /\ booking[k] \in {"ACTIVE", "CHECKED_IN"}
    /\ Usable(PropertyOf[k])
    /\ k \notin ended
    /\ \E type \in {"ENTRY", "EXIT"} : Start(t, type, k, booking[k])
    /\ UNCHANGED <<rows, time, hourly, overlapped>>

ChecksIn_Never(t) == FALSE
ChecksIn(t) == read[t] = "ACTIVE"

CommitEntry(t) ==
    /\ pc[t] = "ENTRY"
    /\ inside' = inside \cup {subject[t]}
    /\ booking' = IF ChecksIn(t) THEN [booking EXCEPT ![subject[t]] = "CHECKED_IN"]
                  ELSE booking
    /\ Finish(t)
    /\ UNCHANGED <<status, feePaid, time, hourly, overlapped>>

CommitExit(t) ==
    /\ pc[t] = "EXIT"
    /\ inside' = inside \ {subject[t]}
    /\ Finish(t)
    /\ UNCHANGED <<status, feePaid, booking, time, hourly, overlapped>>

-----------------------------------------------------------------------------
(* The scheduler.  It is one loop over the bookings and another over the   *)
(* properties; an exception in either ends both until the next hour.       *)

Open == {"ACTIVE", "CHECKED_IN"}

DueBookings == {k \in ended : booking[k] \in Open}

FindBookings ==
    /\ cron = "idle"
    /\ cron' = "bookings"
    /\ found' = DueBookings
    /\ UNCHANGED <<rows, time, request, overlapped>>

CompleteBooking(k) ==
    /\ cron = "bookings" /\ k \in found
    /\ booking' = [booking EXCEPT ![k] = "COMPLETED"]
    /\ found' = found \ {k}
    /\ UNCHANGED <<status, feePaid, inside, time, request, cron, overlapped>>

DueProperties_All == {p \in yearOver : status[p] # "NONE"}
DueProperties_Fresh == {p \in yearOver : status[p] = "ACTIVE" /\ p \in feePaid}
DueProperties == {p \in yearOver : status[p] = "ACTIVE"}

FindProperties ==
    /\ cron = "bookings" /\ found = {}
    /\ cron' = "properties"
    /\ found' = DueProperties
    /\ Touch(DueProperties)
    /\ UNCHANGED <<rows, time, request>>

ExpireProperty(p) ==
    /\ cron = "properties" /\ p \in found
    /\ status' = [status EXCEPT ![p] = "EXPIRED"]
    /\ feePaid' = feePaid \ {p}
    /\ found' = found \ {p}
    /\ UNCHANGED <<booking, inside, time, request, cron, overlapped>>

EndRun ==
    /\ \/ cron = "properties" /\ found = {}
       \/ cron # "idle"         \* an exception
    /\ cron' = "idle"
    /\ found' = {}
    /\ UNCHANGED <<rows, time, request, overlapped>>

-----------------------------------------------------------------------------

StayEnds(k) ==
    /\ k \notin ended
    /\ ended' = ended \cup {k}
    /\ UNCHANGED <<rows, yearOver, request, hourly, overlapped>>

YearEnds(p) ==
    /\ status[p] # "NONE" /\ p \notin yearOver
    /\ yearOver' = yearOver \cup {p}
    /\ UNCHANGED <<rows, ended, request, hourly, overlapped>>

Requests(t) ==
    \/ \E p \in Properties : BeginActivate(t, p)
    \/ \E k \in Bookings : BeginBooking(t, k) \/ BeginAccess(t, k)
    \/ CommitActivate(t) \/ CommitBooking(t) \/ CommitEntry(t) \/ CommitExit(t)
    \/ Fail(t)

Scheduler ==
    \/ FindBookings \/ FindProperties \/ EndRun
    \/ \E k \in Bookings : CompleteBooking(k)
    \/ \E p \in Properties : ExpireProperty(p)

Next ==
    \/ \E t \in Threads : Requests(t)
    \/ Scheduler
    \/ \E k \in Bookings : StayEnds(k)
    \/ \E p \in Properties : RegisterProperty(p) \/ SuspendProperty(p) \/ YearEnds(p)

Spec == Init /\ [][Next]_vars

(* The hour comes round, and no statement of the scheduler fails for ever. *)
(* Nothing is assumed of requests.                                         *)
Fairness ==
    /\ WF_vars(FindBookings)
    /\ SF_vars(FindProperties)
    /\ WF_vars(EndRun)
    /\ \A k \in Bookings : SF_vars(CompleteBooking(k))
    /\ \A p \in Properties : SF_vars(ExpireProperty(p))

FairSpec == Spec /\ Fairness

-----------------------------------------------------------------------------
(* Properties. *)

(* A guest who went in is shown as checked in until the stay is over, in   *)
(* whatever order scans and the scheduler are committed.                   *)
InsideIsCheckedIn == \A k \in inside \ ended : booking[k] = "CHECKED_IN"

(* The scheduler completes no stay that still lasts, whatever it found.    *)
CompletedIsOver == \A k \in Bookings : booking[k] = "COMPLETED" => k \in ended

(* shortlet.service.ts:268 "Property registration fee has not been paid":  *)
(* what is shown as active has been paid for, unless an activation         *)
(* overlapped the scheduler.                                               *)
ActiveIsPaid == \A p \in Properties \ overlapped :
    status[p] = "ACTIVE" => p \in feePaid

(* What bookings and properties are shown as is what they are.             *)
StatusIsTrue == InsideIsCheckedIn /\ CompletedIsOver /\ ActiveIsPaid

(* An administrator's suspension is not turned into anything but an        *)
(* activation, and what has expired is not activated, unless two writers   *)
(* of the property overlapped.                                             *)
DecisionsHold == [][\A p \in Properties \ overlapped' :
    /\ status[p] = "SUSPENDED" => status'[p] \in {"SUSPENDED", "ACTIVE"}
    /\ status[p] = "EXPIRED"   => status'[p] # "ACTIVE"]_vars

(* A stay that is over is completed and stays so, also when a guard scans  *)
(* the guest at the same time ...                                          *)
BookingsEnd == \A k \in Bookings :
    (k \in ended /\ booking[k] # "NONE") ~> [](booking[k] = "COMPLETED")

(* ... and a registration whose year is over does not stay active, also    *)
(* when an administrator activates it at the same time.                    *)
YearsEnd == \A p \in Properties :
    (p \in yearOver) ~> [](status[p] \in {"SUSPENDED", "EXPIRED"})

(* Together: what is over ends, and stays ended.                           *)
WhatIsOverEnds == BookingsEnd /\ YearsEnd
=============================================================================
