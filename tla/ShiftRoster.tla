----------------------------- MODULE ShiftRoster -----------------------------
(***************************************************************************)
(* Who guards when: the roster of src/apis/guard/guard.service.ts, the     *)
(* swaps of src/apis/shift-swap and the attendance score of                *)
(* src/apis/performance.                                                   *)
(*                                                                         *)
(* Administrators assign shifts or generate a week of them, guards clock   *)
(* in and out and ask to swap shifts.  Of these only the approval of a     *)
(* swap is a transaction.                                                  *)
(*                                                                         *)
(* The operations fall into families.  Init picks a scope: the families a  *)
(* behaviour uses, the active guards, shifts and pending swap requests it  *)
(* starts from and how many rows it may create, so that a run explores     *)
(* each combination it names and not their product.  A scope of all        *)
(* families leaves nothing out.                                            *)
(***************************************************************************)
EXTENDS Integers, FiniteSets, Sequences, Server

CONSTANTS
    Guards,         \* numbered in the order their accounts were created
    MaxShifts,      \* bound on the shifts ever created
    MaxSwaps,       \* bound on the swap requests ever made
    Scopes          \* the combinations of families to explore

AllFamilies == {"staff", "week", "day", "duty", "ask", "approve", "refuse"}
Shifts == 1..MaxShifts
Swaps  == 1..MaxSwaps

ASSUME GuardsAssumption == Guards \subseteq Nat /\ IsFiniteSet(Guards)
ASSUME BoundsAssumption == MaxShifts \in Nat /\ MaxSwaps \in Nat
ASSUME ScopesAssumption ==
    \A sc \in Scopes :
        /\ sc \in [families : SUBSET AllFamilies,
                   active : SUBSET Guards, roster : Seq(Guards),
                   asked : Seq(Shifts \X Shifts),
                   shifts : 0..MaxShifts, swaps : 0..MaxSwaps]
        /\ Len(sc.roster) <= sc.shifts
        /\ Len(sc.asked) <= sc.swaps
        /\ \A i \in DOMAIN sc.asked, j \in {1, 2} :
              sc.asked[i][j] <= Len(sc.roster)
ASSUME NoneAssumption == None \notin Guards

VARIABLES
    scope,          \* the families and bounds of this behaviour
    active,         \* Guard.is_active
    created,        \* number of GuardShift rows ever created
    owner,          \* GuardShift.guardId, None when there is no such row
    past,           \* shifts whose shiftDate is before today
    duty,           \* GuardShift.status
    attended,       \* GuardAttendance.guardId of the shift, None without a row
    left,           \* shifts whose attendance has a clockOutAt
    swap,           \* ShiftSwapRequest rows
    pc, job,        \* a request: position, arguments and what it has read
    exchanges,      \* history: how often a swap request exchanged its shifts
    mixed,          \* history: shifts two requests were about at a time, or
                    \* whose clocking was cut between its two writes
    contested,      \* history: swap requests two decisions were about at a time
    outdated,       \* history: pending requests whose shifts another one moved
    handedOver,     \* history: shifts exchanged after they were attended
    week, byHand,   \* history: shifts of the last generated week, assigned ones
    spoiled         \* history: two generations overlapped, or one was cut

roster   == <<active, created, owner, past, duty, attended, left>>
request  == <<pc, job>>
swapping == <<exchanges, contested, outdated, handedOver>>
weekly   == <<week, byHand, spoiled>>
vars     == <<scope, roster, swap, request, swapping, mixed, weekly>>

Duties    == {"SCHEDULED", "ONGOING", "COMPLETED"}
Decisions == {"NONE", "PENDING", "APPROVED", "REJECTED", "CANCELLED", "GONE"}
Positions == {"idle", "clearWeek", "createWeek", "markIn", "recordIn",
              "markOut", "recordOut", "createSwap", "readFrom",
              "readTo", "exchange", "refuse"}

NoSwap == [status |-> "NONE", requester |-> None, target |-> None,
           from |-> 0, to |-> 0]
NoJob  == [guard |-> None, shift |-> 0, other |-> 0, target |-> None,
           swap |-> 0, first |-> None, second |-> None, seen |-> {},
           verdict |-> "NONE"]

Exists(s)   == owner[s] # None
Upcoming(s) == Exists(s) /\ s \notin past
Held(g)     == {s \in Shifts : owner[s] = g}

Init ==
    /\ scope \in Scopes
    /\ active = scope.active
    /\ created = Len(scope.roster)
    /\ owner = [s \in Shifts |->
                  IF s <= created THEN scope.roster[s] ELSE None]
    /\ past = {}
    /\ duty = [s \in Shifts |-> "SCHEDULED"]
    /\ attended = [s \in Shifts |-> None]
    /\ left = {}
    /\ swap = [w \in Swaps |->
                 IF w \in DOMAIN scope.asked
                 THEN LET s == scope.asked[w][1]
                          r == scope.asked[w][2]
                      IN  [status |-> "PENDING", requester |-> owner[s],
                           target |-> owner[r], from |-> s, to |-> r]
                 ELSE NoSwap]
    /\ pc = [t \in Threads |-> "idle"]
    /\ job = [t \in Threads |-> NoJob]
    /\ exchanges = [w \in Swaps |-> 0]
    /\ mixed = {} /\ contested = {} /\ outdated = {} /\ handedOver = {}
    /\ week = {} /\ byHand = 1..created /\ spoiled = FALSE

-----------------------------------------------------------------------------
(* Requests. *)

(* The shifts a request in flight is about. *)
About(t) ==
    IF pc[t] \in {"markIn", "recordIn", "markOut", "recordOut", "createSwap",
                  "readFrom", "readTo", "exchange"}
    THEN {job[t].shift, job[t].other} \ {0} ELSE {}

Others(t) == UNION {About(u) : u \in Threads \ {t}}

Start(t, position, new) ==
    /\ pc[t] = "idle"
    /\ pc' = [pc EXCEPT ![t] = position]
    /\ job' = [job EXCEPT ![t] = new]
    /\ mixed' = mixed \cup ({new.shift, new.other} \cap Others(t))

GoTo(t, position) ==
    /\ pc' = [pc EXCEPT ![t] = position]
    /\ UNCHANGED job

Leave(t) ==
    /\ pc' = [pc EXCEPT ![t] = "idle"]
    /\ job' = [job EXCEPT ![t] = NoJob]

(* Any await may throw and the process may die; an update of a row that is *)
(* gone always throws.  What was written before stays.                     *)
Fail(t) ==
    /\ pc[t] # "idle"
    /\ Leave(t)
    /\ mixed' = IF pc[t] \in {"recordIn", "recordOut"}
                THEN mixed \cup {job[t].shift} ELSE mixed
    /\ spoiled' = (spoiled \/ pc[t] = "createWeek")
    /\ UNCHANGED <<scope, roster, swap, swapping, week, byHand>>

-----------------------------------------------------------------------------
(* The roster. *)

SuspendGuard(g) ==
    /\ "staff" \in scope.families
    /\ g \in active
    /\ active' = active \ {g}
    /\ UNCHANGED <<scope, created, owner, past, duty, attended, left, swap,
                   request, swapping, mixed, weekly>>

ActivateGuard(g) ==
    /\ "staff" \in scope.families
    /\ g \notin active
    /\ active' = active \cup {g}
    /\ UNCHANGED <<scope, created, owner, past, duty, attended, left, swap,
                   request, swapping, mixed, weekly>>

(* Nothing is unique about a guard and a date: any number of shifts goes.  *)
AssignShift(g) ==
    /\ created < scope.shifts
    /\ created' = created + 1
    /\ owner' = [owner EXCEPT ![created'] = g]
    /\ byHand' = byHand \cup {created'}
    /\ UNCHANGED <<scope, active, past, duty, attended, left, swap, request,
                   swapping, mixed, week, spoiled>>

(* Midnight: the shift's date is before today from now on. *)
DayPasses(s) ==
    /\ "day" \in scope.families
    /\ Upcoming(s)
    /\ past' = past \cup {s}
    /\ UNCHANGED <<scope, active, created, owner, duty, attended, left,
                   swap, request, swapping, mixed, weekly>>

Generating(t) == pc[t] \in {"clearWeek", "createWeek"}

(* The active guards are read first; the week is cleared and created after *)
(* that by two statements.                                                 *)
BeginWeek(t) ==
    /\ "week" \in scope.families
    /\ active # {}
    /\ created + Cardinality(active) <= scope.shifts
    /\ Start(t, "clearWeek", [NoJob EXCEPT !.seen = active])
    /\ spoiled' = (spoiled \/ \E u \in Threads : Generating(u))
    /\ UNCHANGED <<scope, roster, swap, swapping, week, byHand>>

Cleared_Nothing == {}
Cleared == {s \in Shifts : Upcoming(s)}

(* Attendance and swap requests of a deleted shift are deleted with it. *)
ClearWeek(t) ==
    /\ pc[t] = "clearWeek"
    /\ owner' = [s \in Shifts |-> IF s \in Cleared THEN None ELSE owner[s]]
    /\ attended' =
          [s \in Shifts |-> IF s \in Cleared THEN None ELSE attended[s]]
    /\ left' = left \ Cleared
    /\ duty' = [s \in Shifts |->
                  IF s \in Cleared THEN "SCHEDULED" ELSE duty[s]]
    /\ swap' = [w \in Swaps |->
          IF {swap[w].from, swap[w].to} \cap Cleared # {}
          THEN [NoSwap EXCEPT !.status = "GONE"] ELSE swap[w]]
    /\ GoTo(t, "createWeek")
    /\ UNCHANGED <<scope, active, created, past, swapping, mixed, weekly>>

(* One shift for each guard stands for the seven of its week. *)
Position(g, guards) == Cardinality({h \in guards : h <= g})

CreateWeek(t) ==
    LET guards == job[t].seen
        new == [g \in guards |-> created + Position(g, guards)]
    IN
    /\ pc[t] = "createWeek"
    /\ created' = created + Cardinality(guards)
    /\ created' <= scope.shifts
    /\ owner' = [s \in Shifts |-> IF \E g \in guards : new[g] = s
                                  THEN CHOOSE g \in guards : new[g] = s
                                  ELSE owner[s]]
    /\ week' = created + 1 .. created'
    /\ Leave(t)
    /\ UNCHANGED <<scope, active, past, duty, attended, left, swap,
                   swapping, mixed, byHand, spoiled>>

-----------------------------------------------------------------------------
(* Duty.  Nothing looks at is_active, and the shift is any of the guard's  *)
(* own from today on, whatever its date; a completed one may be resumed.   *)

OwnShift(g, s) == owner[s] = g

BeginClockIn(t, g, s) ==
    /\ "duty" \in scope.families
    /\ OwnShift(g, s)
    /\ s \notin past
    /\ duty[s] # "ONGOING"
    /\ Start(t, "markIn", [NoJob EXCEPT !.guard = g, !.shift = s])
    /\ UNCHANGED <<scope, roster, swap, swapping, weekly>>

SetDuty(t, status) ==
    /\ Exists(job[t].shift)
    /\ duty' = [duty EXCEPT ![job[t].shift] = status]
    /\ UNCHANGED <<scope, active, created, owner, past, attended, left,
                   swap, swapping, mixed, weekly>>

MarkOnDuty(t) == pc[t] = "markIn" /\ SetDuty(t, "ONGOING") /\ GoTo(t, "recordIn")

(* An upsert: a second clock-in keeps the guard and the clock-out of the   *)
(* first.                                                                  *)
AttendanceGuard(s, g) == IF attended[s] = None THEN g ELSE attended[s]

RecordClockIn(t) ==
    LET s == job[t].shift IN
    /\ pc[t] = "recordIn"
    /\ Exists(s)
    /\ attended' =
          [attended EXCEPT ![s] = AttendanceGuard(s, job[t].guard)]
    /\ Leave(t)
    /\ UNCHANGED <<scope, active, created, owner, past, duty, left, swap,
                   swapping, mixed, weekly>>

BeginClockOut(t, g, s) ==
    /\ "duty" \in scope.families
    /\ owner[s] = g
    /\ duty[s] = "ONGOING"
    /\ Start(t, "markOut", [NoJob EXCEPT !.guard = g, !.shift = s])
    /\ UNCHANGED <<scope, roster, swap, swapping, weekly>>

MarkCompleted(t) ==
    pc[t] = "markOut" /\ SetDuty(t, "COMPLETED") /\ GoTo(t, "recordOut")

(* Throws, which is Fail, when the shift has no attendance. *)
RecordClockOut(t) ==
    LET s == job[t].shift IN
    /\ pc[t] = "recordOut"
    /\ attended[s] # None
    /\ left' = left \cup {s}
    /\ Leave(t)
    /\ UNCHANGED <<scope, active, created, owner, past, duty, attended,
                   swap, swapping, mixed, weekly>>

-----------------------------------------------------------------------------
(* Swaps. *)

Pending(w) == swap[w].status = "PENDING"

Duplicate(g, s, r) == \E w \in Swaps :
    Pending(w) /\ swap[w].requester = g /\ swap[w].from = s /\ swap[w].to = r

BeginSwapRequest(t, g, s, h, r) ==
    /\ "ask" \in scope.families
    /\ g # h
    /\ owner[s] = g
    /\ h \in active
    /\ owner[r] = h
    /\ ~Duplicate(g, s, r)
    /\ Start(t, "createSwap", [NoJob EXCEPT !.guard = g, !.target = h,
                                            !.shift = s, !.other = r])
    /\ UNCHANGED <<scope, roster, swap, swapping, weekly>>

Asked == {w \in Swaps : swap[w].status # "NONE"}

CreateSwapRequest(t) ==
    LET w == Cardinality(Asked) + 1
        j == job[t]
    IN
    /\ pc[t] = "createSwap"
    /\ w <= scope.swaps
    /\ Exists(j.shift) /\ Exists(j.other)
    /\ swap' = [swap EXCEPT ![w] =
          [status |-> "PENDING", requester |-> j.guard, target |-> j.target,
           from |-> j.shift, to |-> j.other]]
    /\ Leave(t)
    /\ UNCHANGED <<scope, roster, swapping, mixed, weekly>>

Deciding(t) == pc[t] \in {"readFrom", "readTo", "exchange", "refuse"}

(* Every decision finds the request PENDING before it writes. *)
Judged_Unchecked(w) == swap[w].status \notin {"NONE", "GONE"}
Judged(w) == Pending(w)

BeginDecision(t, w, position, new) ==
    /\ Judged(w)
    /\ Start(t, position, [new EXCEPT !.swap = w])
    /\ contested' = IF \E u \in Threads : Deciding(u) /\ job[u].swap = w
                    THEN contested \cup {w} ELSE contested
    /\ UNCHANGED <<scope, roster, swap, exchanges, outdated, handedOver,
                   weekly>>

BeginApproval(t, w) ==
    /\ "approve" \in scope.families
    /\ BeginDecision(t, w, "readFrom", [NoJob EXCEPT !.shift = swap[w].from,
                                                     !.other = swap[w].to])

BeginRefusal(t, w, verdict) ==
    /\ "refuse" \in scope.families
    /\ BeginDecision(t, w, "refuse", [NoJob EXCEPT !.verdict = verdict])

(* rejectSwap by an administrator, cancelSwapRequest by the requester. *)
BeginRejection(t, w) == BeginRefusal(t, w, "REJECTED")

BeginCancellation(t, w) == BeginRefusal(t, w, "CANCELLED")

(* The two findUnique of the transaction; neither locks. *)
ReadOwner(t, s, field, position) ==
    /\ Exists(s)
    /\ job' = [job EXCEPT ![t][field] = owner[s]]
    /\ pc' = [pc EXCEPT ![t] = position]
    /\ UNCHANGED <<scope, roster, swap, swapping, mixed, weekly>>

ReadRequesterShift(t) ==
    pc[t] = "readFrom" /\ ReadOwner(t, job[t].shift, "first", "readTo")
ReadTargetShift(t) ==
    pc[t] = "readTo" /\ ReadOwner(t, job[t].other, "second", "exchange")

TargetReceives_Itself(t) == job[t].second
TargetReceives(t) == job[t].first

Exchange(t) ==
    LET s == job[t].shift
        r == job[t].other
        w == job[t].swap
    IN
    /\ pc[t] = "exchange"
    /\ Exists(s) /\ Exists(r)
    /\ owner' = [owner EXCEPT ![s] = job[t].second, ![r] = TargetReceives(t)]
    /\ swap' = [swap EXCEPT ![w].status = "APPROVED"]
    /\ exchanges' = [exchanges EXCEPT ![w] = @ + 1]
    /\ outdated' = outdated \cup {v \in Swaps \ {w} :
          Pending(v) /\ {swap[v].from, swap[v].to} \cap {s, r} # {}}
    /\ handedOver' = handedOver \cup {x \in {s, r} : attended[x] # None}
    /\ Leave(t)
    /\ UNCHANGED <<scope, active, created, past, duty, attended, left,
                   contested, mixed, weekly>>

Refuse(t) ==
    LET w == job[t].swap IN
    /\ pc[t] = "refuse"
    /\ swap[w].status # "GONE"
    /\ swap' = [swap EXCEPT ![w].status = job[t].verdict]
    /\ Leave(t)
    /\ UNCHANGED <<scope, roster, swapping, mixed, weekly>>

RejectSwap(t) == job[t].verdict = "REJECTED" /\ Refuse(t)

CancelSwap(t) == job[t].verdict = "CANCELLED" /\ Refuse(t)

-----------------------------------------------------------------------------

Week(t) == BeginWeek(t) \/ ClearWeek(t) \/ CreateWeek(t)

Clock(t) ==
    \/ \E g \in Guards, s \in Shifts : BeginClockIn(t, g, s)
    \/ \E g \in Guards, s \in Shifts : BeginClockOut(t, g, s)
    \/ MarkOnDuty(t) \/ RecordClockIn(t)
    \/ MarkCompleted(t) \/ RecordClockOut(t)

SwapShifts(t) ==
    \/ \E g, h \in Guards, s, r \in Shifts : BeginSwapRequest(t, g, s, h, r)
    \/ CreateSwapRequest(t)
    \/ \E w \in Swaps : BeginApproval(t, w)
    \/ \E w \in Swaps : BeginRejection(t, w) \/ BeginCancellation(t, w)
    \/ ReadRequesterShift(t) \/ ReadTargetShift(t) \/ Exchange(t)
    \/ RejectSwap(t) \/ CancelSwap(t)

Next ==
    \/ \E g \in Guards : SuspendGuard(g)
    \/ \E g \in Guards : ActivateGuard(g)
    \/ \E g \in Guards : AssignShift(g)
    \/ \E s \in Shifts : DayPasses(s)
    \/ \E t \in Threads : Week(t) \/ Clock(t) \/ SwapShifts(t) \/ Fail(t)

Spec == Init /\ [][Next]_vars

-----------------------------------------------------------------------------
(* Properties. *)

Row == [status : Decisions, requester : Guards \cup {None},
        target : Guards \cup {None}, from : Shifts \cup {0},
        to : Shifts \cup {0}]
Jobs == [guard : Guards \cup {None}, shift : Shifts \cup {0},
         other : Shifts \cup {0}, target : Guards \cup {None},
         swap : Swaps \cup {0}, first : Guards \cup {None},
         second : Guards \cup {None}, seen : SUBSET Guards,
         verdict : {"NONE", "REJECTED", "CANCELLED"}]

(* Every table holds rows of its own kind and every request arguments of   *)
(* its operation.                                                          *)
TypeOK ==
    /\ scope \in Scopes
    /\ active \subseteq Guards
    /\ created \in 0..MaxShifts
    /\ owner \in [Shifts -> Guards \cup {None}]
    /\ past \subseteq Shifts
    /\ duty \in [Shifts -> Duties]
    /\ attended \in [Shifts -> Guards \cup {None}]
    /\ left \subseteq Shifts
    /\ swap \in [Swaps -> Row]
    /\ pc \in [Threads -> Positions]
    /\ job \in [Threads -> Jobs]
    /\ exchanges \in [Swaps -> Nat]
    /\ mixed \subseteq Shifts
    /\ contested \subseteq Swaps
    /\ outdated \subseteq Swaps
    /\ handedOver \subseteq Shifts
    /\ week \subseteq Nat
    /\ byHand \subseteq Shifts
    /\ spoiled \in BOOLEAN

(* shift-swap.service.ts:261 "Only pending requests can be approved": an   *)
(* approved request exchanged its shifts once and a rejected or cancelled  *)
(* one never did, unless two decisions were about it at the same time.     *)
SwapsAreTrue == \A w \in Swaps \ contested :
    swap[w].status # "GONE" =>
        exchanges[w] = IF swap[w].status = "APPROVED" THEN 1 ELSE 0

(* A swap moves shifts between guards and changes nobody's number of them, *)
(* unless two requests were about one of the shifts at a time; and it is   *)
(* the exchange the two guards named, unless another swap moved one of the *)
(* shifts after the request was made: approval does not look whose they    *)
(* are by then.                                                            *)
Conserved ==
    ({s \in Shifts : Exists(s)} = {s \in Shifts : Exists(s)}'
     /\ \A w \in Swaps : exchanges'[w] # exchanges[w] =>
                          {swap[w].from, swap[w].to} \cap mixed = {})
    => \A g \in Guards : Cardinality(Held(g))' = Cardinality(Held(g))

AsAsked(w) ==
    LET s == swap[w].from
        r == swap[w].to
    IN
    (/\ Pending(w) /\ swap'[w].status = "APPROVED"
     /\ w \notin outdated /\ {s, r} \cap mixed = {})
    => /\ owner[s] = swap[w].requester /\ owner'[s] = swap[w].target
       /\ owner[r] = swap[w].target /\ owner'[r] = swap[w].requester

SwapsExchange == [][Conserved /\ \A w \in Swaps : AsAsked(w)]_vars

(* A shift is ONGOING or COMPLETED exactly when the attendance of the      *)
(* guard who holds it says so, unless its clocking was cut between the two *)
(* writes, two requests were about it at a time, or it was swapped after   *)
(* it had been attended.                                                   *)
Settled(s) == Exists(s) /\ s \notin mixed
              /\ \A t \in Threads : s \notin About(t)

DutyIsTrue == \A s \in Shifts : Settled(s) =>
    /\ duty[s] = "SCHEDULED" <=> attended[s] = None
    /\ duty[s] = "COMPLETED" => s \in left
    /\ s \notin handedOver => attended[s] \in {None, owner[s]}

(* performance.service.ts:309 "Attendance score (0-100)": in a period that *)
(* covers every shift nobody attends more shifts than are theirs, unless a *)
(* shift they attended was swapped or clocked by two requests at a time.   *)
Attended(g) == {s \in Shifts : attended[s] = g}
AttendanceScore(g) ==
    IF Held(g) = {} THEN 100
    ELSE (100 * Cardinality(Attended(g))) \div Cardinality(Held(g))

ScoresWithinHundred == \A g \in Guards :
    Attended(g) \cap (handedOver \cup mixed) = {} => AttendanceScore(g) <= 100

(* After a generation the coming shifts that nobody assigned by hand are   *)
(* those of the last one, and it has a shift for every guard it found,     *)
(* unless two generations overlapped or one was cut between clearing the   *)
(* old week and creating the new.                                          *)
OneRoster ==
    (~spoiled /\ \A t \in Threads : ~Generating(t)) =>
        /\ \A s \in Shifts \ byHand : Upcoming(s) => s \in week
        /\ \A s \in week : Exists(s)

(* The roster shows every guard the shifts of the last generation and how  *)
(* they were attended.                                                     *)
RosterIsTrue == TypeOK /\ DutyIsTrue /\ ScoresWithinHundred /\ OneRoster
=============================================================================
