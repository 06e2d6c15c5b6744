-------------------------- MODULE ShiftRosterProofs --------------------------
(* Theorems about ShiftRoster for any guards, shifts, swap requests, scope *)
(* and number of requests; and, at the end, about IncidentLifecycle and    *)
(* PatrolMonitor, the guards' work on their shifts, as IncidentReports and *)
(* PatrolRounds instantiate them.                                          *)
EXTENDS ShiftRoster, IncidentReports, PatrolRounds, SumTheorems

USE GuardsAssumption, BoundsAssumption, NoneAssumption

-----------------------------------------------------------------------------
(* What the proofs know of a step: its effect, with the records it writes  *)
(* as values that have certain fields.                                     *)

Clocking(t) == pc[t] \in {"markIn", "recordIn", "markOut", "recordOut"}
Swapping(t) == pc[t] \in {"readFrom", "readTo", "exchange"}

(* s is one of About(t). *)
Has(t, s) ==
    /\ Clocking(t) \/ pc[t] = "createSwap" \/ Swapping(t)
    /\ s \in Shifts
    /\ s = job[t].shift \/ s = job[t].other

(* A request begins, with the arguments j. *)
Starts(t, position, j) ==
    /\ j \in Jobs
    /\ pc[t] = "idle"
    /\ pc' = [pc EXCEPT ![t] = position]
    /\ job' = [job EXCEPT ![t] = j]
    /\ mixed \subseteq mixed' /\ mixed' \subseteq Shifts
    /\ \A s \in {j.shift, j.other}, u \in Threads \ {t} :
          Has(u, s) => s \in mixed'

StartsWeek(t, j) ==
    /\ j.seen \subseteq Guards
    /\ Starts(t, "clearWeek", j)
    /\ spoiled' = (spoiled \/ \E u \in Threads : Generating(u))
    /\ UNCHANGED <<scope, roster, swap, swapping, week, byHand>>

(* BeginClockIn, BeginClockOut *)
StartsClock(t, position, j) ==
    /\ position \in {"markIn", "markOut"}
    /\ j.guard \in Guards /\ j.shift \in Shifts /\ j.other = 0
    /\ owner[j.shift] = j.guard
    /\ position = "markOut" => duty[j.shift] = "ONGOING"
    /\ Starts(t, position, j)
    /\ UNCHANGED <<scope, roster, swap, swapping, weekly>>

StartsAsking(t, j) ==
    /\ j.guard \in Guards /\ j.shift \in Shifts
    /\ j.target \in Guards /\ j.other \in Shifts
    /\ owner[j.shift] = j.guard /\ owner[j.other] = j.target
    /\ Starts(t, "createSwap", j)
    /\ UNCHANGED <<scope, roster, swap, swapping, weekly>>

(* BeginApproval, BeginRejection, BeginCancellation *)
StartsDecision(t, position, j) ==
    /\ position \in {"readFrom", "refuse"}
    /\ j.swap \in Swaps /\ Pending(j.swap)
    /\ position = "readFrom" => /\ j.shift = swap[j.swap].from
                                /\ j.other = swap[j.swap].to
    /\ Starts(t, position, j)
    /\ contested \subseteq contested' /\ contested' \subseteq Swaps
    /\ \A u \in Threads : Deciding(u) /\ job[u].swap = j.swap =>
          j.swap \in contested'
    /\ UNCHANGED <<scope, roster, swap, exchanges, outdated, handedOver,
                   weekly>>

(* ClearWeek *)
ClearsWeek(t) ==
    /\ pc[t] = "clearWeek"
    /\ owner' = [s \in Shifts |-> IF s \in Cleared THEN None ELSE owner[s]]
    /\ attended' =
          [s \in Shifts |-> IF s \in Cleared THEN None ELSE attended[s]]
    /\ left' = left \ Cleared
    /\ duty' = [s \in Shifts |->
                  IF s \in Cleared THEN "SCHEDULED" ELSE duty[s]]
    /\ swap' \in [Swaps -> Row]
    /\ \A w \in Swaps :
          IF swap[w].from \in Cleared \/ swap[w].to \in Cleared
          THEN swap'[w].status = "GONE"
          ELSE swap'[w] = swap[w]
    /\ GoTo(t, "createWeek")
    /\ UNCHANGED <<scope, active, created, past, swapping, mixed, weekly>>

(* CreateWeek *)
CreatesWeek(t) ==
    /\ pc[t] = "createWeek"
    /\ created' \in created..MaxShifts
    /\ owner' \in [Shifts -> Guards \cup {None}]
    /\ \A s \in Shifts : IF s \in created + 1 .. created'
                         THEN owner'[s] \in Guards
                         ELSE owner'[s] = owner[s]
    /\ week' = created + 1 .. created'
    /\ Leave(t)
    /\ UNCHANGED <<scope, active, past, duty, attended, left, swap,
                   swapping, mixed, byHand, spoiled>>

(* CreateSwapRequest, into row w *)
CreatesSwap(t, w, row) ==
    /\ pc[t] = "createSwap"
    /\ w \in Swaps /\ swap[w].status = "NONE"
    /\ \A v \in Swaps : v \in Asked <=> v < w
    /\ Exists(job[t].shift) /\ Exists(job[t].other)
    /\ row \in Row
    /\ row.status = "PENDING"
    /\ row.requester = job[t].guard /\ row.target = job[t].target
    /\ row.from = job[t].shift /\ row.to = job[t].other
    /\ swap' = [swap EXCEPT ![w] = row]
    /\ Leave(t)
    /\ UNCHANGED <<scope, roster, swapping, mixed, weekly>>

(* ReadRequesterShift *)
ReadsFirst(t, j) ==
    /\ pc[t] = "readFrom" /\ Exists(job[t].shift)
    /\ j \in Jobs
    /\ j.first = owner[job[t].shift]
    /\ j.shift = job[t].shift /\ j.other = job[t].other
    /\ j.swap = job[t].swap
    /\ pc' = [pc EXCEPT ![t] = "readTo"]
    /\ job' = [job EXCEPT ![t] = j]
    /\ UNCHANGED <<scope, roster, swap, swapping, mixed, weekly>>

(* ReadTargetShift *)
ReadsSecond(t, j) ==
    /\ pc[t] = "readTo" /\ Exists(job[t].other)
    /\ j \in Jobs
    /\ j.first = job[t].first /\ j.second = owner[job[t].other]
    /\ j.shift = job[t].shift /\ j.other = job[t].other
    /\ j.swap = job[t].swap
    /\ pc' = [pc EXCEPT ![t] = "exchange"]
    /\ job' = [job EXCEPT ![t] = j]
    /\ UNCHANGED <<scope, roster, swap, swapping, mixed, weekly>>

(* The row of a swap request gets another status. *)
Decides(t, row) ==
    LET w == job[t].swap IN
    /\ row \in Row
    /\ row.requester = swap[w].requester /\ row.target = swap[w].target
    /\ row.from = swap[w].from /\ row.to = swap[w].to
    /\ swap' = [swap EXCEPT ![w] = row]

Exchanges(t, row) ==
    LET s == job[t].shift
        r == job[t].other
        w == job[t].swap
    IN
    /\ pc[t] = "exchange"
    /\ Exists(s) /\ Exists(r)
    /\ owner' = [owner EXCEPT ![s] = job[t].second, ![r] = job[t].first]
    /\ row.status = "APPROVED"
    /\ Decides(t, row)
    /\ exchanges' = [exchanges EXCEPT ![w] = @ + 1]
    /\ outdated' = outdated \cup {v \in Swaps \ {w} :
          Pending(v) /\ {swap[v].from, swap[v].to} \cap {s, r} # {}}
    /\ handedOver' = handedOver \cup {x \in {s, r} : attended[x] # None}
    /\ Leave(t)
    /\ UNCHANGED <<scope, active, created, past, duty, attended, left,
                   contested, mixed, weekly>>

(* RejectSwap, CancelSwap *)
Refuses(t, row) ==
    /\ pc[t] = "refuse"
    /\ swap[job[t].swap].status # "GONE"
    /\ row.status \in {"REJECTED", "CANCELLED"}
    /\ Decides(t, row)
    /\ Leave(t)
    /\ UNCHANGED <<scope, roster, swapping, mixed, weekly>>

(* SuspendGuard, ActivateGuard *)
Staffs ==
    /\ active' \subseteq Guards
    /\ UNCHANGED <<scope, created, owner, past, duty, attended, left, swap,
                   request, swapping, mixed, weekly>>

Assigns(g) == created < MaxShifts /\ AssignShift(g)

RosterStep ==
    \/ Staffs
    \/ \E g \in Guards : Assigns(g)
    \/ \E s \in Shifts : DayPasses(s)
WeekStep(t) ==
    (\E j \in Jobs : StartsWeek(t, j)) \/ ClearsWeek(t) \/ CreatesWeek(t)
ClockStep(t) ==
    \/ \E p \in Positions, j \in Jobs : StartsClock(t, p, j)
    \/ MarkOnDuty(t) \/ RecordClockIn(t) \/ MarkCompleted(t)
    \/ RecordClockOut(t)
SwapStep(t) ==
    \/ \E j \in Jobs : StartsAsking(t, j)
    \/ \E w \in Swaps, row \in Row : CreatesSwap(t, w, row)
    \/ \E p \in Positions, j \in Jobs : StartsDecision(t, p, j)
    \/ \E j \in Jobs : ReadsFirst(t, j)
    \/ \E j \in Jobs : ReadsSecond(t, j)
    \/ \E row \in Row : Exchanges(t, row) \/ Refuses(t, row)
Step ==
    \/ RosterStep
    \/ \E t \in Threads :
           WeekStep(t) \/ ClockStep(t) \/ SwapStep(t) \/ Fail(t)

-----------------------------------------------------------------------------
(* The inductive invariant. *)

(* Where a request stands tells what arguments it has.                     *)
PositionsOK == \A t \in Threads :
    /\ Clocking(t) => /\ job[t].shift \in 1..created
                      /\ job[t].guard \in Guards
                      /\ job[t].other = 0
    /\ pc[t] = "createSwap" \/ Swapping(t) =>
           job[t].shift \in 1..created /\ job[t].other \in 1..created
    /\ pc[t] = "createSwap" =>
           job[t].guard \in Guards /\ job[t].target \in Guards
    /\ pc[t] \in {"readTo", "exchange"} => job[t].first \in Guards
    /\ pc[t] = "exchange" => job[t].second \in Guards
    /\ Deciding(t) => job[t].swap \in Asked

(* A shift that was not created or was deleted has nothing about it.       *)
RowsOK == \A s \in Shifts :
    /\ s > created => ~Exists(s)
    /\ ~Exists(s) => duty[s] = "SCHEDULED" /\ attended[s] = None

(* Swap requests have numbers without gaps, and shifts that exist as long  *)
(* as the request does.                                                    *)
AskedOK == \E n \in 0..MaxSwaps : Asked = 1..n

SwapRowsOK == \A w \in Swaps :
    /\ swap[w].status \notin {"NONE", "GONE"} =>
          /\ swap[w].from \in 1..created /\ Exists(swap[w].from)
          /\ swap[w].to \in 1..created /\ Exists(swap[w].to)
    /\ swap[w].status = "NONE" =>
          exchanges[w] = 0 /\ swap[w].from = 0 /\ swap[w].to = 0

(* A shift that was never mixed is in the hand of one request at most, and *)
(* a swap request that was never contested is decided by one.              *)
SoleOK == \A t, u \in Threads : t # u =>
    /\ \A s \in Shifts : Has(t, s) /\ Has(u, s) => s \in mixed
    /\ Deciding(t) /\ Deciding(u) /\ job[t].swap = job[u].swap =>
           job[t].swap \in contested

(* Such a request is pending while it is decided, and an approval is about *)
(* its shifts unless one of them is gone.                                  *)
DecidingOK == \A t \in Threads : Deciding(t) =>
    LET row == swap[job[t].swap] IN
    /\ job[t].swap \notin contested => row.status \in {"PENDING", "GONE"}
    /\ Swapping(t) /\ Exists(job[t].shift) /\ Exists(job[t].other) =>
           /\ row.status # "GONE"
           /\ row.from = job[t].shift /\ row.to = job[t].other

(* Such a shift has the owner that its request has read ...                *)
OwnersOK == \A t \in Threads :
    /\ job[t].shift \in Shifts \ mixed /\ Exists(job[t].shift) =>
         /\ Clocking(t) \/ pc[t] = "createSwap" =>
                owner[job[t].shift] = job[t].guard
         /\ pc[t] \in {"readTo", "exchange"} =>
                owner[job[t].shift] = job[t].first
    /\ job[t].other \in Shifts \ mixed /\ Exists(job[t].other) =>
         /\ pc[t] = "createSwap" => owner[job[t].other] = job[t].target
         /\ pc[t] = "exchange" => owner[job[t].other] = job[t].second

(* ... and that the pending swap request names which is not outdated.      *)
AgreedOK == \A w \in Swaps \ outdated :
    /\ Pending(w)
    /\ swap[w].from \notin mixed /\ swap[w].to \notin mixed
    => /\ owner[swap[w].from] = swap[w].requester
       /\ owner[swap[w].to] = swap[w].target

(* Status and attendance of such a shift agree between the two writes of   *)
(* its clocking too.                                                       *)
Recording(s) == \E t \in Threads :
    pc[t] \in {"recordIn", "recordOut"} /\ job[t].shift = s

AttendanceOK == \A s \in Shifts \ mixed :
    /\ ~Recording(s) => /\ duty[s] = "SCHEDULED" <=> attended[s] = None
                        /\ duty[s] = "COMPLETED" => s \in left
    /\ s \notin handedOver => attended[s] \in {None, owner[s]}

ClockingOK == \A t \in Threads :
    job[t].shift \in Shifts \ mixed /\ Exists(job[t].shift) =>
        /\ pc[t] \in {"recordIn", "markOut"} => duty[job[t].shift] = "ONGOING"
        /\ pc[t] = "recordOut" => /\ duty[job[t].shift] = "COMPLETED"
                                  /\ attended[job[t].shift] # None

(* The last week is there but between its two statements, when no shift is *)
(* to come but those assigned by hand.                                     *)
Creating == \E t \in Threads : pc[t] = "createWeek"

WeekOK == ~spoiled =>
    /\ \A t, u \in Threads : Generating(t) /\ Generating(u) => t = u
    /\ \A s \in Shifts \ byHand : Upcoming(s) => s \in week /\ ~Creating
    /\ week \subseteq Shifts
    /\ \A s \in week : Exists(s) \/ Creating

IInv == /\ TypeOK /\ PositionsOK /\ RowsOK /\ AskedOK /\ SwapRowsOK /\ SoleOK
        /\ DecidingOK /\ OwnersOK /\ AgreedOK /\ AttendanceOK /\ ClockingOK
        /\ WeekOK /\ SwapsAreTrue

-----------------------------------------------------------------------------
(* Every step has such an effect. *)

(* A scope keeps the bounds.                                               *)
LEMMA ScopeBounds ==
    ASSUME NEW sc \in Scopes
    PROVE  /\ sc.active \subseteq Guards
           /\ sc.shifts \in 0..MaxShifts /\ sc.swaps \in 0..MaxSwaps
           /\ sc.roster \in Seq(Guards) /\ sc.asked \in Seq(Shifts \X Shifts)
           /\ Len(sc.roster) <= sc.shifts /\ Len(sc.asked) <= sc.swaps
           /\ \A i \in DOMAIN sc.asked, k \in {1, 2} :
                 sc.asked[i][k] <= Len(sc.roster)
  BY ScopesAssumption

(* What is left of a request that has ended.                               *)
LEMMA NoJobIsJob == NoJob \in Jobs /\ NoJob.shift = 0 /\ NoJob.other = 0
  BY DEF NoJob, Jobs

(* About, without the set.                                                 *)
LEMMA AboutIs ==
    ASSUME TypeOK, PositionsOK, NEW t \in Threads, NEW s
    PROVE  s \in About(t) <=> Has(t, s)
<1>1. job[t] \in Jobs
  BY DEF TypeOK
<1>2. job[t].shift \in Shifts \cup {0} /\ job[t].other \in Shifts \cup {0}
  BY <1>1 DEF Jobs
<1>3. 0 \notin Shifts
  BY DEF Shifts
<1> QED
  BY <1>2, <1>3 DEF About, Has, Clocking, Swapping

(* Start notices whoever is about the same shifts.                         *)
LEMMA StartIs ==
    ASSUME TypeOK, PositionsOK, NEW t \in Threads, NEW position,
           NEW j \in Jobs,
           Start(t, position, j)
    PROVE  Starts(t, position, j)
<1>1. j.shift \in Shifts \cup {0} /\ j.other \in Shifts \cup {0}
  BY DEF Jobs
<1>2. \A s : s \in Others(t) <=> \E u \in Threads \ {t} : Has(u, s)
  BY AboutIs DEF Others
<1>3. Others(t) \subseteq Shifts
  BY <1>2 DEF Has
<1>4. mixed' \subseteq Shifts
  BY <1>3 DEF Start, TypeOK
<1> QED
  BY <1>2, <1>4 DEF Start, Starts

(* A generation has read the active guards.                                *)
LEMMA StartWeekIs ==
    ASSUME TypeOK, PositionsOK, NEW t \in Threads, BeginWeek(t)
    PROVE  \E j \in Jobs : StartsWeek(t, j)
<1> DEFINE j == [NoJob EXCEPT !.seen = active]
<1>1. j \in Jobs /\ j.seen = active
  BY DEF TypeOK, NoJob, Jobs
<1>2. Start(t, "clearWeek", j)
  BY DEF BeginWeek
<1>3. Starts(t, "clearWeek", j)
  BY <1>1, <1>2, StartIs
<1> HIDE DEF j
<1>4. StartsWeek(t, j)
  BY <1>1, <1>3 DEF StartsWeek, BeginWeek, TypeOK
<1> QED
  BY <1>1, <1>4

(* Who clocks in holds the shift ...                                       *)
LEMMA StartClockInIs ==
    ASSUME TypeOK, PositionsOK, NEW t \in Threads, NEW g \in Guards,
           NEW s \in Shifts, BeginClockIn(t, g, s)
    PROVE  \E j \in Jobs : StartsClock(t, "markIn", j)
<1> DEFINE j == [NoJob EXCEPT !.guard = g, !.shift = s]
<1>1. j \in Jobs /\ j.guard = g /\ j.shift = s /\ j.other = 0
  BY DEF NoJob, Jobs
<1>2. Start(t, "markIn", j)
  BY DEF BeginClockIn
<1>3. Starts(t, "markIn", j)
  BY <1>1, <1>2, StartIs
<1> HIDE DEF j
<1>4. StartsClock(t, "markIn", j)
  BY <1>1, <1>3 DEF StartsClock, BeginClockIn, OwnShift
<1> QED
  BY <1>1, <1>4

(* ... and so does who clocks out.                                         *)
LEMMA StartClockOutIs ==
    ASSUME TypeOK, PositionsOK, NEW t \in Threads, NEW g \in Guards,
           NEW s \in Shifts, BeginClockOut(t, g, s)
    PROVE  \E j \in Jobs : StartsClock(t, "markOut", j)
<1> DEFINE j == [NoJob EXCEPT !.guard = g, !.shift = s]
<1>1. j \in Jobs /\ j.guard = g /\ j.shift = s /\ j.other = 0
  BY DEF NoJob, Jobs
<1>2. Start(t, "markOut", j)
  BY DEF BeginClockOut
<1>3. Starts(t, "markOut", j)
  BY <1>1, <1>2, StartIs
<1> HIDE DEF j
<1>4. StartsClock(t, "markOut", j)
  BY <1>1, <1>3 DEF StartsClock, BeginClockOut
<1> QED
  BY <1>1, <1>4

(* A swap request names two shifts and their owners.                       *)
LEMMA StartAskingIs ==
    ASSUME TypeOK, PositionsOK, NEW t \in Threads, NEW g \in Guards,
           NEW h \in Guards, NEW s \in Shifts, NEW r \in Shifts,
           BeginSwapRequest(t, g, s, h, r)
    PROVE  \E j \in Jobs : StartsAsking(t, j)
<1> DEFINE j == [NoJob EXCEPT !.guard = g, !.target = h, !.shift = s,
                              !.other = r]
<1>1. j \in Jobs /\ j.guard = g /\ j.shift = s /\ j.target = h /\ j.other = r
  BY DEF NoJob, Jobs
<1>2. Start(t, "createSwap", j)
  BY DEF BeginSwapRequest
<1>3. Starts(t, "createSwap", j)
  BY <1>1, <1>2, StartIs
<1> HIDE DEF j
<1>4. StartsAsking(t, j)
  BY <1>1, <1>3 DEF StartsAsking, BeginSwapRequest
<1> QED
  BY <1>1, <1>4

(* A decision is about a pending request.                                  *)
LEMMA StartDecisionIs ==
    ASSUME TypeOK, PositionsOK, NEW t \in Threads, NEW w \in Swaps,
           NEW position \in {"readFrom", "refuse"}, NEW new \in Jobs,
           BeginDecision(t, w, position, new),
           position = "readFrom" =>
               new.shift = swap[w].from /\ new.other = swap[w].to
    PROVE  \E j \in Jobs : StartsDecision(t, position, j)
<1> DEFINE j == [new EXCEPT !.swap = w]
<1>1. /\ j \in Jobs /\ j.swap = w /\ j.shift = new.shift
      /\ j.other = new.other
  BY DEF Jobs
<1>2. Start(t, position, j)
  BY DEF BeginDecision
<1>3. Starts(t, position, j)
  BY <1>1, <1>2, StartIs
<1> HIDE DEF j
<1>4. /\ contested \subseteq contested' /\ contested' \subseteq Swaps
      /\ \A u \in Threads : Deciding(u) /\ job[u].swap = w => w \in contested'
  BY DEF BeginDecision, TypeOK
<1>5. /\ Pending(w)
      /\ UNCHANGED <<scope, roster, swap, exchanges, outdated, handedOver,
                     weekly>>
  BY DEF BeginDecision, Judged
<1>6. StartsDecision(t, position, j)
  BY <1>1, <1>3, <1>4, <1>5 DEF StartsDecision
<1> QED
  BY <1>1, <1>6

(* An approval takes the shifts from its row.                              *)
LEMMA StartApprovalIs ==
    ASSUME TypeOK, PositionsOK, NEW t \in Threads, NEW w \in Swaps,
           BeginApproval(t, w)
    PROVE  \E j \in Jobs : StartsDecision(t, "readFrom", j)
<1> DEFINE j == [NoJob EXCEPT !.shift = swap[w].from, !.other = swap[w].to]
<1>1. swap[w].from \in Shifts \cup {0} /\ swap[w].to \in Shifts \cup {0}
  BY DEF TypeOK, Row
<1>2. j \in Jobs /\ j.shift = swap[w].from /\ j.other = swap[w].to
  BY <1>1 DEF NoJob, Jobs
<1>3. BeginDecision(t, w, "readFrom", j)
  BY DEF BeginApproval
<1> HIDE DEF j
<1> QED
  BY <1>2, <1>3, StartDecisionIs

(* A rejection or cancellation takes the request only.                     *)
LEMMA StartRefusalIs ==
    ASSUME TypeOK, PositionsOK, NEW t \in Threads, NEW w \in Swaps,
           BeginRejection(t, w) \/ BeginCancellation(t, w)
    PROVE  \E j \in Jobs : StartsDecision(t, "refuse", j)
<1>1. ASSUME NEW verdict \in {"REJECTED", "CANCELLED"},
             BeginRefusal(t, w, verdict)
      PROVE  \E j \in Jobs : StartsDecision(t, "refuse", j)
  <2> DEFINE j == [NoJob EXCEPT !.verdict = verdict]
  <2>1. j \in Jobs
    BY DEF NoJob, Jobs
  <2>2. BeginDecision(t, w, "refuse", j)
    BY <1>1 DEF BeginRefusal
  <2> HIDE DEF j
  <2> QED
    BY <2>1, <2>2, StartDecisionIs
<1> QED
  BY <1>1 DEF BeginRejection, BeginCancellation

(* A deleted shift takes its swap requests with it.                        *)
LEMMA ClearIs ==
    ASSUME TypeOK, NEW t \in Threads, ClearWeek(t)
    PROVE  ClearsWeek(t)
<1>1. [NoSwap EXCEPT !.status = "GONE"] \in Row
      /\ [NoSwap EXCEPT !.status = "GONE"].status = "GONE"
  BY DEF NoSwap, Row, Decisions
<1> DEFINE gone == [NoSwap EXCEPT !.status = "GONE"]
<1>2. swap' = [w \in Swaps |->
          IF {swap[w].from, swap[w].to} \cap Cleared # {}
          THEN gone ELSE swap[w]]
  BY DEF ClearWeek
<1> HIDE DEF gone
<1>3. swap' \in [Swaps -> Row]
  BY <1>1, <1>2 DEF TypeOK, gone
<1>4. \A w \in Swaps :
          IF swap[w].from \in Cleared \/ swap[w].to \in Cleared
          THEN swap'[w].status = "GONE"
          ELSE swap'[w] = swap[w]
  BY <1>1, <1>2 DEF gone
<1> QED
  BY <1>3, <1>4 DEF ClearWeek, ClearsWeek

(* CreateWeek numbers the guards from 1 to their number.                   *)
LEMMA GuardsAreNumbered ==
    ASSUME NEW guards, guards \subseteq Guards
    PROVE  /\ Cardinality(guards) \in Nat
           /\ \A g \in guards : Position(g, guards) \in 1..Cardinality(guards)
           /\ \A k \in 1..Cardinality(guards) :
                 \E g \in guards : Position(g, guards) = k
<1> DEFINE Upto(g) == {h \in guards : h <= g}
<1>1. IsFiniteSet(guards) /\ Cardinality(guards) \in Nat
  BY FS_Subset, FS_CardinalityType
<1>2. guards \subseteq Nat
  OBVIOUS
<1>3. \A g \in guards : /\ IsFiniteSet(Upto(g)) /\ g \in Upto(g)
                        /\ Cardinality(Upto(g)) \in Nat
                        /\ Cardinality(Upto(g)) <= Cardinality(guards)
  BY <1>1, <1>2, FS_Subset, FS_CardinalityType
<1>4. \A g \in guards : Cardinality(Upto(g)) # 0
  BY <1>3, FS_EmptySet
<1>5. \A g \in guards : Position(g, guards) = Cardinality(Upto(g))
  BY DEF Position
<1>6. ASSUME NEW k \in 1..Cardinality(guards)
      PROVE  \E g \in guards : Position(g, guards) = k
  <2> DEFINE late == {g \in guards : k <= Cardinality(Upto(g))}
  <2>1. late # {}
    <3>1. guards # {}
      BY <1>1, FS_EmptySet
    <3>2. PICK g \in guards : \A h \in guards : h <= g
      BY <1>1, <1>2, <3>1, GreatestNatural
    <3>3. Upto(g) = guards
      BY <3>2
    <3> QED
      BY <1>1, <3>3
  <2>2. PICK g \in late : \A h \in late : g <= h
    BY <1>2, <2>1, LeastNatural
  <2> DEFINE before == {h \in guards : h < g}
  <2>3. IsFiniteSet(before) /\ Cardinality(before) \in Nat
    BY <1>1, FS_Subset, FS_CardinalityType
  <2>4. Upto(g) = before \cup {g} /\ g \notin before
    <3>1. g \in guards /\ g \in Nat /\ g <= g /\ ~(g < g)
      BY <1>2
    <3>2. \A h \in guards : h <= g <=> h < g \/ h = g
      BY <1>2, <3>1
    <3>3. \A h : h \in Upto(g) <=> h \in before \/ h = g
      BY <3>1, <3>2, Zenon
    <3> QED
      BY <3>1, <3>3, Zenon
  <2>5. Cardinality(Upto(g)) = Cardinality(before) + 1
    BY <2>3, <2>4, FS_AddElement
  <2>6. Cardinality(before) < k
    <3>1. CASE before = {}
      BY <3>1, FS_EmptySet
    <3>2. CASE before # {}
      <4>1. before \subseteq Nat
        BY <1>2
      <4>2. PICK p \in before : \A h \in before : h <= p
        BY <2>3, <3>2, <4>1, GreatestNatural
      <4>3. before = Upto(p)
        <5>1. \A h \in guards : h < g <=> h <= p
          BY <1>2, <4>2
        <5> QED
          BY <5>1
      <4>4. p \notin late
        BY <1>2, <2>2
      <4> QED
        BY <1>3, <4>3, <4>4
    <3> QED
      BY <3>1, <3>2
  <2> QED
    BY <1>3, <1>5, <2>2, <2>3, <2>5, <2>6
<1>7. \A g \in guards : Position(g, guards) \in 1..Cardinality(guards)
  <2> HIDE DEF Upto
  <2> QED
    BY <1>1, <1>3, <1>4, <1>5
<1> QED
  BY <1>1, <1>6, <1>7

(* The new shifts follow those there were, one for each guard.             *)
LEMMA CreateWeekIs ==
    ASSUME TypeOK, NEW t \in Threads, CreateWeek(t)
    PROVE  CreatesWeek(t)
<1> DEFINE guards == job[t].seen
           n == Cardinality(guards)
           new == [g \in guards |-> created + Position(g, guards)]
<1>1. guards \subseteq Guards
  BY DEF TypeOK, Jobs
<1>2. scope.shifts \in 0..MaxShifts
  BY ScopeBounds DEF TypeOK
<1>3. /\ n \in Nat
      /\ \A g \in guards : Position(g, guards) \in 1..n
      /\ \A k \in 1..n : \E g \in guards : Position(g, guards) = k
  BY <1>1, GuardsAreNumbered
<1>4. created \in Nat /\ created' = created + n /\ created' <= scope.shifts
  BY DEF CreateWeek, TypeOK
<1>5. owner' = [s \in Shifts |-> IF \E g \in guards : new[g] = s
                                 THEN CHOOSE g \in guards : new[g] = s
                                 ELSE owner[s]]
  BY DEF CreateWeek
<1> HIDE DEF guards, n
<1>6. \A s \in Shifts :
         s \in created + 1 .. created' <=> \E g \in guards : new[g] = s
  <2>1. ASSUME NEW s \in Shifts, s \in created + 1 .. created'
        PROVE  \E g \in guards : new[g] = s
    <3>1. s - created \in 1..n
      BY <1>3, <1>4, <2>1 DEF Shifts
    <3>2. PICK g \in guards : Position(g, guards) = s - created
      BY <1>3, <3>1
    <3> QED
      BY <1>4, <3>2 DEF Shifts
  <2>2. ASSUME NEW s \in Shifts, NEW g \in guards, new[g] = s
        PROVE  s \in created + 1 .. created'
    BY <1>3, <1>4, <2>2
  <2> QED
    BY <2>1, <2>2
<1> HIDE DEF new
<1>7. \A s \in Shifts : IF s \in created + 1 .. created'
                        THEN owner'[s] \in guards
                        ELSE owner'[s] = owner[s]
  BY <1>5, <1>6
<1>8. owner' \in [Shifts -> Guards \cup {None}]
  <2>1. \A s \in Shifts : owner'[s] \in Guards \cup {None}
    BY <1>1, <1>7 DEF TypeOK
  <2>2. owner' = [s \in Shifts |-> owner'[s]]
    BY <1>5
  <2> QED
    BY <2>1, <2>2
<1>9. created' \in created..MaxShifts
  BY <1>2, <1>3, <1>4
<1> QED
  BY <1>1, <1>7, <1>8, <1>9 DEF CreateWeek, CreatesWeek

(* A new swap request takes the first free row.                            *)
LEMMA CreateSwapIs ==
    ASSUME TypeOK, PositionsOK, AskedOK, NEW t \in Threads,
           CreateSwapRequest(t)
    PROVE  \E w \in Swaps, row \in Row : CreatesSwap(t, w, row)
<1> DEFINE w == Cardinality(Asked) + 1
           row == [status |-> "PENDING", requester |-> job[t].guard,
                   target |-> job[t].target, from |-> job[t].shift,
                   to |-> job[t].other]
<1>1. PICK n \in 0..MaxSwaps : Asked = 1..n
  BY DEF AskedOK
<1>2. w = n + 1
  <2>1. Cardinality(1..n) = IF 1 > n THEN 0 ELSE n - 1 + 1
    BY FS_Interval
  <2> QED
    BY <1>1, <2>1
<1>3. pc[t] = "createSwap" /\ w <= scope.swaps
  BY DEF CreateSwapRequest
<1>4. w \in Swaps
  BY <1>2, <1>3, ScopeBounds DEF TypeOK, Swaps
<1>5. \A v \in Swaps : v \in Asked <=> v < w
  BY <1>1, <1>2 DEF Swaps
<1>6. swap[w].status = "NONE"
  BY <1>4, <1>5 DEF Asked, Swaps
<1>7. /\ job[t].guard \in Guards /\ job[t].target \in Guards
      /\ job[t].shift \in Shifts \cup {0} /\ job[t].other \in Shifts \cup {0}
  BY <1>3 DEF PositionsOK, TypeOK, Jobs
<1>8. /\ row \in Row
      /\ row.status = "PENDING"
      /\ row.requester = job[t].guard /\ row.target = job[t].target
      /\ row.from = job[t].shift /\ row.to = job[t].other
  BY <1>7 DEF Row, Decisions
<1>9. swap' = [swap EXCEPT ![w] = row]
  BY DEF CreateSwapRequest
<1> HIDE DEF w, row
<1>10. CreatesSwap(t, w, row)
  BY <1>3, <1>4, <1>5, <1>6, <1>8, <1>9 DEF CreateSwapRequest, CreatesSwap
<1> QED
  BY <1>4, <1>8, <1>10

(* A read stores the owner in the request ...                              *)
LEMMA ReadFirstIs ==
    ASSUME TypeOK, PositionsOK, NEW t \in Threads, ReadRequesterShift(t)
    PROVE  \E j \in Jobs : ReadsFirst(t, j)
<1> DEFINE s == job[t].shift
           j == [job[t] EXCEPT !.first = owner[s]]
<1>1. pc[t] = "readFrom" /\ Exists(s)
  BY DEF ReadRequesterShift, ReadOwner
<1>2. job[t] \in Jobs /\ owner[s] \in Guards \cup {None}
  <2>1. job[t] \in Jobs
    BY DEF TypeOK
  <2>2. s \in Shifts
    BY <1>1 DEF TypeOK, PositionsOK, Swapping, Shifts
  <2> QED
    BY <2>1, <2>2 DEF TypeOK
<1>3. /\ j \in Jobs /\ j.first = owner[s] /\ j.shift = s
      /\ j.other = job[t].other /\ j.swap = job[t].swap
  BY <1>2 DEF Jobs
<1>4. job' = [job EXCEPT ![t] = j]
  BY DEF ReadRequesterShift, ReadOwner
<1> HIDE DEF j
<1>5. ReadsFirst(t, j)
  BY <1>1, <1>3, <1>4 DEF ReadsFirst, ReadRequesterShift, ReadOwner
<1> QED
  BY <1>3, <1>5

(* ... and so does the second.                                             *)
LEMMA ReadSecondIs ==
    ASSUME TypeOK, PositionsOK, NEW t \in Threads, ReadTargetShift(t)
    PROVE  \E j \in Jobs : ReadsSecond(t, j)
<1> DEFINE s == job[t].other
           j == [job[t] EXCEPT !.second = owner[s]]
<1>1. pc[t] = "readTo" /\ Exists(s)
  BY DEF ReadTargetShift, ReadOwner
<1>2. job[t] \in Jobs /\ owner[s] \in Guards \cup {None}
  <2>1. job[t] \in Jobs
    BY DEF TypeOK
  <2>2. s \in Shifts
    BY <1>1 DEF TypeOK, PositionsOK, Swapping, Shifts
  <2> QED
    BY <2>1, <2>2 DEF TypeOK
<1>3. /\ j \in Jobs /\ j.second = owner[s] /\ j.first = job[t].first
      /\ j.shift = job[t].shift /\ j.other = s /\ j.swap = job[t].swap
  BY <1>2 DEF Jobs
<1>4. job' = [job EXCEPT ![t] = j]
  BY DEF ReadTargetShift, ReadOwner
<1> HIDE DEF j
<1>5. ReadsSecond(t, j)
  BY <1>1, <1>3, <1>4 DEF ReadsSecond, ReadTargetShift, ReadOwner
<1> QED
  BY <1>3, <1>5

(* A decision writes the status of a row and leaves the rest.              *)
LEMMA DecideIs ==
    ASSUME TypeOK, PositionsOK, NEW t \in Threads, Deciding(t),
           NEW decision \in {"APPROVED", "REJECTED", "CANCELLED"},
           swap' = [swap EXCEPT ![job[t].swap].status = decision]
    PROVE  \E row \in Row : Decides(t, row) /\ row.status = decision
<1> DEFINE w == job[t].swap
           row == [swap[w] EXCEPT !.status = decision]
<1>1. w \in Swaps
  BY DEF PositionsOK, Asked
<1>2. swap[w] \in Row
  BY <1>1 DEF TypeOK
<1>3. /\ row \in Row /\ row.status = decision
      /\ row.requester = swap[w].requester /\ row.target = swap[w].target
      /\ row.from = swap[w].from /\ row.to = swap[w].to
  BY <1>2 DEF Row, Decisions
<1>4. swap' = [swap EXCEPT ![w] = row]
  OBVIOUS
<1> HIDE DEF row
<1> QED
  BY <1>3, <1>4 DEF Decides

(* An approval writes the row and the shifts.                              *)
LEMMA ExchangeIs ==
    ASSUME TypeOK, PositionsOK, NEW t \in Threads, Exchange(t)
    PROVE  \E row \in Row : Exchanges(t, row)
<1>1. PICK row \in Row : Decides(t, row) /\ row.status = "APPROVED"
  BY DecideIs DEF Exchange, Deciding
<1>2. Exchanges(t, row)
  BY <1>1 DEF Exchange, Exchanges, TargetReceives
<1> QED
  BY <1>2

(* A rejection or cancellation writes the row.                             *)
LEMMA RefuseIs ==
    ASSUME TypeOK, PositionsOK, NEW t \in Threads,
           RejectSwap(t) \/ CancelSwap(t)
    PROVE  \E row \in Row : Refuses(t, row)
<1>1. PICK row \in Row : /\ Decides(t, row)
                         /\ row.status \in {"REJECTED", "CANCELLED"}
  BY DecideIs DEF RejectSwap, CancelSwap, Refuse, Deciding
<1>2. Refuses(t, row)
  BY <1>1 DEF RejectSwap, CancelSwap, Refuse, Refuses
<1> QED
  BY <1>2

(* Whatever the next step is, it has such an effect.                       *)
LEMMA StepIs ==
    ASSUME TypeOK, PositionsOK, AskedOK, Next
    PROVE  Step
<1>1. ASSUME NEW g \in Guards, SuspendGuard(g) \/ ActivateGuard(g)
      PROVE  Step
  <2>1. Staffs
    BY <1>1 DEF SuspendGuard, ActivateGuard, Staffs, TypeOK
  <2> QED
    BY <2>1 DEF Step, RosterStep
<1>2. ASSUME NEW g \in Guards, AssignShift(g)
      PROVE  Step
  <2>1. created < scope.shifts /\ scope.shifts \in 0..MaxShifts
    BY <1>2, ScopeBounds DEF AssignShift, TypeOK
  <2>2. created < MaxShifts
    BY <2>1 DEF TypeOK
  <2> QED
    BY <1>2, <2>2 DEF Step, RosterStep, Assigns
<1>3. ASSUME NEW s \in Shifts, DayPasses(s)
      PROVE  Step
  BY <1>3 DEF Step, RosterStep
<1>4. ASSUME NEW t \in Threads, Week(t)
      PROVE  Step
  BY <1>4, StartWeekIs, ClearIs, CreateWeekIs DEF Week, Step, WeekStep
<1>5. ASSUME NEW t \in Threads, Clock(t)
      PROVE  Step
  <2>1. {"markIn", "markOut"} \subseteq Positions
    BY DEF Positions
  <2> QED
    BY <1>5, <2>1, StartClockInIs, StartClockOutIs DEF Clock, Step, ClockStep
<1>6. ASSUME NEW t \in Threads, SwapShifts(t)
      PROVE  Step
  <2>1. {"readFrom", "refuse"} \subseteq Positions
    BY DEF Positions
  <2>2. SwapStep(t)
    BY <1>6, <2>1, StartAskingIs, CreateSwapIs, StartApprovalIs,
       StartRefusalIs, ReadFirstIs, ReadSecondIs, ExchangeIs, RefuseIs
       DEF SwapShifts, SwapStep
  <2> QED
    BY <2>2 DEF Step
<1>7. ASSUME NEW t \in Threads, Fail(t)
      PROVE  Step
  BY <1>7 DEF Step
<1> QED
  BY <1>1, <1>2, <1>3, <1>4, <1>5, <1>6, <1>7 DEF Next

-----------------------------------------------------------------------------
(* Every such step preserves each part of the invariant. *)

(* Requests are about shifts and swap requests that there are.             *)
LEMMA ArgumentsExist ==
    ASSUME TypeOK, PositionsOK, NEW t \in Threads
    PROVE  /\ Clocking(t) => job[t].shift \in Shifts
           /\ pc[t] = "createSwap" \/ Swapping(t) =>
                  job[t].shift \in Shifts /\ job[t].other \in Shifts
           /\ Deciding(t) => job[t].swap \in Swaps
  BY DEF TypeOK, PositionsOK, Shifts, Asked

(* A swap moves shifts and deletes none.                                   *)
LEMMA ExchangeKeepsShifts ==
    ASSUME TypeOK, PositionsOK, NEW t \in Threads, NEW row \in Row,
           Exchanges(t, row)
    PROVE  /\ job[t].shift \in Shifts /\ job[t].other \in Shifts
           /\ job[t].first \in Guards /\ job[t].second \in Guards
           /\ job[t].swap \in Swaps
           /\ \A x \in Shifts : owner'[x] = None <=> owner[x] = None
<1>1. /\ job[t].shift \in Shifts /\ job[t].other \in Shifts
      /\ job[t].first \in Guards /\ job[t].second \in Guards
      /\ job[t].swap \in Swaps
  BY ArgumentsExist DEF Exchanges, PositionsOK, Swapping, Deciding
<1>2. ASSUME NEW x \in Shifts
      PROVE  owner'[x] = None <=> owner[x] = None
  BY <1>1 DEF TypeOK, Exchanges, Exists
<1> QED
  BY <1>1, <1>2

(* A request is made once.                                                 *)
LEMMA AskedStep ==
    ASSUME TypeOK, PositionsOK, AskedOK, SwapRowsOK, Step
    PROVE  AskedOK'
<1>1. PICK n \in 0..MaxSwaps : Asked = 1..n
  BY DEF AskedOK
<1>2. ASSUME \A w \in Swaps :
                 swap'[w].status # "NONE" <=> swap[w].status # "NONE"
      PROVE  AskedOK'
  <2>1. Asked' = Asked
    BY <1>2 DEF Asked
  <2> QED
    BY <1>1, <2>1 DEF AskedOK
<1>3. ASSUME NEW t \in Threads, ClearsWeek(t)
      PROVE  AskedOK'
  <2>1. 0 \notin Cleared
    BY DEF Cleared, Shifts
  <2>2. ASSUME NEW w \in Swaps
        PROVE  swap'[w].status # "NONE" <=> swap[w].status # "NONE"
    BY <1>3, <2>1 DEF ClearsWeek, SwapRowsOK
  <2> QED
    BY <1>2, <2>2
<1>4. ASSUME NEW t \in Threads, NEW w \in Swaps, NEW row \in Row,
             CreatesSwap(t, w, row)
      PROVE  AskedOK'
  <2>1. \A v \in Swaps : v \in Asked <=> v < w
    BY <1>4 DEF CreatesSwap
  <2>2. \A v \in Swaps : v \in Asked' <=> v \in Asked \/ v = w
    BY <1>4 DEF CreatesSwap, Asked, TypeOK
  <2>3. w \in 1..MaxSwaps /\ Asked' \subseteq Swaps
    BY DEF Swaps, Asked
  <2>4. \A v \in Swaps : v \in Asked' <=> v \in 1..w
    BY <2>1, <2>2, <2>3 DEF Swaps
  <2>5. 1..w \subseteq Swaps
    BY <2>3 DEF Swaps
  <2>6. Asked' = 1..w
    BY <2>3, <2>4, <2>5, Zenon
  <2> QED
    BY <2>3, <2>6 DEF AskedOK
<1>5. ASSUME NEW t \in Threads, NEW row \in Row,
             Exchanges(t, row) \/ Refuses(t, row)
      PROVE  AskedOK'
  <2>1. job[t].swap \in Asked
    BY <1>5 DEF PositionsOK, Deciding, Exchanges, Refuses
  <2>2. row.status # "NONE" /\ swap' = [swap EXCEPT ![job[t].swap] = row]
    BY <1>5 DEF Exchanges, Refuses, Decides
  <2>3. \A w \in Swaps : swap'[w].status # "NONE" <=> swap[w].status # "NONE"
    BY <2>1, <2>2 DEF TypeOK, Asked
  <2> QED
    BY <1>2, <2>3
<1>6. ASSUME \/ Staffs
             \/ \E g \in Guards : Assigns(g)
             \/ \E s \in Shifts : DayPasses(s)
             \/ \E t \in Threads, j \in Jobs : StartsWeek(t, j)
             \/ \E t \in Threads : CreatesWeek(t)
             \/ \E t \in Threads, p \in Positions, j \in Jobs :
                    StartsClock(t, p, j)
             \/ \E t \in Threads : MarkOnDuty(t)
             \/ \E t \in Threads : RecordClockIn(t)
             \/ \E t \in Threads : MarkCompleted(t)
             \/ \E t \in Threads : RecordClockOut(t)
             \/ \E t \in Threads, j \in Jobs : StartsAsking(t, j)
             \/ \E t \in Threads, p \in Positions, j \in Jobs :
                    StartsDecision(t, p, j)
             \/ \E t \in Threads, j \in Jobs : ReadsFirst(t, j)
             \/ \E t \in Threads, j \in Jobs : ReadsSecond(t, j)
             \/ \E t \in Threads : Fail(t)
      PROVE  AskedOK'
  <2>1. swap' = swap
    BY <1>6 DEF Staffs, roster, request, swapping, weekly, Assigns,
       AssignShift, DayPasses, Upcoming, Exists, StartsWeek, Starts,
       CreatesWeek, Leave, StartsClock, MarkOnDuty, SetDuty, GoTo,
       RecordClockIn, AttendanceGuard, MarkCompleted, RecordClockOut,
       StartsAsking, StartsDecision, Pending, ReadsFirst, ReadsSecond, Fail
  <2> QED
    BY <1>2, <2>1
<1> QED
  BY <1>3, <1>4, <1>5, <1>6 DEF Step, RosterStep, WeekStep, ClockStep,
     SwapStep

(* The shifts there were keep their owners when others are added.          *)
LEMMA OldShiftsStay ==
    ASSUME TypeOK, \/ \E g \in Guards : Assigns(g)
                   \/ \E t \in Threads : CreatesWeek(t)
    PROVE  /\ \A s \in 1..created : s \in Shifts /\ owner'[s] = owner[s]
           /\ \A s \in Shifts : s <= created \/ created < s
<1>1. created \in Nat /\ created <= MaxShifts
  BY DEF TypeOK
<1>2. \A s \in 1..created : s \in Shifts
  BY <1>1 DEF Shifts
<1>3. \A s \in Shifts : s <= created \/ created < s
  BY <1>1 DEF Shifts
<1>4. ASSUME NEW g \in Guards, Assigns(g), NEW s \in 1..created
      PROVE  owner'[s] = owner[s]
  <2>1. created' = created + 1 /\ owner' = [owner EXCEPT ![created'] = g]
    BY <1>4 DEF Assigns, AssignShift
  <2>2. s # created'
    BY <1>1, <2>1
  <2> QED
    BY <1>2, <2>1, <2>2 DEF TypeOK
<1>5. ASSUME NEW t \in Threads, CreatesWeek(t), NEW s \in 1..created
      PROVE  owner'[s] = owner[s]
  BY <1>1, <1>2, <1>5 DEF CreatesWeek
<1> QED
  BY <1>2, <1>3, <1>4, <1>5

(* Every request writes rows of the type.                                  *)
LEMMA TypeStep ==
    ASSUME TypeOK, PositionsOK, Step
    PROVE  TypeOK'
<1>1. ASSUME Staffs
      PROVE  TypeOK'
  BY <1>1 DEF TypeOK, Staffs, roster, request, swapping, weekly
<1>2. ASSUME NEW g \in Guards, Assigns(g)
      PROVE  TypeOK'
  BY <1>2 DEF TypeOK, Shifts, Assigns, AssignShift, roster, request, swapping,
     weekly
<1>3. ASSUME NEW s \in Shifts, DayPasses(s)
      PROVE  TypeOK'
  BY <1>3 DEF TypeOK, DayPasses, Upcoming, Exists, roster, request, swapping,
     weekly
<1>4. ASSUME NEW t \in Threads, NEW j \in Jobs, StartsWeek(t, j)
      PROVE  TypeOK'
  BY <1>4 DEF TypeOK, Positions, StartsWeek, Starts, roster, request,
     swapping, weekly
<1>5. ASSUME NEW t \in Threads, ClearsWeek(t)
      PROVE  TypeOK'
  BY <1>5 DEF TypeOK, Duties, Positions, ClearsWeek, Cleared, Upcoming,
     Exists, GoTo, roster, request, swapping, weekly
<1>6. ASSUME NEW t \in Threads, CreatesWeek(t)
      PROVE  TypeOK'
  BY <1>6, NoJobIsJob DEF TypeOK, Positions, CreatesWeek, Leave, roster,
     request, swapping, weekly
<1>7. ASSUME NEW t \in Threads, NEW p \in Positions, NEW j \in Jobs,
             StartsClock(t, p, j)
      PROVE  TypeOK'
  BY <1>7 DEF TypeOK, Positions, StartsClock, Starts, roster, request,
     swapping, weekly
<1>8. ASSUME NEW t \in Threads, MarkOnDuty(t)
      PROVE  TypeOK'
  BY <1>8 DEF TypeOK, Duties, Positions, MarkOnDuty, SetDuty, Exists, GoTo,
     roster, request, swapping, weekly
<1>9. ASSUME NEW t \in Threads, RecordClockIn(t)
      PROVE  TypeOK'
  BY <1>9, NoJobIsJob DEF TypeOK, PositionsOK, Clocking, Positions,
     RecordClockIn, Exists, AttendanceGuard, Leave, roster, request, swapping,
     weekly
<1>10. ASSUME NEW t \in Threads, MarkCompleted(t)
      PROVE  TypeOK'
  BY <1>10 DEF TypeOK, Duties, Positions, MarkCompleted, SetDuty, Exists,
     GoTo, roster, request, swapping, weekly
<1>11. ASSUME NEW t \in Threads, RecordClockOut(t)
      PROVE  TypeOK'
  BY <1>11, NoJobIsJob, ArgumentsExist DEF TypeOK, Clocking, Positions,
     RecordClockOut, Leave, roster, request, swapping, weekly
<1>12. ASSUME NEW t \in Threads, NEW j \in Jobs, StartsAsking(t, j)
      PROVE  TypeOK'
  BY <1>12 DEF TypeOK, Positions, StartsAsking, Starts, roster, request,
     swapping, weekly
<1>13. ASSUME NEW t \in Threads, NEW w \in Swaps, NEW row \in Row,
              CreatesSwap(t, w, row)
      PROVE  TypeOK'
  BY <1>13, NoJobIsJob DEF TypeOK, Positions, CreatesSwap, Exists, Leave,
     roster, request, swapping, weekly
<1>14. ASSUME NEW t \in Threads, NEW p \in Positions, NEW j \in Jobs,
              StartsDecision(t, p, j)
      PROVE  TypeOK'
  BY <1>14 DEF TypeOK, Positions, StartsDecision, Pending, Starts, roster,
     request, swapping, weekly
<1>15. ASSUME NEW t \in Threads, NEW j \in Jobs, ReadsFirst(t, j)
      PROVE  TypeOK'
  BY <1>15 DEF TypeOK, Positions, ReadsFirst, Exists, roster, request,
     swapping, weekly
<1>16. ASSUME NEW t \in Threads, NEW j \in Jobs, ReadsSecond(t, j)
      PROVE  TypeOK'
  BY <1>16 DEF TypeOK, Positions, ReadsSecond, Exists, roster, request,
     swapping, weekly
<1>17. ASSUME NEW t \in Threads, NEW row \in Row, Exchanges(t, row)
      PROVE  TypeOK'
  BY <1>17, NoJobIsJob, ArgumentsExist DEF TypeOK, PositionsOK, Swapping,
     Deciding, Positions, Exchanges, Exists, Pending, Decides, Leave, roster,
     request, swapping, weekly
<1>18. ASSUME NEW t \in Threads, NEW row \in Row, Refuses(t, row)
      PROVE  TypeOK'
  BY <1>18, NoJobIsJob DEF TypeOK, PositionsOK, Deciding, Asked, Positions,
     Refuses, Decides, Leave, roster, request, swapping, weekly
<1>19. ASSUME NEW t \in Threads, Fail(t)
      PROVE  TypeOK'
  BY <1>19, NoJobIsJob, ArgumentsExist DEF TypeOK, Clocking, Positions, Fail,
     Leave, roster, request, swapping, weekly
<1>20. QED
  BY <1>1, <1>2, <1>3, <1>4, <1>5, <1>6, <1>7, <1>8, <1>9, <1>10, <1>11,
     <1>12, <1>13, <1>14, <1>15, <1>16, <1>17, <1>18, <1>19 DEF Step,
     RosterStep, WeekStep, ClockStep, SwapStep

(* A request keeps its arguments, and the rows they name.                  *)
LEMMA PositionsStep ==
    ASSUME TypeOK, PositionsOK, RowsOK, SwapRowsOK, Step
    PROVE  PositionsOK'
<1>1. ASSUME Staffs
      PROVE  PositionsOK'
  BY <1>1 DEF TypeOK, PositionsOK, Clocking, Swapping, Deciding, Shifts,
     Asked, Staffs, roster, request, swapping, weekly
<1>2. ASSUME NEW g \in Guards, Assigns(g)
      PROVE  PositionsOK'
  BY <1>2 DEF TypeOK, PositionsOK, Clocking, Swapping, Deciding, Shifts,
     Asked, Assigns, AssignShift, roster, request, swapping, weekly
<1>3. ASSUME NEW s \in Shifts, DayPasses(s)
      PROVE  PositionsOK'
  BY <1>3 DEF TypeOK, PositionsOK, Clocking, Swapping, Deciding, Shifts,
     Asked, DayPasses, Upcoming, Exists, roster, request, swapping, weekly
<1>4. ASSUME NEW t \in Threads, NEW j \in Jobs, StartsWeek(t, j)
      PROVE  PositionsOK'
  BY <1>4 DEF TypeOK, PositionsOK, Clocking, Swapping, Deciding, Shifts,
     Asked, StartsWeek, Starts, roster, request, swapping, weekly
<1>5. ASSUME NEW t \in Threads, ClearsWeek(t)
      PROVE  PositionsOK'
  BY <1>5 DEF TypeOK, PositionsOK, Clocking, Swapping, Deciding, Shifts,
     Asked, ClearsWeek, Cleared, Upcoming, Exists, GoTo, roster, request,
     swapping, weekly
<1>6. ASSUME NEW t \in Threads, CreatesWeek(t)
      PROVE  PositionsOK'
  BY <1>6 DEF TypeOK, PositionsOK, Clocking, Swapping, Deciding, Shifts,
     Asked, CreatesWeek, Leave, roster, request, swapping, weekly
<1>7. ASSUME NEW t \in Threads, NEW p \in Positions, NEW j \in Jobs,
             StartsClock(t, p, j)
      PROVE  PositionsOK'
  BY <1>7 DEF TypeOK, PositionsOK, Clocking, Swapping, Deciding, Shifts,
     Asked, RowsOK, Exists, StartsClock, Starts, roster, request, swapping,
     weekly
<1>8. ASSUME NEW t \in Threads, MarkOnDuty(t)
      PROVE  PositionsOK'
  BY <1>8 DEF TypeOK, PositionsOK, Clocking, Swapping, Deciding, Shifts,
     Asked, MarkOnDuty, SetDuty, Exists, GoTo, roster, request, swapping,
     weekly
<1>9. ASSUME NEW t \in Threads, RecordClockIn(t)
      PROVE  PositionsOK'
  BY <1>9 DEF TypeOK, PositionsOK, Clocking, Swapping, Deciding, Shifts,
     Asked, RecordClockIn, Exists, AttendanceGuard, Leave, roster, request,
     swapping, weekly
<1>10. ASSUME NEW t \in Threads, MarkCompleted(t)
      PROVE  PositionsOK'
  BY <1>10 DEF TypeOK, PositionsOK, Clocking, Swapping, Deciding, Shifts,
     Asked, MarkCompleted, SetDuty, Exists, GoTo, roster, request, swapping,
     weekly
<1>11. ASSUME NEW t \in Threads, RecordClockOut(t)
      PROVE  PositionsOK'
  BY <1>11 DEF TypeOK, PositionsOK, Clocking, Swapping, Deciding, Shifts,
     Asked, RecordClockOut, Leave, roster, request, swapping, weekly
<1>12. ASSUME NEW t \in Threads, NEW j \in Jobs, StartsAsking(t, j)
      PROVE  PositionsOK'
  BY <1>12 DEF TypeOK, PositionsOK, Clocking, Swapping, Deciding, Shifts,
     Asked, RowsOK, Exists, StartsAsking, Starts, roster, request, swapping,
     weekly
<1>13. ASSUME NEW t \in Threads, NEW w \in Swaps, NEW row \in Row,
              CreatesSwap(t, w, row)
      PROVE  PositionsOK'
  BY <1>13 DEF TypeOK, PositionsOK, Clocking, Swapping, Deciding, Shifts,
     Asked, CreatesSwap, Exists, Leave, roster, request, swapping, weekly
<1>14. ASSUME NEW t \in Threads, NEW p \in Positions, NEW j \in Jobs,
              StartsDecision(t, p, j)
      PROVE  PositionsOK'
  BY <1>14 DEF TypeOK, PositionsOK, Clocking, Swapping, Deciding, Shifts,
     Asked, SwapRowsOK, StartsDecision, Pending, Starts, roster, request,
     swapping, weekly
<1>15. ASSUME NEW t \in Threads, NEW j \in Jobs, ReadsFirst(t, j)
      PROVE  PositionsOK'
  BY <1>15 DEF TypeOK, PositionsOK, Clocking, Swapping, Deciding, Shifts,
     Asked, ReadsFirst, Exists, roster, request, swapping, weekly
<1>16. ASSUME NEW t \in Threads, NEW j \in Jobs, ReadsSecond(t, j)
      PROVE  PositionsOK'
  BY <1>16 DEF TypeOK, PositionsOK, Clocking, Swapping, Deciding, Shifts,
     Asked, ReadsSecond, Exists, roster, request, swapping, weekly
<1>17. ASSUME NEW t \in Threads, NEW row \in Row, Exchanges(t, row)
      PROVE  PositionsOK'
  BY <1>17 DEF TypeOK, PositionsOK, Clocking, Swapping, Deciding, Shifts,
     Asked, Exchanges, Exists, Pending, Decides, Leave, roster, request,
     swapping, weekly
<1>18. ASSUME NEW t \in Threads, NEW row \in Row, Refuses(t, row)
      PROVE  PositionsOK'
  BY <1>18 DEF TypeOK, PositionsOK, Clocking, Swapping, Deciding, Shifts,
     Asked, Refuses, Decides, Leave, roster, request, swapping, weekly
<1>19. ASSUME NEW t \in Threads, Fail(t)
      PROVE  PositionsOK'
  BY <1>19 DEF TypeOK, PositionsOK, Clocking, Swapping, Deciding, Shifts,
     Asked, Fail, Leave, roster, request, swapping, weekly
<1>20. QED
  BY <1>1, <1>2, <1>3, <1>4, <1>5, <1>6, <1>7, <1>8, <1>9, <1>10, <1>11,
     <1>12, <1>13, <1>14, <1>15, <1>16, <1>17, <1>18, <1>19 DEF Step,
     RosterStep, WeekStep, ClockStep, SwapStep

(* What does not exist stays empty.                                        *)
LEMMA RowsStep ==
    ASSUME TypeOK, PositionsOK, RowsOK, Step
    PROVE  RowsOK'
<1>1. ASSUME NEW g \in Guards, Assigns(g)
      PROVE  RowsOK'
  BY <1>1 DEF TypeOK, RowsOK, Exists, Shifts, Assigns, AssignShift, roster,
     request, swapping, weekly
<1>2. ASSUME NEW t \in Threads, ClearsWeek(t)
      PROVE  RowsOK'
  BY <1>2 DEF TypeOK, RowsOK, Exists, ClearsWeek, Cleared, Upcoming, GoTo,
     roster, request, swapping, weekly
<1>3. ASSUME NEW t \in Threads, CreatesWeek(t)
      PROVE  RowsOK'
  BY <1>3 DEF TypeOK, RowsOK, Exists, Shifts, CreatesWeek, Leave, roster,
     request, swapping, weekly
<1>4. ASSUME NEW t \in Threads, MarkOnDuty(t)
      PROVE  RowsOK'
  BY <1>4, ArgumentsExist DEF TypeOK, RowsOK, Exists, Clocking, MarkOnDuty,
     SetDuty, GoTo, roster, request, swapping, weekly
<1>5. ASSUME NEW t \in Threads, RecordClockIn(t)
      PROVE  RowsOK'
  BY <1>5, ArgumentsExist DEF TypeOK, RowsOK, Exists, Clocking, RecordClockIn,
     AttendanceGuard, Leave, roster, request, swapping, weekly
<1>6. ASSUME NEW t \in Threads, MarkCompleted(t)
      PROVE  RowsOK'
  BY <1>6, ArgumentsExist DEF TypeOK, RowsOK, Exists, Clocking, MarkCompleted,
     SetDuty, GoTo, roster, request, swapping, weekly
<1>7. ASSUME NEW t \in Threads, NEW row \in Row, Exchanges(t, row)
      PROVE  RowsOK'
  BY <1>7, ArgumentsExist DEF TypeOK, RowsOK, Exists, Swapping, Shifts,
     PositionsOK, Exchanges, Pending, Decides, Leave, roster, request,
     swapping, weekly
<1>8. ASSUME \/ Staffs
             \/ \E s \in Shifts : DayPasses(s)
             \/ \E t \in Threads, j \in Jobs : StartsWeek(t, j)
             \/ \E t \in Threads, p \in Positions, j \in Jobs :
                    StartsClock(t, p, j)
             \/ \E t \in Threads : RecordClockOut(t)
             \/ \E t \in Threads, j \in Jobs : StartsAsking(t, j)
             \/ \E t \in Threads, w \in Swaps, row \in Row :
                    CreatesSwap(t, w, row)
             \/ \E t \in Threads, p \in Positions, j \in Jobs :
                    StartsDecision(t, p, j)
             \/ \E t \in Threads, j \in Jobs : ReadsFirst(t, j)
             \/ \E t \in Threads, j \in Jobs : ReadsSecond(t, j)
             \/ \E t \in Threads, row \in Row : Refuses(t, row)
             \/ \E t \in Threads : Fail(t)
      PROVE  RowsOK'
  BY <1>8 DEF TypeOK, RowsOK, Exists, Staffs, roster, request, swapping,
     weekly, DayPasses, Upcoming, StartsWeek, Starts, StartsClock,
     RecordClockOut, Leave, StartsAsking, CreatesSwap, StartsDecision,
     Pending, ReadsFirst, ReadsSecond, Refuses, Decides, Fail
<1>9. QED
  BY <1>1, <1>2, <1>3, <1>4, <1>5, <1>6, <1>7, <1>8 DEF Step, RosterStep,
     WeekStep, ClockStep, SwapStep

(* A swap request names shifts that exist.                                 *)
LEMMA SwapRowsStep ==
    ASSUME TypeOK, PositionsOK, RowsOK, SwapRowsOK, DecidingOK, Step
    PROVE  SwapRowsOK'
<1>1. ASSUME NEW g \in Guards, Assigns(g)
      PROVE  SwapRowsOK'
  BY <1>1 DEF TypeOK, SwapRowsOK, Exists, Shifts, Assigns, AssignShift,
     roster, request, swapping, weekly
<1>2. ASSUME NEW t \in Threads, ClearsWeek(t)
      PROVE  SwapRowsOK'
  BY <1>2 DEF TypeOK, SwapRowsOK, Exists, Shifts, ClearsWeek, Cleared,
     Upcoming, GoTo, roster, request, swapping, weekly
<1>3. ASSUME NEW t \in Threads, CreatesWeek(t)
      PROVE  SwapRowsOK'
  BY <1>3 DEF TypeOK, SwapRowsOK, Exists, Shifts, CreatesWeek, Leave, roster,
     request, swapping, weekly
<1>4. ASSUME NEW t \in Threads, NEW w \in Swaps, NEW row \in Row,
             CreatesSwap(t, w, row)
      PROVE  SwapRowsOK'
  BY <1>4, ArgumentsExist DEF TypeOK, SwapRowsOK, Exists, PositionsOK,
     CreatesSwap, Leave, roster, request, swapping, weekly
<1>5. ASSUME NEW t \in Threads, NEW row \in Row, Exchanges(t, row)
      PROVE  SwapRowsOK'
  <2>1. \A x \in 1..created : Exists(x)' <=> Exists(x)
    BY <1>5, ExchangeKeepsShifts DEF Exists, Shifts, TypeOK
  <2>2. swap[job[t].swap].status # "NONE" /\ job[t].swap \in Swaps
    BY <1>5 DEF Exchanges, PositionsOK, Deciding, Asked
  <2>3. swap[job[t].swap].status # "GONE"
    BY <1>5 DEF Exchanges, DecidingOK, Deciding, Swapping
  <2> QED
    BY <1>5, <2>1, <2>2, <2>3 DEF TypeOK, SwapRowsOK, Exchanges, Decides
<1>6. ASSUME NEW t \in Threads, NEW row \in Row, Refuses(t, row)
      PROVE  SwapRowsOK'
  BY <1>6, ArgumentsExist DEF TypeOK, SwapRowsOK, Exists, Deciding,
     PositionsOK, Asked, Refuses, Decides, Leave, roster, request, swapping,
     weekly
<1>7. ASSUME \/ Staffs
             \/ \E s \in Shifts : DayPasses(s)
             \/ \E t \in Threads, j \in Jobs : StartsWeek(t, j)
             \/ \E t \in Threads, p \in Positions, j \in Jobs :
                    StartsClock(t, p, j)
             \/ \E t \in Threads : MarkOnDuty(t)
             \/ \E t \in Threads : RecordClockIn(t)
             \/ \E t \in Threads : MarkCompleted(t)
             \/ \E t \in Threads : RecordClockOut(t)
             \/ \E t \in Threads, j \in Jobs : StartsAsking(t, j)
             \/ \E t \in Threads, p \in Positions, j \in Jobs :
                    StartsDecision(t, p, j)
             \/ \E t \in Threads, j \in Jobs : ReadsFirst(t, j)
             \/ \E t \in Threads, j \in Jobs : ReadsSecond(t, j)
             \/ \E t \in Threads : Fail(t)
      PROVE  SwapRowsOK'
  BY <1>7 DEF TypeOK, SwapRowsOK, Exists, Staffs, roster, request, swapping,
     weekly, DayPasses, Upcoming, StartsWeek, Starts, StartsClock, MarkOnDuty,
     SetDuty, GoTo, RecordClockIn, AttendanceGuard, Leave, MarkCompleted,
     RecordClockOut, StartsAsking, StartsDecision, Pending, ReadsFirst,
     ReadsSecond, Fail
<1>8. QED
  BY <1>1, <1>2, <1>3, <1>4, <1>5, <1>6, <1>7 DEF Step, RosterStep, WeekStep,
     ClockStep, SwapStep

(* Two requests about one thing are noticed.                               *)
LEMMA SoleStep ==
    ASSUME TypeOK, PositionsOK, SoleOK, Step
    PROVE  SoleOK'
<1>1. ASSUME Staffs
      PROVE  SoleOK'
  BY <1>1 DEF TypeOK, SoleOK, Has, Clocking, Swapping, Deciding, Staffs,
     roster, request, swapping, weekly
<1>2. ASSUME NEW g \in Guards, Assigns(g)
      PROVE  SoleOK'
  BY <1>2 DEF TypeOK, SoleOK, Has, Clocking, Swapping, Deciding, Assigns,
     AssignShift, roster, request, swapping, weekly
<1>3. ASSUME NEW s \in Shifts, DayPasses(s)
      PROVE  SoleOK'
  BY <1>3 DEF TypeOK, SoleOK, Has, Clocking, Swapping, Deciding, DayPasses,
     Upcoming, Exists, roster, request, swapping, weekly
<1>4. ASSUME NEW t \in Threads, NEW j \in Jobs, StartsWeek(t, j)
      PROVE  SoleOK'
  BY <1>4 DEF TypeOK, SoleOK, Has, Clocking, Swapping, Deciding, StartsWeek,
     Starts, roster, request, swapping, weekly
<1>5. ASSUME NEW t \in Threads, ClearsWeek(t)
      PROVE  SoleOK'
  BY <1>5 DEF TypeOK, SoleOK, Has, Clocking, Swapping, Deciding, ClearsWeek,
     Cleared, Upcoming, Exists, GoTo, roster, request, swapping, weekly
<1>6. ASSUME NEW t \in Threads, CreatesWeek(t)
      PROVE  SoleOK'
  BY <1>6 DEF TypeOK, SoleOK, Has, Clocking, Swapping, Deciding, CreatesWeek,
     Leave, roster, request, swapping, weekly
<1>7. ASSUME NEW t \in Threads, NEW p \in Positions, NEW j \in Jobs,
             StartsClock(t, p, j)
      PROVE  SoleOK'
  BY <1>7 DEF TypeOK, SoleOK, Has, Clocking, Swapping, Deciding, StartsClock,
     Starts, roster, request, swapping, weekly
<1>8. ASSUME NEW t \in Threads, MarkOnDuty(t)
      PROVE  SoleOK'
  BY <1>8 DEF TypeOK, SoleOK, Has, Clocking, Swapping, Deciding, MarkOnDuty,
     SetDuty, Exists, GoTo, roster, request, swapping, weekly
<1>9. ASSUME NEW t \in Threads, RecordClockIn(t)
      PROVE  SoleOK'
  BY <1>9 DEF TypeOK, SoleOK, Has, Clocking, Swapping, Deciding,
     RecordClockIn, Exists, AttendanceGuard, Leave, roster, request, swapping,
     weekly
<1>10. ASSUME NEW t \in Threads, MarkCompleted(t)
      PROVE  SoleOK'
  BY <1>10 DEF TypeOK, SoleOK, Has, Clocking, Swapping, Deciding,
     MarkCompleted, SetDuty, Exists, GoTo, roster, request, swapping, weekly
<1>11. ASSUME NEW t \in Threads, RecordClockOut(t)
      PROVE  SoleOK'
  BY <1>11 DEF TypeOK, SoleOK, Has, Clocking, Swapping, Deciding,
     RecordClockOut, Leave, roster, request, swapping, weekly
<1>12. ASSUME NEW t \in Threads, NEW j \in Jobs, StartsAsking(t, j)
      PROVE  SoleOK'
  BY <1>12 DEF TypeOK, SoleOK, Has, Clocking, Swapping, Deciding,
     StartsAsking, Starts, roster, request, swapping, weekly
<1>13. ASSUME NEW t \in Threads, NEW w \in Swaps, NEW row \in Row,
              CreatesSwap(t, w, row)
      PROVE  SoleOK'
  BY <1>13 DEF TypeOK, SoleOK, Has, Clocking, Swapping, Deciding, CreatesSwap,
     Exists, Leave, roster, request, swapping, weekly
<1>14. ASSUME NEW t \in Threads, NEW p \in Positions, NEW j \in Jobs,
              StartsDecision(t, p, j)
      PROVE  SoleOK'
  BY <1>14 DEF TypeOK, SoleOK, Has, Clocking, Swapping, Deciding, SwapRowsOK,
     StartsDecision, Pending, Starts, roster, request, swapping, weekly
<1>15. ASSUME NEW t \in Threads, NEW j \in Jobs, ReadsFirst(t, j)
      PROVE  SoleOK'
  BY <1>15 DEF TypeOK, SoleOK, Has, Clocking, Swapping, Deciding, ReadsFirst,
     Exists, roster, request, swapping, weekly
<1>16. ASSUME NEW t \in Threads, NEW j \in Jobs, ReadsSecond(t, j)
      PROVE  SoleOK'
  BY <1>16 DEF TypeOK, SoleOK, Has, Clocking, Swapping, Deciding, ReadsSecond,
     Exists, roster, request, swapping, weekly
<1>17. ASSUME NEW t \in Threads, NEW row \in Row, Exchanges(t, row)
      PROVE  SoleOK'
  BY <1>17 DEF TypeOK, SoleOK, Has, Clocking, Swapping, Deciding, Exchanges,
     Exists, Pending, Decides, Leave, roster, request, swapping, weekly
<1>18. ASSUME NEW t \in Threads, NEW row \in Row, Refuses(t, row)
      PROVE  SoleOK'
  BY <1>18 DEF TypeOK, SoleOK, Has, Clocking, Swapping, Deciding, Refuses,
     Decides, Leave, roster, request, swapping, weekly
<1>19. ASSUME NEW t \in Threads, Fail(t)
      PROVE  SoleOK'
  BY <1>19 DEF TypeOK, SoleOK, Has, Clocking, Swapping, Deciding, Fail, Leave,
     roster, request, swapping, weekly
<1>20. QED
  BY <1>1, <1>2, <1>3, <1>4, <1>5, <1>6, <1>7, <1>8, <1>9, <1>10, <1>11,
     <1>12, <1>13, <1>14, <1>15, <1>16, <1>17, <1>18, <1>19 DEF Step,
     RosterStep, WeekStep, ClockStep, SwapStep

(* What is being decided stays as it was found.                            *)
LEMMA DecidingStep ==
    ASSUME TypeOK, PositionsOK, RowsOK, SwapRowsOK, SoleOK, DecidingOK, Step
    PROVE  DecidingOK'
<1>1. ASSUME Staffs
      PROVE  DecidingOK'
  BY <1>1 DEF TypeOK, DecidingOK, PositionsOK, Deciding, Swapping, Exists,
     Staffs, roster, request, swapping, weekly
<1>2. ASSUME NEW g \in Guards, Assigns(g)
      PROVE  DecidingOK'
  BY <1>2 DEF TypeOK, DecidingOK, PositionsOK, Deciding, Swapping, Exists,
     Shifts, Assigns, AssignShift, roster, request, swapping, weekly
<1>3. ASSUME NEW s \in Shifts, DayPasses(s)
      PROVE  DecidingOK'
  BY <1>3 DEF TypeOK, DecidingOK, PositionsOK, Deciding, Swapping, Exists,
     DayPasses, Upcoming, roster, request, swapping, weekly
<1>4. ASSUME NEW t \in Threads, NEW j \in Jobs, StartsWeek(t, j)
      PROVE  DecidingOK'
  BY <1>4 DEF TypeOK, DecidingOK, PositionsOK, Deciding, Swapping, Exists,
     StartsWeek, Starts, roster, request, swapping, weekly
<1>5. ASSUME NEW t \in Threads, ClearsWeek(t)
      PROVE  DecidingOK'
  <2>1. ASSUME NEW u \in Threads, Deciding(u)'
        PROVE  /\ Deciding(u) /\ job'[u] = job[u]
               /\ job[u].swap \in Swaps
               /\ Swapping(u)' => /\ Swapping(u)
                                  /\ job[u].shift \in Shifts
                                  /\ job[u].other \in Shifts
    BY <1>5, <2>1, ArgumentsExist DEF ClearsWeek, GoTo, Deciding, Swapping,
       TypeOK
  <2>2. ASSUME NEW s \in Shifts, owner'[s] # None
        PROVE  owner[s] # None /\ s \notin Cleared
    BY <1>5, <2>2 DEF ClearsWeek
  <2>3. contested' = contested
    BY <1>5 DEF ClearsWeek, swapping
  <2>4. \A w \in Swaps : swap'[w] = swap[w] \/ swap'[w].status = "GONE"
    BY <1>5 DEF ClearsWeek
  <2>5. \A w \in Swaps :
            swap[w].from \notin Cleared /\ swap[w].to \notin Cleared
                         => swap'[w] = swap[w]
    BY <1>5 DEF ClearsWeek
  <2> QED
    BY <2>1, <2>2, <2>3, <2>4, <2>5 DEF DecidingOK, Exists
<1>6. ASSUME NEW t \in Threads, CreatesWeek(t)
      PROVE  DecidingOK'
  BY <1>6 DEF TypeOK, DecidingOK, PositionsOK, Deciding, Swapping, Exists,
     Shifts, CreatesWeek, Leave, roster, request, swapping, weekly
<1>7. ASSUME NEW t \in Threads, NEW p \in Positions, NEW j \in Jobs,
             StartsClock(t, p, j)
      PROVE  DecidingOK'
  BY <1>7 DEF TypeOK, DecidingOK, PositionsOK, Deciding, Swapping, Exists,
     StartsClock, Starts, roster, request, swapping, weekly
<1>8. ASSUME NEW t \in Threads, MarkOnDuty(t)
      PROVE  DecidingOK'
  BY <1>8 DEF TypeOK, DecidingOK, PositionsOK, Deciding, Swapping, Exists,
     MarkOnDuty, SetDuty, GoTo, roster, request, swapping, weekly
<1>9. ASSUME NEW t \in Threads, RecordClockIn(t)
      PROVE  DecidingOK'
  BY <1>9 DEF TypeOK, DecidingOK, PositionsOK, Deciding, Swapping, Exists,
     RecordClockIn, AttendanceGuard, Leave, roster, request, swapping, weekly
<1>10. ASSUME NEW t \in Threads, MarkCompleted(t)
      PROVE  DecidingOK'
  BY <1>10 DEF TypeOK, DecidingOK, PositionsOK, Deciding, Swapping, Exists,
     MarkCompleted, SetDuty, GoTo, roster, request, swapping, weekly
<1>11. ASSUME NEW t \in Threads, RecordClockOut(t)
      PROVE  DecidingOK'
  BY <1>11 DEF TypeOK, DecidingOK, PositionsOK, Deciding, Swapping, Exists,
     RecordClockOut, Leave, roster, request, swapping, weekly
<1>12. ASSUME NEW t \in Threads, NEW j \in Jobs, StartsAsking(t, j)
      PROVE  DecidingOK'
  BY <1>12 DEF TypeOK, DecidingOK, PositionsOK, Deciding, Swapping, Exists,
     StartsAsking, Starts, roster, request, swapping, weekly
<1>13. ASSUME NEW t \in Threads, NEW w \in Swaps, NEW row \in Row,
              CreatesSwap(t, w, row)
      PROVE  DecidingOK'
  BY <1>13 DEF TypeOK, DecidingOK, PositionsOK, Deciding, Swapping, Exists,
     Asked, CreatesSwap, Leave, roster, request, swapping, weekly
<1>14. ASSUME NEW t \in Threads, NEW p \in Positions, NEW j \in Jobs,
              StartsDecision(t, p, j)
      PROVE  DecidingOK'
  BY <1>14 DEF TypeOK, DecidingOK, PositionsOK, Deciding, Swapping, Exists,
     SwapRowsOK, StartsDecision, Pending, Starts, roster, request, swapping,
     weekly
<1>15. ASSUME NEW t \in Threads, NEW j \in Jobs, ReadsFirst(t, j)
      PROVE  DecidingOK'
  BY <1>15 DEF TypeOK, DecidingOK, PositionsOK, Deciding, Swapping, Exists,
     ReadsFirst, roster, request, swapping, weekly
<1>16. ASSUME NEW t \in Threads, NEW j \in Jobs, ReadsSecond(t, j)
      PROVE  DecidingOK'
  BY <1>16 DEF TypeOK, DecidingOK, PositionsOK, Deciding, Swapping, Exists,
     ReadsSecond, roster, request, swapping, weekly
<1>17. ASSUME NEW t \in Threads, NEW row \in Row, Exchanges(t, row)
      PROVE  DecidingOK'
  <2>1. ASSUME NEW u \in Threads, Deciding(u)'
        PROVE  /\ u # t /\ Deciding(u) /\ job'[u] = job[u]
               /\ job[u].swap \in Swaps
               /\ Swapping(u)' => /\ Swapping(u)
                                  /\ job[u].shift \in Shifts
                                  /\ job[u].other \in Shifts
    BY <1>17, <2>1, ArgumentsExist DEF Exchanges, Leave, Deciding, Swapping,
       TypeOK
  <2>2. \A x \in Shifts : owner'[x] = None <=> owner[x] = None
    BY <1>17, ExchangeKeepsShifts
  <2>3. /\ contested' = contested
        /\ job[t].swap \in Swaps /\ swap' = [swap EXCEPT ![job[t].swap] = row]
        /\ row.from = swap[job[t].swap].from /\ row.to = swap[job[t].swap].to
        /\ row.status = "APPROVED" /\ Deciding(t)
    BY <1>17, ExchangeKeepsShifts DEF Exchanges, Decides, Deciding
  <2>4. \A u \in Threads \ {t} : Deciding(u) /\ job[u].swap = job[t].swap =>
            job[t].swap \in contested
    BY <2>3 DEF SoleOK
  <2>5. \A w \in Swaps : IF w = job[t].swap THEN swap'[w] = row
                                            ELSE swap'[w] = swap[w]
    BY <2>3 DEF TypeOK
  <2> QED
    BY <2>1, <2>2, <2>3, <2>4, <2>5 DEF DecidingOK, Exists
<1>18. ASSUME NEW t \in Threads, NEW row \in Row, Refuses(t, row)
      PROVE  DecidingOK'
  BY <1>18, ArgumentsExist DEF TypeOK, DecidingOK, PositionsOK, Deciding,
     Swapping, Exists, SoleOK, Asked, Refuses, Decides, Leave, roster,
     request, swapping, weekly
<1>19. ASSUME NEW t \in Threads, Fail(t)
      PROVE  DecidingOK'
  BY <1>19 DEF TypeOK, DecidingOK, PositionsOK, Deciding, Swapping, Exists,
     Fail, Leave, roster, request, swapping, weekly
<1>20. QED
  BY <1>1, <1>2, <1>3, <1>4, <1>5, <1>6, <1>7, <1>8, <1>9, <1>10, <1>11,
     <1>12, <1>13, <1>14, <1>15, <1>16, <1>17, <1>18, <1>19 DEF Step,
     RosterStep, WeekStep, ClockStep, SwapStep

(* An owner who was read is the owner still.                               *)
LEMMA OwnersStep ==
    ASSUME TypeOK, PositionsOK, RowsOK, SoleOK, OwnersOK, Step
    PROVE  OwnersOK'
<1>1. ASSUME Staffs
      PROVE  OwnersOK'
  BY <1>1 DEF TypeOK, OwnersOK, Clocking, Swapping, Exists, Staffs, roster,
     request, swapping, weekly
<1>2. ASSUME NEW g \in Guards, Assigns(g)
      PROVE  OwnersOK'
  BY <1>2 DEF TypeOK, OwnersOK, Clocking, Swapping, Exists, PositionsOK,
     Shifts, Assigns, AssignShift, roster, request, swapping, weekly
<1>3. ASSUME NEW s \in Shifts, DayPasses(s)
      PROVE  OwnersOK'
  BY <1>3 DEF TypeOK, OwnersOK, Clocking, Swapping, Exists, DayPasses,
     Upcoming, roster, request, swapping, weekly
<1>4. ASSUME NEW t \in Threads, NEW j \in Jobs, StartsWeek(t, j)
      PROVE  OwnersOK'
  BY <1>4 DEF TypeOK, OwnersOK, Clocking, Swapping, Exists, StartsWeek,
     Starts, roster, request, swapping, weekly
<1>5. ASSUME NEW t \in Threads, ClearsWeek(t)
      PROVE  OwnersOK'
  BY <1>5 DEF TypeOK, OwnersOK, Clocking, Swapping, Exists, Shifts,
     ClearsWeek, Cleared, Upcoming, GoTo, roster, request, swapping, weekly
<1>6. ASSUME NEW t \in Threads, CreatesWeek(t)
      PROVE  OwnersOK'
  BY <1>6 DEF TypeOK, OwnersOK, Clocking, Swapping, Exists, PositionsOK,
     Shifts, CreatesWeek, Leave, roster, request, swapping, weekly
<1>7. ASSUME NEW t \in Threads, NEW p \in Positions, NEW j \in Jobs,
             StartsClock(t, p, j)
      PROVE  OwnersOK'
  BY <1>7 DEF TypeOK, OwnersOK, Clocking, Swapping, Exists, StartsClock,
     Starts, roster, request, swapping, weekly
<1>8. ASSUME NEW t \in Threads, MarkOnDuty(t)
      PROVE  OwnersOK'
  BY <1>8 DEF TypeOK, OwnersOK, Clocking, Swapping, Exists, MarkOnDuty,
     SetDuty, GoTo, roster, request, swapping, weekly
<1>9. ASSUME NEW t \in Threads, RecordClockIn(t)
      PROVE  OwnersOK'
  BY <1>9 DEF TypeOK, OwnersOK, Clocking, Swapping, Exists, RecordClockIn,
     AttendanceGuard, Leave, roster, request, swapping, weekly
<1>10. ASSUME NEW t \in Threads, MarkCompleted(t)
      PROVE  OwnersOK'
  BY <1>10 DEF TypeOK, OwnersOK, Clocking, Swapping, Exists, MarkCompleted,
     SetDuty, GoTo, roster, request, swapping, weekly
<1>11. ASSUME NEW t \in Threads, RecordClockOut(t)
      PROVE  OwnersOK'
  BY <1>11 DEF TypeOK, OwnersOK, Clocking, Swapping, Exists, RecordClockOut,
     Leave, roster, request, swapping, weekly
<1>12. ASSUME NEW t \in Threads, NEW j \in Jobs, StartsAsking(t, j)
      PROVE  OwnersOK'
  BY <1>12 DEF TypeOK, OwnersOK, Clocking, Swapping, Exists, StartsAsking,
     Starts, roster, request, swapping, weekly
<1>13. ASSUME NEW t \in Threads, NEW w \in Swaps, NEW row \in Row,
              CreatesSwap(t, w, row)
      PROVE  OwnersOK'
  BY <1>13 DEF TypeOK, OwnersOK, Clocking, Swapping, Exists, CreatesSwap,
     Leave, roster, request, swapping, weekly
<1>14. ASSUME NEW t \in Threads, NEW p \in Positions, NEW j \in Jobs,
              StartsDecision(t, p, j)
      PROVE  OwnersOK'
  BY <1>14 DEF TypeOK, OwnersOK, Clocking, Swapping, Exists, StartsDecision,
     Pending, Starts, roster, request, swapping, weekly
<1>15. ASSUME NEW t \in Threads, NEW j \in Jobs, ReadsFirst(t, j)
      PROVE  OwnersOK'
  BY <1>15 DEF TypeOK, OwnersOK, Clocking, Swapping, Exists, ReadsFirst,
     roster, request, swapping, weekly
<1>16. ASSUME NEW t \in Threads, NEW j \in Jobs, ReadsSecond(t, j)
      PROVE  OwnersOK'
  BY <1>16 DEF TypeOK, OwnersOK, Clocking, Swapping, Exists, ReadsSecond,
     roster, request, swapping, weekly
<1>17. ASSUME NEW t \in Threads, NEW row \in Row, Exchanges(t, row)
      PROVE  OwnersOK'
  BY <1>17, ExchangeKeepsShifts DEF TypeOK, OwnersOK, Clocking, Swapping,
     Exists, SoleOK, Has, Exchanges, Pending, Decides, Leave, roster, request,
     swapping, weekly
<1>18. ASSUME NEW t \in Threads, NEW row \in Row, Refuses(t, row)
      PROVE  OwnersOK'
  BY <1>18 DEF TypeOK, OwnersOK, Clocking, Swapping, Exists, Refuses, Decides,
     Leave, roster, request, swapping, weekly
<1>19. ASSUME NEW t \in Threads, Fail(t)
      PROVE  OwnersOK'
  BY <1>19 DEF TypeOK, OwnersOK, Clocking, Swapping, Exists, Fail, Leave,
     roster, request, swapping, weekly
<1>20. QED
  BY <1>1, <1>2, <1>3, <1>4, <1>5, <1>6, <1>7, <1>8, <1>9, <1>10, <1>11,
     <1>12, <1>13, <1>14, <1>15, <1>16, <1>17, <1>18, <1>19 DEF Step,
     RosterStep, WeekStep, ClockStep, SwapStep

(* Only an exchange moves a shift, and it outdates other requests.         *)
LEMMA AgreedStep ==
    ASSUME TypeOK, PositionsOK, RowsOK, SwapRowsOK, OwnersOK, AgreedOK,
           DecidingOK, Step
    PROVE  AgreedOK'
<1>1. ASSUME Staffs
      PROVE  AgreedOK'
  BY <1>1 DEF TypeOK, AgreedOK, Exists, Pending, Staffs, roster, request,
     swapping, weekly
<1>2. ASSUME NEW g \in Guards, Assigns(g)
      PROVE  AgreedOK'
  <2>1. /\ \A s \in 1..created : owner'[s] = owner[s]
        /\ UNCHANGED <<swap, mixed, outdated>>
    BY <1>2, OldShiftsStay DEF Assigns, AssignShift, swapping
  <2> QED
    BY <2>1 DEF AgreedOK, SwapRowsOK, Pending
<1>3. ASSUME NEW s \in Shifts, DayPasses(s)
      PROVE  AgreedOK'
  BY <1>3 DEF TypeOK, AgreedOK, Exists, Pending, DayPasses, Upcoming, roster,
     request, swapping, weekly
<1>4. ASSUME NEW t \in Threads, NEW j \in Jobs, StartsWeek(t, j)
      PROVE  AgreedOK'
  BY <1>4 DEF TypeOK, AgreedOK, Exists, Pending, StartsWeek, Starts, roster,
     request, swapping, weekly
<1>5. ASSUME NEW t \in Threads, ClearsWeek(t)
      PROVE  AgreedOK'
  BY <1>5 DEF TypeOK, AgreedOK, Exists, Pending, SwapRowsOK, Shifts,
     ClearsWeek, Cleared, Upcoming, GoTo, roster, request, swapping, weekly
<1>6. ASSUME NEW t \in Threads, CreatesWeek(t)
      PROVE  AgreedOK'
  <2>1. /\ \A s \in 1..created : owner'[s] = owner[s]
        /\ UNCHANGED <<swap, mixed, outdated>>
    BY <1>6, OldShiftsStay DEF CreatesWeek, swapping
  <2> QED
    BY <2>1 DEF AgreedOK, SwapRowsOK, Pending
<1>7. ASSUME NEW t \in Threads, NEW p \in Positions, NEW j \in Jobs,
             StartsClock(t, p, j)
      PROVE  AgreedOK'
  BY <1>7 DEF TypeOK, AgreedOK, Exists, Pending, StartsClock, Starts, roster,
     request, swapping, weekly
<1>8. ASSUME NEW t \in Threads, MarkOnDuty(t)
      PROVE  AgreedOK'
  BY <1>8 DEF TypeOK, AgreedOK, Exists, Pending, MarkOnDuty, SetDuty, GoTo,
     roster, request, swapping, weekly
<1>9. ASSUME NEW t \in Threads, RecordClockIn(t)
      PROVE  AgreedOK'
  BY <1>9 DEF TypeOK, AgreedOK, Exists, Pending, RecordClockIn,
     AttendanceGuard, Leave, roster, request, swapping, weekly
<1>10. ASSUME NEW t \in Threads, MarkCompleted(t)
      PROVE  AgreedOK'
  BY <1>10 DEF TypeOK, AgreedOK, Exists, Pending, MarkCompleted, SetDuty,
     GoTo, roster, request, swapping, weekly
<1>11. ASSUME NEW t \in Threads, RecordClockOut(t)
      PROVE  AgreedOK'
  BY <1>11 DEF TypeOK, AgreedOK, Exists, Pending, RecordClockOut, Leave,
     roster, request, swapping, weekly
<1>12. ASSUME NEW t \in Threads, NEW j \in Jobs, StartsAsking(t, j)
      PROVE  AgreedOK'
  BY <1>12 DEF TypeOK, AgreedOK, Exists, Pending, StartsAsking, Starts,
     roster, request, swapping, weekly
<1>13. ASSUME NEW t \in Threads, NEW w \in Swaps, NEW row \in Row,
              CreatesSwap(t, w, row)
      PROVE  AgreedOK'
  BY <1>13 DEF TypeOK, AgreedOK, Exists, Pending, OwnersOK, PositionsOK,
     Shifts, Swapping, CreatesSwap, Leave, roster, request, swapping, weekly
<1>14. ASSUME NEW t \in Threads, NEW p \in Positions, NEW j \in Jobs,
              StartsDecision(t, p, j)
      PROVE  AgreedOK'
  BY <1>14 DEF TypeOK, AgreedOK, Exists, Pending, StartsDecision, Starts,
     roster, request, swapping, weekly
<1>15. ASSUME NEW t \in Threads, NEW j \in Jobs, ReadsFirst(t, j)
      PROVE  AgreedOK'
  BY <1>15 DEF TypeOK, AgreedOK, Exists, Pending, ReadsFirst, roster, request,
     swapping, weekly
<1>16. ASSUME NEW t \in Threads, NEW j \in Jobs, ReadsSecond(t, j)
      PROVE  AgreedOK'
  BY <1>16 DEF TypeOK, AgreedOK, Exists, Pending, ReadsSecond, roster,
     request, swapping, weekly
<1>17. ASSUME NEW t \in Threads, NEW row \in Row, Exchanges(t, row)
      PROVE  AgreedOK'
  <2> DEFINE s == job[t].shift
             r == job[t].other
  <2>1. /\ \A x \in Shifts \ {s, r} : owner'[x] = owner[x]
        /\ job[t].swap \in Swaps /\ swap' = [swap EXCEPT ![job[t].swap] = row]
        /\ row.status = "APPROVED" /\ mixed' = mixed
        /\ outdated' = outdated \cup {v \in Swaps \ {job[t].swap} :
               Pending(v) /\ {swap[v].from, swap[v].to} \cap {s, r} # {}}
    BY <1>17, ExchangeKeepsShifts DEF TypeOK, Exchanges, Decides
  <2> HIDE DEF s, r
  <2>2. ASSUME NEW w \in Swaps \ outdated', Pending(w)'
        PROVE  /\ Pending(w) /\ w \notin outdated /\ swap'[w] = swap[w]
               /\ owner'[swap[w].from] = owner[swap[w].from]
               /\ owner'[swap[w].to] = owner[swap[w].to]
    <3>1. w # job[t].swap /\ swap'[w] = swap[w]
      BY <2>1, <2>2 DEF Pending, TypeOK
    <3>2. Pending(w) /\ w \notin outdated
      BY <2>1, <2>2, <3>1 DEF Pending
    <3>3. swap[w].from \notin {s, r} /\ swap[w].to \notin {s, r}
      BY <2>1, <2>2, <3>1, <3>2
    <3>4. swap[w].from \in Shifts /\ swap[w].to \in Shifts
      BY <3>2 DEF SwapRowsOK, Pending, TypeOK, Shifts
    <3> QED
      BY <2>1, <3>1, <3>2, <3>3, <3>4
  <2> QED
    BY <2>1, <2>2 DEF AgreedOK
<1>18. ASSUME NEW t \in Threads, NEW row \in Row, Refuses(t, row)
      PROVE  AgreedOK'
  BY <1>18 DEF TypeOK, AgreedOK, Exists, Pending, Refuses, Decides, Leave,
     roster, request, swapping, weekly
<1>19. ASSUME NEW t \in Threads, Fail(t)
      PROVE  AgreedOK'
  BY <1>19 DEF TypeOK, AgreedOK, Exists, Pending, Fail, Leave, roster,
     request, swapping, weekly
<1>20. QED
  BY <1>1, <1>2, <1>3, <1>4, <1>5, <1>6, <1>7, <1>8, <1>9, <1>10, <1>11,
     <1>12, <1>13, <1>14, <1>15, <1>16, <1>17, <1>18, <1>19 DEF Step,
     RosterStep, WeekStep, ClockStep, SwapStep

(* The two writes of a clocking belong together.                           *)
LEMMA AttendanceStep ==
    ASSUME TypeOK, PositionsOK, RowsOK, SoleOK, OwnersOK, AttendanceOK,
           ClockingOK, Step
    PROVE  AttendanceOK'
<1>1. ASSUME Staffs
      PROVE  AttendanceOK'
  BY <1>1 DEF TypeOK, AttendanceOK, Recording, Exists, Staffs, roster,
     request, swapping, weekly
<1>2. ASSUME NEW g \in Guards, Assigns(g)
      PROVE  AttendanceOK'
  BY <1>2 DEF TypeOK, AttendanceOK, Recording, Exists, RowsOK, Shifts,
     Assigns, AssignShift, roster, request, swapping, weekly
<1>3. ASSUME NEW s \in Shifts, DayPasses(s)
      PROVE  AttendanceOK'
  BY <1>3 DEF TypeOK, AttendanceOK, Recording, Exists, DayPasses, Upcoming,
     roster, request, swapping, weekly
<1>4. ASSUME NEW t \in Threads, NEW j \in Jobs, StartsWeek(t, j)
      PROVE  AttendanceOK'
  BY <1>4 DEF TypeOK, AttendanceOK, Recording, Exists, StartsWeek, Starts,
     roster, request, swapping, weekly
<1>5. ASSUME NEW t \in Threads, ClearsWeek(t)
      PROVE  AttendanceOK'
  BY <1>5 DEF TypeOK, AttendanceOK, Recording, Exists, ClearsWeek, Cleared,
     Upcoming, GoTo, roster, request, swapping, weekly
<1>6. ASSUME NEW t \in Threads, CreatesWeek(t)
      PROVE  AttendanceOK'
  <2>1. /\ \A s \in 1..created : owner'[s] = owner[s]
        /\ \A s \in Shifts : s \in 1..created \/ s > created
    BY <1>6, OldShiftsStay DEF Shifts, TypeOK
  <2>2. UNCHANGED <<duty, attended, left, mixed, handedOver>>
    BY <1>6 DEF CreatesWeek, swapping
  <2>3. \A s : Recording(s)' <=> Recording(s)
    BY <1>6 DEF CreatesWeek, Leave, Recording, TypeOK
  <2>4. \A s \in Shifts : s > created =>
            duty[s] = "SCHEDULED" /\ attended[s] = None
    BY DEF RowsOK
  <2> QED
    BY <2>1, <2>2, <2>3, <2>4 DEF AttendanceOK
<1>7. ASSUME NEW t \in Threads, NEW p \in Positions, NEW j \in Jobs,
             StartsClock(t, p, j)
      PROVE  AttendanceOK'
  BY <1>7 DEF TypeOK, AttendanceOK, Recording, Exists, StartsClock, Starts,
     roster, request, swapping, weekly
<1>8. ASSUME NEW t \in Threads, MarkOnDuty(t)
      PROVE  AttendanceOK'
  BY <1>8, ArgumentsExist DEF TypeOK, AttendanceOK, Recording, Exists, SoleOK,
     Has, Clocking, MarkOnDuty, SetDuty, GoTo, roster, request, swapping,
     weekly
<1>9. ASSUME NEW t \in Threads, RecordClockIn(t)
      PROVE  AttendanceOK'
  BY <1>9, ArgumentsExist DEF TypeOK, AttendanceOK, Recording, Exists, SoleOK,
     Has, Clocking, ClockingOK, OwnersOK, RecordClockIn, AttendanceGuard,
     Leave, roster, request, swapping, weekly
<1>10. ASSUME NEW t \in Threads, MarkCompleted(t)
      PROVE  AttendanceOK'
  BY <1>10, ArgumentsExist DEF TypeOK, AttendanceOK, Recording, Exists,
     SoleOK, Has, Clocking, MarkCompleted, SetDuty, GoTo, roster, request,
     swapping, weekly
<1>11. ASSUME NEW t \in Threads, RecordClockOut(t)
      PROVE  AttendanceOK'
  BY <1>11, ArgumentsExist DEF TypeOK, AttendanceOK, Recording, Exists,
     SoleOK, Has, Clocking, ClockingOK, OwnersOK, RowsOK, RecordClockOut,
     Leave, roster, request, swapping, weekly
<1>12. ASSUME NEW t \in Threads, NEW j \in Jobs, StartsAsking(t, j)
      PROVE  AttendanceOK'
  BY <1>12 DEF TypeOK, AttendanceOK, Recording, Exists, StartsAsking, Starts,
     roster, request, swapping, weekly
<1>13. ASSUME NEW t \in Threads, NEW w \in Swaps, NEW row \in Row,
              CreatesSwap(t, w, row)
      PROVE  AttendanceOK'
  BY <1>13 DEF TypeOK, AttendanceOK, Recording, Exists, CreatesSwap, Leave,
     roster, request, swapping, weekly
<1>14. ASSUME NEW t \in Threads, NEW p \in Positions, NEW j \in Jobs,
              StartsDecision(t, p, j)
      PROVE  AttendanceOK'
  BY <1>14 DEF TypeOK, AttendanceOK, Recording, Exists, StartsDecision,
     Pending, Starts, roster, request, swapping, weekly
<1>15. ASSUME NEW t \in Threads, NEW j \in Jobs, ReadsFirst(t, j)
      PROVE  AttendanceOK'
  BY <1>15 DEF TypeOK, AttendanceOK, Recording, Exists, ReadsFirst, roster,
     request, swapping, weekly
<1>16. ASSUME NEW t \in Threads, NEW j \in Jobs, ReadsSecond(t, j)
      PROVE  AttendanceOK'
  BY <1>16 DEF TypeOK, AttendanceOK, Recording, Exists, ReadsSecond, roster,
     request, swapping, weekly
<1>17. ASSUME NEW t \in Threads, NEW row \in Row, Exchanges(t, row)
      PROVE  AttendanceOK'
  BY <1>17, ExchangeKeepsShifts DEF TypeOK, AttendanceOK, Recording, Exists,
     Exchanges, Pending, Decides, Leave, roster, request, swapping, weekly
<1>18. ASSUME NEW t \in Threads, NEW row \in Row, Refuses(t, row)
      PROVE  AttendanceOK'
  BY <1>18 DEF TypeOK, AttendanceOK, Recording, Exists, Refuses, Decides,
     Leave, roster, request, swapping, weekly
<1>19. ASSUME NEW t \in Threads, Fail(t)
      PROVE  AttendanceOK'
  BY <1>19 DEF TypeOK, AttendanceOK, Recording, Exists, Clocking, Fail, Leave,
     roster, request, swapping, weekly
<1>20. QED
  BY <1>1, <1>2, <1>3, <1>4, <1>5, <1>6, <1>7, <1>8, <1>9, <1>10, <1>11,
     <1>12, <1>13, <1>14, <1>15, <1>16, <1>17, <1>18, <1>19 DEF Step,
     RosterStep, WeekStep, ClockStep, SwapStep

(* A shift has the status that its clocking gave it.                       *)
LEMMA ClockingStep ==
    ASSUME TypeOK, PositionsOK, RowsOK, SoleOK, AttendanceOK, ClockingOK, Step
    PROVE  ClockingOK'
<1>1. ASSUME Staffs
      PROVE  ClockingOK'
  BY <1>1 DEF TypeOK, ClockingOK, Exists, Staffs, roster, request, swapping,
     weekly
<1>2. ASSUME NEW g \in Guards, Assigns(g)
      PROVE  ClockingOK'
  BY <1>2 DEF TypeOK, ClockingOK, Exists, PositionsOK, Clocking, Shifts,
     Assigns, AssignShift, roster, request, swapping, weekly
<1>3. ASSUME NEW s \in Shifts, DayPasses(s)
      PROVE  ClockingOK'
  BY <1>3 DEF TypeOK, ClockingOK, Exists, DayPasses, Upcoming, roster,
     request, swapping, weekly
<1>4. ASSUME NEW t \in Threads, NEW j \in Jobs, StartsWeek(t, j)
      PROVE  ClockingOK'
  BY <1>4 DEF TypeOK, ClockingOK, Exists, StartsWeek, Starts, roster, request,
     swapping, weekly
<1>5. ASSUME NEW t \in Threads, ClearsWeek(t)
      PROVE  ClockingOK'
  BY <1>5 DEF TypeOK, ClockingOK, Exists, Shifts, ClearsWeek, Cleared,
     Upcoming, GoTo, roster, request, swapping, weekly
<1>6. ASSUME NEW t \in Threads, CreatesWeek(t)
      PROVE  ClockingOK'
  BY <1>6 DEF TypeOK, ClockingOK, Exists, PositionsOK, Clocking, Shifts,
     CreatesWeek, Leave, roster, request, swapping, weekly
<1>7. ASSUME NEW t \in Threads, NEW p \in Positions, NEW j \in Jobs,
             StartsClock(t, p, j)
      PROVE  ClockingOK'
  BY <1>7 DEF TypeOK, ClockingOK, Exists, StartsClock, Starts, roster,
     request, swapping, weekly
<1>8. ASSUME NEW t \in Threads, MarkOnDuty(t)
      PROVE  ClockingOK'
  BY <1>8, ArgumentsExist DEF TypeOK, ClockingOK, Exists, SoleOK, Has,
     Clocking, MarkOnDuty, SetDuty, GoTo, roster, request, swapping, weekly
<1>9. ASSUME NEW t \in Threads, RecordClockIn(t)
      PROVE  ClockingOK'
  BY <1>9, ArgumentsExist DEF TypeOK, ClockingOK, Exists, SoleOK, Has,
     Clocking, RecordClockIn, AttendanceGuard, Leave, roster, request,
     swapping, weekly
<1>10. ASSUME NEW t \in Threads, MarkCompleted(t)
      PROVE  ClockingOK'
  BY <1>10, ArgumentsExist DEF TypeOK, ClockingOK, Exists, SoleOK, Has,
     Clocking, AttendanceOK, Recording, MarkCompleted, SetDuty, GoTo, roster,
     request, swapping, weekly
<1>11. ASSUME NEW t \in Threads, RecordClockOut(t)
      PROVE  ClockingOK'
  BY <1>11 DEF TypeOK, ClockingOK, Exists, RecordClockOut, Leave, roster,
     request, swapping, weekly
<1>12. ASSUME NEW t \in Threads, NEW j \in Jobs, StartsAsking(t, j)
      PROVE  ClockingOK'
  BY <1>12 DEF TypeOK, ClockingOK, Exists, StartsAsking, Starts, roster,
     request, swapping, weekly
<1>13. ASSUME NEW t \in Threads, NEW w \in Swaps, NEW row \in Row,
              CreatesSwap(t, w, row)
      PROVE  ClockingOK'
  BY <1>13 DEF TypeOK, ClockingOK, Exists, CreatesSwap, Leave, roster,
     request, swapping, weekly
<1>14. ASSUME NEW t \in Threads, NEW p \in Positions, NEW j \in Jobs,
              StartsDecision(t, p, j)
      PROVE  ClockingOK'
  BY <1>14 DEF TypeOK, ClockingOK, Exists, StartsDecision, Pending, Starts,
     roster, request, swapping, weekly
<1>15. ASSUME NEW t \in Threads, NEW j \in Jobs, ReadsFirst(t, j)
      PROVE  ClockingOK'
  BY <1>15 DEF TypeOK, ClockingOK, Exists, ReadsFirst, roster, request,
     swapping, weekly
<1>16. ASSUME NEW t \in Threads, NEW j \in Jobs, ReadsSecond(t, j)
      PROVE  ClockingOK'
  BY <1>16 DEF TypeOK, ClockingOK, Exists, ReadsSecond, roster, request,
     swapping, weekly
<1>17. ASSUME NEW t \in Threads, NEW row \in Row, Exchanges(t, row)
      PROVE  ClockingOK'
  BY <1>17, ExchangeKeepsShifts DEF TypeOK, ClockingOK, Exists, Exchanges,
     Pending, Decides, Leave, roster, request, swapping, weekly
<1>18. ASSUME NEW t \in Threads, NEW row \in Row, Refuses(t, row)
      PROVE  ClockingOK'
  BY <1>18 DEF TypeOK, ClockingOK, Exists, Refuses, Decides, Leave, roster,
     request, swapping, weekly
<1>19. ASSUME NEW t \in Threads, Fail(t)
      PROVE  ClockingOK'
  BY <1>19 DEF TypeOK, ClockingOK, Exists, Fail, Leave, roster, request,
     swapping, weekly
<1>20. QED
  BY <1>1, <1>2, <1>3, <1>4, <1>5, <1>6, <1>7, <1>8, <1>9, <1>10, <1>11,
     <1>12, <1>13, <1>14, <1>15, <1>16, <1>17, <1>18, <1>19 DEF Step,
     RosterStep, WeekStep, ClockStep, SwapStep

(* The week is replaced as a whole.                                        *)
LEMMA WeekKept ==
    ASSUME TypeOK, PositionsOK, RowsOK, WeekOK, Step
    PROVE  WeekOK'
<1>1. ASSUME Staffs
      PROVE  WeekOK'
  BY <1>1 DEF TypeOK, WeekOK, Exists, Upcoming, Generating, Creating, Staffs,
     roster, request, swapping, weekly
<1>2. ASSUME NEW g \in Guards, Assigns(g)
      PROVE  WeekOK'
  BY <1>2 DEF TypeOK, WeekOK, Exists, Upcoming, Generating, Creating, Shifts,
     Assigns, AssignShift, roster, request, swapping, weekly
<1>3. ASSUME NEW s \in Shifts, DayPasses(s)
      PROVE  WeekOK'
  BY <1>3 DEF TypeOK, WeekOK, Exists, Upcoming, Generating, Creating,
     DayPasses, roster, request, swapping, weekly
<1>4. ASSUME NEW t \in Threads, NEW j \in Jobs, StartsWeek(t, j)
      PROVE  WeekOK'
  BY <1>4 DEF TypeOK, WeekOK, Exists, Upcoming, Generating, Creating,
     StartsWeek, Starts, roster, request, swapping, weekly
<1>5. ASSUME NEW t \in Threads, ClearsWeek(t)
      PROVE  WeekOK'
  BY <1>5 DEF TypeOK, WeekOK, Exists, Upcoming, Generating, Creating,
     ClearsWeek, Cleared, GoTo, roster, request, swapping, weekly
<1>6. ASSUME NEW t \in Threads, CreatesWeek(t)
      PROVE  WeekOK'
  BY <1>6 DEF TypeOK, WeekOK, Exists, Upcoming, Generating, Creating, Shifts,
     CreatesWeek, Leave, roster, request, swapping, weekly
<1>7. ASSUME NEW t \in Threads, NEW p \in Positions, NEW j \in Jobs,
             StartsClock(t, p, j)
      PROVE  WeekOK'
  BY <1>7 DEF TypeOK, WeekOK, Exists, Upcoming, Generating, Creating,
     StartsClock, Starts, roster, request, swapping, weekly
<1>8. ASSUME NEW t \in Threads, MarkOnDuty(t)
      PROVE  WeekOK'
  BY <1>8 DEF TypeOK, WeekOK, Exists, Upcoming, Generating, Creating,
     MarkOnDuty, SetDuty, GoTo, roster, request, swapping, weekly
<1>9. ASSUME NEW t \in Threads, RecordClockIn(t)
      PROVE  WeekOK'
  BY <1>9 DEF TypeOK, WeekOK, Exists, Upcoming, Generating, Creating,
     RecordClockIn, AttendanceGuard, Leave, roster, request, swapping, weekly
<1>10. ASSUME NEW t \in Threads, MarkCompleted(t)
      PROVE  WeekOK'
  BY <1>10 DEF TypeOK, WeekOK, Exists, Upcoming, Generating, Creating,
     MarkCompleted, SetDuty, GoTo, roster, request, swapping, weekly
<1>11. ASSUME NEW t \in Threads, RecordClockOut(t)
      PROVE  WeekOK'
  BY <1>11 DEF TypeOK, WeekOK, Exists, Upcoming, Generating, Creating,
     RecordClockOut, Leave, roster, request, swapping, weekly
<1>12. ASSUME NEW t \in Threads, NEW j \in Jobs, StartsAsking(t, j)
      PROVE  WeekOK'
  BY <1>12 DEF TypeOK, WeekOK, Exists, Upcoming, Generating, Creating,
     StartsAsking, Starts, roster, request, swapping, weekly
<1>13. ASSUME NEW t \in Threads, NEW w \in Swaps, NEW row \in Row,
              CreatesSwap(t, w, row)
      PROVE  WeekOK'
  BY <1>13 DEF TypeOK, WeekOK, Exists, Upcoming, Generating, Creating,
     CreatesSwap, Leave, roster, request, swapping, weekly
<1>14. ASSUME NEW t \in Threads, NEW p \in Positions, NEW j \in Jobs,
              StartsDecision(t, p, j)
      PROVE  WeekOK'
  BY <1>14 DEF TypeOK, WeekOK, Exists, Upcoming, Generating, Creating,
     StartsDecision, Pending, Starts, roster, request, swapping, weekly
<1>15. ASSUME NEW t \in Threads, NEW j \in Jobs, ReadsFirst(t, j)
      PROVE  WeekOK'
  BY <1>15 DEF TypeOK, WeekOK, Exists, Upcoming, Generating, Creating,
     ReadsFirst, roster, request, swapping, weekly
<1>16. ASSUME NEW t \in Threads, NEW j \in Jobs, ReadsSecond(t, j)
      PROVE  WeekOK'
  BY <1>16 DEF TypeOK, WeekOK, Exists, Upcoming, Generating, Creating,
     ReadsSecond, roster, request, swapping, weekly
<1>17. ASSUME NEW t \in Threads, NEW row \in Row, Exchanges(t, row)
      PROVE  WeekOK'
  BY <1>17, ExchangeKeepsShifts DEF TypeOK, WeekOK, Exists, Upcoming,
     Generating, Creating, Exchanges, Pending, Decides, Leave, roster,
     request, swapping, weekly
<1>18. ASSUME NEW t \in Threads, NEW row \in Row, Refuses(t, row)
      PROVE  WeekOK'
  BY <1>18 DEF TypeOK, WeekOK, Exists, Upcoming, Generating, Creating,
     Refuses, Decides, Leave, roster, request, swapping, weekly
<1>19. ASSUME NEW t \in Threads, Fail(t)
      PROVE  WeekOK'
  BY <1>19 DEF TypeOK, WeekOK, Exists, Upcoming, Generating, Creating, Fail,
     Leave, roster, request, swapping, weekly
<1>20. QED
  BY <1>1, <1>2, <1>3, <1>4, <1>5, <1>6, <1>7, <1>8, <1>9, <1>10, <1>11,
     <1>12, <1>13, <1>14, <1>15, <1>16, <1>17, <1>18, <1>19 DEF Step,
     RosterStep, WeekStep, ClockStep, SwapStep

(* A swap request exchanges its shifts when it is approved.                *)
LEMMA SwapsStep ==
    ASSUME TypeOK, PositionsOK, SwapRowsOK, DecidingOK, SwapsAreTrue, Step
    PROVE  SwapsAreTrue'
<1>1. ASSUME Staffs
      PROVE  SwapsAreTrue'
  BY <1>1 DEF TypeOK, SwapsAreTrue, Staffs, roster, request, swapping, weekly
<1>2. ASSUME NEW g \in Guards, Assigns(g)
      PROVE  SwapsAreTrue'
  BY <1>2 DEF TypeOK, SwapsAreTrue, Assigns, AssignShift, roster, request,
     swapping, weekly
<1>3. ASSUME NEW s \in Shifts, DayPasses(s)
      PROVE  SwapsAreTrue'
  BY <1>3 DEF TypeOK, SwapsAreTrue, DayPasses, Upcoming, Exists, roster,
     request, swapping, weekly
<1>4. ASSUME NEW t \in Threads, NEW j \in Jobs, StartsWeek(t, j)
      PROVE  SwapsAreTrue'
  BY <1>4 DEF TypeOK, SwapsAreTrue, StartsWeek, Starts, roster, request,
     swapping, weekly
<1>5. ASSUME NEW t \in Threads, ClearsWeek(t)
      PROVE  SwapsAreTrue'
  BY <1>5 DEF TypeOK, SwapsAreTrue, ClearsWeek, Cleared, Upcoming, Exists,
     GoTo, roster, request, swapping, weekly
<1>6. ASSUME NEW t \in Threads, CreatesWeek(t)
      PROVE  SwapsAreTrue'
  BY <1>6 DEF TypeOK, SwapsAreTrue, CreatesWeek, Leave, roster, request,
     swapping, weekly
<1>7. ASSUME NEW t \in Threads, NEW p \in Positions, NEW j \in Jobs,
             StartsClock(t, p, j)
      PROVE  SwapsAreTrue'
  BY <1>7 DEF TypeOK, SwapsAreTrue, StartsClock, Starts, roster, request,
     swapping, weekly
<1>8. ASSUME NEW t \in Threads, MarkOnDuty(t)
      PROVE  SwapsAreTrue'
  BY <1>8 DEF TypeOK, SwapsAreTrue, MarkOnDuty, SetDuty, Exists, GoTo, roster,
     request, swapping, weekly
<1>9. ASSUME NEW t \in Threads, RecordClockIn(t)
      PROVE  SwapsAreTrue'
  BY <1>9 DEF TypeOK, SwapsAreTrue, RecordClockIn, Exists, AttendanceGuard,
     Leave, roster, request, swapping, weekly
<1>10. ASSUME NEW t \in Threads, MarkCompleted(t)
      PROVE  SwapsAreTrue'
  BY <1>10 DEF TypeOK, SwapsAreTrue, MarkCompleted, SetDuty, Exists, GoTo,
     roster, request, swapping, weekly
<1>11. ASSUME NEW t \in Threads, RecordClockOut(t)
      PROVE  SwapsAreTrue'
  BY <1>11 DEF TypeOK, SwapsAreTrue, RecordClockOut, Leave, roster, request,
     swapping, weekly
<1>12. ASSUME NEW t \in Threads, NEW j \in Jobs, StartsAsking(t, j)
      PROVE  SwapsAreTrue'
  BY <1>12 DEF TypeOK, SwapsAreTrue, StartsAsking, Starts, roster, request,
     swapping, weekly
<1>13. ASSUME NEW t \in Threads, NEW w \in Swaps, NEW row \in Row,
              CreatesSwap(t, w, row)
      PROVE  SwapsAreTrue'
  BY <1>13 DEF TypeOK, SwapsAreTrue, SwapRowsOK, CreatesSwap, Exists, Leave,
     roster, request, swapping, weekly
<1>14. ASSUME NEW t \in Threads, NEW p \in Positions, NEW j \in Jobs,
              StartsDecision(t, p, j)
      PROVE  SwapsAreTrue'
  BY <1>14 DEF TypeOK, SwapsAreTrue, StartsDecision, Pending, Starts, roster,
     request, swapping, weekly
<1>15. ASSUME NEW t \in Threads, NEW j \in Jobs, ReadsFirst(t, j)
      PROVE  SwapsAreTrue'
  BY <1>15 DEF TypeOK, SwapsAreTrue, ReadsFirst, Exists, roster, request,
     swapping, weekly
<1>16. ASSUME NEW t \in Threads, NEW j \in Jobs, ReadsSecond(t, j)
      PROVE  SwapsAreTrue'
  BY <1>16 DEF TypeOK, SwapsAreTrue, ReadsSecond, Exists, roster, request,
     swapping, weekly
<1>17. ASSUME NEW t \in Threads, NEW row \in Row, Exchanges(t, row)
      PROVE  SwapsAreTrue'
  BY <1>17, ExchangeKeepsShifts DEF TypeOK, SwapsAreTrue, DecidingOK,
     Deciding, Swapping, Exchanges, Exists, Pending, Decides, Leave, roster,
     request, swapping, weekly
<1>18. ASSUME NEW t \in Threads, NEW row \in Row, Refuses(t, row)
      PROVE  SwapsAreTrue'
  BY <1>18, ArgumentsExist DEF TypeOK, SwapsAreTrue, DecidingOK, Deciding,
     Swapping, Refuses, Decides, Leave, roster, request, swapping, weekly
<1>19. ASSUME NEW t \in Threads, Fail(t)
      PROVE  SwapsAreTrue'
  BY <1>19 DEF TypeOK, SwapsAreTrue, Fail, Leave, roster, request, swapping,
     weekly
<1>20. QED
  BY <1>1, <1>2, <1>3, <1>4, <1>5, <1>6, <1>7, <1>8, <1>9, <1>10, <1>11,
     <1>12, <1>13, <1>14, <1>15, <1>16, <1>17, <1>18, <1>19 DEF Step,
     RosterStep, WeekStep, ClockStep, SwapStep

-----------------------------------------------------------------------------
(* The invariant holds. *)

(* It holds in every scope from which a behaviour may start.               *)
LEMMA InitIInv ==
    ASSUME Init
    PROVE  IInv
<1> DEFINE n == Len(scope.roster)
           m == Len(scope.asked)
<1>1. /\ scope \in Scopes
      /\ active \subseteq Guards
      /\ n \in 0..MaxShifts /\ m \in 0..MaxSwaps /\ created = n
      /\ \A s \in 1..n : s \in Shifts /\ scope.roster[s] \in Guards
      /\ \A w \in 1..m : /\ w \in Swaps
                         /\ scope.asked[w][1] \in 1..n
                         /\ scope.asked[w][2] \in 1..n
      /\ DOMAIN scope.asked = 1..m
  <2>1. /\ scope \in Scopes /\ active = scope.active /\ created = n
    BY DEF Init
  <2>2. /\ scope.active \subseteq Guards
        /\ scope.shifts \in 0..MaxShifts /\ scope.swaps \in 0..MaxSwaps
        /\ scope.roster \in Seq(Guards)
        /\ scope.asked \in Seq(Shifts \X Shifts)
        /\ n <= scope.shifts /\ m <= scope.swaps
        /\ \A i \in DOMAIN scope.asked, k \in {1, 2} : scope.asked[i][k] <= n
    BY <2>1, ScopeBounds
  <2>3. n \in Nat /\ m \in Nat /\ DOMAIN scope.asked = 1..m
    BY <2>2
  <2>4. n \in 0..MaxShifts /\ m \in 0..MaxSwaps
    BY <2>2, <2>3
  <2>5. \A s \in 1..n : s \in Shifts /\ scope.roster[s] \in Guards
    BY <2>2, <2>4 DEF Shifts
  <2>6. \A w \in 1..m : scope.asked[w] \in Shifts \X Shifts
    BY <2>2, <2>3
  <2>7. \A w \in 1..m : /\ w \in Swaps
                        /\ scope.asked[w][1] \in 1..n
                        /\ scope.asked[w][2] \in 1..n
    <3>1. ASSUME NEW w \in 1..m, NEW k \in {1, 2}
          PROVE  scope.asked[w][k] \in 1..n
      <4>1. scope.asked[w][k] \in Shifts
        BY <2>6
      <4>2. scope.asked[w][k] <= n
        BY <2>2, <2>3
      <4> QED
        BY <2>4, <4>1, <4>2 DEF Shifts
    <3>2. 1..m \subseteq Swaps
      BY <2>4 DEF Swaps
    <3> QED
      BY <3>1, <3>2
  <2> QED
    BY <2>1, <2>2, <2>3, <2>4, <2>5, <2>7
<1> HIDE DEF n, m
<1>2. owner = [s \in Shifts |-> IF s <= n THEN scope.roster[s] ELSE None]
  BY <1>1 DEF Init
<1>3. /\ owner \in [Shifts -> Guards \cup {None}]
      /\ \A s \in 1..n : owner[s] \in Guards
      /\ \A s \in Shifts : s > n => owner[s] = None
  <2>1. \A s \in Shifts : s <= n => s \in 1..n
    BY <1>1 DEF Shifts
  <2>2. \A s \in Shifts : s > n => ~(s <= n)
    BY <1>1 DEF Shifts
  <2>3. \A s \in 1..n : s <= n
    BY <1>1
  <2> QED
    BY <1>1, <1>2, <2>1, <2>2, <2>3
<1>4. \A w \in Swaps :
         IF w \in 1..m
         THEN /\ swap[w] \in Row /\ swap[w].status = "PENDING"
              /\ swap[w].from \in 1..n /\ swap[w].to \in 1..n
              /\ owner[swap[w].from] = swap[w].requester
              /\ owner[swap[w].to] = swap[w].target
         ELSE /\ swap[w] \in Row /\ swap[w].status = "NONE"
              /\ swap[w].from = 0 /\ swap[w].to = 0
  <2>1. ASSUME NEW w \in Swaps, w \in 1..m
        PROVE  /\ swap[w] \in Row /\ swap[w].status = "PENDING"
               /\ swap[w].from \in 1..n /\ swap[w].to \in 1..n
               /\ owner[swap[w].from] = swap[w].requester
               /\ owner[swap[w].to] = swap[w].target
    <3> DEFINE s == scope.asked[w][1]
               r == scope.asked[w][2]
    <3>1. s \in 1..n /\ r \in 1..n /\ s \in Shifts /\ r \in Shifts
      BY <1>1, <2>1
    <3>2. owner[s] \in Guards /\ owner[r] \in Guards
      BY <1>3, <3>1
    <3>3. swap[w] = [status |-> "PENDING", requester |-> owner[s],
                     target |-> owner[r], from |-> s, to |-> r]
      BY <1>1, <2>1 DEF Init
    <3> HIDE DEF s, r
    <3> QED
      BY <3>1, <3>2, <3>3 DEF Row, Decisions
  <2>2. ASSUME NEW w \in Swaps, w \notin 1..m
        PROVE  /\ swap[w] \in Row /\ swap[w].status = "NONE"
               /\ swap[w].from = 0 /\ swap[w].to = 0
    <3>1. swap[w] = NoSwap
      BY <1>1, <2>2 DEF Init
    <3> QED
      BY <3>1 DEF NoSwap, Row, Decisions
  <2> QED
    BY <2>1, <2>2
<1>5. swap \in [Swaps -> Row]
  <2>1. swap = [w \in Swaps |-> swap[w]]
    BY DEF Init
  <2> QED
    BY <1>4, <2>1
<1>6. /\ pc = [t \in Threads |-> "idle"] /\ job = [t \in Threads |-> NoJob]
      /\ past = {} /\ left = {} /\ mixed = {} /\ contested = {}
      /\ outdated = {} /\ handedOver = {} /\ week = {} /\ byHand = 1..n
      /\ spoiled = FALSE
      /\ duty = [s \in Shifts |-> "SCHEDULED"]
      /\ attended = [s \in Shifts |-> None]
      /\ exchanges = [w \in Swaps |-> 0]
  BY <1>1 DEF Init
<1>7. TypeOK
  <2>1. created \in 0..MaxShifts /\ byHand \subseteq Shifts
    BY <1>1, <1>6
  <2>2. job \in [Threads -> Jobs] /\ pc \in [Threads -> Positions]
    BY <1>6, NoJobIsJob DEF Positions
  <2> QED
    BY <1>1, <1>3, <1>5, <1>6, <2>1, <2>2 DEF TypeOK, Duties
<1>8. PositionsOK /\ SoleOK /\ DecidingOK /\ OwnersOK /\ ClockingOK
  BY <1>6 DEF PositionsOK, SoleOK, Has, DecidingOK, OwnersOK, ClockingOK,
     Clocking, Swapping, Deciding
<1>9. RowsOK
  BY <1>1, <1>3, <1>6 DEF RowsOK, Exists
<1>10. AskedOK
  <2>1. \A w \in Swaps : w \in Asked <=> w \in 1..m
    BY <1>4 DEF Asked
  <2>2. 1..m \subseteq Swaps /\ Asked \subseteq Swaps
    BY <1>1 DEF Asked
  <2>3. Asked = 1..m
    BY <2>1, <2>2, Zenon
  <2> QED
    BY <1>1, <2>3 DEF AskedOK
<1>11. SwapRowsOK
  BY <1>1, <1>3, <1>4, <1>6 DEF SwapRowsOK, Exists
<1>12. AgreedOK
  BY <1>4 DEF AgreedOK, Pending
<1>13. AttendanceOK /\ WeekOK
  <2>1. \A s \in Shifts \ byHand : ~Exists(s)
    BY <1>1, <1>3, <1>6 DEF Exists, Shifts
  <2> QED
    BY <1>6, <2>1 DEF AttendanceOK, WeekOK, Upcoming, Generating
<1>14. SwapsAreTrue
  BY <1>4, <1>6 DEF SwapsAreTrue
<1> QED
  BY <1>7, <1>8, <1>9, <1>10, <1>11, <1>12, <1>13, <1>14 DEF IInv

(* Every step keeps it.                                                    *)
LEMMA StepIInv == IInv /\ [Next]_vars => IInv'
<1> SUFFICES ASSUME IInv, [Next]_vars
             PROVE  IInv'
  OBVIOUS
<1>1. CASE Next
  <2>1. Step
    BY <1>1, StepIs DEF IInv
  <2> QED
    BY <2>1, TypeStep, PositionsStep, RowsStep, AskedStep, SwapRowsStep,
       SoleStep, DecidingStep, OwnersStep, AgreedStep, AttendanceStep,
       ClockingStep, WeekKept, SwapsStep DEF IInv
<1>2. CASE UNCHANGED vars
  <2> USE <1>2 DEF vars, roster, request, swapping, weekly
  <2>1. TypeOK' /\ PositionsOK' /\ RowsOK' /\ AskedOK' /\ SwapRowsOK'
    BY  DEF IInv, TypeOK, PositionsOK, RowsOK, AskedOK, SwapRowsOK, Asked,
       Clocking, Swapping, Deciding, Exists
  <2>2. SoleOK' /\ DecidingOK' /\ OwnersOK' /\ AgreedOK'
    BY DEF IInv, SoleOK, DecidingOK, OwnersOK, AgreedOK, Has, Pending,
       Clocking, Swapping, Deciding, Exists
  <2>3. AttendanceOK' /\ ClockingOK' /\ WeekOK' /\ SwapsAreTrue'
    BY DEF IInv, AttendanceOK, Recording, ClockingOK, WeekOK, SwapsAreTrue,
       Generating, Upcoming, Creating, Exists
  <2> QED
    BY <2>1, <2>2, <2>3 DEF IInv
<1> QED
  BY <1>1, <1>2

(* So it always holds.                                                     *)
LEMMA AlwaysIInv == Spec => []IInv
  BY InitIInv, StepIInv, PTL DEF Spec

-----------------------------------------------------------------------------
(* What the invariant says of the roster. *)

(* There are finitely many shifts.                                         *)
LEMMA ShiftsAreFinite == IsFiniteSet(Shifts)
  BY FS_Interval DEF Shifts

(* A settled shift is one that nobody is recording.                        *)
LEMMA DutyFollows ==
    ASSUME IInv
    PROVE  DutyIsTrue
<1>1. ASSUME NEW s \in Shifts, Settled(s)
      PROVE  s \in Shifts \ mixed /\ ~Recording(s)
  <2>1. \A t \in Threads : ~Has(t, s)
    BY <1>1, AboutIs DEF IInv, Settled
  <2> QED
    BY <1>1, <2>1 DEF Settled, Recording, Has, Clocking
<1> QED
  BY <1>1 DEF IInv, AttendanceOK, DutyIsTrue

(* Division, for the score.                                                *)
LEMMA AtMostAll ==
    ASSUME NEW a \in Nat, NEW h \in Nat, a <= h, h # 0
    PROVE  (100 * a) \div h <= 100
<1> DEFINE q == (100 * a) \div h
<1>1. q \in Int /\ h * q <= 100 * a
  OBVIOUS
<1>2. SUFFICES ASSUME q >= 101 PROVE FALSE
  BY <1>1
<1> HIDE DEF q
<1>3. h * q >= h * 101
  BY <1>1, <1>2
<1> QED
  BY <1>1, <1>3

(* Who attended a shift that was not handed over holds it.                 *)
LEMMA ScoresFollow ==
    ASSUME IInv
    PROVE  ScoresWithinHundred
<1>1. SUFFICES ASSUME NEW g \in Guards,
                      Attended(g) \cap (handedOver \cup mixed) = {}
               PROVE  AttendanceScore(g) <= 100
  BY DEF ScoresWithinHundred
<1>2. Attended(g) \subseteq Held(g)
  BY <1>1 DEF IInv, AttendanceOK, Attended, Held
<1>3. IsFiniteSet(Shifts)
  BY ShiftsAreFinite
<1>4. Held(g) \subseteq Shifts
  BY DEF Held
<1>5. IsFiniteSet(Held(g)) /\ Cardinality(Held(g)) \in Nat
  BY <1>3, <1>4, FS_Subset, FS_CardinalityType
<1>6. /\ Cardinality(Attended(g)) \in Nat
      /\ Cardinality(Attended(g)) <= Cardinality(Held(g))
  BY <1>2, <1>5, FS_Subset, FS_CardinalityType
<1>7. Held(g) # {} => Cardinality(Held(g)) # 0
  BY <1>5, FS_EmptySet
<1> QED
  BY <1>5, <1>6, <1>7, AtMostAll DEF AttendanceScore

(* All parts of RosterIsTrue.                                              *)
LEMMA RosterFollows ==
    ASSUME IInv
    PROVE  RosterIsTrue
<1>1. OneRoster
  BY DEF IInv, WeekOK, OneRoster, Creating, Generating
<1> QED
  BY <1>1, DutyFollows, ScoresFollow DEF RosterIsTrue, IInv

-----------------------------------------------------------------------------
(* Swaps. *)

(* Two shifts that change owners leave everybody's number of them.         *)
LEMMA ExchangeConserves ==
    ASSUME TypeOK, NEW s \in Shifts, NEW r \in Shifts,
           owner' = [owner EXCEPT ![s] = owner[r], ![r] = owner[s]],
           NEW g \in Guards
    PROVE  Cardinality(Held(g)') = Cardinality(Held(g))
<1> DEFINE other(x) == IF x = s THEN r ELSE IF x = r THEN s ELSE x
           f == [x \in Held(g) |-> other(x)]
<1>1. \A x \in Shifts : other(x) \in Shifts /\ other(other(x)) = x
                        /\ owner'[x] = owner[other(x)]
  BY DEF TypeOK
<1>2. \A x : x \in Held(g) <=> x \in Shifts /\ owner[x] = g
  BY DEF Held
<1>3. \A x : x \in Held(g)' <=> x \in Shifts /\ owner'[x] = g
  BY DEF Held
<1> HIDE DEF other
<1>4. \A x \in Held(g) : f[x] \in Held(g)'
  <2>1. ASSUME NEW x \in Held(g)
        PROVE  other(x) \in Held(g)'
    <3>1. x \in Shifts /\ owner[x] = g
      BY <1>2
    <3>2. other(x) \in Shifts /\ owner'[other(x)] = g
      BY <1>1, <3>1
    <3> QED
      BY <1>3, <3>2
  <2> QED
    BY <2>1
<1>5. \A x, y \in Held(g) : f[x] = f[y] => x = y
  BY <1>1, <1>2
<1>6. \A y \in Held(g)' : \E x \in Held(g) : f[x] = y
  <2>1. ASSUME NEW y \in Held(g)'
        PROVE  other(y) \in Held(g) /\ f[other(y)] = y
    BY <1>1, <1>2, <1>3
  <2> QED
    BY <2>1
<1>7. f \in Bijection(Held(g), Held(g)')
  <2> HIDE DEF f
  <2>1. f \in [Held(g) -> Held(g)']
    BY <1>4 DEF f
  <2> QED
    BY <2>1, <1>5, <1>6 DEF Bijection, Injection, Surjection, IsInjective
<1>8. IsFiniteSet(Held(g))
  <2>1. IsFiniteSet(Shifts) /\ Held(g) \subseteq Shifts
    BY ShiftsAreFinite DEF Held
  <2> QED
    BY <2>1, FS_Subset
<1> HIDE DEF f
<1> QED
  BY <1>7, <1>8, FS_Bijection DEF ExistsBijection

(* An approval of shifts that were never mixed exchanges their owners.     *)
LEMMA SwapIsExchange ==
    ASSUME IInv, NEW t \in Threads, NEW row \in Row, Exchanges(t, row)
    PROVE  LET w == job[t].swap
               s == job[t].shift
               r == job[t].other
           IN  /\ w \in Swaps /\ s \in Shifts /\ r \in Shifts
               /\ swap[w].from = s /\ swap[w].to = r
               /\ {s, r} \cap mixed = {} =>
                      owner' = [owner EXCEPT ![s] = owner[r], ![r] = owner[s]]
<1> DEFINE w == job[t].swap
           s == job[t].shift
           r == job[t].other
<1>1. w \in Swaps /\ s \in Shifts /\ r \in Shifts
  BY ExchangeKeepsShifts DEF IInv
<1>2. pc[t] = "exchange" /\ Exists(s) /\ Exists(r)
  BY DEF Exchanges
<1>3. swap[w].from = s /\ swap[w].to = r
  BY <1>2 DEF IInv, DecidingOK, Deciding, Swapping
<1>4. {s, r} \cap mixed = {} =>
          owner[s] = job[t].first /\ owner[r] = job[t].second
  BY <1>1, <1>2 DEF IInv, OwnersOK
<1>5. owner' = [owner EXCEPT ![s] = job[t].second, ![r] = job[t].first]
  BY DEF Exchanges
<1> QED
  BY <1>1, <1>3, <1>4, <1>5

(* The first half of SwapsExchange ...                                     *)
LEMMA ConservedStep ==
    ASSUME IInv, Step
    PROVE  Conserved
<1>1. SUFFICES
        ASSUME {s \in Shifts : Exists(s)} = {s \in Shifts : Exists(s)}',
               \A w \in Swaps : exchanges'[w] # exchanges[w] =>
                                {swap[w].from, swap[w].to} \cap mixed = {},
               NEW g \in Guards
        PROVE  Cardinality(Held(g)') = Cardinality(Held(g))
  BY DEF Conserved
<1>2. \A s \in Shifts : owner[s] # None <=> owner'[s] # None
  BY <1>1 DEF Exists
<1>3. ASSUME \A s \in Shifts : owner'[s] = owner[s]
      PROVE  Cardinality(Held(g)') = Cardinality(Held(g))
  <2>1. Held(g)' = Held(g)
    BY <1>3 DEF Held
  <2> QED
    BY <2>1
<1>4. TypeOK /\ PositionsOK /\ RowsOK
  BY DEF IInv
<1>5. ASSUME NEW h \in Guards, Assigns(h)
      PROVE  FALSE
  <2>1. created' = created + 1 /\ owner' = [owner EXCEPT ![created'] = h]
        /\ created < MaxShifts
    BY <1>5 DEF Assigns, AssignShift
  <2>2. created' \in Shifts /\ created' > created
    BY <1>4, <2>1 DEF TypeOK, Shifts
  <2>3. owner[created'] = None
    BY <1>4, <2>2 DEF RowsOK, Exists
  <2>4. owner'[created'] = h /\ h # None
    BY <1>4, <2>1, <2>2 DEF TypeOK
  <2> QED
    BY <1>2, <2>2, <2>3, <2>4
<1>6. ASSUME NEW t \in Threads, ClearsWeek(t)
      PROVE  \A s \in Shifts : owner'[s] = owner[s]
  <2>1. \A s \in Shifts : owner'[s] = IF s \in Cleared THEN None ELSE owner[s]
    BY <1>6 DEF ClearsWeek
  <2>2. \A s \in Cleared : s \in Shifts /\ owner[s] # None
    BY DEF Cleared, Upcoming, Exists
  <2> QED
    BY <1>2, <2>1, <2>2
<1>7. ASSUME NEW t \in Threads, CreatesWeek(t)
      PROVE  \A s \in Shifts : owner'[s] = owner[s]
  <2>1. \A s \in Shifts : \/ owner'[s] = owner[s]
                          \/ s > created /\ owner'[s] \in Guards
    BY <1>4, <1>7 DEF CreatesWeek, TypeOK, Shifts
  <2>2. \A s \in Shifts : s > created => owner[s] = None
    BY <1>4 DEF RowsOK, Exists
  <2> QED
    BY <1>2, <2>1, <2>2
<1>8. ASSUME NEW t \in Threads, NEW row \in Row, Exchanges(t, row)
      PROVE  Cardinality(Held(g)') = Cardinality(Held(g))
  <2> DEFINE w == job[t].swap
             s == job[t].shift
             r == job[t].other
  <2>1. /\ w \in Swaps /\ s \in Shifts /\ r \in Shifts
        /\ swap[w].from = s /\ swap[w].to = r
        /\ {s, r} \cap mixed = {} =>
               owner' = [owner EXCEPT ![s] = owner[r], ![r] = owner[s]]
    BY <1>8, SwapIsExchange
  <2>2. exchanges'[w] = exchanges[w] + 1 /\ exchanges[w] \in Nat
    BY <1>4, <1>8, <2>1 DEF Exchanges, TypeOK
  <2>3. {s, r} \cap mixed = {}
    BY <1>1, <2>1, <2>2
  <2> HIDE DEF s, r
  <2> QED
    BY <1>4, <2>1, <2>3, ExchangeConserves
<1>9. ASSUME \/ Staffs
             \/ \E s \in Shifts : DayPasses(s)
             \/ \E t \in Threads, j \in Jobs : StartsWeek(t, j)
             \/ \E t \in Threads, p \in Positions, j \in Jobs :
                    StartsClock(t, p, j)
             \/ \E t \in Threads : MarkOnDuty(t)
             \/ \E t \in Threads : RecordClockIn(t)
             \/ \E t \in Threads : MarkCompleted(t)
             \/ \E t \in Threads : RecordClockOut(t)
             \/ \E t \in Threads, j \in Jobs : StartsAsking(t, j)
             \/ \E t \in Threads, w \in Swaps, row \in Row :
                    CreatesSwap(t, w, row)
             \/ \E t \in Threads, p \in Positions, j \in Jobs :
                    StartsDecision(t, p, j)
             \/ \E t \in Threads, j \in Jobs : ReadsFirst(t, j)
             \/ \E t \in Threads, j \in Jobs : ReadsSecond(t, j)
             \/ \E t \in Threads, row \in Row : Refuses(t, row)
             \/ \E t \in Threads : Fail(t)
      PROVE  \A s \in Shifts : owner'[s] = owner[s]
  BY <1>9 DEF Staffs, roster, request, swapping, weekly, DayPasses, Upcoming,
     Exists, StartsWeek, Starts, StartsClock, MarkOnDuty, SetDuty, GoTo,
     RecordClockIn, AttendanceGuard, Leave, MarkCompleted, RecordClockOut,
     StartsAsking, CreatesSwap, StartsDecision, Pending, ReadsFirst,
     ReadsSecond, Refuses, Decides, Fail
<1> QED
  BY <1>3, <1>5, <1>6, <1>7, <1>8, <1>9
     DEF Step, RosterStep, WeekStep, ClockStep, SwapStep

(* ... and the second, for one request.                                    *)
LEMMA AsAskedStep ==
    ASSUME IInv, Step, NEW w \in Swaps
    PROVE  AsAsked(w)
<1>1. SUFFICES ASSUME Pending(w), swap'[w].status = "APPROVED",
                      w \notin outdated,
                      {swap[w].from, swap[w].to} \cap mixed = {}
               PROVE  /\ owner[swap[w].from] = swap[w].requester
                      /\ owner'[swap[w].from] = swap[w].target
                      /\ owner[swap[w].to] = swap[w].target
                      /\ owner'[swap[w].to] = swap[w].requester
  BY DEF AsAsked
<1>2. \E t \in Threads, row \in Row : Exchanges(t, row) /\ job[t].swap = w
  <2>1. TypeOK /\ PositionsOK
    BY DEF IInv
  <2>2. swap[w].status # "APPROVED"
    BY <1>1 DEF Pending
  <2>3. ASSUME NEW t \in Threads,
               \/ ClearsWeek(t)
               \/ \E v \in Swaps, row \in Row : CreatesSwap(t, v, row)
               \/ \E row \in Row : Refuses(t, row)
        PROVE  swap'[w].status # "APPROVED"
    <3>1. CASE ClearsWeek(t)
      BY <2>2, <3>1 DEF ClearsWeek
    <3>2. ASSUME NEW v \in Swaps, NEW row \in Row, CreatesSwap(t, v, row)
          PROVE  swap'[w].status # "APPROVED"
      BY <2>1, <2>2, <3>2 DEF CreatesSwap, TypeOK
    <3>3. ASSUME NEW row \in Row, Refuses(t, row)
          PROVE  swap'[w].status # "APPROVED"
      BY <2>1, <2>2, <3>3, ArgumentsExist DEF Refuses, Decides, Deciding,
         TypeOK
    <3> QED
      BY <2>3, <3>1, <3>2, <3>3
  <2>4. ASSUME NEW t \in Threads, NEW row \in Row, Exchanges(t, row)
        PROVE  job[t].swap = w
    BY <1>1, <2>1, <2>2, <2>4, ExchangeKeepsShifts
       DEF Exchanges, Decides, TypeOK
  <2>5. ASSUME \/ Staffs
               \/ \E g \in Guards : Assigns(g)
               \/ \E s \in Shifts : DayPasses(s)
               \/ \E t \in Threads, j \in Jobs : StartsWeek(t, j)
               \/ \E t \in Threads : CreatesWeek(t)
               \/ \E t \in Threads, p \in Positions, j \in Jobs :
                      StartsClock(t, p, j)
               \/ \E t \in Threads : MarkOnDuty(t)
               \/ \E t \in Threads : RecordClockIn(t)
               \/ \E t \in Threads : MarkCompleted(t)
               \/ \E t \in Threads : RecordClockOut(t)
               \/ \E t \in Threads, j \in Jobs : StartsAsking(t, j)
               \/ \E t \in Threads, p \in Positions, j \in Jobs :
                      StartsDecision(t, p, j)
               \/ \E t \in Threads, j \in Jobs : ReadsFirst(t, j)
               \/ \E t \in Threads, j \in Jobs : ReadsSecond(t, j)
               \/ \E t \in Threads : Fail(t)
        PROVE  swap' = swap
    BY <2>5 DEF Staffs, roster, request, swapping, weekly, Assigns,
       AssignShift, DayPasses, Upcoming, Exists, StartsWeek, Starts,
       CreatesWeek, Leave, StartsClock, MarkOnDuty, SetDuty, GoTo,
       RecordClockIn, AttendanceGuard, MarkCompleted, RecordClockOut,
       StartsAsking, StartsDecision, Pending, ReadsFirst, ReadsSecond, Fail
  <2>6. swap' # swap
    BY <1>1, <2>2
  <2> QED
    BY <1>1, <2>3, <2>4, <2>5, <2>6
       DEF Step, RosterStep, WeekStep, ClockStep, SwapStep
<1>3. PICK t \in Threads, row \in Row : Exchanges(t, row) /\ job[t].swap = w
  BY <1>2
<1> DEFINE s == job[t].shift
           r == job[t].other
<1>4. /\ s \in Shifts /\ r \in Shifts
      /\ swap[w].from = s /\ swap[w].to = r
      /\ {s, r} \cap mixed = {} =>
             owner' = [owner EXCEPT ![s] = owner[r], ![r] = owner[s]]
  BY <1>3, SwapIsExchange
<1>5. owner[s] = swap[w].requester /\ owner[r] = swap[w].target
  BY <1>1, <1>4 DEF IInv, AgreedOK
<1>6. owner' = [owner EXCEPT ![s] = owner[r], ![r] = owner[s]]
  BY <1>1, <1>4
<1>7. owner \in [Shifts -> Guards \cup {None}]
  BY DEF IInv, TypeOK
<1> HIDE DEF s, r
<1> QED
  BY <1>4, <1>5, <1>6, <1>7

-----------------------------------------------------------------------------
(* The theorems. *)

(* Every table holds rows of its own kind and every request arguments of   *)
(* its operation.                                                          *)
THEOREM TypeCorrect == Spec => []TypeOK
<1>1. IInv => TypeOK
  BY DEF IInv
<1>2. QED
  BY <1>1, AlwaysIInv, PTL

(* shift-swap.service.ts: an approved request exchanged its shifts once    *)
(* and a refused one never did, unless two decisions about it overlapped,  *)
(* for any number of requests and whatever else happens to the roster.     *)
THEOREM SwapsAreAlwaysTrue == Spec => []SwapsAreTrue
<1>1. IInv => SwapsAreTrue
  BY DEF IInv
<1>2. QED
  BY <1>1, AlwaysIInv, PTL

(* guard.service.ts and performance.service.ts: status and attendance of a *)
(* shift agree, no score exceeds 100, and the week shown is the one that   *)
(* was generated last, in any scope, that of all families included.        *)
THEOREM RosterIsAlwaysTrue == Spec => []RosterIsTrue
<1>1. IInv => RosterIsTrue
  BY RosterFollows
<1>2. QED
  BY <1>1, AlwaysIInv, PTL

(* A swap leaves everybody's number of shifts and is the exchange the two  *)
(* guards named, unless the shifts were moved or decided about otherwise.  *)
THEOREM SwapsAlwaysExchange == Spec => SwapsExchange
<1>1. IInv /\ [Next]_vars => [Conserved /\ \A w \in Swaps : AsAsked(w)]_vars
  BY StepIs, ConservedStep, AsAskedStep DEF IInv
<1>2. QED
  BY <1>1, AlwaysIInv, PTL DEF Spec, SwapsExchange

-----------------------------------------------------------------------------
(* The incidents guards raise and answer: theorems for any number of       *)
(* requests and incidents.                                                 *)

-----------------------------------------------------------------------------
(* The inductive invariant. *)

(* What was reported exists.                                               *)
ExistsOK == \A i \in Incidents : kind[i] # "NONE" => status[i] # "NONE"

(* A request is about incidents that exist, and those IncidentService has  *)
(* committed something of are marked as written from outside.              *)
IncidentPositionsOK == \A t \in Threads :
    /\ \A i \in subject[t] : status[i] # "NONE"
    /\ incidentPc[t] = "act" => action[t] \in I!Actions
    /\ incidentPc[t] \in {"report", "resolveAll", "entry", "closing"} =>
           subject[t] \subseteq outside
    /\ incidentPc[t] = "entry" => snap[t] \in I!Told

(* An incident whose requests never overlapped has at most one ...         *)
OneRequest == \A t, u \in Threads : \A i \in Incidents \ overlapped :
    i \in subject[t] /\ i \in subject[u] => t = u

(* ... and is as this one has judged.                                      *)
JudgedOK == \A t \in Threads : incidentPc[t] = "act" =>
    \A i \in subject[t] \ overlapped :
        snap[t] = status[i] /\ I!Allowed(snap[t], action[t])

(* Only a report by IncidentService that has not got that far, or never    *)
(* will, leaves an incident without a room.                                *)
RoomsOK == \A i \in Incidents : status[i] # "NONE" /\ chat[i] = "NONE" =>
    /\ i \in outside
    /\ i \in cut \cup overlapped
       \/ \E t \in Threads : incidentPc[t] = "report" /\ i \in subject[t]

(* While the room of an incident that is over is open, the request that    *)
(* ended it is on its way to close it, or something went wrong.            *)
EndsOK == \A i \in Incidents \ (cut \cup overlapped) :
    status[i] \in I!Over /\ chat[i] # "CLOSED" =>
        \E t \in Threads :
            /\ i \in subject[t]
            /\ \/ incidentPc[t] = "closing"
               \/ incidentPc[t] = "entry" /\ snap[t] \in I!Over

IncidentIInv ==
        /\ I!TypeOK /\ ExistsOK /\ IncidentPositionsOK /\ OneRequest
        /\ JudgedOK
        /\ RoomsOK /\ EndsOK
        /\ I!OverIsReadOnly /\ I!GuardSosAgrees /\ I!TimelineIsTrue

USE IncidentsAssumption

-----------------------------------------------------------------------------
(* Every step preserves each part of it. *)

(* Every handler writes what the type allows.                              *)
LEMMA IncidentTypeStep ==
    ASSUME I!TypeOK, ExistsOK, IncidentPositionsOK, I!Next
    PROVE  I!TypeOK'
<1>1. ASSUME NEW i \in Incidents, I!CreateGuardSos(i)
      PROVE  I!TypeOK'
  BY <1>1 DEF I!TypeOK, I!Statuses, I!Positions, I!Kinds, I!SosKinds, I!Over,
     I!Actions, I!CreateGuardSos, I!OpenSos, I!SetStatus, I!Tell, I!marks,
     I!request
<1>2. ASSUME NEW i \in Incidents, I!CreateResidentSos(i)
      PROVE  I!TypeOK'
  BY <1>2 DEF I!TypeOK, I!Statuses, I!Positions, I!Kinds, I!SosKinds, I!Over,
     I!Actions, I!CreateResidentSos, I!OpenSos, I!SetStatus, I!Tell, I!marks,
     I!request
<1>3. ASSUME NEW i \in Incidents, I!CreateAdminSos(i)
      PROVE  I!TypeOK'
  BY <1>3 DEF I!TypeOK, I!Statuses, I!Positions, I!Kinds, I!SosKinds, I!Over,
     I!Actions, I!CreateAdminSos, I!OpenSos, I!SetStatus, I!Tell, I!marks,
     I!request
<1>4. ASSUME NEW i \in Incidents, I!StartIncident(i)
      PROVE  I!TypeOK'
  BY <1>4 DEF I!TypeOK, I!Statuses, I!Positions, I!Kinds, I!SosKinds, I!Over,
     I!Actions, I!StartIncident, I!FromOutside, I!Touch, I!SetStatus,
     I!request
<1>5. ASSUME NEW t \in Threads, NEW i \in Incidents, NEW a \in I!Actions,
             I!BeginAct(t, i, a)
      PROVE  I!TypeOK'
  BY <1>5 DEF I!TypeOK, I!Statuses, I!Positions, I!Kinds, I!SosKinds, I!Over,
     I!Actions, ExistsOK, I!Emergency, I!RequireIncident, I!BeginAct, I!Start,
     I!Touch, I!record
<1>6. ASSUME NEW t \in Threads, NEW i \in Incidents,
             I!BeginUpdateLocation(t, i)
      PROVE  I!TypeOK'
  BY <1>6 DEF I!TypeOK, I!Statuses, I!Positions, I!Kinds, I!SosKinds, I!Over,
     I!Actions, ExistsOK, I!Emergency, I!RequireIncident,
     I!BeginUpdateLocation, I!Start, I!Touch, I!record
<1>7. ASSUME NEW t \in Threads, I!CommitAct(t)
      PROVE  I!TypeOK'
  BY <1>7 DEF I!TypeOK, I!Statuses, I!Positions, I!Kinds, I!SosKinds, I!Over,
     I!Actions, IncidentPositionsOK, I!Told, I!CommitAct, I!SetStatus, I!Tell,
     I!NextStatus, I!EntryStatus, I!GuardSosStatus, I!IsClosingAction,
     I!Leave, I!marks
<1>8. ASSUME NEW t \in Threads, I!CommitUpdateLocation(t)
      PROVE  I!TypeOK'
  BY <1>8 DEF I!TypeOK, I!Statuses, I!Positions, I!Kinds, I!SosKinds, I!Over,
     I!Actions, I!CommitUpdateLocation, I!Leave, I!history, I!marks,
     I!GpsAlreadyActivated
<1>9. ASSUME NEW t \in Threads, NEW i \in Incidents, I!ReportIncident(t, i)
      PROVE  I!TypeOK'
  BY <1>9 DEF I!TypeOK, I!Statuses, I!Positions, I!Kinds, I!SosKinds, I!Over,
     I!Actions, I!ReportIncident, I!CreateIncident, I!ReportResidentSos,
     I!FromOutside, I!SetStatus, I!Tell, I!Start, I!Touch
<1>10. ASSUME NEW t \in Threads, NEW i \in Incidents,
              I!UpdateIncidentStatus(t, i)
      PROVE  I!TypeOK'
  BY <1>10 DEF I!TypeOK, I!Statuses, I!Positions, I!Kinds, I!SosKinds, I!Over,
     I!Actions, I!UpdateIncidentStatus, I!FromOutside, I!SetStatus, I!Start,
     I!Touch, I!request, I!Told
<1>11. ASSUME NEW t \in Threads, NEW i \in Incidents, I!CompleteIncident(t, i)
      PROVE  I!TypeOK'
  BY <1>11 DEF I!TypeOK, I!Statuses, I!Positions, I!Kinds, I!SosKinds, I!Over,
     I!Actions, I!CompleteIncident, I!FromOutside, I!SetStatus, I!Start,
     I!Touch
<1>12. ASSUME NEW t \in Threads, I!CreateIncidentChat(t)
      PROVE  I!TypeOK'
  BY <1>12 DEF I!TypeOK, I!Statuses, I!Positions, I!Kinds, I!SosKinds, I!Over,
     I!Actions, I!CreateIncidentChat, I!Leave, I!history, I!marks
<1>13. ASSUME NEW t \in Threads, I!FindResidentSos(t)
      PROVE  I!TypeOK'
  BY <1>13 DEF I!TypeOK, I!Statuses, I!Positions, I!Kinds, I!SosKinds, I!Over,
     I!Actions, I!FindResidentSos, I!FromOutside, I!Start, I!Touch, I!record
<1>14. ASSUME NEW t \in Threads, I!ResolveAllResidentSos(t)
      PROVE  I!TypeOK'
  BY <1>14 DEF I!TypeOK, I!Statuses, I!Positions, I!Kinds, I!SosKinds, I!Over,
     I!Actions, I!ResolveAllResidentSos, I!SetStatus, I!history, I!marks
<1>15. ASSUME NEW t \in Threads, I!WriteEntry(t)
      PROVE  I!TypeOK'
  BY <1>15 DEF I!TypeOK, I!Statuses, I!Positions, I!Kinds, I!SosKinds, I!Over,
     I!Actions, IncidentPositionsOK, I!Told, I!WriteEntry, I!Tell,
     I!ClosesChat, I!GoTo, I!Leave, I!record, I!marks
<1>16. ASSUME NEW t \in Threads, I!CloseIncidentChat(t)
      PROVE  I!TypeOK'
  BY <1>16 DEF I!TypeOK, I!Statuses, I!Positions, I!Kinds, I!SosKinds, I!Over,
     I!Actions, I!CloseIncidentChat, I!Leave, I!history, I!marks
<1>17. ASSUME NEW t \in Threads, I!Fail(t)
      PROVE  I!TypeOK'
  BY <1>17 DEF I!TypeOK, I!Statuses, I!Positions, I!Kinds, I!SosKinds, I!Over,
     I!Actions, I!Fail, I!HalfWay, I!Leave, I!record
<1>18. QED
  BY <1>1, <1>2, <1>3, <1>4, <1>5, <1>6, <1>7, <1>8, <1>9, <1>10, <1>11,
     <1>12, <1>13, <1>14, <1>15, <1>16, <1>17
  DEF I!Next, I!SosStep, I!IncidentStep

(* Nothing is reported that does not exist.                                *)
LEMMA ExistsStep ==
    ASSUME I!TypeOK, IncidentPositionsOK, ExistsOK, I!Next
    PROVE  ExistsOK'
<1>1. ASSUME NEW i \in Incidents, I!CreateGuardSos(i)
      PROVE  ExistsOK'
  BY <1>1 DEF I!TypeOK, ExistsOK, I!Kinds, I!SosKinds, I!Statuses, I!Over,
     I!Actions, I!CreateGuardSos, I!OpenSos, I!SetStatus, I!Tell, I!marks,
     I!request
<1>2. ASSUME NEW i \in Incidents, I!CreateResidentSos(i)
      PROVE  ExistsOK'
  BY <1>2 DEF I!TypeOK, ExistsOK, I!Kinds, I!SosKinds, I!Statuses, I!Over,
     I!Actions, I!CreateResidentSos, I!OpenSos, I!SetStatus, I!Tell, I!marks,
     I!request
<1>3. ASSUME NEW i \in Incidents, I!CreateAdminSos(i)
      PROVE  ExistsOK'
  BY <1>3 DEF I!TypeOK, ExistsOK, I!Kinds, I!SosKinds, I!Statuses, I!Over,
     I!Actions, I!CreateAdminSos, I!OpenSos, I!SetStatus, I!Tell, I!marks,
     I!request
<1>4. ASSUME NEW i \in Incidents, I!StartIncident(i)
      PROVE  ExistsOK'
  BY <1>4 DEF I!TypeOK, ExistsOK, I!Kinds, I!SosKinds, I!Statuses, I!Over,
     I!Actions, I!StartIncident, I!FromOutside, I!Touch, I!SetStatus,
     I!request
<1>5. ASSUME NEW t \in Threads, I!CommitAct(t)
      PROVE  ExistsOK'
  BY <1>5 DEF I!TypeOK, ExistsOK, I!Kinds, I!SosKinds, I!Statuses, I!Over,
     I!Actions, IncidentPositionsOK, I!CommitAct, I!SetStatus, I!Tell,
     I!NextStatus, I!EntryStatus, I!GuardSosStatus, I!IsClosingAction,
     I!Leave, I!marks
<1>6. ASSUME NEW t \in Threads, NEW i \in Incidents, I!ReportIncident(t, i)
      PROVE  ExistsOK'
  BY <1>6 DEF I!TypeOK, ExistsOK, I!Kinds, I!SosKinds, I!Statuses, I!Over,
     I!Actions, I!ReportIncident, I!CreateIncident, I!ReportResidentSos,
     I!FromOutside, I!SetStatus, I!Tell, I!Start, I!Touch
<1>7. ASSUME NEW t \in Threads, NEW i \in Incidents,
             I!UpdateIncidentStatus(t, i)
      PROVE  ExistsOK'
  BY <1>7 DEF I!TypeOK, ExistsOK, I!Kinds, I!SosKinds, I!Statuses, I!Over,
     I!Actions, I!UpdateIncidentStatus, I!FromOutside, I!SetStatus, I!Start,
     I!Touch, I!request, I!Told
<1>8. ASSUME NEW t \in Threads, NEW i \in Incidents, I!CompleteIncident(t, i)
      PROVE  ExistsOK'
  BY <1>8 DEF I!TypeOK, ExistsOK, I!Kinds, I!SosKinds, I!Statuses, I!Over,
     I!Actions, I!CompleteIncident, I!FromOutside, I!SetStatus, I!Start,
     I!Touch
<1>9. ASSUME NEW t \in Threads, I!ResolveAllResidentSos(t)
      PROVE  ExistsOK'
  BY <1>9 DEF I!TypeOK, ExistsOK, I!Kinds, I!SosKinds, I!Statuses, I!Over,
     I!Actions, I!ResolveAllResidentSos, I!SetStatus, I!history, I!marks
<1>10. ASSUME \/ \E t \in Threads, i \in Incidents, a \in I!Actions :
                     I!BeginAct(t, i, a)
              \/ \E t \in Threads, i \in Incidents :
                     I!BeginUpdateLocation(t, i)
              \/ \E t \in Threads : I!CommitUpdateLocation(t)
              \/ \E t \in Threads : I!CreateIncidentChat(t)
              \/ \E t \in Threads : I!FindResidentSos(t)
              \/ \E t \in Threads : I!WriteEntry(t)
              \/ \E t \in Threads : I!CloseIncidentChat(t)
              \/ \E t \in Threads : I!Fail(t)
      PROVE  ExistsOK'
  BY <1>10 DEF I!TypeOK, ExistsOK, I!Kinds, I!SosKinds, I!Statuses, I!Over,
     I!Actions, I!BeginAct, I!Start, I!Touch, I!record, I!BeginUpdateLocation,
     I!CommitUpdateLocation, I!Leave, I!history, I!marks,
     I!GpsAlreadyActivated, I!CreateIncidentChat, I!FindResidentSos,
     I!FromOutside, I!WriteEntry, I!Tell, I!ClosesChat, I!GoTo,
     I!CloseIncidentChat, I!Fail, I!HalfWay
<1>11. QED
  BY <1>1, <1>2, <1>3, <1>4, <1>5, <1>6, <1>7, <1>8, <1>9, <1>10 DEF I!Next,
     I!SosStep, I!IncidentStep

(* No request is about an incident that does not exist.                    *)
LEMMA IncidentPositionsStep ==
    ASSUME I!TypeOK, ExistsOK, IncidentPositionsOK, I!Next
    PROVE  IncidentPositionsOK'
<1>1. ASSUME NEW i \in Incidents, I!CreateGuardSos(i)
      PROVE  IncidentPositionsOK'
  BY <1>1 DEF I!TypeOK, IncidentPositionsOK, I!Statuses, I!Over, I!Actions,
     I!CreateGuardSos, I!OpenSos, I!SetStatus, I!Tell, I!marks, I!request
<1>2. ASSUME NEW i \in Incidents, I!CreateResidentSos(i)
      PROVE  IncidentPositionsOK'
  BY <1>2 DEF I!TypeOK, IncidentPositionsOK, I!Statuses, I!Over, I!Actions,
     I!CreateResidentSos, I!OpenSos, I!SetStatus, I!Tell, I!marks, I!request
<1>3. ASSUME NEW i \in Incidents, I!CreateAdminSos(i)
      PROVE  IncidentPositionsOK'
  BY <1>3 DEF I!TypeOK, IncidentPositionsOK, I!Statuses, I!Over, I!Actions,
     I!CreateAdminSos, I!OpenSos, I!SetStatus, I!Tell, I!marks, I!request
<1>4. ASSUME NEW i \in Incidents, I!StartIncident(i)
      PROVE  IncidentPositionsOK'
  BY <1>4 DEF I!TypeOK, IncidentPositionsOK, I!Statuses, I!Over, I!Actions,
     I!StartIncident, I!FromOutside, I!Touch, I!SetStatus, I!request
<1>5. ASSUME NEW t \in Threads, NEW i \in Incidents, NEW a \in I!Actions,
             I!BeginAct(t, i, a)
      PROVE  IncidentPositionsOK'
  BY <1>5 DEF I!TypeOK, IncidentPositionsOK, I!Statuses, I!Over, I!Actions,
     ExistsOK, I!Emergency, I!Kinds, I!SosKinds, I!Allowed, I!RequireIncident,
     I!BeginAct, I!Start, I!Touch, I!record
<1>6. ASSUME NEW t \in Threads, NEW i \in Incidents,
             I!BeginUpdateLocation(t, i)
      PROVE  IncidentPositionsOK'
  BY <1>6 DEF I!TypeOK, IncidentPositionsOK, I!Statuses, I!Over, I!Actions,
     ExistsOK, I!Emergency, I!Kinds, I!SosKinds, I!RequireIncident,
     I!BeginUpdateLocation, I!Start, I!Touch, I!record
<1>7. ASSUME NEW t \in Threads, I!CommitAct(t)
      PROVE  IncidentPositionsOK'
  BY <1>7 DEF I!TypeOK, IncidentPositionsOK, I!Statuses, I!Over, I!Actions,
     I!CommitAct, I!SetStatus, I!Tell, I!NextStatus, I!EntryStatus,
     I!GuardSosStatus, I!IsClosingAction, I!Leave, I!marks
<1>8. ASSUME NEW t \in Threads, I!CommitUpdateLocation(t)
      PROVE  IncidentPositionsOK'
  BY <1>8 DEF I!TypeOK, IncidentPositionsOK, I!Statuses, I!Over, I!Actions,
     I!CommitUpdateLocation, I!Leave, I!history, I!marks,
     I!GpsAlreadyActivated
<1>9. ASSUME NEW t \in Threads, NEW i \in Incidents, I!ReportIncident(t, i)
      PROVE  IncidentPositionsOK'
  BY <1>9 DEF I!TypeOK, IncidentPositionsOK, I!Statuses, I!Over, I!Actions,
     I!ReportIncident, I!CreateIncident, I!ReportResidentSos, I!FromOutside,
     I!SetStatus, I!Tell, I!Start, I!Touch
<1>10. ASSUME NEW t \in Threads, NEW i \in Incidents,
              I!UpdateIncidentStatus(t, i)
      PROVE  IncidentPositionsOK'
  BY <1>10 DEF I!TypeOK, IncidentPositionsOK, I!Statuses, I!Over, I!Actions,
     I!UpdateIncidentStatus, I!FromOutside, I!SetStatus, I!Start, I!Touch,
     I!request, I!Told
<1>11. ASSUME NEW t \in Threads, NEW i \in Incidents, I!CompleteIncident(t, i)
      PROVE  IncidentPositionsOK'
  BY <1>11 DEF I!TypeOK, IncidentPositionsOK, I!Statuses, I!Over, I!Actions,
     I!Told, I!CompleteIncident, I!FromOutside, I!SetStatus, I!Start, I!Touch
<1>12. ASSUME NEW t \in Threads, I!CreateIncidentChat(t)
      PROVE  IncidentPositionsOK'
  BY <1>12 DEF I!TypeOK, IncidentPositionsOK, I!Statuses, I!Over, I!Actions,
     I!CreateIncidentChat, I!Leave, I!history, I!marks
<1>13. ASSUME NEW t \in Threads, I!FindResidentSos(t)
      PROVE  IncidentPositionsOK'
  BY <1>13 DEF I!TypeOK, IncidentPositionsOK, I!Statuses, I!Over, I!Actions,
     I!Active, I!FindResidentSos, I!FromOutside, I!Start, I!Touch, I!record
<1>14. ASSUME NEW t \in Threads, I!ResolveAllResidentSos(t)
      PROVE  IncidentPositionsOK'
  BY <1>14 DEF I!TypeOK, IncidentPositionsOK, I!Statuses, I!Over, I!Actions,
     I!Told, I!ResolveAllResidentSos, I!SetStatus, I!history, I!marks
<1>15. ASSUME NEW t \in Threads, I!WriteEntry(t)
      PROVE  IncidentPositionsOK'
  BY <1>15 DEF I!TypeOK, IncidentPositionsOK, I!Statuses, I!Over, I!Actions,
     I!WriteEntry, I!Tell, I!ClosesChat, I!GoTo, I!Leave, I!record, I!marks
<1>16. ASSUME NEW t \in Threads, I!CloseIncidentChat(t)
      PROVE  IncidentPositionsOK'
  BY <1>16 DEF I!TypeOK, IncidentPositionsOK, I!Statuses, I!Over, I!Actions,
     I!CloseIncidentChat, I!Leave, I!history, I!marks
<1>17. ASSUME NEW t \in Threads, I!Fail(t)
      PROVE  IncidentPositionsOK'
  BY <1>17 DEF I!TypeOK, IncidentPositionsOK, I!Statuses, I!Over, I!Actions,
     I!Fail, I!HalfWay, I!Leave, I!record
<1>18. QED
  BY <1>1, <1>2, <1>3, <1>4, <1>5, <1>6, <1>7, <1>8, <1>9, <1>10, <1>11,
     <1>12, <1>13, <1>14, <1>15, <1>16, <1>17
  DEF I!Next, I!SosStep, I!IncidentStep

(* A second request about an incident marks it as overlapped.              *)
LEMMA OneStep ==
    ASSUME I!TypeOK, OneRequest, I!Next
    PROVE  OneRequest'
<1>1. ASSUME NEW i \in Incidents, I!StartIncident(i)
      PROVE  OneRequest'
  BY <1>1 DEF I!TypeOK, OneRequest, I!StartIncident, I!FromOutside, I!Touch,
     I!SetStatus, I!request
<1>2. ASSUME NEW t \in Threads, NEW i \in Incidents, NEW a \in I!Actions,
             I!BeginAct(t, i, a)
      PROVE  OneRequest'
  BY <1>2 DEF I!TypeOK, OneRequest, I!BeginAct, I!Start, I!Touch, I!record
<1>3. ASSUME NEW t \in Threads, NEW i \in Incidents,
             I!BeginUpdateLocation(t, i)
      PROVE  OneRequest'
  BY <1>3 DEF I!TypeOK, OneRequest, I!BeginUpdateLocation, I!Start, I!Touch,
     I!record
<1>4. ASSUME NEW t \in Threads, I!CommitAct(t)
      PROVE  OneRequest'
  BY <1>4 DEF I!TypeOK, OneRequest, I!CommitAct, I!SetStatus, I!Tell,
     I!NextStatus, I!EntryStatus, I!GuardSosStatus, I!IsClosingAction,
     I!Leave, I!marks
<1>5. ASSUME NEW t \in Threads, I!CommitUpdateLocation(t)
      PROVE  OneRequest'
  BY <1>5 DEF I!TypeOK, OneRequest, I!CommitUpdateLocation, I!Leave,
     I!history, I!marks, I!GpsAlreadyActivated
<1>6. ASSUME NEW t \in Threads, NEW i \in Incidents, I!ReportIncident(t, i)
      PROVE  OneRequest'
  BY <1>6 DEF I!TypeOK, OneRequest, I!ReportIncident, I!CreateIncident,
     I!ReportResidentSos, I!FromOutside, I!SetStatus, I!Tell, I!Start, I!Touch
<1>7. ASSUME NEW t \in Threads, NEW i \in Incidents,
             I!UpdateIncidentStatus(t, i)
      PROVE  OneRequest'
  BY <1>7 DEF I!TypeOK, OneRequest, I!UpdateIncidentStatus, I!FromOutside,
     I!SetStatus, I!Start, I!Touch, I!request, I!Told
<1>8. ASSUME NEW t \in Threads, NEW i \in Incidents, I!CompleteIncident(t, i)
      PROVE  OneRequest'
  BY <1>8 DEF I!TypeOK, OneRequest, I!CompleteIncident, I!FromOutside,
     I!SetStatus, I!Start, I!Touch
<1>9. ASSUME NEW t \in Threads, I!CreateIncidentChat(t)
      PROVE  OneRequest'
  BY <1>9 DEF I!TypeOK, OneRequest, I!CreateIncidentChat, I!Leave, I!history,
     I!marks
<1>10. ASSUME NEW t \in Threads, I!FindResidentSos(t)
      PROVE  OneRequest'
  BY <1>10 DEF I!TypeOK, OneRequest, I!FindResidentSos, I!FromOutside,
     I!Start, I!Touch, I!record
<1>11. ASSUME NEW t \in Threads, I!ResolveAllResidentSos(t)
      PROVE  OneRequest'
  BY <1>11 DEF I!TypeOK, OneRequest, I!ResolveAllResidentSos, I!SetStatus,
     I!history, I!marks
<1>12. ASSUME NEW t \in Threads, I!WriteEntry(t)
      PROVE  OneRequest'
  BY <1>12 DEF I!TypeOK, OneRequest, I!WriteEntry, I!Tell, I!ClosesChat,
     I!GoTo, I!Leave, I!record, I!marks
<1>13. ASSUME NEW t \in Threads, I!CloseIncidentChat(t)
      PROVE  OneRequest'
  <2>1. overlapped' = overlapped
    BY <1>13 DEF I!CloseIncidentChat, I!history, I!marks
  <2>2. \A u \in Threads : subject'[u] \subseteq subject[u]
    BY <1>13 DEF I!TypeOK, I!CloseIncidentChat, I!Leave
  <2>3. QED
    BY <2>1, <2>2 DEF OneRequest
<1>14. ASSUME NEW t \in Threads, I!Fail(t)
      PROVE  OneRequest'
  BY <1>14 DEF I!TypeOK, OneRequest, I!Fail, I!HalfWay, I!Leave, I!record
<1>15. ASSUME \/ \E i \in Incidents : I!CreateGuardSos(i)
              \/ \E i \in Incidents : I!CreateResidentSos(i)
              \/ \E i \in Incidents : I!CreateAdminSos(i)
      PROVE  OneRequest'
  BY <1>15 DEF I!TypeOK, OneRequest, I!CreateGuardSos, I!OpenSos, I!SetStatus,
     I!Tell, I!marks, I!request, I!CreateResidentSos, I!CreateAdminSos
<1>16. QED
  BY <1>1, <1>2, <1>3, <1>4, <1>5, <1>6, <1>7, <1>8, <1>9, <1>10, <1>11,
     <1>12, <1>13, <1>14, <1>15
  DEF I!Next, I!SosStep, I!IncidentStep

(* Alone, no other request writes the status that an act has judged.       *)
LEMMA JudgedStep ==
    ASSUME I!TypeOK, IncidentPositionsOK, OneRequest, JudgedOK, I!Next
    PROVE  JudgedOK'
<1>1. ASSUME NEW i \in Incidents, I!CreateGuardSos(i)
      PROVE  JudgedOK'
  BY <1>1 DEF I!TypeOK, IncidentPositionsOK, JudgedOK, I!CreateGuardSos,
     I!OpenSos, I!SetStatus, I!Tell, I!marks, I!request
<1>2. ASSUME NEW i \in Incidents, I!CreateResidentSos(i)
      PROVE  JudgedOK'
  BY <1>2 DEF I!TypeOK, IncidentPositionsOK, JudgedOK, I!CreateResidentSos,
     I!OpenSos, I!SetStatus, I!Tell, I!marks, I!request
<1>3. ASSUME NEW i \in Incidents, I!CreateAdminSos(i)
      PROVE  JudgedOK'
  BY <1>3 DEF I!TypeOK, IncidentPositionsOK, JudgedOK, I!CreateAdminSos,
     I!OpenSos, I!SetStatus, I!Tell, I!marks, I!request
<1>4. ASSUME NEW i \in Incidents, I!StartIncident(i)
      PROVE  JudgedOK'
  BY <1>4 DEF I!TypeOK, IncidentPositionsOK, JudgedOK, I!StartIncident,
     I!FromOutside, I!Touch, I!SetStatus, I!request
<1>5. ASSUME NEW t \in Threads, NEW i \in Incidents, NEW a \in I!Actions,
             I!BeginAct(t, i, a)
      PROVE  JudgedOK'
  BY <1>5 DEF I!TypeOK, IncidentPositionsOK, JudgedOK, I!BeginAct, I!Start,
     I!Touch, I!record
<1>6. ASSUME NEW t \in Threads, NEW i \in Incidents,
             I!BeginUpdateLocation(t, i)
      PROVE  JudgedOK'
  BY <1>6 DEF I!TypeOK, IncidentPositionsOK, JudgedOK, I!BeginUpdateLocation,
     I!Start, I!Touch, I!record
<1>7. ASSUME NEW t \in Threads, I!CommitAct(t)
      PROVE  JudgedOK'
  BY <1>7 DEF I!TypeOK, IncidentPositionsOK, JudgedOK, OneRequest,
     I!CommitAct, I!SetStatus, I!Tell, I!NextStatus, I!EntryStatus,
     I!GuardSosStatus, I!IsClosingAction, I!Leave, I!marks
<1>8. ASSUME NEW t \in Threads, I!CommitUpdateLocation(t)
      PROVE  JudgedOK'
  BY <1>8 DEF I!TypeOK, IncidentPositionsOK, JudgedOK, I!CommitUpdateLocation,
     I!Leave, I!history, I!marks, I!GpsAlreadyActivated
<1>9. ASSUME NEW t \in Threads, NEW i \in Incidents, I!ReportIncident(t, i)
      PROVE  JudgedOK'
  BY <1>9 DEF I!TypeOK, IncidentPositionsOK, JudgedOK, I!ReportIncident,
     I!CreateIncident, I!ReportResidentSos, I!FromOutside, I!SetStatus,
     I!Tell, I!Start, I!Touch
<1>10. ASSUME NEW t \in Threads, NEW i \in Incidents,
              I!UpdateIncidentStatus(t, i)
      PROVE  JudgedOK'
  BY <1>10 DEF I!TypeOK, IncidentPositionsOK, JudgedOK,
     I!UpdateIncidentStatus, I!FromOutside, I!SetStatus, I!Start, I!Touch,
     I!request, I!Told
<1>11. ASSUME NEW t \in Threads, NEW i \in Incidents, I!CompleteIncident(t, i)
      PROVE  JudgedOK'
  BY <1>11 DEF I!TypeOK, IncidentPositionsOK, JudgedOK, I!CompleteIncident,
     I!FromOutside, I!SetStatus, I!Start, I!Touch
<1>12. ASSUME NEW t \in Threads, I!CreateIncidentChat(t)
      PROVE  JudgedOK'
  BY <1>12 DEF I!TypeOK, IncidentPositionsOK, JudgedOK, I!CreateIncidentChat,
     I!Leave, I!history, I!marks
<1>13. ASSUME NEW t \in Threads, I!FindResidentSos(t)
      PROVE  JudgedOK'
  BY <1>13 DEF I!TypeOK, IncidentPositionsOK, JudgedOK, I!FindResidentSos,
     I!FromOutside, I!Start, I!Touch, I!record
<1>14. ASSUME NEW t \in Threads, I!ResolveAllResidentSos(t)
      PROVE  JudgedOK'
  BY <1>14 DEF I!TypeOK, IncidentPositionsOK, JudgedOK, OneRequest,
     I!ResolveAllResidentSos, I!SetStatus, I!history, I!marks
<1>15. ASSUME NEW t \in Threads, I!WriteEntry(t)
      PROVE  JudgedOK'
  BY <1>15 DEF I!TypeOK, IncidentPositionsOK, JudgedOK, I!WriteEntry, I!Tell,
     I!ClosesChat, I!GoTo, I!Leave, I!record, I!marks
<1>16. ASSUME NEW t \in Threads, I!CloseIncidentChat(t)
      PROVE  JudgedOK'
  BY <1>16 DEF I!TypeOK, IncidentPositionsOK, JudgedOK, I!CloseIncidentChat,
     I!Leave, I!history, I!marks
<1>17. ASSUME NEW t \in Threads, I!Fail(t)
      PROVE  JudgedOK'
  BY <1>17 DEF I!TypeOK, IncidentPositionsOK, JudgedOK, I!Fail, I!HalfWay,
     I!Leave, I!record
<1>18. QED
  BY <1>1, <1>2, <1>3, <1>4, <1>5, <1>6, <1>7, <1>8, <1>9, <1>10, <1>11,
     <1>12, <1>13, <1>14, <1>15, <1>16, <1>17
  DEF I!Next, I!SosStep, I!IncidentStep

(* A report that is cut off or overtaken is marked.                        *)
LEMMA RoomsStep ==
    ASSUME I!TypeOK, IncidentPositionsOK, OneRequest, RoomsOK, I!Next
    PROVE  RoomsOK'
<1>1. ASSUME NEW i \in Incidents, I!CreateGuardSos(i)
      PROVE  RoomsOK'
  BY <1>1 DEF I!TypeOK, IncidentPositionsOK, RoomsOK, I!CreateGuardSos,
     I!OpenSos, I!SetStatus, I!Tell, I!marks, I!request
<1>2. ASSUME NEW i \in Incidents, I!CreateResidentSos(i)
      PROVE  RoomsOK'
  BY <1>2 DEF I!TypeOK, IncidentPositionsOK, RoomsOK, I!CreateResidentSos,
     I!OpenSos, I!SetStatus, I!Tell, I!marks, I!request
<1>3. ASSUME NEW i \in Incidents, I!CreateAdminSos(i)
      PROVE  RoomsOK'
  BY <1>3 DEF I!TypeOK, IncidentPositionsOK, RoomsOK, I!CreateAdminSos,
     I!OpenSos, I!SetStatus, I!Tell, I!marks, I!request
<1>4. ASSUME NEW i \in Incidents, I!StartIncident(i)
      PROVE  RoomsOK'
  BY <1>4 DEF I!TypeOK, IncidentPositionsOK, RoomsOK, I!StartIncident,
     I!FromOutside, I!Touch, I!SetStatus, I!request
<1>5. ASSUME NEW t \in Threads, NEW i \in Incidents, NEW a \in I!Actions,
             I!BeginAct(t, i, a)
      PROVE  RoomsOK'
  BY <1>5 DEF I!TypeOK, IncidentPositionsOK, RoomsOK, I!BeginAct, I!Start,
     I!Touch, I!record
<1>6. ASSUME NEW t \in Threads, NEW i \in Incidents,
             I!BeginUpdateLocation(t, i)
      PROVE  RoomsOK'
  BY <1>6 DEF I!TypeOK, IncidentPositionsOK, RoomsOK, I!BeginUpdateLocation,
     I!Start, I!Touch, I!record
<1>7. ASSUME NEW t \in Threads, I!CommitAct(t)
      PROVE  RoomsOK'
  BY <1>7 DEF I!TypeOK, IncidentPositionsOK, RoomsOK, I!CommitAct,
     I!SetStatus, I!Tell, I!NextStatus, I!EntryStatus, I!GuardSosStatus,
     I!IsClosingAction, I!Leave, I!marks
<1>8. ASSUME NEW t \in Threads, I!CommitUpdateLocation(t)
      PROVE  RoomsOK'
  BY <1>8 DEF I!TypeOK, IncidentPositionsOK, RoomsOK, I!CommitUpdateLocation,
     I!Leave, I!history, I!marks, I!GpsAlreadyActivated
<1>9. ASSUME NEW t \in Threads, NEW i \in Incidents, I!ReportIncident(t, i)
      PROVE  RoomsOK'
  BY <1>9 DEF I!TypeOK, IncidentPositionsOK, RoomsOK, I!ReportIncident,
     I!CreateIncident, I!ReportResidentSos, I!FromOutside, I!SetStatus,
     I!Tell, I!Start, I!Touch
<1>10. ASSUME NEW t \in Threads, NEW i \in Incidents,
              I!UpdateIncidentStatus(t, i)
      PROVE  RoomsOK'
  BY <1>10 DEF I!TypeOK, IncidentPositionsOK, RoomsOK, I!UpdateIncidentStatus,
     I!FromOutside, I!SetStatus, I!Start, I!Touch, I!request, I!Told
<1>11. ASSUME NEW t \in Threads, NEW i \in Incidents, I!CompleteIncident(t, i)
      PROVE  RoomsOK'
  BY <1>11 DEF I!TypeOK, IncidentPositionsOK, RoomsOK, I!CompleteIncident,
     I!FromOutside, I!SetStatus, I!Start, I!Touch
<1>12. ASSUME NEW t \in Threads, I!CreateIncidentChat(t)
      PROVE  RoomsOK'
  BY <1>12 DEF I!TypeOK, IncidentPositionsOK, RoomsOK, I!CreateIncidentChat,
     I!Leave, I!history, I!marks
<1>13. ASSUME NEW t \in Threads, I!FindResidentSos(t)
      PROVE  RoomsOK'
  BY <1>13 DEF I!TypeOK, IncidentPositionsOK, RoomsOK, I!FindResidentSos,
     I!FromOutside, I!Start, I!Touch, I!record
<1>14. ASSUME NEW t \in Threads, I!ResolveAllResidentSos(t)
      PROVE  RoomsOK'
  BY <1>14 DEF I!TypeOK, IncidentPositionsOK, RoomsOK,
     I!ResolveAllResidentSos, I!SetStatus, I!history, I!marks
<1>15. ASSUME NEW t \in Threads, I!WriteEntry(t)
      PROVE  RoomsOK'
  BY <1>15 DEF I!TypeOK, IncidentPositionsOK, RoomsOK, I!WriteEntry, I!Tell,
     I!ClosesChat, I!GoTo, I!Leave, I!record, I!marks
<1>16. ASSUME NEW t \in Threads, I!CloseIncidentChat(t)
      PROVE  RoomsOK'
  BY <1>16 DEF I!TypeOK, IncidentPositionsOK, RoomsOK, I!CloseIncidentChat,
     I!Leave, I!history, I!marks
<1>17. ASSUME NEW t \in Threads, I!Fail(t)
      PROVE  RoomsOK'
  BY <1>17 DEF I!TypeOK, IncidentPositionsOK, RoomsOK, I!Fail, I!HalfWay,
     I!Leave, I!record
<1>18. QED
  BY <1>1, <1>2, <1>3, <1>4, <1>5, <1>6, <1>7, <1>8, <1>9, <1>10, <1>11,
     <1>12, <1>13, <1>14, <1>15, <1>16, <1>17
  DEF I!Next, I!SosStep, I!IncidentStep

(* Who ends an incident closes its room, or is marked.                     *)
LEMMA EndsStep ==
    ASSUME I!TypeOK, IncidentPositionsOK, OneRequest, JudgedOK, RoomsOK,
           EndsOK, I!Next
    PROVE  EndsOK'
<1>1. ASSUME NEW i \in Incidents, I!CreateGuardSos(i)
      PROVE  EndsOK'
  BY <1>1 DEF I!TypeOK, IncidentPositionsOK, EndsOK, I!Over, I!CreateGuardSos,
     I!OpenSos, I!SetStatus, I!Tell, I!marks, I!request
<1>2. ASSUME NEW i \in Incidents, I!CreateResidentSos(i)
      PROVE  EndsOK'
  BY <1>2 DEF I!TypeOK, IncidentPositionsOK, EndsOK, I!Over,
     I!CreateResidentSos, I!OpenSos, I!SetStatus, I!Tell, I!marks, I!request
<1>3. ASSUME NEW i \in Incidents, I!CreateAdminSos(i)
      PROVE  EndsOK'
  BY <1>3 DEF I!TypeOK, IncidentPositionsOK, EndsOK, I!Over, I!CreateAdminSos,
     I!OpenSos, I!SetStatus, I!Tell, I!marks, I!request
<1>4. ASSUME NEW i \in Incidents, I!StartIncident(i)
      PROVE  EndsOK'
  BY <1>4 DEF I!TypeOK, IncidentPositionsOK, EndsOK, I!Over, I!StartIncident,
     I!FromOutside, I!Touch, I!SetStatus, I!request
<1>5. ASSUME NEW t \in Threads, NEW i \in Incidents, NEW a \in I!Actions,
             I!BeginAct(t, i, a)
      PROVE  EndsOK'
  BY <1>5 DEF I!TypeOK, IncidentPositionsOK, EndsOK, I!Over, I!BeginAct,
     I!Start, I!Touch, I!record
<1>6. ASSUME NEW t \in Threads, NEW i \in Incidents,
             I!BeginUpdateLocation(t, i)
      PROVE  EndsOK'
  BY <1>6 DEF I!TypeOK, IncidentPositionsOK, EndsOK, I!Over,
     I!BeginUpdateLocation, I!Start, I!Touch, I!record
<1>7. ASSUME NEW t \in Threads, I!CommitAct(t)
      PROVE  EndsOK'
  <2>1. PICK i \in subject[t] :
           /\ I!SetStatus({i}, I!NextStatus(action[t], status[i]))
           /\ chat' = IF I!IsClosingAction(action[t]) /\ chat[i] = "OPEN"
                      THEN [chat EXCEPT ![i] = "CLOSED"] ELSE chat
    BY <1>7 DEF I!CommitAct
  <2>2. i \in Incidents /\ action[t] \in I!Actions /\ status[i] # "NONE"
    BY <1>7, <2>1 DEF I!TypeOK, IncidentPositionsOK, I!CommitAct
  <2>3. /\ subject' = [subject EXCEPT ![t] = {}]
        /\ incidentPc' = [incidentPc EXCEPT ![t] = "idle"]
        /\ snap' = [snap EXCEPT ![t] = None]
        /\ cut' = cut /\ overlapped' = overlapped
    BY <1>7 DEF I!CommitAct, I!Leave, I!marks
  <2>4. CASE i \in cut \cup overlapped
    BY <1>7, <2>1, <2>2, <2>3, <2>4 DEF I!CommitAct, I!SetStatus, I!TypeOK,
       EndsOK
  <2>5. CASE i \notin cut \cup overlapped
    <3>1. \A u \in Threads : i \in subject[u] => incidentPc[u] = "act"
      BY <1>7, <2>1, <2>2, <2>5 DEF I!CommitAct, OneRequest
    <3>2. chat[i] # "NONE" /\ (status[i] \in I!Over => chat[i] = "CLOSED")
      BY <2>2, <2>5, <3>1 DEF RoomsOK, EndsOK
    <3>3. I!Allowed(status[i], action[t])
      BY <1>7, <2>1, <2>5 DEF I!CommitAct, JudgedOK
    <3>4. status'[i] \in I!Over => chat'[i] = "CLOSED"
      BY <2>1, <2>2, <3>2, <3>3
      DEF I!TypeOK, I!SetStatus, I!NextStatus, I!Allowed, I!Actions, I!Over,
          I!IsClosingAction
    <3>5. QED
      BY <1>7, <2>1, <2>2, <2>3, <3>4 DEF I!CommitAct, I!SetStatus, I!TypeOK,
         EndsOK
  <2>6. QED
    BY <2>4, <2>5
<1>8. ASSUME NEW t \in Threads, I!CommitUpdateLocation(t)
      PROVE  EndsOK'
  BY <1>8 DEF I!TypeOK, IncidentPositionsOK, EndsOK, I!Over,
     I!CommitUpdateLocation, I!Leave, I!history, I!marks,
     I!GpsAlreadyActivated
<1>9. ASSUME NEW t \in Threads, NEW i \in Incidents, I!ReportIncident(t, i)
      PROVE  EndsOK'
  BY <1>9 DEF I!TypeOK, IncidentPositionsOK, EndsOK, I!Over, I!ReportIncident,
     I!CreateIncident, I!ReportResidentSos, I!FromOutside, I!SetStatus,
     I!Tell, I!Start, I!Touch
<1>10. ASSUME NEW t \in Threads, NEW i \in Incidents,
              I!UpdateIncidentStatus(t, i)
      PROVE  EndsOK'
  BY <1>10 DEF I!TypeOK, IncidentPositionsOK, EndsOK, I!Over,
     I!UpdateIncidentStatus, I!FromOutside, I!SetStatus, I!Start, I!Touch,
     I!request, I!Told
<1>11. ASSUME NEW t \in Threads, NEW i \in Incidents, I!CompleteIncident(t, i)
      PROVE  EndsOK'
  BY <1>11 DEF I!TypeOK, IncidentPositionsOK, EndsOK, I!Over,
     I!CompleteIncident, I!FromOutside, I!SetStatus, I!Start, I!Touch
<1>12. ASSUME NEW t \in Threads, I!CreateIncidentChat(t)
      PROVE  EndsOK'
  BY <1>12 DEF I!TypeOK, IncidentPositionsOK, EndsOK, I!Over,
     I!CreateIncidentChat, I!Leave, I!history, I!marks
<1>13. ASSUME NEW t \in Threads, I!FindResidentSos(t)
      PROVE  EndsOK'
  BY <1>13 DEF I!TypeOK, IncidentPositionsOK, EndsOK, I!Over,
     I!FindResidentSos, I!FromOutside, I!Start, I!Touch, I!record
<1>14. ASSUME NEW t \in Threads, I!ResolveAllResidentSos(t)
      PROVE  EndsOK'
  BY <1>14 DEF I!TypeOK, IncidentPositionsOK, EndsOK, I!Over,
     I!ResolveAllResidentSos, I!SetStatus, I!history, I!marks
<1>15. ASSUME NEW t \in Threads, I!WriteEntry(t)
      PROVE  EndsOK'
  BY <1>15 DEF I!TypeOK, IncidentPositionsOK, EndsOK, I!Over, I!WriteEntry,
     I!Tell, I!ClosesChat, I!GoTo, I!Leave, I!record, I!marks
<1>16. ASSUME NEW t \in Threads, I!CloseIncidentChat(t)
      PROVE  EndsOK'
  <2>1. PICK i \in subject[t] :
           /\ chat' = IF chat[i] = "OPEN" THEN [chat EXCEPT ![i] = "CLOSED"]
                      ELSE chat
           /\ IF subject[t] = {i} THEN I!Leave(t)
              ELSE /\ subject' = [subject EXCEPT ![t] = @ \ {i}]
                   /\ UNCHANGED <<incidentPc, action, snap>>
    BY <1>16 DEF I!CloseIncidentChat
  <2>2. /\ i \in Incidents /\ status' = status
        /\ cut' = cut /\ overlapped' = overlapped
    BY <1>16, <2>1 DEF I!TypeOK, I!CloseIncidentChat, I!history, I!marks
  <2>3. i \in cut \cup overlapped \/ chat'[i] = "CLOSED"
    BY <1>16, <2>1, <2>2
    DEF I!CloseIncidentChat, I!TypeOK, IncidentPositionsOK, RoomsOK,
        OneRequest
  <2>4. \A j \in Incidents \ {i} : \A u \in Threads :
           j \in subject[u] =>
               /\ j \in subject'[u] /\ incidentPc'[u] = incidentPc[u]
               /\ snap'[u] = snap[u]
    BY <2>1, <2>2 DEF I!TypeOK, I!Leave
  <2>5. \A j \in Incidents \ {i} : chat'[j] = chat[j]
    BY <2>1, <2>2 DEF I!TypeOK
  <2>6. QED
    BY <2>2, <2>3, <2>4, <2>5 DEF EndsOK
<1>17. ASSUME NEW t \in Threads, I!Fail(t)
      PROVE  EndsOK'
  BY <1>17 DEF I!TypeOK, IncidentPositionsOK, EndsOK, I!Over, I!Fail,
     I!HalfWay, I!Leave, I!record
<1>18. QED
  BY <1>1, <1>2, <1>3, <1>4, <1>5, <1>6, <1>7, <1>8, <1>9, <1>10, <1>11,
     <1>12, <1>13, <1>14, <1>15, <1>16, <1>17
  DEF I!Next, I!SosStep, I!IncidentStep

(* SosService ends an emergency and closes its room in one transaction.    *)
LEMMA ReadOnlyStep ==
    ASSUME I!TypeOK, IncidentPositionsOK, RoomsOK, I!OverIsReadOnly, I!Next
    PROVE  I!OverIsReadOnly'
<1>1. ASSUME NEW i \in Incidents, I!CreateGuardSos(i)
      PROVE  I!OverIsReadOnly'
  BY <1>1 DEF I!TypeOK, IncidentPositionsOK, I!OverIsReadOnly, I!Over,
     I!CreateGuardSos, I!OpenSos, I!SetStatus, I!Tell, I!marks, I!request
<1>2. ASSUME NEW i \in Incidents, I!CreateResidentSos(i)
      PROVE  I!OverIsReadOnly'
  BY <1>2 DEF I!TypeOK, IncidentPositionsOK, I!OverIsReadOnly, I!Over,
     I!CreateResidentSos, I!OpenSos, I!SetStatus, I!Tell, I!marks, I!request
<1>3. ASSUME NEW i \in Incidents, I!CreateAdminSos(i)
      PROVE  I!OverIsReadOnly'
  BY <1>3 DEF I!TypeOK, IncidentPositionsOK, I!OverIsReadOnly, I!Over,
     I!CreateAdminSos, I!OpenSos, I!SetStatus, I!Tell, I!marks, I!request
<1>4. ASSUME NEW i \in Incidents, I!StartIncident(i)
      PROVE  I!OverIsReadOnly'
  BY <1>4 DEF I!TypeOK, IncidentPositionsOK, I!OverIsReadOnly, I!Over,
     I!StartIncident, I!FromOutside, I!Touch, I!SetStatus, I!request
<1>5. ASSUME NEW t \in Threads, NEW i \in Incidents, NEW a \in I!Actions,
             I!BeginAct(t, i, a)
      PROVE  I!OverIsReadOnly'
  BY <1>5 DEF I!TypeOK, IncidentPositionsOK, I!OverIsReadOnly, I!Over,
     I!BeginAct, I!Start, I!Touch, I!record
<1>6. ASSUME NEW t \in Threads, NEW i \in Incidents,
             I!BeginUpdateLocation(t, i)
      PROVE  I!OverIsReadOnly'
  BY <1>6 DEF I!TypeOK, IncidentPositionsOK, I!OverIsReadOnly, I!Over,
     I!BeginUpdateLocation, I!Start, I!Touch, I!record
<1>7. ASSUME NEW t \in Threads, I!CommitAct(t)
      PROVE  I!OverIsReadOnly'
  BY <1>7 DEF I!TypeOK, IncidentPositionsOK, I!OverIsReadOnly, I!Over,
     RoomsOK, I!Actions, I!CommitAct, I!SetStatus, I!Tell, I!NextStatus,
     I!EntryStatus, I!GuardSosStatus, I!IsClosingAction, I!Leave, I!marks
<1>8. ASSUME NEW t \in Threads, I!CommitUpdateLocation(t)
      PROVE  I!OverIsReadOnly'
  BY <1>8 DEF I!TypeOK, IncidentPositionsOK, I!OverIsReadOnly, I!Over,
     I!CommitUpdateLocation, I!Leave, I!history, I!marks,
     I!GpsAlreadyActivated
<1>9. ASSUME NEW t \in Threads, NEW i \in Incidents, I!ReportIncident(t, i)
      PROVE  I!OverIsReadOnly'
  BY <1>9 DEF I!TypeOK, IncidentPositionsOK, I!OverIsReadOnly, I!Over,
     I!ReportIncident, I!CreateIncident, I!ReportResidentSos, I!FromOutside,
     I!SetStatus, I!Tell, I!Start, I!Touch
<1>10. ASSUME NEW t \in Threads, NEW i \in Incidents,
              I!UpdateIncidentStatus(t, i)
      PROVE  I!OverIsReadOnly'
  BY <1>10 DEF I!TypeOK, IncidentPositionsOK, I!OverIsReadOnly, I!Over,
     I!UpdateIncidentStatus, I!FromOutside, I!SetStatus, I!Start, I!Touch,
     I!request, I!Told
<1>11. ASSUME NEW t \in Threads, NEW i \in Incidents, I!CompleteIncident(t, i)
      PROVE  I!OverIsReadOnly'
  BY <1>11 DEF I!TypeOK, IncidentPositionsOK, I!OverIsReadOnly, I!Over,
     I!CompleteIncident, I!FromOutside, I!SetStatus, I!Start, I!Touch
<1>12. ASSUME NEW t \in Threads, I!CreateIncidentChat(t)
      PROVE  I!OverIsReadOnly'
  BY <1>12 DEF I!TypeOK, IncidentPositionsOK, I!OverIsReadOnly, I!Over,
     I!CreateIncidentChat, I!Leave, I!history, I!marks
<1>13. ASSUME NEW t \in Threads, I!FindResidentSos(t)
      PROVE  I!OverIsReadOnly'
  BY <1>13 DEF I!TypeOK, IncidentPositionsOK, I!OverIsReadOnly, I!Over,
     I!FindResidentSos, I!FromOutside, I!Start, I!Touch, I!record
<1>14. ASSUME NEW t \in Threads, I!ResolveAllResidentSos(t)
      PROVE  I!OverIsReadOnly'
  BY <1>14 DEF I!TypeOK, IncidentPositionsOK, I!OverIsReadOnly, I!Over,
     I!ResolveAllResidentSos, I!SetStatus, I!history, I!marks
<1>15. ASSUME NEW t \in Threads, I!WriteEntry(t)
      PROVE  I!OverIsReadOnly'
  BY <1>15 DEF I!TypeOK, IncidentPositionsOK, I!OverIsReadOnly, I!Over,
     I!WriteEntry, I!Tell, I!ClosesChat, I!GoTo, I!Leave, I!record, I!marks
<1>16. ASSUME NEW t \in Threads, I!CloseIncidentChat(t)
      PROVE  I!OverIsReadOnly'
  BY <1>16 DEF I!TypeOK, IncidentPositionsOK, I!OverIsReadOnly, I!Over,
     I!CloseIncidentChat, I!Leave, I!history, I!marks
<1>17. ASSUME NEW t \in Threads, I!Fail(t)
      PROVE  I!OverIsReadOnly'
  BY <1>17 DEF I!TypeOK, IncidentPositionsOK, I!OverIsReadOnly, I!Over,
     I!Fail, I!HalfWay, I!Leave, I!record
<1>18. QED
  BY <1>1, <1>2, <1>3, <1>4, <1>5, <1>6, <1>7, <1>8, <1>9, <1>10, <1>11,
     <1>12, <1>13, <1>14, <1>15, <1>16, <1>17
  DEF I!Next, I!SosStep, I!IncidentStep

(* ... and writes the guard's alarm with it.                               *)
LEMMA GuardStep ==
    ASSUME I!TypeOK, IncidentPositionsOK, I!GuardSosAgrees, I!Next
    PROVE  I!GuardSosAgrees'
<1>1. ASSUME NEW i \in Incidents, I!CreateGuardSos(i)
      PROVE  I!GuardSosAgrees'
  BY <1>1 DEF I!TypeOK, IncidentPositionsOK, I!GuardSosAgrees,
     I!CreateGuardSos, I!OpenSos, I!SetStatus, I!Tell, I!marks, I!request
<1>2. ASSUME NEW i \in Incidents, I!CreateResidentSos(i)
      PROVE  I!GuardSosAgrees'
  BY <1>2 DEF I!TypeOK, IncidentPositionsOK, I!GuardSosAgrees,
     I!CreateResidentSos, I!OpenSos, I!SetStatus, I!Tell, I!marks, I!request
<1>3. ASSUME NEW i \in Incidents, I!CreateAdminSos(i)
      PROVE  I!GuardSosAgrees'
  BY <1>3 DEF I!TypeOK, IncidentPositionsOK, I!GuardSosAgrees,
     I!CreateAdminSos, I!OpenSos, I!SetStatus, I!Tell, I!marks, I!request
<1>4. ASSUME NEW i \in Incidents, I!StartIncident(i)
      PROVE  I!GuardSosAgrees'
  BY <1>4 DEF I!TypeOK, IncidentPositionsOK, I!GuardSosAgrees,
     I!StartIncident, I!FromOutside, I!Touch, I!SetStatus, I!request
<1>5. ASSUME NEW t \in Threads, NEW i \in Incidents, NEW a \in I!Actions,
             I!BeginAct(t, i, a)
      PROVE  I!GuardSosAgrees'
  BY <1>5 DEF I!TypeOK, IncidentPositionsOK, I!GuardSosAgrees, I!BeginAct,
     I!Start, I!Touch, I!record
<1>6. ASSUME NEW t \in Threads, NEW i \in Incidents,
             I!BeginUpdateLocation(t, i)
      PROVE  I!GuardSosAgrees'
  BY <1>6 DEF I!TypeOK, IncidentPositionsOK, I!GuardSosAgrees,
     I!BeginUpdateLocation, I!Start, I!Touch, I!record
<1>7. ASSUME NEW t \in Threads, I!CommitAct(t)
      PROVE  I!GuardSosAgrees'
  BY <1>7 DEF I!TypeOK, IncidentPositionsOK, I!GuardSosAgrees, I!Actions,
     I!CommitAct, I!SetStatus, I!Tell, I!NextStatus, I!EntryStatus,
     I!GuardSosStatus, I!IsClosingAction, I!Leave, I!marks
<1>8. ASSUME NEW t \in Threads, I!CommitUpdateLocation(t)
      PROVE  I!GuardSosAgrees'
  BY <1>8 DEF I!TypeOK, IncidentPositionsOK, I!GuardSosAgrees,
     I!CommitUpdateLocation, I!Leave, I!history, I!marks,
     I!GpsAlreadyActivated
<1>9. ASSUME NEW t \in Threads, NEW i \in Incidents, I!ReportIncident(t, i)
      PROVE  I!GuardSosAgrees'
  BY <1>9 DEF I!TypeOK, IncidentPositionsOK, I!GuardSosAgrees,
     I!ReportIncident, I!CreateIncident, I!ReportResidentSos, I!FromOutside,
     I!SetStatus, I!Tell, I!Start, I!Touch
<1>10. ASSUME NEW t \in Threads, NEW i \in Incidents,
              I!UpdateIncidentStatus(t, i)
      PROVE  I!GuardSosAgrees'
  BY <1>10 DEF I!TypeOK, IncidentPositionsOK, I!GuardSosAgrees,
     I!UpdateIncidentStatus, I!FromOutside, I!SetStatus, I!Start, I!Touch,
     I!request, I!Told
<1>11. ASSUME NEW t \in Threads, NEW i \in Incidents, I!CompleteIncident(t, i)
      PROVE  I!GuardSosAgrees'
  BY <1>11 DEF I!TypeOK, IncidentPositionsOK, I!GuardSosAgrees,
     I!CompleteIncident, I!FromOutside, I!SetStatus, I!Start, I!Touch
<1>12. ASSUME NEW t \in Threads, I!CreateIncidentChat(t)
      PROVE  I!GuardSosAgrees'
  BY <1>12 DEF I!TypeOK, IncidentPositionsOK, I!GuardSosAgrees,
     I!CreateIncidentChat, I!Leave, I!history, I!marks
<1>13. ASSUME NEW t \in Threads, I!FindResidentSos(t)
      PROVE  I!GuardSosAgrees'
  BY <1>13 DEF I!TypeOK, IncidentPositionsOK, I!GuardSosAgrees,
     I!FindResidentSos, I!FromOutside, I!Start, I!Touch, I!record
<1>14. ASSUME NEW t \in Threads, I!ResolveAllResidentSos(t)
      PROVE  I!GuardSosAgrees'
  BY <1>14 DEF I!TypeOK, IncidentPositionsOK, I!GuardSosAgrees,
     I!ResolveAllResidentSos, I!SetStatus, I!history, I!marks
<1>15. ASSUME NEW t \in Threads, I!WriteEntry(t)
      PROVE  I!GuardSosAgrees'
  BY <1>15 DEF I!TypeOK, IncidentPositionsOK, I!GuardSosAgrees, I!WriteEntry,
     I!Tell, I!ClosesChat, I!GoTo, I!Leave, I!record, I!marks
<1>16. ASSUME NEW t \in Threads, I!CloseIncidentChat(t)
      PROVE  I!GuardSosAgrees'
  BY <1>16 DEF I!TypeOK, IncidentPositionsOK, I!GuardSosAgrees,
     I!CloseIncidentChat, I!Leave, I!history, I!marks
<1>17. ASSUME NEW t \in Threads, I!Fail(t)
      PROVE  I!GuardSosAgrees'
  BY <1>17 DEF I!TypeOK, IncidentPositionsOK, I!GuardSosAgrees, I!Fail,
     I!HalfWay, I!Leave, I!record
<1>18. QED
  BY <1>1, <1>2, <1>3, <1>4, <1>5, <1>6, <1>7, <1>8, <1>9, <1>10, <1>11,
     <1>12, <1>13, <1>14, <1>15, <1>16, <1>17
  DEF I!Next, I!SosStep, I!IncidentStep

(* ... and the entry tells what the update returned.                       *)
LEMMA TellsStep ==
    ASSUME I!TypeOK, IncidentPositionsOK, I!TimelineTellsStatus, I!Next
    PROVE  I!TimelineTellsStatus'
<1>1. ASSUME NEW i \in Incidents, I!CreateGuardSos(i)
      PROVE  I!TimelineTellsStatus'
  BY <1>1 DEF I!TypeOK, IncidentPositionsOK, I!TimelineTellsStatus,
     I!CreateGuardSos, I!OpenSos, I!SetStatus, I!Tell, I!marks, I!request
<1>2. ASSUME NEW i \in Incidents, I!CreateResidentSos(i)
      PROVE  I!TimelineTellsStatus'
  BY <1>2 DEF I!TypeOK, IncidentPositionsOK, I!TimelineTellsStatus,
     I!CreateResidentSos, I!OpenSos, I!SetStatus, I!Tell, I!marks, I!request
<1>3. ASSUME NEW i \in Incidents, I!CreateAdminSos(i)
      PROVE  I!TimelineTellsStatus'
  BY <1>3 DEF I!TypeOK, IncidentPositionsOK, I!TimelineTellsStatus,
     I!CreateAdminSos, I!OpenSos, I!SetStatus, I!Tell, I!marks, I!request
<1>4. ASSUME NEW i \in Incidents, I!StartIncident(i)
      PROVE  I!TimelineTellsStatus'
  BY <1>4 DEF I!TypeOK, IncidentPositionsOK, I!TimelineTellsStatus,
     I!StartIncident, I!FromOutside, I!Touch, I!SetStatus, I!request
<1>5. ASSUME NEW t \in Threads, NEW i \in Incidents, NEW a \in I!Actions,
             I!BeginAct(t, i, a)
      PROVE  I!TimelineTellsStatus'
  BY <1>5 DEF I!TypeOK, IncidentPositionsOK, I!TimelineTellsStatus,
     I!BeginAct, I!Start, I!Touch, I!record
<1>6. ASSUME NEW t \in Threads, NEW i \in Incidents,
             I!BeginUpdateLocation(t, i)
      PROVE  I!TimelineTellsStatus'
  BY <1>6 DEF I!TypeOK, IncidentPositionsOK, I!TimelineTellsStatus,
     I!BeginUpdateLocation, I!Start, I!Touch, I!record
<1>7. ASSUME NEW t \in Threads, I!CommitAct(t)
      PROVE  I!TimelineTellsStatus'
  BY <1>7 DEF I!TypeOK, IncidentPositionsOK, I!TimelineTellsStatus,
     I!CommitAct, I!SetStatus, I!Tell, I!EntryStatus, I!Leave, I!marks
<1>8. ASSUME NEW t \in Threads, I!CommitUpdateLocation(t)
      PROVE  I!TimelineTellsStatus'
  BY <1>8 DEF I!TypeOK, IncidentPositionsOK, I!TimelineTellsStatus,
     I!CommitUpdateLocation, I!Leave, I!history, I!marks,
     I!GpsAlreadyActivated
<1>9. ASSUME NEW t \in Threads, NEW i \in Incidents, I!ReportIncident(t, i)
      PROVE  I!TimelineTellsStatus'
  BY <1>9 DEF I!TypeOK, IncidentPositionsOK, I!TimelineTellsStatus,
     I!ReportIncident, I!CreateIncident, I!ReportResidentSos, I!FromOutside,
     I!SetStatus, I!Tell, I!Start, I!Touch
<1>10. ASSUME NEW t \in Threads, NEW i \in Incidents,
              I!UpdateIncidentStatus(t, i)
      PROVE  I!TimelineTellsStatus'
  BY <1>10 DEF I!TypeOK, IncidentPositionsOK, I!TimelineTellsStatus,
     I!UpdateIncidentStatus, I!FromOutside, I!SetStatus, I!Start, I!Touch,
     I!request, I!Told
<1>11. ASSUME NEW t \in Threads, NEW i \in Incidents, I!CompleteIncident(t, i)
      PROVE  I!TimelineTellsStatus'
  BY <1>11 DEF I!TypeOK, IncidentPositionsOK, I!TimelineTellsStatus,
     I!CompleteIncident, I!FromOutside, I!SetStatus, I!Start, I!Touch
<1>12. ASSUME NEW t \in Threads, I!CreateIncidentChat(t)
      PROVE  I!TimelineTellsStatus'
  BY <1>12 DEF I!TypeOK, IncidentPositionsOK, I!TimelineTellsStatus,
     I!CreateIncidentChat, I!Leave, I!history, I!marks
<1>13. ASSUME NEW t \in Threads, I!FindResidentSos(t)
      PROVE  I!TimelineTellsStatus'
  BY <1>13 DEF I!TypeOK, IncidentPositionsOK, I!TimelineTellsStatus,
     I!FindResidentSos, I!FromOutside, I!Start, I!Touch, I!record
<1>14. ASSUME NEW t \in Threads, I!ResolveAllResidentSos(t)
      PROVE  I!TimelineTellsStatus'
  BY <1>14 DEF I!TypeOK, IncidentPositionsOK, I!TimelineTellsStatus,
     I!ResolveAllResidentSos, I!SetStatus, I!history, I!marks
<1>15. ASSUME NEW t \in Threads, I!WriteEntry(t)
      PROVE  I!TimelineTellsStatus'
  BY <1>15 DEF I!TypeOK, IncidentPositionsOK, I!TimelineTellsStatus,
     I!WriteEntry, I!Tell, I!ClosesChat, I!GoTo, I!Leave, I!record, I!marks
<1>16. ASSUME NEW t \in Threads, I!CloseIncidentChat(t)
      PROVE  I!TimelineTellsStatus'
  BY <1>16 DEF I!TypeOK, IncidentPositionsOK, I!TimelineTellsStatus,
     I!CloseIncidentChat, I!Leave, I!history, I!marks
<1>17. ASSUME NEW t \in Threads, I!Fail(t)
      PROVE  I!TimelineTellsStatus'
  BY <1>17 DEF I!TypeOK, IncidentPositionsOK, I!TimelineTellsStatus, I!Fail,
     I!HalfWay, I!Leave, I!record
<1>18. QED
  BY <1>1, <1>2, <1>3, <1>4, <1>5, <1>6, <1>7, <1>8, <1>9, <1>10, <1>11,
     <1>12, <1>13, <1>14, <1>15, <1>16, <1>17
  DEF I!Next, I!SosStep, I!IncidentStep

(* The timeline is searched behind the lock on the incident.               *)
LEMMA GpsStep ==
    ASSUME I!TypeOK, I!GpsActivatedOnce, I!Next
    PROVE  I!GpsActivatedOnce'
<1>1. ASSUME NEW i \in Incidents, I!CreateGuardSos(i)
      PROVE  I!GpsActivatedOnce'
  BY <1>1 DEF I!TypeOK, I!GpsActivatedOnce, I!CreateGuardSos, I!OpenSos,
     I!SetStatus, I!Tell, I!marks, I!request
<1>2. ASSUME NEW i \in Incidents, I!CreateResidentSos(i)
      PROVE  I!GpsActivatedOnce'
  BY <1>2 DEF I!TypeOK, I!GpsActivatedOnce, I!CreateResidentSos, I!OpenSos,
     I!SetStatus, I!Tell, I!marks, I!request
<1>3. ASSUME NEW i \in Incidents, I!CreateAdminSos(i)
      PROVE  I!GpsActivatedOnce'
  BY <1>3 DEF I!TypeOK, I!GpsActivatedOnce, I!CreateAdminSos, I!OpenSos,
     I!SetStatus, I!Tell, I!marks, I!request
<1>4. ASSUME NEW t \in Threads, I!CommitUpdateLocation(t)
      PROVE  I!GpsActivatedOnce'
  BY <1>4 DEF I!TypeOK, I!GpsActivatedOnce, I!CommitUpdateLocation, I!Leave,
     I!history, I!marks, I!GpsAlreadyActivated
<1>5. ASSUME \/ \E i \in Incidents : I!StartIncident(i)
             \/ \E t \in Threads, i \in Incidents, a \in I!Actions :
                    I!BeginAct(t, i, a)
             \/ \E t \in Threads, i \in Incidents :
                    I!BeginUpdateLocation(t, i)
             \/ \E t \in Threads : I!CommitAct(t)
             \/ \E t \in Threads, i \in Incidents : I!ReportIncident(t, i)
             \/ \E t \in Threads, i \in Incidents :
                    I!UpdateIncidentStatus(t, i)
             \/ \E t \in Threads, i \in Incidents : I!CompleteIncident(t, i)
             \/ \E t \in Threads : I!CreateIncidentChat(t)
             \/ \E t \in Threads : I!FindResidentSos(t)
             \/ \E t \in Threads : I!ResolveAllResidentSos(t)
             \/ \E t \in Threads : I!WriteEntry(t)
             \/ \E t \in Threads : I!CloseIncidentChat(t)
             \/ \E t \in Threads : I!Fail(t)
      PROVE  I!GpsActivatedOnce'
  BY <1>5 DEF I!TypeOK, I!GpsActivatedOnce, I!StartIncident, I!FromOutside,
     I!Touch, I!SetStatus, I!request, I!BeginAct, I!Start, I!record,
     I!BeginUpdateLocation, I!CommitAct, I!Tell, I!NextStatus, I!EntryStatus,
     I!GuardSosStatus, I!IsClosingAction, I!Leave, I!marks, I!ReportIncident,
     I!CreateIncident, I!ReportResidentSos, I!UpdateIncidentStatus, I!Told,
     I!CompleteIncident, I!CreateIncidentChat, I!history, I!FindResidentSos,
     I!ResolveAllResidentSos, I!WriteEntry, I!ClosesChat, I!GoTo,
     I!CloseIncidentChat, I!Fail, I!HalfWay
<1>6. QED
  BY <1>1, <1>2, <1>3, <1>4, <1>5
  DEF I!Next, I!SosStep, I!IncidentStep

(* Alone, an act has read the status that the last entry tells.            *)
LEMMA ChainStep ==
    ASSUME I!TypeOK, IncidentPositionsOK, JudgedOK, I!TimelineTellsStatus,
           I!TimelineIsAChain, I!Next
    PROVE  I!TimelineIsAChain'
<1>1. ASSUME NEW i \in Incidents, I!StartIncident(i)
      PROVE  I!TimelineIsAChain'
  BY <1>1 DEF I!TypeOK, I!TimelineIsAChain, I!StartIncident, I!FromOutside,
     I!Touch, I!SetStatus, I!request
<1>2. ASSUME NEW t \in Threads, NEW i \in Incidents, NEW a \in I!Actions,
             I!BeginAct(t, i, a)
      PROVE  I!TimelineIsAChain'
  BY <1>2 DEF I!TypeOK, I!TimelineIsAChain, I!BeginAct, I!Start, I!Touch,
     I!record
<1>3. ASSUME NEW t \in Threads, NEW i \in Incidents,
             I!BeginUpdateLocation(t, i)
      PROVE  I!TimelineIsAChain'
  BY <1>3 DEF I!TypeOK, I!TimelineIsAChain, I!BeginUpdateLocation, I!Start,
     I!Touch, I!record
<1>4. ASSUME NEW t \in Threads, I!CommitAct(t)
      PROVE  I!TimelineIsAChain'
  BY <1>4 DEF I!TypeOK, I!TimelineIsAChain, JudgedOK, I!TimelineTellsStatus,
     I!CommitAct, I!SetStatus, I!Tell, I!NextStatus, I!EntryStatus,
     I!GuardSosStatus, I!IsClosingAction, I!Leave, I!marks
<1>5. ASSUME NEW t \in Threads, NEW i \in Incidents, I!ReportIncident(t, i)
      PROVE  I!TimelineIsAChain'
  BY <1>5 DEF I!TypeOK, I!TimelineIsAChain, I!ReportIncident,
     I!CreateIncident, I!ReportResidentSos, I!FromOutside, I!SetStatus,
     I!Tell, I!Start, I!Touch
<1>6. ASSUME NEW t \in Threads, NEW i \in Incidents,
             I!UpdateIncidentStatus(t, i)
      PROVE  I!TimelineIsAChain'
  BY <1>6 DEF I!TypeOK, I!TimelineIsAChain, I!UpdateIncidentStatus,
     I!FromOutside, I!SetStatus, I!Start, I!Touch, I!request, I!Told
<1>7. ASSUME NEW t \in Threads, NEW i \in Incidents, I!CompleteIncident(t, i)
      PROVE  I!TimelineIsAChain'
  BY <1>7 DEF I!TypeOK, I!TimelineIsAChain, I!CompleteIncident, I!FromOutside,
     I!SetStatus, I!Start, I!Touch
<1>8. ASSUME NEW t \in Threads, I!FindResidentSos(t)
      PROVE  I!TimelineIsAChain'
  BY <1>8 DEF I!TypeOK, I!TimelineIsAChain, I!FindResidentSos, I!FromOutside,
     I!Start, I!Touch, I!record
<1>9. ASSUME \/ \E i \in Incidents : I!CreateGuardSos(i)
             \/ \E i \in Incidents : I!CreateResidentSos(i)
             \/ \E i \in Incidents : I!CreateAdminSos(i)
             \/ \E t \in Threads : I!CommitUpdateLocation(t)
             \/ \E t \in Threads : I!CreateIncidentChat(t)
             \/ \E t \in Threads : I!ResolveAllResidentSos(t)
             \/ \E t \in Threads : I!WriteEntry(t)
             \/ \E t \in Threads : I!CloseIncidentChat(t)
             \/ \E t \in Threads : I!Fail(t)
      PROVE  I!TimelineIsAChain'
  BY <1>9 DEF I!TypeOK, I!TimelineIsAChain, I!CreateGuardSos, I!OpenSos,
     I!SetStatus, I!Tell, I!marks, I!request, I!CreateResidentSos,
     I!CreateAdminSos, I!CommitUpdateLocation, I!Leave, I!history,
     I!GpsAlreadyActivated, I!CreateIncidentChat, I!ResolveAllResidentSos,
     I!WriteEntry, I!ClosesChat, I!GoTo, I!record, I!CloseIncidentChat,
     I!Fail, I!HalfWay
<1>10. QED
  BY <1>1, <1>2, <1>3, <1>4, <1>5, <1>6, <1>7, <1>8, <1>9 DEF I!Next,
     I!SosStep, I!IncidentStep

-----------------------------------------------------------------------------
(* An end is final but for what overlaps and for IncidentService. *)

EndKept == \A i \in Incidents \ (overlapped \cup outside)' :
    /\ status[i] \in I!Over => status'[i] \in I!Over
    /\ status[i] = "CLOSED" => status'[i] = "CLOSED"

(* No step undoes the end of an emergency.                                 *)
LEMMA EndStep ==
    ASSUME I!TypeOK, IncidentPositionsOK, JudgedOK, I!Next
    PROVE  EndKept
<1>1. ASSUME NEW i \in Incidents, I!CreateGuardSos(i)
      PROVE  EndKept
  BY <1>1 DEF I!TypeOK, IncidentPositionsOK, EndKept, I!Over,
     I!CreateGuardSos, I!OpenSos, I!SetStatus, I!Tell, I!marks, I!request
<1>2. ASSUME NEW i \in Incidents, I!CreateResidentSos(i)
      PROVE  EndKept
  BY <1>2 DEF I!TypeOK, IncidentPositionsOK, EndKept, I!Over,
     I!CreateResidentSos, I!OpenSos, I!SetStatus, I!Tell, I!marks, I!request
<1>3. ASSUME NEW i \in Incidents, I!CreateAdminSos(i)
      PROVE  EndKept
  BY <1>3 DEF I!TypeOK, IncidentPositionsOK, EndKept, I!Over,
     I!CreateAdminSos, I!OpenSos, I!SetStatus, I!Tell, I!marks, I!request
<1>4. ASSUME NEW i \in Incidents, I!StartIncident(i)
      PROVE  EndKept
  BY <1>4 DEF I!TypeOK, IncidentPositionsOK, EndKept, I!Over, I!StartIncident,
     I!FromOutside, I!Touch, I!SetStatus, I!request
<1>5. ASSUME NEW t \in Threads, NEW i \in Incidents, NEW a \in I!Actions,
             I!BeginAct(t, i, a)
      PROVE  EndKept
  BY <1>5 DEF I!TypeOK, IncidentPositionsOK, EndKept, I!Over, I!BeginAct,
     I!Start, I!Touch, I!record
<1>6. ASSUME NEW t \in Threads, NEW i \in Incidents,
             I!BeginUpdateLocation(t, i)
      PROVE  EndKept
  BY <1>6 DEF I!TypeOK, IncidentPositionsOK, EndKept, I!Over,
     I!BeginUpdateLocation, I!Start, I!Touch, I!record
<1>7. ASSUME NEW t \in Threads, I!CommitAct(t)
      PROVE  EndKept
  BY <1>7 DEF I!TypeOK, IncidentPositionsOK, EndKept, I!Over, JudgedOK,
     I!Allowed, I!Actions, I!CommitAct, I!SetStatus, I!Tell, I!NextStatus,
     I!EntryStatus, I!GuardSosStatus, I!IsClosingAction, I!Leave, I!marks
<1>8. ASSUME NEW t \in Threads, I!CommitUpdateLocation(t)
      PROVE  EndKept
  BY <1>8 DEF I!TypeOK, IncidentPositionsOK, EndKept, I!Over,
     I!CommitUpdateLocation, I!Leave, I!history, I!marks,
     I!GpsAlreadyActivated
<1>9. ASSUME NEW t \in Threads, NEW i \in Incidents, I!ReportIncident(t, i)
      PROVE  EndKept
  BY <1>9 DEF I!TypeOK, IncidentPositionsOK, EndKept, I!Over,
     I!ReportIncident, I!CreateIncident, I!ReportResidentSos, I!FromOutside,
     I!SetStatus, I!Tell, I!Start, I!Touch
<1>10. ASSUME NEW t \in Threads, NEW i \in Incidents,
              I!UpdateIncidentStatus(t, i)
      PROVE  EndKept
  BY <1>10 DEF I!TypeOK, IncidentPositionsOK, EndKept, I!Over,
     I!UpdateIncidentStatus, I!FromOutside, I!SetStatus, I!Start, I!Touch,
     I!request, I!Told
<1>11. ASSUME NEW t \in Threads, NEW i \in Incidents, I!CompleteIncident(t, i)
      PROVE  EndKept
  BY <1>11 DEF I!TypeOK, IncidentPositionsOK, EndKept, I!Over,
     I!CompleteIncident, I!FromOutside, I!SetStatus, I!Start, I!Touch
<1>12. ASSUME NEW t \in Threads, I!CreateIncidentChat(t)
      PROVE  EndKept
  BY <1>12 DEF I!TypeOK, IncidentPositionsOK, EndKept, I!Over,
     I!CreateIncidentChat, I!Leave, I!history, I!marks
<1>13. ASSUME NEW t \in Threads, I!FindResidentSos(t)
      PROVE  EndKept
  BY <1>13 DEF I!TypeOK, IncidentPositionsOK, EndKept, I!Over,
     I!FindResidentSos, I!FromOutside, I!Start, I!Touch, I!record
<1>14. ASSUME NEW t \in Threads, I!ResolveAllResidentSos(t)
      PROVE  EndKept
  BY <1>14 DEF I!TypeOK, IncidentPositionsOK, EndKept, I!Over,
     I!ResolveAllResidentSos, I!SetStatus, I!history, I!marks
<1>15. ASSUME NEW t \in Threads, I!WriteEntry(t)
      PROVE  EndKept
  BY <1>15 DEF I!TypeOK, IncidentPositionsOK, EndKept, I!Over, I!WriteEntry,
     I!Tell, I!ClosesChat, I!GoTo, I!Leave, I!record, I!marks
<1>16. ASSUME NEW t \in Threads, I!CloseIncidentChat(t)
      PROVE  EndKept
  BY <1>16 DEF I!TypeOK, IncidentPositionsOK, EndKept, I!Over,
     I!CloseIncidentChat, I!Leave, I!history, I!marks
<1>17. ASSUME NEW t \in Threads, I!Fail(t)
      PROVE  EndKept
  BY <1>17 DEF I!TypeOK, IncidentPositionsOK, EndKept, I!Over, I!Fail,
     I!HalfWay, I!Leave, I!record
<1>18. QED
  BY <1>1, <1>2, <1>3, <1>4, <1>5, <1>6, <1>7, <1>8, <1>9, <1>10, <1>11,
     <1>12, <1>13, <1>14, <1>15, <1>16, <1>17
  DEF I!Next, I!SosStep, I!IncidentStep

-----------------------------------------------------------------------------
(* The theorems. *)

LEMMA IncidentInitIInv ==
    I!Init => IncidentIInv
<1> SUFFICES ASSUME I!Init
             PROVE  IncidentIInv
  OBVIOUS
<1>1. I!TypeOK /\ ExistsOK /\ IncidentPositionsOK /\ OneRequest /\ JudgedOK
      /\ RoomsOK /\ EndsOK
  BY DEF I!Init, I!TypeOK, I!Statuses, I!Positions, ExistsOK,
     IncidentPositionsOK, OneRequest, JudgedOK, RoomsOK, EndsOK, I!Over
<1>2. I!OverIsReadOnly /\ I!GuardSosAgrees /\ I!TimelineIsTrue
  BY  DEF I!Init, I!OverIsReadOnly, I!GuardSosAgrees, I!Over,
     I!TimelineIsTrue, I!TimelineTellsStatus, I!GpsActivatedOnce,
     I!TimelineIsAChain
<1>3. QED
  BY <1>1, <1>2 DEF IncidentIInv

LEMMA IncidentStepIInv ==
    IncidentIInv /\ [I!Next]_(I!vars) => IncidentIInv'
<1> SUFFICES ASSUME IncidentIInv, [I!Next]_(I!vars)
             PROVE  IncidentIInv'
  OBVIOUS
<1>1. CASE I!Next
  BY <1>1, IncidentTypeStep, ExistsStep, IncidentPositionsStep, OneStep,
     JudgedStep, RoomsStep, EndsStep, ReadOnlyStep, GuardStep, TellsStep,
     GpsStep, ChainStep
  DEF IncidentIInv, I!TimelineIsTrue
<1>2. CASE UNCHANGED I!vars
  BY <1>2 DEF IncidentIInv, I!TypeOK, ExistsOK, IncidentPositionsOK,
     OneRequest, JudgedOK, RoomsOK, EndsOK, I!OverIsReadOnly,
     I!GuardSosAgrees, I!TimelineIsTrue, I!TimelineTellsStatus,
     I!GpsActivatedOnce, I!TimelineIsAChain, I!vars, I!record, I!history,
     I!marks, I!request
<1>3. QED
  BY <1>1, <1>2

LEMMA IncidentAlwaysIInv ==
    I!Spec => []IncidentIInv
  BY IncidentInitIInv, IncidentStepIInv, PTL DEF I!Spec

(* Every variable keeps its type. *)
THEOREM IncidentTypesCorrect ==
    IncidentSpec => []I!TypeOK
<1>1. IncidentIInv => I!TypeOK
  BY DEF IncidentIInv
<1>2. QED
  BY <1>1, IncidentAlwaysIInv, PTL DEF IncidentSpec

(* sos.service.ts ends an emergency, its chat and its alarm in one         *)
(* transaction, incident.service.ts one after the other: the chat is       *)
(* closed and the alarm agrees, but for requests that overlapped or were   *)
(* cut off in IncidentService.                                             *)
THEOREM RecordsAlwaysAgree ==
    IncidentSpec => []RecordsAgree
<1>1. IncidentIInv => I!ChatFollowsIncident
  BY DEF IncidentIInv, EndsOK, I!ChatFollowsIncident
<1>2. IncidentIInv => I!RecordsAgree
  BY <1>1 DEF IncidentIInv, I!RecordsAgree
<1>3. QED
  BY <1>2, IncidentAlwaysIInv, PTL DEF IncidentSpec, RecordsAgree

(* The timeline ends with the status the emergency has, tells its position *)
(* once, and each entry starts where the one before it ended, unless       *)
(* requests overlapped or IncidentService wrote to the emergency.          *)
THEOREM TimelineIsAlwaysTrue ==
    IncidentSpec => []TimelineIsTrue
<1>1. IncidentIInv => I!TimelineIsTrue
  BY DEF IncidentIInv
<1>2. QED
  BY <1>1, IncidentAlwaysIInv, PTL DEF IncidentSpec, TimelineIsTrue

(* sos-transition.service.ts lets nobody act on a closed emergency and     *)
(* only ends follow an end; this holds of what no two requests are about   *)
(* at once and IncidentService leaves alone.                               *)
THEOREM EndsAreFinal ==
    IncidentSpec => OverStaysOver
<1>1. IncidentIInv /\ [I!Next]_(I!vars) => [EndKept]_(I!vars)
  BY EndStep DEF IncidentIInv
<1>2. QED
  BY <1>1, IncidentAlwaysIInv, PTL DEF IncidentSpec, OverStaysOver, I!Spec,
     I!OverStaysOver, EndKept

-----------------------------------------------------------------------------
(* The checkpoints of their patrols: theorems for any number of requests,  *)
(* monitors and checkpoints.                                               *)

-----------------------------------------------------------------------------
(* The inductive invariant. *)

(* Who is under way has a checkpoint in hand.                              *)
PatrolPositionsOK ==
    /\ \A t \in Threads : patrolPc[t] # "idle" => point[t] \in Checkpoints
    /\ \A m \in Monitors :
           round[m] \in {"check", "raise"} <=> visit[m] \in Checkpoints

(* A checkpoint that is not crossed is in the hand of one monitor at most, *)
(* is as overdue as it was judged to be, and about to be alerted has no    *)
(* alert.                                                                  *)
VisitsOK == \A m \in Monitors : visit[m] \in Checkpoints \ crossed =>
    /\ visit[m] \in overdue
    /\ round[m] = "raise" => alerts[visit[m]] = 0
    /\ \A n \in Monitors : visit[n] = visit[m] => n = m

PatrolIInv == M!TypeOK /\ PatrolPositionsOK /\ VisitsOK /\ M!AlertsAreTrue

HIDE IncidentsAssumption
USE PatrolAssumption

-----------------------------------------------------------------------------
(* Every step preserves each part of it. *)

(* Requests and monitors write what the types allow.                       *)
LEMMA PatrolTypeStep ==
    ASSUME M!TypeOK, PatrolPositionsOK, M!Next
    PROVE  M!TypeOK'
<1>1. ASSUME NEW c \in Checkpoints, M!BecomeOverdue(c)
      PROVE  M!TypeOK'
  BY <1>1 DEF M!TypeOK, PatrolPositionsOK, M!BecomeOverdue, M!request,
     M!monitor
<1>2. ASSUME NEW t \in Threads, NEW c \in Checkpoints,
             M!CreateCheckpoint(t, c)
      PROVE  M!TypeOK'
  BY <1>2 DEF M!TypeOK, PatrolPositionsOK, M!CreateCheckpoint, M!Start,
     M!monitor
<1>3. ASSUME NEW t \in Threads, NEW c \in Checkpoints, M!ScanCheckpoint(t, c)
      PROVE  M!TypeOK'
  BY <1>3 DEF M!TypeOK, PatrolPositionsOK, M!ScanCheckpoint, M!Start,
     M!Visited, M!Cross, M!monitor
<1>4. ASSUME NEW t \in Threads, M!StoreQrCode(t)
      PROVE  M!TypeOK'
  BY <1>4 DEF M!TypeOK, PatrolPositionsOK, M!StoreQrCode, M!Leave, M!monitor
<1>5. ASSUME NEW t \in Threads, M!ResolveAlerts(t)
      PROVE  M!TypeOK'
  BY <1>5 DEF M!TypeOK, PatrolPositionsOK, M!ResolveAlerts, M!RemainingAlerts,
     M!Visited, M!Leave, M!monitor
<1>6. ASSUME NEW t \in Threads, M!Fail(t)
      PROVE  M!TypeOK'
  BY <1>6 DEF M!TypeOK, PatrolPositionsOK, M!Fail, M!Leave, M!Cross, M!tables,
     M!monitor
<1>7. ASSUME NEW m \in Monitors, M!StartRound(m)
      PROVE  M!TypeOK'
  BY <1>7 DEF M!TypeOK, PatrolPositionsOK, M!StartRound, M!tables, M!request
<1>8. ASSUME NEW m \in Monitors, NEW c \in Checkpoints,
             M!JudgeCheckpoint(m, c)
      PROVE  M!TypeOK'
  BY <1>8 DEF M!TypeOK, PatrolPositionsOK, M!JudgeCheckpoint, M!IsMissed,
     M!Visited, M!Cross, M!Proceed, M!tables, M!request
<1>9. ASSUME NEW m \in Monitors, M!FindAlert(m)
      PROVE  M!TypeOK'
  BY <1>9 DEF M!TypeOK, PatrolPositionsOK, M!FindAlert, M!AlreadyAlerted,
     M!Proceed, M!tables, M!request
<1>10. ASSUME NEW m \in Monitors, M!RaiseAlert(m)
      PROVE  M!TypeOK'
  BY <1>10 DEF M!TypeOK, PatrolPositionsOK, M!RaiseAlert, M!Proceed, M!request
<1>11. ASSUME NEW m \in Monitors, M!RoundFails(m)
      PROVE  M!TypeOK'
  BY <1>11 DEF M!TypeOK, PatrolPositionsOK, M!RoundFails, M!Proceed, M!tables,
     M!request
<1>12. QED
  BY <1>1, <1>2, <1>3, <1>4, <1>5, <1>6, <1>7, <1>8, <1>9, <1>10, <1>11 DEF
     M!Next, M!Request, M!Monitor, M!Judge

(* Who is under way has its checkpoint in hand.                            *)
LEMMA PatrolPositionsStep ==
    ASSUME M!TypeOK, PatrolPositionsOK, M!Next
    PROVE  PatrolPositionsOK'
<1>1. ASSUME NEW c \in Checkpoints, M!BecomeOverdue(c)
      PROVE  PatrolPositionsOK'
  BY <1>1 DEF M!TypeOK, PatrolPositionsOK, M!BecomeOverdue, M!request,
     M!monitor
<1>2. ASSUME NEW t \in Threads, NEW c \in Checkpoints,
             M!CreateCheckpoint(t, c)
      PROVE  PatrolPositionsOK'
  BY <1>2 DEF M!TypeOK, PatrolPositionsOK, M!CreateCheckpoint, M!Start,
     M!monitor
<1>3. ASSUME NEW t \in Threads, NEW c \in Checkpoints, M!ScanCheckpoint(t, c)
      PROVE  PatrolPositionsOK'
  BY <1>3 DEF M!TypeOK, PatrolPositionsOK, M!ScanCheckpoint, M!Start,
     M!Visited, M!Cross, M!monitor
<1>4. ASSUME NEW t \in Threads, M!StoreQrCode(t)
      PROVE  PatrolPositionsOK'
  BY <1>4 DEF M!TypeOK, PatrolPositionsOK, M!StoreQrCode, M!Leave, M!monitor
<1>5. ASSUME NEW t \in Threads, M!ResolveAlerts(t)
      PROVE  PatrolPositionsOK'
  BY <1>5 DEF M!TypeOK, PatrolPositionsOK, M!ResolveAlerts, M!RemainingAlerts,
     M!Visited, M!Leave, M!monitor
<1>6. ASSUME NEW t \in Threads, M!Fail(t)
      PROVE  PatrolPositionsOK'
  BY <1>6 DEF M!TypeOK, PatrolPositionsOK, M!Fail, M!Leave, M!Cross, M!tables,
     M!monitor
<1>7. ASSUME NEW m \in Monitors, M!StartRound(m)
      PROVE  PatrolPositionsOK'
  BY <1>7 DEF M!TypeOK, PatrolPositionsOK, M!StartRound, M!tables, M!request
<1>8. ASSUME NEW m \in Monitors, NEW c \in Checkpoints,
             M!JudgeCheckpoint(m, c)
      PROVE  PatrolPositionsOK'
  BY <1>8 DEF M!TypeOK, PatrolPositionsOK, M!JudgeCheckpoint, M!IsMissed,
     M!Visited, M!Cross, M!Proceed, M!tables, M!request
<1>9. ASSUME NEW m \in Monitors, M!FindAlert(m)
      PROVE  PatrolPositionsOK'
  BY <1>9 DEF M!TypeOK, PatrolPositionsOK, M!FindAlert, M!AlreadyAlerted,
     M!Proceed, M!tables, M!request
<1>10. ASSUME NEW m \in Monitors, M!RaiseAlert(m)
      PROVE  PatrolPositionsOK'
  BY <1>10 DEF M!TypeOK, PatrolPositionsOK, M!RaiseAlert, M!Proceed, M!request
<1>11. ASSUME NEW m \in Monitors, M!RoundFails(m)
      PROVE  PatrolPositionsOK'
  BY <1>11 DEF M!TypeOK, PatrolPositionsOK, M!RoundFails, M!Proceed, M!tables,
     M!request
<1>12. QED
  BY <1>1, <1>2, <1>3, <1>4, <1>5, <1>6, <1>7, <1>8, <1>9, <1>10, <1>11 DEF
     M!Next, M!Request, M!Monitor, M!Judge

(* What a monitor judged and found stays so, or is crossed.                *)
LEMMA VisitsStep ==
    ASSUME M!TypeOK, PatrolPositionsOK, VisitsOK, M!Next
    PROVE  VisitsOK'
<1>1. ASSUME NEW c \in Checkpoints, M!BecomeOverdue(c)
      PROVE  VisitsOK'
  BY <1>1 DEF M!TypeOK, PatrolPositionsOK, VisitsOK, M!BecomeOverdue,
     M!request, M!monitor
<1>2. ASSUME NEW t \in Threads, NEW c \in Checkpoints, M!ScanCheckpoint(t, c)
      PROVE  VisitsOK'
  BY <1>2 DEF M!TypeOK, PatrolPositionsOK, VisitsOK, M!ScanCheckpoint,
     M!Start, M!Visited, M!Cross, M!monitor
<1>3. ASSUME NEW t \in Threads, M!ResolveAlerts(t)
      PROVE  VisitsOK'
  BY <1>3 DEF M!TypeOK, PatrolPositionsOK, VisitsOK, M!ResolveAlerts,
     M!RemainingAlerts, M!Visited, M!Leave, M!monitor
<1>4. ASSUME NEW t \in Threads, M!Fail(t)
      PROVE  VisitsOK'
  BY <1>4 DEF M!TypeOK, PatrolPositionsOK, VisitsOK, M!Fail, M!Leave, M!Cross,
     M!tables, M!monitor
<1>5. ASSUME NEW m \in Monitors, M!StartRound(m)
      PROVE  VisitsOK'
  BY <1>5 DEF M!TypeOK, PatrolPositionsOK, VisitsOK, M!StartRound, M!tables,
     M!request
<1>6. ASSUME NEW m \in Monitors, NEW c \in Checkpoints,
             M!JudgeCheckpoint(m, c)
      PROVE  VisitsOK'
  BY <1>6 DEF M!TypeOK, PatrolPositionsOK, VisitsOK, M!JudgeCheckpoint,
     M!IsMissed, M!Visited, M!Cross, M!Proceed, M!tables, M!request
<1>7. ASSUME NEW m \in Monitors, M!FindAlert(m)
      PROVE  VisitsOK'
  BY <1>7 DEF M!TypeOK, PatrolPositionsOK, VisitsOK, M!FindAlert,
     M!AlreadyAlerted, M!Proceed, M!tables, M!request
<1>8. ASSUME NEW m \in Monitors, M!RaiseAlert(m)
      PROVE  VisitsOK'
  BY <1>8 DEF M!TypeOK, PatrolPositionsOK, VisitsOK, M!RaiseAlert, M!Proceed,
     M!request
<1>9. ASSUME NEW m \in Monitors, M!RoundFails(m)
      PROVE  VisitsOK'
  BY <1>9 DEF M!TypeOK, PatrolPositionsOK, VisitsOK, M!RoundFails, M!Proceed,
     M!tables, M!request
<1>10. ASSUME \/ \E t \in Threads, c \in Checkpoints :
                     M!CreateCheckpoint(t, c)
              \/ \E t \in Threads : M!StoreQrCode(t)
      PROVE  VisitsOK'
  BY <1>10 DEF M!TypeOK, PatrolPositionsOK, VisitsOK, M!CreateCheckpoint,
     M!Start, M!monitor, M!StoreQrCode, M!Leave
<1>11. QED
  BY <1>1, <1>2, <1>3, <1>4, <1>5, <1>6, <1>7, <1>8, <1>9, <1>10 DEF M!Next,
     M!Request, M!Monitor, M!Judge

(* One alert for each lapse.                                               *)
LEMMA AlertsStep ==
    ASSUME M!TypeOK, PatrolPositionsOK, VisitsOK, M!AlertsAreTrue, M!Next
    PROVE  M!AlertsAreTrue'
<1>1. ASSUME NEW t \in Threads, NEW c \in Checkpoints,
             M!CreateCheckpoint(t, c)
      PROVE  M!AlertsAreTrue'
  BY <1>1 DEF M!TypeOK, PatrolPositionsOK, VisitsOK, M!AlertsAreTrue,
     M!BeingScanned, M!CreateCheckpoint, M!Start, M!monitor
<1>2. ASSUME NEW t \in Threads, NEW c \in Checkpoints, M!ScanCheckpoint(t, c)
      PROVE  M!AlertsAreTrue'
  BY <1>2 DEF M!TypeOK, PatrolPositionsOK, VisitsOK, M!AlertsAreTrue,
     M!BeingScanned, M!ScanCheckpoint, M!Start, M!Visited, M!Cross, M!monitor
<1>3. ASSUME NEW t \in Threads, M!StoreQrCode(t)
      PROVE  M!AlertsAreTrue'
  BY <1>3 DEF M!TypeOK, PatrolPositionsOK, VisitsOK, M!AlertsAreTrue,
     M!BeingScanned, M!StoreQrCode, M!Leave, M!monitor
<1>4. ASSUME NEW t \in Threads, M!ResolveAlerts(t)
      PROVE  M!AlertsAreTrue'
  BY <1>4 DEF M!TypeOK, PatrolPositionsOK, VisitsOK, M!AlertsAreTrue,
     M!BeingScanned, M!ResolveAlerts, M!RemainingAlerts, M!Visited, M!Leave,
     M!monitor
<1>5. ASSUME NEW t \in Threads, M!Fail(t)
      PROVE  M!AlertsAreTrue'
  BY <1>5 DEF M!TypeOK, PatrolPositionsOK, VisitsOK, M!AlertsAreTrue,
     M!BeingScanned, M!Fail, M!Leave, M!Cross, M!tables, M!monitor
<1>6. ASSUME NEW m \in Monitors, NEW c \in Checkpoints,
             M!JudgeCheckpoint(m, c)
      PROVE  M!AlertsAreTrue'
  BY <1>6 DEF M!TypeOK, PatrolPositionsOK, VisitsOK, M!AlertsAreTrue,
     M!BeingScanned, M!JudgeCheckpoint, M!IsMissed, M!Visited, M!Cross,
     M!Proceed, M!tables, M!request
<1>7. ASSUME NEW m \in Monitors, M!RaiseAlert(m)
      PROVE  M!AlertsAreTrue'
  BY <1>7 DEF M!TypeOK, PatrolPositionsOK, VisitsOK, M!AlertsAreTrue,
     M!BeingScanned, M!RaiseAlert, M!Proceed, M!request
<1>8. ASSUME \/ \E c \in Checkpoints : M!BecomeOverdue(c)
             \/ \E m \in Monitors : M!StartRound(m)
             \/ \E m \in Monitors : M!FindAlert(m)
             \/ \E m \in Monitors : M!RoundFails(m)
      PROVE  M!AlertsAreTrue'
  BY <1>8 DEF M!TypeOK, PatrolPositionsOK, VisitsOK, M!AlertsAreTrue,
     M!BeingScanned, M!BecomeOverdue, M!request, M!monitor, M!StartRound,
     M!tables, M!FindAlert, M!AlreadyAlerted, M!Proceed, M!RoundFails
<1>9. QED
  BY <1>1, <1>2, <1>3, <1>4, <1>5, <1>6, <1>7, <1>8 DEF M!Next, M!Request,
     M!Monitor, M!Judge

-----------------------------------------------------------------------------
(* The theorems. *)

LEMMA PatrolInitIInv ==
    M!Init => PatrolIInv
  BY DEF M!Init, PatrolIInv, M!TypeOK, PatrolPositionsOK, VisitsOK,
     M!AlertsAreTrue

LEMMA PatrolStepIInv ==
    PatrolIInv /\ [M!Next]_(M!vars) => PatrolIInv'
<1> SUFFICES ASSUME PatrolIInv, [M!Next]_(M!vars)
             PROVE  PatrolIInv'
  OBVIOUS
<1>1. CASE M!Next
  BY <1>1, PatrolTypeStep, PatrolPositionsStep, VisitsStep, AlertsStep DEF
     PatrolIInv
<1>2. CASE UNCHANGED M!vars
  BY <1>2 DEF PatrolIInv, M!TypeOK, PatrolPositionsOK, VisitsOK,
     M!AlertsAreTrue, M!BeingScanned, M!vars, M!tables, M!request, M!monitor
<1>3. QED
  BY <1>1, <1>2

LEMMA PatrolAlwaysIInv ==
    M!Spec => []PatrolIInv
  BY PatrolInitIInv, PatrolStepIInv, PTL DEF M!Spec

(* Every table holds rows of its own kind, for any number of requests,     *)
(* overlapping runs of the monitor and checkpoints.                        *)
THEOREM PatrolTypesCorrect ==
    PatrolSpec => []M!TypeOK
<1>1. PatrolIInv => M!TypeOK
  BY DEF PatrolIInv
<1>2. QED
  BY <1>1, PatrolAlwaysIInv, PTL DEF PatrolSpec

(* patrol-monitoring.service.ts and recordScan of guard.service.ts: a      *)
(* checkpoint has at most one active alert, and only while it is overdue   *)
(* or its scan is being recorded, unless scan and monitor crossed, however *)
(* many scans and runs of the monitor overlap.                             *)
THEOREM AlertsAreAlwaysTrue ==
    PatrolSpec => []AlertsAreTrue
<1>1. PatrolIInv => M!AlertsAreTrue
  BY DEF PatrolIInv
<1>2. QED
  BY <1>1, PatrolAlwaysIInv, PTL DEF PatrolSpec, AlertsAreTrue
=============================================================================
