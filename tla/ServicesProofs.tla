--------------------------- MODULE ServicesProofs ---------------------------
(* Theorems about the services that Services composes, one after another,  *)
(* for any number of requests, people and rows; and about Services.        *)
EXTENDS Services, SumTheorems, Sequences

-----------------------------------------------------------------------------
(* The levy of the month: the inductive invariant. *)

(* A worker has a resident in hand from its first look to its last write,  *)
(* and only the cron job goes from one resident to the next.               *)
WorkOK == \A w \in M!Workers :
    /\ stage[w] \in {"idle", "loop"} <=> who[w] = None
    /\ stage[w] = "loop" => w = Cron

(* Whom a round set out to visit was eligible then.                        *)
ListOK == \A entry \in listed : entry[2] \in eligible \cup revoked

MonthlyIInv == M!TypeOK /\ WorkOK /\ ListOK /\ M!EveryoneIsCharged

USE MonthlyAssumption

-----------------------------------------------------------------------------
(* Every step preserves each part of it. *)

(* The calendar, the round and the requests write what the types allow.    *)
LEMMA MonthlyTypeStep ==
    ASSUME M!TypeOK, WorkOK, M!Next
    PROVE  M!TypeOK'
<1>1. ASSUME M!TurnMonth
      PROVE  M!TypeOK'
  BY <1>1 DEF M!TypeOK, WorkOK, M!Workers, M!Months, M!TurnMonth, M!worker
<1>2. ASSUME M!StartRound
      PROVE  M!TypeOK'
  BY <1>2 DEF M!TypeOK, WorkOK, M!Workers, M!Months, M!StartRound
<1>3. ASSUME M!MissRound
      PROVE  M!TypeOK'
  BY <1>3 DEF M!TypeOK, WorkOK, M!Workers, M!Months, M!MissRound, M!worker
<1>4. ASSUME M!NextResident
      PROVE  M!TypeOK'
  BY <1>4 DEF M!TypeOK, WorkOK, M!Workers, M!Months, M!NextResident, M!tables
<1>5. ASSUME M!EndRound
      PROVE  M!TypeOK'
  BY <1>5 DEF M!TypeOK, WorkOK, M!Workers, M!Months, M!EndRound, M!tables
<1>6. ASSUME NEW r \in Payers, M!Approve(r)
      PROVE  M!TypeOK'
  BY <1>6 DEF M!TypeOK, WorkOK, M!Workers, M!Months, M!Approve, M!worker
<1>7. ASSUME NEW r \in Payers, M!Reject(r)
      PROVE  M!TypeOK'
  BY <1>7 DEF M!TypeOK, WorkOK, M!Workers, M!Months, M!Reject, M!worker
<1>8. ASSUME NEW t \in Callers, NEW r \in Payers, M!BeginEnsure(t, r)
      PROVE  M!TypeOK'
  BY <1>8 DEF M!TypeOK, WorkOK, M!Workers, M!Months, M!BeginEnsure, M!tables
<1>9. ASSUME NEW w \in M!Workers, M!Check(w)
      PROVE  M!TypeOK'
  <2>1. w \in M!Workers /\ stage[w] = "check" /\ UNCHANGED M!tables
    BY <1>9 DEF M!Check
  <2>2. CASE who[w] \in eligible
    BY <1>9, <2>1, <2>2 DEF M!Check, M!TypeOK, M!tables
  <2>3. CASE who[w] \notin eligible
    <3>1. M!Finish(w)
      BY <1>9, <2>3 DEF M!Check
    <3>2. /\ stage' \in [M!Workers -> {"idle", "loop", "check", "upsert", "find",
                                    "write"}]
          /\ unvisited' = unvisited
      BY <3>1 DEF M!Finish, M!After, M!TypeOK
    <3>3. /\ who' \in [M!Workers -> Payers \cup {None}]
          /\ found' \in [M!Workers -> BOOLEAN]
      BY <3>1 DEF M!Finish, M!TypeOK
    <3>4. period' \in [M!Workers -> M!Months]
      BY <3>1 DEF M!Finish, M!TypeOK, M!Months
    <3> QED
      BY <2>1, <3>2, <3>3, <3>4 DEF M!TypeOK, M!tables
  <2> QED
    BY <2>2, <2>3
<1>10. ASSUME NEW w \in M!Workers, M!UpsertLevy(w)
      PROVE  M!TypeOK'
  BY <1>10 DEF M!TypeOK, WorkOK, M!Workers, M!Months, M!UpsertLevy
<1>11. ASSUME NEW w \in M!Workers, M!FindAssignment(w)
      PROVE  M!TypeOK'
  BY <1>11 DEF M!TypeOK, WorkOK, M!Workers, M!Months, M!FindAssignment,
     M!tables
<1>12. ASSUME NEW w \in M!Workers, M!WriteAssignment(w)
      PROVE  M!TypeOK'
  <2>1. /\ w \in M!Workers /\ stage[w] = "write" /\ M!Finish(w)
        /\ charged' = charged \cup {<<period[w], who[w]>>}
        /\ levies' = levies \cup {period[w]}
        /\ holder' = M!Released(w)
        /\ UNCHANGED <<month, due, eligible>>
    BY <1>12 DEF M!WriteAssignment
  <2>2. /\ period[w] \in M!Months /\ who[w] \in Payers
        /\ charged' \subseteq M!Months \X Payers /\ levies' \subseteq M!Months
    BY <2>1 DEF M!TypeOK, WorkOK
  <2>3. holder' \in [M!Months -> M!Workers \cup {None}]
    BY <2>1 DEF M!TypeOK, M!Released
  <2>4. /\ stage' \in [M!Workers -> {"idle", "loop", "check", "upsert", "find",
                                  "write"}]
        /\ unvisited' = unvisited
    BY <2>1 DEF M!Finish, M!After, M!TypeOK
  <2>5. /\ who' \in [M!Workers -> Payers \cup {None}]
        /\ found' \in [M!Workers -> BOOLEAN]
    BY <2>1 DEF M!Finish, M!TypeOK
  <2>6. period' \in [M!Workers -> M!Months]
    BY <2>1 DEF M!Finish, M!TypeOK, M!Months
  <2> QED
    BY <2>1, <2>2, <2>3, <2>4, <2>5, <2>6 DEF M!TypeOK
<1>13. ASSUME NEW w \in M!Workers, M!Fail(w)
      PROVE  M!TypeOK'
  BY <1>13 DEF M!TypeOK, WorkOK, M!Workers, M!Months, M!Fail, M!Released
<1>14. QED
  BY <1>1, <1>2, <1>3, <1>4, <1>5, <1>6, <1>7, <1>8, <1>9, <1>10, <1>11,
     <1>12, <1>13 DEF M!Next, M!Work

(* Who is under way has a resident in hand.                                *)
LEMMA WorkStep ==
    ASSUME M!TypeOK, WorkOK, M!Next
    PROVE  WorkOK'
<1>1. ASSUME M!TurnMonth
      PROVE  WorkOK'
  BY <1>1 DEF M!TypeOK, WorkOK, M!Workers, M!TurnMonth, M!worker
<1>2. ASSUME M!StartRound
      PROVE  WorkOK'
  BY <1>2 DEF M!TypeOK, WorkOK, M!Workers, M!StartRound
<1>3. ASSUME M!MissRound
      PROVE  WorkOK'
  BY <1>3 DEF M!TypeOK, WorkOK, M!Workers, M!MissRound, M!worker
<1>4. ASSUME M!NextResident
      PROVE  WorkOK'
  BY <1>4 DEF M!TypeOK, WorkOK, M!Workers, M!NextResident, M!tables
<1>5. ASSUME M!EndRound
      PROVE  WorkOK'
  BY <1>5 DEF M!TypeOK, WorkOK, M!Workers, M!EndRound, M!tables
<1>6. ASSUME NEW r \in Payers, M!Approve(r)
      PROVE  WorkOK'
  BY <1>6 DEF M!TypeOK, WorkOK, M!Workers, M!Approve, M!worker
<1>7. ASSUME NEW r \in Payers, M!Reject(r)
      PROVE  WorkOK'
  BY <1>7 DEF M!TypeOK, WorkOK, M!Workers, M!Reject, M!worker
<1>8. ASSUME NEW t \in Callers, NEW r \in Payers, M!BeginEnsure(t, r)
      PROVE  WorkOK'
  BY <1>8 DEF M!TypeOK, WorkOK, M!Workers, M!BeginEnsure, M!tables
<1>9. ASSUME NEW w \in M!Workers, M!Check(w)
      PROVE  WorkOK'
  BY <1>9 DEF M!TypeOK, WorkOK, M!Workers, M!Check, M!Finish, M!After,
     M!tables
<1>10. ASSUME NEW w \in M!Workers, M!UpsertLevy(w)
      PROVE  WorkOK'
  BY <1>10 DEF M!TypeOK, WorkOK, M!Workers, M!UpsertLevy
<1>11. ASSUME NEW w \in M!Workers, M!FindAssignment(w)
      PROVE  WorkOK'
  BY <1>11 DEF M!TypeOK, WorkOK, M!Workers, M!FindAssignment, M!tables
<1>12. ASSUME NEW w \in M!Workers, M!WriteAssignment(w)
      PROVE  WorkOK'
  BY <1>12 DEF M!TypeOK, WorkOK, M!Workers, M!WriteAssignment, M!Finish,
     M!After, M!Released
<1>13. ASSUME NEW w \in M!Workers, M!Fail(w)
      PROVE  WorkOK'
  BY <1>13 DEF M!TypeOK, WorkOK, M!Workers, M!Fail, M!Released
<1>14. QED
  BY <1>1, <1>2, <1>3, <1>4, <1>5, <1>6, <1>7, <1>8, <1>9, <1>10, <1>11,
     <1>12, <1>13 DEF M!Next, M!Work

(* Whom the round set out to visit was eligible.                           *)
LEMMA ListStep ==
    ASSUME M!TypeOK, WorkOK, ListOK, M!Next
    PROVE  ListOK'
<1>1. ASSUME M!TurnMonth
      PROVE  ListOK'
  BY <1>1 DEF M!TypeOK, ListOK, M!TurnMonth, M!worker
<1>2. ASSUME M!StartRound
      PROVE  ListOK'
  BY <1>2 DEF M!TypeOK, ListOK, M!StartRound
<1>3. ASSUME M!MissRound
      PROVE  ListOK'
  BY <1>3 DEF M!TypeOK, ListOK, M!MissRound, M!worker
<1>4. ASSUME M!NextResident
      PROVE  ListOK'
  BY <1>4 DEF M!TypeOK, ListOK, M!NextResident, M!tables
<1>5. ASSUME M!EndRound
      PROVE  ListOK'
  BY <1>5 DEF M!TypeOK, ListOK, M!EndRound, M!tables
<1>6. ASSUME NEW r \in Payers, M!Approve(r)
      PROVE  ListOK'
  BY <1>6 DEF M!TypeOK, ListOK, M!Approve, M!worker
<1>7. ASSUME NEW r \in Payers, M!Reject(r)
      PROVE  ListOK'
  BY <1>7 DEF M!TypeOK, ListOK, M!Reject, M!worker
<1>8. ASSUME NEW t \in Callers, NEW r \in Payers, M!BeginEnsure(t, r)
      PROVE  ListOK'
  BY <1>8 DEF M!TypeOK, ListOK, M!BeginEnsure, M!tables
<1>9. ASSUME NEW w \in M!Workers, M!Check(w)
      PROVE  ListOK'
  BY <1>9 DEF M!TypeOK, ListOK, M!Check, M!Finish, M!After, M!tables
<1>10. ASSUME NEW w \in M!Workers, M!UpsertLevy(w)
      PROVE  ListOK'
  BY <1>10 DEF M!TypeOK, ListOK, M!UpsertLevy
<1>11. ASSUME NEW w \in M!Workers, M!FindAssignment(w)
      PROVE  ListOK'
  BY <1>11 DEF M!TypeOK, ListOK, M!FindAssignment, M!tables
<1>12. ASSUME NEW w \in M!Workers, M!WriteAssignment(w)
      PROVE  ListOK'
  BY <1>12 DEF M!TypeOK, ListOK, M!WriteAssignment, M!Finish, M!After,
     M!Released
<1>13. ASSUME NEW w \in M!Workers, M!Fail(w)
      PROVE  ListOK'
  BY <1>13 DEF M!TypeOK, ListOK, M!Fail, M!Released
<1>14. QED
  BY <1>1, <1>2, <1>3, <1>4, <1>5, <1>6, <1>7, <1>8, <1>9, <1>10, <1>11,
     <1>12, <1>13 DEF M!Next, M!Work

(* Nobody falls through the round.                                         *)
LEMMA ChargedStep ==
    ASSUME M!TypeOK, WorkOK, ListOK, M!EveryoneIsCharged, M!Next
    PROVE  M!EveryoneIsCharged'
<1>1. ASSUME M!TurnMonth
      PROVE  M!EveryoneIsCharged'
  BY <1>1 DEF M!TypeOK, WorkOK, ListOK, M!ToVisit, M!Workers,
     M!EveryoneIsCharged, M!TurnMonth, M!worker
<1>2. ASSUME M!StartRound
      PROVE  M!EveryoneIsCharged'
  BY <1>2 DEF M!TypeOK, WorkOK, ListOK, M!ToVisit, M!Workers,
     M!EveryoneIsCharged, M!StartRound
<1>3. ASSUME M!MissRound
      PROVE  M!EveryoneIsCharged'
  BY <1>3 DEF M!TypeOK, WorkOK, ListOK, M!ToVisit, M!Workers,
     M!EveryoneIsCharged, M!MissRound, M!worker
<1>4. ASSUME M!NextResident
      PROVE  M!EveryoneIsCharged'
  BY <1>4 DEF M!TypeOK, WorkOK, ListOK, M!ToVisit, M!Workers,
     M!EveryoneIsCharged, M!NextResident, M!tables
<1>5. ASSUME M!EndRound
      PROVE  M!EveryoneIsCharged'
  BY <1>5 DEF M!TypeOK, WorkOK, ListOK, M!ToVisit, M!Workers,
     M!EveryoneIsCharged, M!EndRound, M!tables
<1>6. ASSUME NEW r \in Payers, M!Approve(r)
      PROVE  M!EveryoneIsCharged'
  BY <1>6 DEF M!TypeOK, WorkOK, ListOK, M!ToVisit, M!Workers,
     M!EveryoneIsCharged, M!Approve, M!worker
<1>7. ASSUME NEW r \in Payers, M!Reject(r)
      PROVE  M!EveryoneIsCharged'
  BY <1>7 DEF M!TypeOK, WorkOK, ListOK, M!ToVisit, M!Workers,
     M!EveryoneIsCharged, M!Reject, M!worker
<1>8. ASSUME NEW t \in Callers, NEW r \in Payers, M!BeginEnsure(t, r)
      PROVE  M!EveryoneIsCharged'
  BY <1>8 DEF M!TypeOK, WorkOK, ListOK, M!ToVisit, M!Workers,
     M!EveryoneIsCharged, M!BeginEnsure, M!tables
<1>9. ASSUME NEW w \in M!Workers, M!Check(w)
      PROVE  M!EveryoneIsCharged'
  BY <1>9 DEF M!TypeOK, WorkOK, ListOK, M!ToVisit, M!Workers,
     M!EveryoneIsCharged, M!Check, M!Finish, M!After, M!tables
<1>10. ASSUME NEW w \in M!Workers, M!UpsertLevy(w)
      PROVE  M!EveryoneIsCharged'
  BY <1>10 DEF M!TypeOK, WorkOK, ListOK, M!ToVisit, M!Workers,
     M!EveryoneIsCharged, M!UpsertLevy
<1>11. ASSUME NEW w \in M!Workers, M!FindAssignment(w)
      PROVE  M!EveryoneIsCharged'
  BY <1>11 DEF M!TypeOK, WorkOK, ListOK, M!ToVisit, M!Workers,
     M!EveryoneIsCharged, M!FindAssignment, M!tables
<1>12. ASSUME NEW w \in M!Workers, M!WriteAssignment(w)
      PROVE  M!EveryoneIsCharged'
  BY <1>12 DEF M!TypeOK, WorkOK, ListOK, M!ToVisit, M!Workers,
     M!EveryoneIsCharged, M!WriteAssignment, M!Finish, M!After, M!Released
<1>13. ASSUME NEW w \in M!Workers, M!Fail(w)
      PROVE  M!EveryoneIsCharged'
  BY <1>13 DEF M!TypeOK, WorkOK, ListOK, M!ToVisit, M!Workers,
     M!EveryoneIsCharged, M!Fail, M!Released
<1>14. QED
  BY <1>1, <1>2, <1>3, <1>4, <1>5, <1>6, <1>7, <1>8, <1>9, <1>10, <1>11,
     <1>12, <1>13 DEF M!Next, M!Work

-----------------------------------------------------------------------------

LEMMA MonthlyInitIInv == M!Init => MonthlyIInv
<1> SUFFICES ASSUME M!Init
             PROVE  MonthlyIInv
  OBVIOUS
<1>1. M!TypeOK
  BY DEF M!Init, M!TypeOK, M!Months
<1>2. WorkOK /\ ListOK /\ M!EveryoneIsCharged
  BY DEF M!Init, WorkOK, ListOK, M!EveryoneIsCharged
<1> QED
  BY <1>1, <1>2 DEF MonthlyIInv

LEMMA MonthlyStepIInv == MonthlyIInv /\ [M!Next]_(M!vars) => MonthlyIInv'
<1> SUFFICES ASSUME MonthlyIInv, [M!Next]_(M!vars)
             PROVE  MonthlyIInv'
  OBVIOUS
<1>1. CASE M!Next
  BY <1>1, MonthlyTypeStep, WorkStep, ListStep, ChargedStep DEF MonthlyIInv
<1>2. CASE UNCHANGED M!vars
  BY <1>2 DEF MonthlyIInv, M!TypeOK, WorkOK, ListOK, M!EveryoneIsCharged,
     M!ToVisit, M!vars, M!tables, M!worker
<1> QED
  BY <1>1, <1>2

HIDE MonthlyAssumption

-----------------------------------------------------------------------------
(* The setup of the estate: the inductive invariant. *)

Tasks == [type : Types \cup {None}, name : Names \cup {None},
          who : Tenants \cup {None}, levy : Levies \cup {None},
          prices : E!PriceLists, homes : [Tenants -> Types \cup {None}],
          by : BOOLEAN, amount : Amounts \cup {None}]

(* A request keeps the arguments its next step needs.                      *)
TasksOK ==
    /\ task \in [Threads -> Tasks]
    /\ \A t \in Threads :
          /\ step[t] \in {"create", "rename", "retire", "erase", "home"} =>
                 task[t].type \in Types
          /\ step[t] \in {"create", "rename"} => task[t].name \in Names
          /\ step[t] = "home" => task[t].who \in Tenants
          /\ step[t] \in {"prices", "residents", "levy", "reprice"} =>
                 task[t].levy \in Levies
          /\ step[t] = "prices" => task[t].by
          /\ step[t] \in {"residents", "levy"} /\ ~task[t].by =>
                 E!Listed(task[t].prices) = {}

(* A type about to be erased has come to no resident since it was judged.  *)
UnusedOK == \A t \in Threads :
    step[t] = "erase" /\ task[t].type \notin stale =>
        \A r \in Tenants : home[r] # task[t].type

(* A name about to be given is taken by nobody else, since it was judged.  *)
NamesOK == \A t \in Threads : step[t] \in {"create", "rename"} =>
    \A y \in E!Rows \ {task[t].type} :
        Lowered[name[y]] = Lowered[task[t].name] =>
            {task[t].type, y} \cap stale # {}

(* A levy by type knows the price of every resident's type, ...            *)
(* unless the resident's type was written since.                           *)
HomesOK == \A t \in Threads : step[t] = "levy" /\ task[t].by =>
    \A r \in Tenants :
        /\ task[t].homes[r] \in E!Listed(task[t].prices)
        /\ task[t].homes[r] = home[r] \/ r \in stale

SetupIInv == E!TypeOK /\ TasksOK /\ UnusedOK /\ NamesOK /\ E!NamesDiffer /\ HomesOK

USE SetupAssumption

-----------------------------------------------------------------------------
(* What the proofs know of a step: requests begin with arguments j. *)

SetupBegins(t, place, j) ==
    /\ step[t] = "idle"
    /\ j \in Tasks
    /\ E!GoTo(t, place, j)
    /\ UNCHANGED <<concern, E!tables, stale>>

AsksCreate(t, j) ==
    /\ j.type \in Types /\ j.name \in Names /\ ~E!Taken(j.type, j.name)
    /\ SetupBegins(t, "create", j)

AsksRename(t, j) ==
    /\ j.type \in E!Rows /\ j.name \in Names
    /\ Lowered[j.name] = Lowered[name[j.type]] \/ ~E!Taken(j.type, j.name)
    /\ SetupBegins(t, "rename", j)

AsksDelete(t, j) ==
    /\ j.type \in E!Rows
    /\ SetupBegins(t, IF E!InUse(j.type) THEN "retire" ELSE "erase", j)

AsksHome(t, j) ==
    /\ j.who \in Tenants /\ j.type \in E!Active
    /\ SetupBegins(t, "home", j)

AsksLevy(t, j) ==
    /\ j.levy \in Levies /\ j.by = applied /\ E!Listed(j.prices) = {}
    /\ SetupBegins(t, IF applied THEN "prices" ELSE "residents", j)

ReadsPrices(t, j) ==
    /\ step[t] = "prices"
    /\ j \in Tasks /\ j.levy = task[t].levy /\ j.by = task[t].by
    /\ E!GoTo(t, "residents", j)
    /\ UNCHANGED <<concern, E!tables, stale>>

ReadsResidents(t, j) ==
    /\ step[t] = "residents" /\ E!Chargeable(t)
    /\ j \in Tasks /\ j.levy = task[t].levy /\ j.by = task[t].by
    /\ j.prices = task[t].prices /\ j.homes = home
    /\ E!GoTo(t, "levy", j)
    /\ UNCHANGED <<concern, E!tables, stale>>

AsksUpdate(t, j) ==
    /\ j.levy \in Levies
    /\ SetupBegins(t, "reprice", j)

SetupAskStep(t, j) ==
    \/ AsksCreate(t, j) \/ AsksRename(t, j) \/ AsksDelete(t, j)
    \/ AsksHome(t, j)

LevyStep(t, j) ==
    \/ AsksLevy(t, j) \/ ReadsPrices(t, j) \/ ReadsResidents(t, j)
    \/ AsksUpdate(t, j)

WriteStep(t) ==
    \/ E!CreateType(t) \/ E!RenameType(t) \/ E!RetireType(t) \/ E!EraseType(t)
    \/ E!ChooseType(t) \/ E!CreateLevy(t) \/ E!UpdateLevy(t) \/ E!Fail(t)

SetupStep ==
    \/ E!UpdateSettings
    \/ \E x \in Types : E!SwitchType(x)
    \/ \E t \in Threads : WriteStep(t)
    \/ \E t \in Threads, j \in Tasks : SetupAskStep(t, j) \/ LevyStep(t, j)

LEMMA NoTaskIsTask == E!NoTask \in Tasks
  BY DEF E!NoTask, Tasks, E!NoType, E!PriceLists

LEMMA BeginCreateTypeIs ==
    ASSUME NEW t \in Threads, NEW x \in Types, NEW n \in Names,
           E!BeginCreateType(t, x, n)
    PROVE  \E j \in Tasks : AsksCreate(t, j)
<1> DEFINE j == [E!NoTask EXCEPT !.type = x, !.name = n]
<1>1. j \in Tasks /\ j.type = x /\ j.name = n
  BY DEF Tasks, E!NoTask, E!NoType, E!PriceLists
<1> HIDE DEF j
<1>2. E!Start(t, "create", j)
  BY DEF E!BeginCreateType, j
<1> QED
  BY <1>1, <1>2 DEF E!BeginCreateType, E!Start, AsksCreate, SetupBegins

LEMMA BeginRenameTypeIs ==
    ASSUME NEW t \in Threads, NEW x \in Types, NEW n \in Names,
           E!BeginRenameType(t, x, n)
    PROVE  \E j \in Tasks : AsksRename(t, j)
<1> DEFINE j == [E!NoTask EXCEPT !.type = x, !.name = n]
<1>1. j \in Tasks /\ j.type = x /\ j.name = n
  BY DEF Tasks, E!NoTask, E!NoType, E!PriceLists
<1> HIDE DEF j
<1>2. E!Start(t, "rename", j)
  BY DEF E!BeginRenameType, j
<1> QED
  BY <1>1, <1>2 DEF E!BeginRenameType, E!Start, AsksRename, SetupBegins

LEMMA BeginDeleteTypeIs ==
    ASSUME NEW t \in Threads, NEW x \in Types, E!BeginDeleteType(t, x)
    PROVE  \E j \in Tasks : AsksDelete(t, j)
<1> DEFINE j == [E!NoTask EXCEPT !.type = x]
<1>1. j \in Tasks /\ j.type = x
  BY DEF Tasks, E!NoTask, E!NoType, E!PriceLists
<1> HIDE DEF j
<1>2. E!Start(t, IF E!InUse(x) THEN "retire" ELSE "erase", j)
  BY DEF E!BeginDeleteType, j
<1> QED
  BY <1>1, <1>2 DEF E!BeginDeleteType, E!Start, AsksDelete, SetupBegins

LEMMA BeginChooseTypeIs ==
    ASSUME NEW t \in Threads, NEW x \in Types, NEW r \in Tenants,
           E!BeginChooseType(t, r, x)
    PROVE  \E j \in Tasks : AsksHome(t, j)
<1> DEFINE j == [E!NoTask EXCEPT !.who = r, !.type = x]
<1>1. j \in Tasks /\ j.type = x /\ j.who = r
  BY DEF Tasks, E!NoTask, E!NoType, E!PriceLists
<1> HIDE DEF j
<1>2. E!Start(t, "home", j)
  BY DEF E!BeginChooseType, j
<1> QED
  BY <1>1, <1>2 DEF E!BeginChooseType, E!Start, AsksHome, SetupBegins

LEMMA BeginLevyIs ==
    ASSUME E!TypeOK, NEW t \in Threads, NEW l \in Levies,
           NEW amount \in Amounts,
           E!BeginLevy(t, l, amount)
    PROVE  \E j \in Tasks : AsksLevy(t, j)
<1> DEFINE j == [E!NoTask EXCEPT !.levy = l, !.amount = amount, !.by = applied]
<1>1. j \in Tasks /\ j.levy = l /\ j.by = applied /\ E!Listed(j.prices) = {}
  BY DEF Tasks, E!NoTask, E!NoType, E!PriceLists, E!Listed, E!TypeOK
<1> HIDE DEF j
<1>2. E!Start(t, IF applied THEN "prices" ELSE "residents", j)
  BY DEF E!BeginLevy, j
<1> QED
  BY <1>1, <1>2 DEF E!BeginLevy, E!Start, AsksLevy, SetupBegins

LEMMA ReadPricesIs ==
    ASSUME TasksOK, NEW t \in Threads, E!ReadPrices(t)
    PROVE  \E j \in Tasks : ReadsPrices(t, j)
<1>1. PICK p \in E!PriceLists : E!GoTo(t, "residents", [task[t] EXCEPT !.prices = p])
  BY DEF E!ReadPrices
<1> DEFINE j == [task[t] EXCEPT !.prices = p]
<1>2. task[t] \in Tasks
  BY DEF TasksOK
<1>3. j \in Tasks /\ j.levy = task[t].levy /\ j.by = task[t].by
  BY <1>2 DEF Tasks
<1> HIDE DEF j
<1>4. E!GoTo(t, "residents", j)
  BY <1>1 DEF j
<1> QED
  BY <1>3, <1>4 DEF E!ReadPrices, ReadsPrices

LEMMA ReadResidentsIs ==
    ASSUME E!TypeOK, TasksOK, NEW t \in Threads, E!ReadResidents(t)
    PROVE  \E j \in Tasks : ReadsResidents(t, j)
<1> DEFINE j == [task[t] EXCEPT !.homes = home]
<1>2. task[t] \in Tasks
  BY DEF TasksOK
<1>3. /\ j \in Tasks /\ j.levy = task[t].levy /\ j.by = task[t].by
      /\ j.prices = task[t].prices /\ j.homes = home
  BY <1>2 DEF Tasks, E!TypeOK
<1> HIDE DEF j
<1>4. E!GoTo(t, "levy", j)
  BY DEF E!ReadResidents, j
<1> QED
  BY <1>3, <1>4 DEF E!ReadResidents, ReadsResidents

LEMMA BeginUpdateLevyIs ==
    ASSUME NEW t \in Threads, NEW l \in Levies, E!BeginUpdateLevy(t, l)
    PROVE  \E j \in Tasks : AsksUpdate(t, j)
<1>1. PICK p \in E!PriceLists :
         E!Start(t, "reprice", [E!NoTask EXCEPT !.levy = l, !.prices = p])
  BY DEF E!BeginUpdateLevy
<1> DEFINE j == [E!NoTask EXCEPT !.levy = l, !.prices = p]
<1>2. j \in Tasks /\ j.levy = l
  BY DEF Tasks, E!NoTask, E!NoType, E!PriceLists
<1> HIDE DEF j
<1>3. E!Start(t, "reprice", j)
  BY <1>1 DEF j
<1> QED
  BY <1>2, <1>3 DEF E!BeginUpdateLevy, E!Start, AsksUpdate, SetupBegins

(* Every step is one of these. *)
LEMMA SetupStepIs ==
    ASSUME E!TypeOK, TasksOK, E!Next
    PROVE  SetupStep
<1>1. CASE \/ E!UpdateSettings \/ \E x \in Types : E!SwitchType(x)
           \/ \E t \in Threads : WriteStep(t)
  BY <1>1 DEF SetupStep
<1>2. ASSUME NEW t \in Threads, NEW x \in Types, E!BeginDeleteType(t, x)
      PROVE  SetupStep
  BY <1>2, BeginDeleteTypeIs DEF SetupStep, SetupAskStep
<1>3. ASSUME NEW t \in Threads, NEW x \in Types, NEW n \in Names,
             E!BeginCreateType(t, x, n)
      PROVE  SetupStep
  BY <1>3, BeginCreateTypeIs DEF SetupStep, SetupAskStep
<1>4. ASSUME NEW t \in Threads, NEW x \in Types, NEW n \in Names,
             E!BeginRenameType(t, x, n)
      PROVE  SetupStep
  BY <1>4, BeginRenameTypeIs DEF SetupStep, SetupAskStep
<1>5. ASSUME NEW t \in Threads, NEW x \in Types, NEW r \in Tenants,
             E!BeginChooseType(t, r, x)
      PROVE  SetupStep
  BY <1>5, BeginChooseTypeIs DEF SetupStep, SetupAskStep
<1>6. ASSUME NEW t \in Threads, NEW l \in Levies, NEW amount \in Amounts,
             E!BeginLevy(t, l, amount)
      PROVE  SetupStep
  BY <1>6, BeginLevyIs DEF SetupStep, LevyStep
<1>7. ASSUME NEW t \in Threads, E!ReadPrices(t)
      PROVE  SetupStep
  BY <1>7, ReadPricesIs DEF SetupStep, LevyStep
<1>8. ASSUME NEW t \in Threads, E!ReadResidents(t)
      PROVE  SetupStep
  BY <1>8, ReadResidentsIs DEF SetupStep, LevyStep
<1>9. ASSUME NEW t \in Threads, NEW l \in Levies, E!BeginUpdateLevy(t, l)
      PROVE  SetupStep
  BY <1>9, BeginUpdateLevyIs DEF SetupStep, LevyStep
<1> QED
  BY <1>1, <1>2, <1>3, <1>4, <1>5, <1>6, <1>7, <1>8, <1>9
  DEF E!Next, WriteStep

-----------------------------------------------------------------------------
(* Every step preserves each part of it. *)

(* Every request writes what the type allows.                              *)
LEMMA SetupTypeStep ==
    ASSUME E!TypeOK, TasksOK, HomesOK, SetupStep
    PROVE  E!TypeOK'
<1>1. ASSUME E!UpdateSettings
      PROVE  E!TypeOK'
  BY <1>1 DEF E!TypeOK, TasksOK, E!Rows, E!UpdateSettings
<1>2. ASSUME NEW x \in Types, E!SwitchType(x)
      PROVE  E!TypeOK'
  BY <1>2 DEF E!TypeOK, TasksOK, E!Rows, E!SwitchType
<1>3. ASSUME NEW t \in Threads, NEW j \in Tasks, AsksCreate(t, j)
      PROVE  E!TypeOK'
  BY <1>3 DEF E!TypeOK, TasksOK, E!Rows, E!Steps, AsksCreate, SetupBegins,
     E!GoTo, E!tables
<1>4. ASSUME NEW t \in Threads, E!CreateType(t)
      PROVE  E!TypeOK'
  BY <1>4 DEF E!TypeOK, TasksOK, E!Rows, E!Steps, E!CreateType, E!Leave,
     E!GoTo, E!Touch
<1>5. ASSUME NEW t \in Threads, NEW j \in Tasks, AsksRename(t, j)
      PROVE  E!TypeOK'
  BY <1>5 DEF E!TypeOK, TasksOK, E!Rows, E!Steps, AsksRename, SetupBegins,
     E!GoTo, E!tables
<1>6. ASSUME NEW t \in Threads, E!RenameType(t)
      PROVE  E!TypeOK'
  BY <1>6 DEF E!TypeOK, TasksOK, E!Rows, E!Steps, E!RenameType, E!Leave,
     E!GoTo, E!Touch
<1>7. ASSUME NEW t \in Threads, NEW j \in Tasks, AsksDelete(t, j)
      PROVE  E!TypeOK'
  BY <1>7 DEF E!TypeOK, TasksOK, E!Rows, E!Steps, AsksDelete, SetupBegins,
     E!GoTo, E!tables
<1>8. ASSUME NEW t \in Threads, E!RetireType(t)
      PROVE  E!TypeOK'
  BY <1>8 DEF E!TypeOK, TasksOK, E!Rows, E!Steps, E!RetireType, E!Leave,
     E!GoTo, E!Touch
<1>9. ASSUME NEW t \in Threads, E!EraseType(t)
      PROVE  E!TypeOK'
  BY <1>9 DEF E!TypeOK, TasksOK, E!Rows, E!Steps, E!EraseType, E!Leave,
     E!GoTo, E!Touch
<1>10. ASSUME NEW t \in Threads, NEW j \in Tasks, AsksHome(t, j)
      PROVE  E!TypeOK'
  BY <1>10 DEF E!TypeOK, TasksOK, E!Rows, E!Steps, AsksHome, SetupBegins,
     E!GoTo, E!tables
<1>11. ASSUME NEW t \in Threads, E!ChooseType(t)
      PROVE  E!TypeOK'
  BY <1>11 DEF E!TypeOK, TasksOK, E!Rows, E!Steps, E!ChooseType, E!Leave,
     E!GoTo, E!Touch
<1>12. ASSUME NEW t \in Threads, NEW j \in Tasks, AsksLevy(t, j)
      PROVE  E!TypeOK'
  BY <1>12 DEF E!TypeOK, TasksOK, E!Rows, E!Steps, AsksLevy, SetupBegins,
     E!GoTo, E!tables
<1>13. ASSUME NEW t \in Threads, NEW j \in Tasks, ReadsPrices(t, j)
      PROVE  E!TypeOK'
  BY <1>13 DEF E!TypeOK, TasksOK, E!Rows, E!Steps, ReadsPrices, E!GoTo,
     E!tables
<1>14. ASSUME NEW t \in Threads, NEW j \in Tasks, ReadsResidents(t, j)
      PROVE  E!TypeOK'
  BY <1>14 DEF E!TypeOK, TasksOK, E!Rows, E!Steps, ReadsResidents, E!GoTo,
     E!tables
<1>15. ASSUME NEW t \in Threads, E!CreateLevy(t)
      PROVE  E!TypeOK'
  <2>1. task[t] \in Tasks /\ task[t].levy \in Levies /\ task[t].prices \in E!PriceLists
    BY <1>15 DEF TasksOK, Tasks, E!CreateLevy
  <2>2. \A r \in Tenants : E!AmountFor(t, r) \in Amounts \cup {None}
    <3>1. task[t].amount \in Amounts \cup {None}
      BY <2>1 DEF Tasks
    <3>2. ASSUME NEW r \in Tenants, task[t].by
          PROVE  task[t].prices[task[t].homes[r]] \in Amounts \cup {None}
      BY <2>1, <1>15, <3>2 DEF HomesOK, E!CreateLevy, E!Listed, E!PriceLists
    <3> QED
      BY <3>1, <3>2 DEF E!AmountFor
  <2>3. price' \in [Levies -> E!PriceLists]
    BY <1>15, <2>1 DEF E!TypeOK, E!CreateLevy
  <2>4. charge' \in [Levies -> [Tenants -> Amounts \cup {None}]]
    BY <1>15, <2>1, <2>2 DEF E!TypeOK, E!CreateLevy
  <2>5. /\ step' \in [Threads -> E!Steps]
        /\ UNCHANGED <<type, name, home, applied>>
        /\ stale' \subseteq Types \cup Tenants
    BY <1>15 DEF E!TypeOK, E!CreateLevy, E!Leave, E!GoTo, E!Touch, E!Steps,
       E!Rows
  <2> QED
    BY <2>3, <2>4, <2>5 DEF E!TypeOK
<1>16. ASSUME NEW t \in Threads, NEW j \in Tasks, AsksUpdate(t, j)
      PROVE  E!TypeOK'
  BY <1>16 DEF E!TypeOK, TasksOK, E!Rows, E!Steps, AsksUpdate, SetupBegins,
     E!GoTo, E!tables
<1>17. ASSUME NEW t \in Threads, E!UpdateLevy(t)
      PROVE  E!TypeOK'
  <2>1. task[t] \in Tasks /\ task[t].levy \in Levies /\ task[t].prices \in E!PriceLists
    BY <1>17 DEF TasksOK, Tasks, E!UpdateLevy
  <2>2. price' \in [Levies -> E!PriceLists]
    BY <1>17, <2>1 DEF E!TypeOK, E!UpdateLevy
  <2>3. /\ step' \in [Threads -> E!Steps]
        /\ UNCHANGED <<type, name, home, applied, charge>>
        /\ stale' \subseteq Types \cup Tenants
    BY <1>17 DEF E!TypeOK, E!UpdateLevy, E!Leave, E!GoTo, E!Touch, E!Steps,
       E!Rows
  <2> QED
    BY <2>2, <2>3 DEF E!TypeOK
<1>18. ASSUME NEW t \in Threads, E!Fail(t)
      PROVE  E!TypeOK'
  BY <1>18 DEF E!TypeOK, TasksOK, E!Rows, E!Steps, E!Fail, E!Leave, E!GoTo,
     E!tables
<1>19. QED
  BY <1>1, <1>2, <1>3, <1>4, <1>5, <1>6, <1>7, <1>8, <1>9, <1>10, <1>11,
     <1>12, <1>13, <1>14, <1>15, <1>16, <1>17, <1>18 DEF SetupStep,
     SetupAskStep, LevyStep, WriteStep

(* A request keeps its arguments.                                          *)
LEMMA TasksStep ==
    ASSUME E!TypeOK, TasksOK, SetupStep
    PROVE  TasksOK'
<1>1. ASSUME E!UpdateSettings
      PROVE  TasksOK'
  BY <1>1 DEF E!TypeOK, TasksOK, E!UpdateSettings
<1>2. ASSUME NEW x \in Types, E!SwitchType(x)
      PROVE  TasksOK'
  BY <1>2 DEF E!TypeOK, TasksOK, E!SwitchType, E!Rows
<1>3. ASSUME NEW t \in Threads, NEW j \in Tasks, AsksCreate(t, j)
      PROVE  TasksOK'
  BY <1>3 DEF E!TypeOK, TasksOK, AsksCreate, SetupBegins, E!GoTo, E!tables
<1>4. ASSUME NEW t \in Threads, E!CreateType(t)
      PROVE  TasksOK'
  BY <1>4, NoTaskIsTask DEF E!TypeOK, TasksOK, E!CreateType, E!Leave, E!GoTo,
     E!Touch
<1>5. ASSUME NEW t \in Threads, NEW j \in Tasks, AsksRename(t, j)
      PROVE  TasksOK'
  BY <1>5 DEF E!TypeOK, TasksOK, AsksRename, SetupBegins, E!GoTo, E!tables,
     E!Rows
<1>6. ASSUME NEW t \in Threads, E!RenameType(t)
      PROVE  TasksOK'
  BY <1>6, NoTaskIsTask DEF E!TypeOK, TasksOK, E!RenameType, E!Leave, E!GoTo,
     E!Touch
<1>7. ASSUME NEW t \in Threads, NEW j \in Tasks, AsksDelete(t, j)
      PROVE  TasksOK'
  BY <1>7 DEF E!TypeOK, TasksOK, AsksDelete, SetupBegins, E!GoTo, E!tables,
     E!Rows
<1>8. ASSUME NEW t \in Threads, E!RetireType(t)
      PROVE  TasksOK'
  BY <1>8, NoTaskIsTask DEF E!TypeOK, TasksOK, E!RetireType, E!Leave, E!GoTo,
     E!Touch
<1>9. ASSUME NEW t \in Threads, E!EraseType(t)
      PROVE  TasksOK'
  BY <1>9, NoTaskIsTask DEF E!TypeOK, TasksOK, E!EraseType, E!Leave, E!GoTo,
     E!Touch
<1>10. ASSUME NEW t \in Threads, NEW j \in Tasks, AsksHome(t, j)
      PROVE  TasksOK'
  BY <1>10 DEF E!TypeOK, TasksOK, E!Active, AsksHome, SetupBegins, E!GoTo,
     E!tables
<1>11. ASSUME NEW t \in Threads, E!ChooseType(t)
      PROVE  TasksOK'
  BY <1>11, NoTaskIsTask DEF E!TypeOK, TasksOK, E!ChooseType, E!Leave, E!GoTo,
     E!Touch
<1>12. ASSUME NEW t \in Threads, NEW j \in Tasks, AsksLevy(t, j)
      PROVE  TasksOK'
  BY <1>12 DEF E!TypeOK, TasksOK, AsksLevy, SetupBegins, E!GoTo, E!tables
<1>13. ASSUME NEW t \in Threads, NEW j \in Tasks, ReadsPrices(t, j)
      PROVE  TasksOK'
  BY <1>13 DEF E!TypeOK, TasksOK, ReadsPrices, E!GoTo, E!tables
<1>14. ASSUME NEW t \in Threads, NEW j \in Tasks, ReadsResidents(t, j)
      PROVE  TasksOK'
  BY <1>14 DEF E!TypeOK, TasksOK, E!Chargeable, ReadsResidents, E!GoTo,
     E!tables
<1>15. ASSUME NEW t \in Threads, E!CreateLevy(t)
      PROVE  TasksOK'
  BY <1>15, NoTaskIsTask DEF E!TypeOK, TasksOK, E!CreateLevy, E!Leave, E!GoTo,
     E!Touch
<1>16. ASSUME NEW t \in Threads, NEW j \in Tasks, AsksUpdate(t, j)
      PROVE  TasksOK'
  BY <1>16 DEF E!TypeOK, TasksOK, AsksUpdate, SetupBegins, E!GoTo, E!tables
<1>17. ASSUME NEW t \in Threads, E!UpdateLevy(t)
      PROVE  TasksOK'
  BY <1>17, NoTaskIsTask DEF E!TypeOK, TasksOK, E!UpdateLevy, E!Leave, E!GoTo,
     E!Touch
<1>18. ASSUME NEW t \in Threads, E!Fail(t)
      PROVE  TasksOK'
  BY <1>18, NoTaskIsTask DEF E!TypeOK, TasksOK, E!Fail, E!Leave, E!GoTo,
     E!tables
<1>19. QED
  BY <1>1, <1>2, <1>3, <1>4, <1>5, <1>6, <1>7, <1>8, <1>9, <1>10, <1>11,
     <1>12, <1>13, <1>14, <1>15, <1>16, <1>17, <1>18 DEF SetupStep,
     SetupAskStep, LevyStep, WriteStep

(* What is to be erased is not in use, or was touched.                     *)
LEMMA UnusedStep ==
    ASSUME E!TypeOK, TasksOK, UnusedOK, SetupStep
    PROVE  UnusedOK'
<1>1. ASSUME E!UpdateSettings
      PROVE  UnusedOK'
  BY <1>1 DEF E!TypeOK, TasksOK, UnusedOK, E!UpdateSettings
<1>2. ASSUME NEW x \in Types, E!SwitchType(x)
      PROVE  UnusedOK'
  BY <1>2 DEF E!TypeOK, TasksOK, UnusedOK, E!SwitchType, E!Rows
<1>3. ASSUME NEW t \in Threads, NEW j \in Tasks, AsksCreate(t, j)
      PROVE  UnusedOK'
  BY <1>3 DEF E!TypeOK, TasksOK, UnusedOK, AsksCreate, SetupBegins, E!GoTo,
     E!tables
<1>4. ASSUME NEW t \in Threads, E!CreateType(t)
      PROVE  UnusedOK'
  BY <1>4 DEF E!TypeOK, TasksOK, UnusedOK, E!CreateType, E!Leave, E!GoTo,
     E!Touch
<1>5. ASSUME NEW t \in Threads, NEW j \in Tasks, AsksRename(t, j)
      PROVE  UnusedOK'
  BY <1>5 DEF E!TypeOK, TasksOK, UnusedOK, AsksRename, SetupBegins, E!GoTo,
     E!tables, E!Rows
<1>6. ASSUME NEW t \in Threads, E!RenameType(t)
      PROVE  UnusedOK'
  BY <1>6 DEF E!TypeOK, TasksOK, UnusedOK, E!RenameType, E!Leave, E!GoTo,
     E!Touch
<1>7. ASSUME NEW t \in Threads, NEW j \in Tasks, AsksDelete(t, j)
      PROVE  UnusedOK'
  BY <1>7 DEF E!TypeOK, TasksOK, UnusedOK, E!InUse, AsksDelete, SetupBegins,
     E!GoTo, E!tables, E!Rows
<1>8. ASSUME NEW t \in Threads, E!RetireType(t)
      PROVE  UnusedOK'
  BY <1>8 DEF E!TypeOK, TasksOK, UnusedOK, E!RetireType, E!Leave, E!GoTo,
     E!Touch
<1>9. ASSUME NEW t \in Threads, E!EraseType(t)
      PROVE  UnusedOK'
  BY <1>9 DEF E!TypeOK, TasksOK, UnusedOK, E!Rows, E!EraseType, E!Leave,
     E!GoTo, E!Touch
<1>10. ASSUME NEW t \in Threads, NEW j \in Tasks, AsksHome(t, j)
      PROVE  UnusedOK'
  BY <1>10 DEF E!TypeOK, TasksOK, UnusedOK, AsksHome, SetupBegins, E!GoTo,
     E!tables
<1>11. ASSUME NEW t \in Threads, E!ChooseType(t)
      PROVE  UnusedOK'
  BY <1>11 DEF E!TypeOK, TasksOK, UnusedOK, E!Rows, E!ChooseType, E!Leave,
     E!GoTo, E!Touch
<1>12. ASSUME NEW t \in Threads, NEW j \in Tasks, AsksLevy(t, j)
      PROVE  UnusedOK'
  BY <1>12 DEF E!TypeOK, TasksOK, UnusedOK, AsksLevy, SetupBegins, E!GoTo,
     E!tables
<1>13. ASSUME NEW t \in Threads, NEW j \in Tasks, ReadsPrices(t, j)
      PROVE  UnusedOK'
  BY <1>13 DEF E!TypeOK, TasksOK, UnusedOK, ReadsPrices, E!GoTo, E!tables
<1>14. ASSUME NEW t \in Threads, NEW j \in Tasks, ReadsResidents(t, j)
      PROVE  UnusedOK'
  BY <1>14 DEF E!TypeOK, TasksOK, UnusedOK, ReadsResidents, E!GoTo, E!tables
<1>15. ASSUME NEW t \in Threads, E!CreateLevy(t)
      PROVE  UnusedOK'
  BY <1>15 DEF E!TypeOK, TasksOK, UnusedOK, E!CreateLevy, E!Leave, E!GoTo,
     E!Touch
<1>16. ASSUME NEW t \in Threads, NEW j \in Tasks, AsksUpdate(t, j)
      PROVE  UnusedOK'
  BY <1>16 DEF E!TypeOK, TasksOK, UnusedOK, AsksUpdate, SetupBegins, E!GoTo,
     E!tables
<1>17. ASSUME NEW t \in Threads, E!UpdateLevy(t)
      PROVE  UnusedOK'
  BY <1>17 DEF E!TypeOK, TasksOK, UnusedOK, E!UpdateLevy, E!Leave, E!GoTo,
     E!Touch
<1>18. ASSUME NEW t \in Threads, E!Fail(t)
      PROVE  UnusedOK'
  BY <1>18 DEF E!TypeOK, TasksOK, UnusedOK, E!Fail, E!Leave, E!GoTo, E!tables
<1>19. QED
  BY <1>1, <1>2, <1>3, <1>4, <1>5, <1>6, <1>7, <1>8, <1>9, <1>10, <1>11,
     <1>12, <1>13, <1>14, <1>15, <1>16, <1>17, <1>18 DEF SetupStep,
     SetupAskStep, LevyStep, WriteStep

(* The name a request was promised is free, or was touched.                *)
LEMMA NamesStep ==
    ASSUME E!TypeOK, TasksOK, NamesOK, E!NamesDiffer, SetupStep
    PROVE  NamesOK'
<1>1. ASSUME E!UpdateSettings
      PROVE  NamesOK'
  BY <1>1 DEF E!TypeOK, TasksOK, NamesOK, E!Rows, E!UpdateSettings
<1>2. ASSUME NEW x \in Types, E!SwitchType(x)
      PROVE  NamesOK'
  BY <1>2 DEF E!TypeOK, TasksOK, NamesOK, E!Rows, E!SwitchType
<1>3. ASSUME NEW t \in Threads, NEW j \in Tasks, AsksCreate(t, j)
      PROVE  NamesOK'
  BY <1>3 DEF E!TypeOK, TasksOK, NamesOK, E!Rows, E!Taken, AsksCreate,
     SetupBegins, E!GoTo, E!tables
<1>4. ASSUME NEW t \in Threads, E!CreateType(t)
      PROVE  NamesOK'
  <2> DEFINE x == task[t].type
  <2>1. /\ step[t] = "create" /\ x \in Types
        /\ type' = [type EXCEPT ![x] = "ACTIVE"]
        /\ name' = [name EXCEPT ![x] = task[t].name]
        /\ step' = [step EXCEPT ![t] = "idle"]
        /\ task' = [task EXCEPT ![t] = E!NoTask]
        /\ stale \subseteq stale'
        /\ \A u \in Threads \ {t} : step[u] # "idle" => x \in stale'
    BY <1>4 DEF E!CreateType, E!Leave, E!GoTo, E!Touch, TasksOK
  <2> HIDE DEF x
  <2>2. \A u \in Threads : step'[u] # "idle" =>
           u # t /\ step'[u] = step[u] /\ task'[u] = task[u]
    BY <2>1 DEF E!TypeOK, TasksOK
  <2>3. E!Rows' \subseteq E!Rows \cup {x} /\ \A y \in E!Rows \ {x} : name'[y] = name[y]
    BY <2>1 DEF E!Rows, E!TypeOK
  <2>4. ASSUME NEW u \in Threads, step'[u] \in {"create", "rename"},
               NEW y \in E!Rows' \ {task[u].type},
               Lowered[name'[y]] = Lowered[task[u].name]
        PROVE  {task[u].type, y} \cap stale' # {}
    <3>1. CASE y = x
      BY <2>1, <2>2, <2>4, <3>1
    <3>2. CASE y # x
      <4>1. {task[u].type, y} \cap stale # {}
        BY <2>2, <2>3, <2>4, <3>2 DEF NamesOK
      <4> QED
        BY <2>1, <4>1
    <3> QED
      BY <3>1, <3>2
  <2> QED
    BY <2>2, <2>3, <2>4 DEF NamesOK
<1>5. ASSUME NEW t \in Threads, NEW j \in Tasks, AsksRename(t, j)
      PROVE  NamesOK'
  BY <1>5 DEF E!TypeOK, TasksOK, NamesOK, E!Rows, E!Taken, E!NamesDiffer,
     AsksRename, SetupBegins, E!GoTo, E!tables
<1>6. ASSUME NEW t \in Threads, E!RenameType(t)
      PROVE  NamesOK'
  <2> DEFINE x == task[t].type
  <2>1. /\ step[t] = "rename" /\ x \in E!Rows /\ UNCHANGED <<type, concern>>
        /\ name' = [name EXCEPT ![x] = task[t].name]
        /\ step' = [step EXCEPT ![t] = "idle"]
        /\ task' = [task EXCEPT ![t] = E!NoTask]
        /\ stale \subseteq stale'
        /\ \A u \in Threads \ {t} : step[u] # "idle" => x \in stale'
    BY <1>6 DEF E!RenameType, E!Leave, E!GoTo, E!Touch
  <2> HIDE DEF x
  <2>2. \A u \in Threads : step'[u] # "idle" =>
           u # t /\ step'[u] = step[u] /\ task'[u] = task[u]
    BY <2>1 DEF E!TypeOK, TasksOK
  <2>3. E!Rows' = E!Rows /\ \A y \in E!Rows \ {x} : name'[y] = name[y]
    BY <2>1 DEF E!Rows, E!TypeOK
  <2>4. ASSUME NEW u \in Threads, step'[u] \in {"create", "rename"},
               NEW y \in E!Rows \ {task[u].type},
               Lowered[name'[y]] = Lowered[task[u].name]
        PROVE  {task[u].type, y} \cap stale' # {}
    <3>1. CASE y = x
      BY <2>1, <2>2, <2>4, <3>1
    <3>2. CASE y # x
      <4>1. {task[u].type, y} \cap stale # {}
        BY <2>2, <2>3, <2>4, <3>2 DEF NamesOK
      <4> QED
        BY <2>1, <4>1
    <3> QED
      BY <3>1, <3>2
  <2> QED
    BY <2>2, <2>3, <2>4 DEF NamesOK
<1>7. ASSUME NEW t \in Threads, NEW j \in Tasks, AsksDelete(t, j)
      PROVE  NamesOK'
  BY <1>7 DEF E!TypeOK, TasksOK, NamesOK, E!Rows, AsksDelete, SetupBegins,
     E!GoTo, E!tables
<1>8. ASSUME NEW t \in Threads, E!RetireType(t)
      PROVE  NamesOK'
  BY <1>8 DEF E!TypeOK, TasksOK, NamesOK, E!Rows, E!RetireType, E!Leave,
     E!GoTo, E!Touch
<1>9. ASSUME NEW t \in Threads, E!EraseType(t)
      PROVE  NamesOK'
  BY <1>9 DEF E!TypeOK, TasksOK, NamesOK, E!Rows, E!EraseType, E!Leave,
     E!GoTo, E!Touch
<1>10. ASSUME NEW t \in Threads, NEW j \in Tasks, AsksHome(t, j)
      PROVE  NamesOK'
  BY <1>10 DEF E!TypeOK, TasksOK, NamesOK, E!Rows, AsksHome, SetupBegins,
     E!GoTo, E!tables
<1>11. ASSUME NEW t \in Threads, E!ChooseType(t)
      PROVE  NamesOK'
  BY <1>11 DEF E!TypeOK, TasksOK, NamesOK, E!Rows, E!ChooseType, E!Leave,
     E!GoTo, E!Touch
<1>12. ASSUME NEW t \in Threads, NEW j \in Tasks, AsksLevy(t, j)
      PROVE  NamesOK'
  BY <1>12 DEF E!TypeOK, TasksOK, NamesOK, E!Rows, AsksLevy, SetupBegins,
     E!GoTo, E!tables
<1>13. ASSUME NEW t \in Threads, NEW j \in Tasks, ReadsPrices(t, j)
      PROVE  NamesOK'
  BY <1>13 DEF E!TypeOK, TasksOK, NamesOK, E!Rows, ReadsPrices, E!GoTo,
     E!tables
<1>14. ASSUME NEW t \in Threads, NEW j \in Tasks, ReadsResidents(t, j)
      PROVE  NamesOK'
  BY <1>14 DEF E!TypeOK, TasksOK, NamesOK, E!Rows, ReadsResidents, E!GoTo,
     E!tables
<1>15. ASSUME NEW t \in Threads, E!CreateLevy(t)
      PROVE  NamesOK'
  BY <1>15 DEF E!TypeOK, TasksOK, NamesOK, E!Rows, E!CreateLevy, E!Leave,
     E!GoTo, E!Touch
<1>16. ASSUME NEW t \in Threads, NEW j \in Tasks, AsksUpdate(t, j)
      PROVE  NamesOK'
  BY <1>16 DEF E!TypeOK, TasksOK, NamesOK, E!Rows, AsksUpdate, SetupBegins,
     E!GoTo, E!tables
<1>17. ASSUME NEW t \in Threads, E!UpdateLevy(t)
      PROVE  NamesOK'
  BY <1>17 DEF E!TypeOK, TasksOK, NamesOK, E!Rows, E!UpdateLevy, E!Leave,
     E!GoTo, E!Touch
<1>18. ASSUME NEW t \in Threads, E!Fail(t)
      PROVE  NamesOK'
  BY <1>18 DEF E!TypeOK, TasksOK, NamesOK, E!Rows, E!Fail, E!Leave, E!GoTo,
     E!tables
<1>19. QED
  BY <1>1, <1>2, <1>3, <1>4, <1>5, <1>6, <1>7, <1>8, <1>9, <1>10, <1>11,
     <1>12, <1>13, <1>14, <1>15, <1>16, <1>17, <1>18 DEF SetupStep,
     SetupAskStep, LevyStep, WriteStep

(* Names of types differ by more than case.                                *)
LEMMA DifferStep ==
    ASSUME E!TypeOK, TasksOK, NamesOK, E!NamesDiffer, SetupStep
    PROVE  E!NamesDiffer'
<1>1. ASSUME E!UpdateSettings
      PROVE  E!NamesDiffer'
  BY <1>1 DEF E!TypeOK, E!NamesDiffer, E!Rows, E!UpdateSettings
<1>2. ASSUME NEW x \in Types, E!SwitchType(x)
      PROVE  E!NamesDiffer'
  BY <1>2 DEF E!TypeOK, E!NamesDiffer, E!Rows, E!SwitchType
<1>3. ASSUME NEW t \in Threads, NEW j \in Tasks, AsksCreate(t, j)
      PROVE  E!NamesDiffer'
  BY <1>3 DEF E!TypeOK, E!NamesDiffer, E!Rows, AsksCreate, SetupBegins,
     E!GoTo, E!tables
<1>4. ASSUME NEW t \in Threads, E!CreateType(t)
      PROVE  E!NamesDiffer'
  BY <1>4 DEF E!TypeOK, E!NamesDiffer, E!Rows, NamesOK, TasksOK, E!CreateType,
     E!Leave, E!GoTo, E!Touch
<1>5. ASSUME NEW t \in Threads, NEW j \in Tasks, AsksRename(t, j)
      PROVE  E!NamesDiffer'
  BY <1>5 DEF E!TypeOK, E!NamesDiffer, E!Rows, AsksRename, SetupBegins,
     E!GoTo, E!tables
<1>6. ASSUME NEW t \in Threads, E!RenameType(t)
      PROVE  E!NamesDiffer'
  BY <1>6 DEF E!TypeOK, E!NamesDiffer, E!Rows, NamesOK, TasksOK, E!RenameType,
     E!Leave, E!GoTo, E!Touch
<1>7. ASSUME NEW t \in Threads, NEW j \in Tasks, AsksDelete(t, j)
      PROVE  E!NamesDiffer'
  BY <1>7 DEF E!TypeOK, E!NamesDiffer, E!Rows, AsksDelete, SetupBegins,
     E!GoTo, E!tables
<1>8. ASSUME NEW t \in Threads, E!RetireType(t)
      PROVE  E!NamesDiffer'
  BY <1>8 DEF E!TypeOK, E!NamesDiffer, E!Rows, E!RetireType, E!Leave, E!GoTo,
     E!Touch
<1>9. ASSUME NEW t \in Threads, E!EraseType(t)
      PROVE  E!NamesDiffer'
  BY <1>9 DEF E!TypeOK, E!NamesDiffer, E!Rows, E!EraseType, E!Leave, E!GoTo,
     E!Touch
<1>10. ASSUME NEW t \in Threads, NEW j \in Tasks, AsksHome(t, j)
      PROVE  E!NamesDiffer'
  BY <1>10 DEF E!TypeOK, E!NamesDiffer, E!Rows, AsksHome, SetupBegins, E!GoTo,
     E!tables
<1>11. ASSUME NEW t \in Threads, E!ChooseType(t)
      PROVE  E!NamesDiffer'
  BY <1>11 DEF E!TypeOK, E!NamesDiffer, E!Rows, E!ChooseType, E!Leave, E!GoTo,
     E!Touch
<1>12. ASSUME NEW t \in Threads, NEW j \in Tasks, AsksLevy(t, j)
      PROVE  E!NamesDiffer'
  BY <1>12 DEF E!TypeOK, E!NamesDiffer, E!Rows, AsksLevy, SetupBegins, E!GoTo,
     E!tables
<1>13. ASSUME NEW t \in Threads, NEW j \in Tasks, ReadsPrices(t, j)
      PROVE  E!NamesDiffer'
  BY <1>13 DEF E!TypeOK, E!NamesDiffer, E!Rows, ReadsPrices, E!GoTo, E!tables
<1>14. ASSUME NEW t \in Threads, NEW j \in Tasks, ReadsResidents(t, j)
      PROVE  E!NamesDiffer'
  BY <1>14 DEF E!TypeOK, E!NamesDiffer, E!Rows, ReadsResidents, E!GoTo,
     E!tables
<1>15. ASSUME NEW t \in Threads, E!CreateLevy(t)
      PROVE  E!NamesDiffer'
  BY <1>15 DEF E!TypeOK, E!NamesDiffer, E!Rows, E!CreateLevy, E!Leave, E!GoTo,
     E!Touch
<1>16. ASSUME NEW t \in Threads, NEW j \in Tasks, AsksUpdate(t, j)
      PROVE  E!NamesDiffer'
  BY <1>16 DEF E!TypeOK, E!NamesDiffer, E!Rows, AsksUpdate, SetupBegins,
     E!GoTo, E!tables
<1>17. ASSUME NEW t \in Threads, E!UpdateLevy(t)
      PROVE  E!NamesDiffer'
  BY <1>17 DEF E!TypeOK, E!NamesDiffer, E!Rows, E!UpdateLevy, E!Leave, E!GoTo,
     E!Touch
<1>18. ASSUME NEW t \in Threads, E!Fail(t)
      PROVE  E!NamesDiffer'
  BY <1>18 DEF E!TypeOK, E!NamesDiffer, E!Rows, E!Fail, E!Leave, E!GoTo,
     E!tables
<1>19. QED
  BY <1>1, <1>2, <1>3, <1>4, <1>5, <1>6, <1>7, <1>8, <1>9, <1>10, <1>11,
     <1>12, <1>13, <1>14, <1>15, <1>16, <1>17, <1>18 DEF SetupStep,
     SetupAskStep, LevyStep, WriteStep

(* The types of residents are those read, or were touched.                 *)
LEMMA HomesStep ==
    ASSUME E!TypeOK, TasksOK, HomesOK, SetupStep
    PROVE  HomesOK'
<1>1. ASSUME E!UpdateSettings
      PROVE  HomesOK'
  BY <1>1 DEF E!TypeOK, TasksOK, HomesOK, E!UpdateSettings
<1>2. ASSUME NEW x \in Types, E!SwitchType(x)
      PROVE  HomesOK'
  BY <1>2 DEF E!TypeOK, TasksOK, HomesOK, E!SwitchType, E!Rows
<1>3. ASSUME NEW t \in Threads, NEW j \in Tasks, AsksCreate(t, j)
      PROVE  HomesOK'
  BY <1>3 DEF E!TypeOK, TasksOK, HomesOK, AsksCreate, SetupBegins, E!GoTo,
     E!tables
<1>4. ASSUME NEW t \in Threads, E!CreateType(t)
      PROVE  HomesOK'
  BY <1>4 DEF E!TypeOK, TasksOK, HomesOK, E!CreateType, E!Leave, E!GoTo,
     E!Touch
<1>5. ASSUME NEW t \in Threads, NEW j \in Tasks, AsksRename(t, j)
      PROVE  HomesOK'
  BY <1>5 DEF E!TypeOK, TasksOK, HomesOK, AsksRename, SetupBegins, E!GoTo,
     E!tables, E!Rows
<1>6. ASSUME NEW t \in Threads, E!RenameType(t)
      PROVE  HomesOK'
  BY <1>6 DEF E!TypeOK, TasksOK, HomesOK, E!RenameType, E!Leave, E!GoTo,
     E!Touch
<1>7. ASSUME NEW t \in Threads, NEW j \in Tasks, AsksDelete(t, j)
      PROVE  HomesOK'
  BY <1>7 DEF E!TypeOK, TasksOK, HomesOK, AsksDelete, SetupBegins, E!GoTo,
     E!tables, E!Rows
<1>8. ASSUME NEW t \in Threads, E!RetireType(t)
      PROVE  HomesOK'
  BY <1>8 DEF E!TypeOK, TasksOK, HomesOK, E!RetireType, E!Leave, E!GoTo,
     E!Touch
<1>9. ASSUME NEW t \in Threads, E!EraseType(t)
      PROVE  HomesOK'
  BY <1>9 DEF E!TypeOK, TasksOK, HomesOK, E!EraseType, E!Leave, E!GoTo,
     E!Touch
<1>10. ASSUME NEW t \in Threads, NEW j \in Tasks, AsksHome(t, j)
      PROVE  HomesOK'
  BY <1>10 DEF E!TypeOK, TasksOK, HomesOK, AsksHome, SetupBegins, E!GoTo,
     E!tables
<1>11. ASSUME NEW t \in Threads, E!ChooseType(t)
      PROVE  HomesOK'
  BY <1>11 DEF E!TypeOK, TasksOK, HomesOK, E!ChooseType, E!Leave, E!GoTo,
     E!Touch
<1>12. ASSUME NEW t \in Threads, NEW j \in Tasks, AsksLevy(t, j)
      PROVE  HomesOK'
  BY <1>12 DEF E!TypeOK, TasksOK, HomesOK, AsksLevy, SetupBegins, E!GoTo,
     E!tables
<1>13. ASSUME NEW t \in Threads, NEW j \in Tasks, ReadsPrices(t, j)
      PROVE  HomesOK'
  BY <1>13 DEF E!TypeOK, TasksOK, HomesOK, ReadsPrices, E!GoTo, E!tables
<1>14. ASSUME NEW t \in Threads, NEW j \in Tasks, ReadsResidents(t, j)
      PROVE  HomesOK'
  BY <1>14 DEF E!TypeOK, TasksOK, HomesOK, E!Chargeable, ReadsResidents,
     E!GoTo, E!tables
<1>15. ASSUME NEW t \in Threads, E!CreateLevy(t)
      PROVE  HomesOK'
  BY <1>15 DEF E!TypeOK, TasksOK, HomesOK, E!CreateLevy, E!Leave, E!GoTo,
     E!Touch
<1>16. ASSUME NEW t \in Threads, NEW j \in Tasks, AsksUpdate(t, j)
      PROVE  HomesOK'
  BY <1>16 DEF E!TypeOK, TasksOK, HomesOK, AsksUpdate, SetupBegins, E!GoTo,
     E!tables
<1>17. ASSUME NEW t \in Threads, E!UpdateLevy(t)
      PROVE  HomesOK'
  BY <1>17 DEF E!TypeOK, TasksOK, HomesOK, E!UpdateLevy, E!Leave, E!GoTo,
     E!Touch
<1>18. ASSUME NEW t \in Threads, E!Fail(t)
      PROVE  HomesOK'
  BY <1>18 DEF E!TypeOK, TasksOK, HomesOK, E!Fail, E!Leave, E!GoTo, E!tables
<1>19. QED
  BY <1>1, <1>2, <1>3, <1>4, <1>5, <1>6, <1>7, <1>8, <1>9, <1>10, <1>11,
     <1>12, <1>13, <1>14, <1>15, <1>16, <1>17, <1>18 DEF SetupStep,
     SetupAskStep, LevyStep, WriteStep

(* A type in use is not erased.                                            *)
LEMMA KeptStep ==
    ASSUME E!TypeOK, TasksOK, UnusedOK, SetupStep
    PROVE  E!UseIsKept
<1>1. ASSUME NEW x \in Types, E!SwitchType(x)
      PROVE  E!UseIsKept
  BY <1>1 DEF E!TypeOK, E!UseIsKept, E!SwitchType, E!Rows
<1>2. ASSUME NEW t \in Threads, E!CreateType(t)
      PROVE  E!UseIsKept
  BY <1>2 DEF E!TypeOK, E!UseIsKept, E!CreateType, E!Leave, E!GoTo, E!Touch
<1>3. ASSUME NEW t \in Threads, E!RetireType(t)
      PROVE  E!UseIsKept
  BY <1>3 DEF E!TypeOK, E!UseIsKept, E!RetireType, E!Leave, E!GoTo, E!Touch
<1>4. ASSUME NEW t \in Threads, E!EraseType(t)
      PROVE  E!UseIsKept
  BY <1>4 DEF E!TypeOK, E!UseIsKept, UnusedOK, E!EraseType, E!Leave, E!GoTo,
     E!Touch
<1>5. ASSUME \/ E!UpdateSettings
             \/ \E t \in Threads, j \in Tasks : AsksCreate(t, j)
             \/ \E t \in Threads, j \in Tasks : AsksRename(t, j)
             \/ \E t \in Threads : E!RenameType(t)
             \/ \E t \in Threads, j \in Tasks : AsksDelete(t, j)
             \/ \E t \in Threads, j \in Tasks : AsksHome(t, j)
             \/ \E t \in Threads : E!ChooseType(t)
             \/ \E t \in Threads, j \in Tasks : AsksLevy(t, j)
             \/ \E t \in Threads, j \in Tasks : ReadsPrices(t, j)
             \/ \E t \in Threads, j \in Tasks : ReadsResidents(t, j)
             \/ \E t \in Threads : E!CreateLevy(t)
             \/ \E t \in Threads, j \in Tasks : AsksUpdate(t, j)
             \/ \E t \in Threads : E!UpdateLevy(t)
             \/ \E t \in Threads : E!Fail(t)
      PROVE  E!UseIsKept
  BY <1>5 DEF E!TypeOK, E!UseIsKept, E!UpdateSettings, AsksCreate,
     SetupBegins, E!GoTo, E!tables, AsksRename, E!Rows, E!RenameType, E!Leave,
     E!Touch, AsksDelete, AsksHome, E!ChooseType, AsksLevy, ReadsPrices,
     ReadsResidents, E!CreateLevy, AsksUpdate, E!UpdateLevy, E!Fail
<1>6. QED
  BY <1>1, <1>2, <1>3, <1>4, <1>5 DEF SetupStep, SetupAskStep, LevyStep,
     WriteStep

(* Residents are charged the price of their type.                          *)
LEMMA PricesStep ==
    ASSUME E!TypeOK, TasksOK, HomesOK, SetupStep
    PROVE  E!ChargesFollowPrices
<1>1. ASSUME NEW t \in Threads, E!CreateLevy(t)
      PROVE  E!ChargesFollowPrices
  BY <1>1 DEF E!TypeOK, E!ChargesFollowPrices, HomesOK, TasksOK, E!Listed,
     E!AmountFor, E!CreateLevy, E!Leave, E!GoTo, E!Touch
<1>2. ASSUME \/ E!UpdateSettings
             \/ \E x \in Types : E!SwitchType(x)
             \/ \E t \in Threads, j \in Tasks : AsksCreate(t, j)
             \/ \E t \in Threads : E!CreateType(t)
             \/ \E t \in Threads, j \in Tasks : AsksRename(t, j)
             \/ \E t \in Threads : E!RenameType(t)
             \/ \E t \in Threads, j \in Tasks : AsksDelete(t, j)
             \/ \E t \in Threads : E!RetireType(t)
             \/ \E t \in Threads : E!EraseType(t)
             \/ \E t \in Threads, j \in Tasks : AsksHome(t, j)
             \/ \E t \in Threads : E!ChooseType(t)
             \/ \E t \in Threads, j \in Tasks : AsksLevy(t, j)
             \/ \E t \in Threads, j \in Tasks : ReadsPrices(t, j)
             \/ \E t \in Threads, j \in Tasks : ReadsResidents(t, j)
             \/ \E t \in Threads, j \in Tasks : AsksUpdate(t, j)
             \/ \E t \in Threads : E!UpdateLevy(t)
             \/ \E t \in Threads : E!Fail(t)
      PROVE  E!ChargesFollowPrices
  BY <1>2 DEF E!TypeOK, E!ChargesFollowPrices, E!UpdateSettings, E!SwitchType,
     E!Rows, AsksCreate, SetupBegins, E!GoTo, E!tables, E!CreateType, E!Leave,
     E!Touch, AsksRename, E!RenameType, AsksDelete, E!RetireType, E!EraseType,
     AsksHome, E!ChooseType, AsksLevy, ReadsPrices, ReadsResidents,
     AsksUpdate, E!UpdateLevy, E!Fail
<1>3. QED
  BY <1>1, <1>2 DEF SetupStep, SetupAskStep, LevyStep, WriteStep

-----------------------------------------------------------------------------

LEMMA SetupInitIInv == E!Init => SetupIInv
<1> SUFFICES ASSUME E!Init
             PROVE  SetupIInv
  OBVIOUS
<1>1. /\ E!FirstNames \in [Types -> Names]
      /\ \A x, y \in Types : x # y =>
            Lowered[E!FirstNames[x]] # Lowered[E!FirstNames[y]]
  BY DEF E!FirstNames
<1>2. E!TypeOK
  BY <1>1 DEF E!Init, E!TypeOK, E!NoType, E!PriceLists, E!Steps
<1>3. TasksOK
  BY NoTaskIsTask DEF E!Init, TasksOK
<1>4. E!NamesDiffer
  BY <1>1 DEF E!Init, E!NamesDiffer, E!Rows
<1>5. UnusedOK /\ NamesOK /\ HomesOK
  BY DEF E!Init, UnusedOK, NamesOK, HomesOK
<1> QED
  BY <1>2, <1>3, <1>4, <1>5 DEF SetupIInv

LEMMA SetupStepIInv == SetupIInv /\ [E!Next]_(E!vars) =>
                    SetupIInv' /\ E!UseIsKept /\ E!ChargesFollowPrices
<1> SUFFICES ASSUME SetupIInv, [E!Next]_(E!vars)
             PROVE  SetupIInv' /\ E!UseIsKept /\ E!ChargesFollowPrices
  OBVIOUS
<1>1. CASE E!Next
  BY <1>1, SetupStepIs, SetupTypeStep, TasksStep, UnusedStep, NamesStep,
     DifferStep, HomesStep, KeptStep, PricesStep DEF SetupIInv
<1>2. CASE UNCHANGED E!vars
  <2>1. /\ UNCHANGED <<concern, type, name, home, applied, price, charge>>
        /\ UNCHANGED <<step, task, stale>>
    BY <1>2 DEF E!vars, E!tables
  <2>2. E!TypeOK' /\ TasksOK' /\ UnusedOK' /\ HomesOK'
    BY <2>1 DEF SetupIInv, E!TypeOK, TasksOK, UnusedOK, HomesOK
  <2>3. NamesOK' /\ E!NamesDiffer'
    BY <2>1 DEF SetupIInv, NamesOK, E!NamesDiffer, E!Rows
  <2>4. E!UseIsKept /\ E!ChargesFollowPrices
    BY <2>1 DEF E!UseIsKept, E!ChargesFollowPrices
  <2> QED
    BY <2>2, <2>3, <2>4 DEF SetupIInv
<1> QED
  BY <1>1, <1>2

HIDE SetupAssumption

-----------------------------------------------------------------------------
(* Passwords and PINs: the inductive invariant. *)

Row == [user : Users \cup {None}, verified : BOOLEAN, expired : BOOLEAN,
        attempts : Nat]

(* A request keeps the arguments its next step needs; what it has judged   *)
(* of a code or a secret is so when it writes, or the write fails, or      *)
(* another one came first.                                                 *)
JobOK(t) ==
    /\ otpPc[t] \in {"issue", "reset", "change"} => otpJob[t].user \in Users
    /\ otpPc[t] \in {"mail", "count", "expire", "verify", "reset"} =>
           otpJob[t].otp \in C!Otps /\ otpJob[t].otp <= issued
    /\ otpPc[t] = "verify" => otpJob[t].otp \in mailed
    /\ otpPc[t] = "reset" =>
           /\ otpJob[t].otp \in proven \cap mailed
           /\ C!Exists(otpJob[t].otp) =>
                  otp[otpJob[t].otp].user = otpJob[t].user
    /\ otpPc[t] = "change" /\ <<otpJob[t].user, otpJob[t].kind>> \notin raced =>
           otpJob[t].known = secret[otpJob[t].user][otpJob[t].kind]

JobsOK == \A t \in Threads : JobOK(t)

(* A code that was verified was guessed by someone it was mailed to; one   *)
(* that set a password is gone for good.                                   *)
RowsOK == \A o \in C!Otps :
    /\ o > issued => ~C!Exists(o) /\ resets[o] = 0
    /\ otp[o].verified => o \in proven \cap mailed
    /\ resets[o] \in {0, 1}
    /\ resets[o] = 1 => ~C!Exists(o) /\ o \in proven \cap mailed

(* Wrong guesses, with those that are judged and not yet counted, ...      *)
Counting(o) == {t \in Threads : otpPc[t] = "count" /\ otpJob[t].otp = o}

FewTries(o) == otp[o].attempts + Cardinality(Counting(o))
                   < AttemptLimit + Cardinality(Threads)

LoginCountOK == \A o \in C!Otps : FewTries(o)

(* ... and codes that can be used, with those about to be issued.          *)
Issuing(u) == {t \in Threads : otpPc[t] = "issue" /\ otpJob[t].user = u}

FewLive(u) ==
    /\ Cardinality(C!Live(u)) + Cardinality(Issuing(u)) <= Cardinality(Threads)
    /\ u \notin crossed =>
           Cardinality(C!Live(u)) + Cardinality(Issuing(u)) <= 1

LiveOK == \A u \in Users : FewLive(u)

LoginIInv == C!TypeOK /\ JobsOK /\ RowsOK /\ LoginCountOK /\ LiveOK

USE CredentialsAssumption

-----------------------------------------------------------------------------
(* What the proofs know of a step. *)

LoginBegins(t, position, j) ==
    /\ otpPc[t] = "idle"
    /\ j \in C!Jobs
    /\ otpPc' = [otpPc EXCEPT ![t] = position]
    /\ otpJob' = [otpJob EXCEPT ![t] = j]

Marks(o, row) == o \in C!Otps /\ row \in Row /\ otp' = [otp EXCEPT ![o] = row]

AsksForgot(t, j) ==
    /\ j.user \in Users
    /\ LoginBegins(t, "issue", j)
    /\ otp' \in [C!Otps -> Row]
    /\ \A o \in C!Otps :
          /\ otp'[o].user = otp[o].user
          /\ otp'[o].verified = otp[o].verified
          /\ otp'[o].attempts = otp[o].attempts
          /\ otp'[o].expired = (otp[o].expired \/ o \in C!Live(j.user))
    /\ crossed' = IF \E s \in Threads : otpPc[s] = "issue" /\ otpJob[s].user = j.user
                  THEN crossed \cup {j.user} ELSE crossed
    /\ UNCHANGED <<secret, chosen, issued, tokens, mailed, resets, proven,
                   raced>>

Issues(t, j, row) ==
    /\ otpPc[t] = "issue" /\ issued < MaxOtps
    /\ issued' = issued + 1
    /\ Marks(issued + 1, row)
    /\ row.user = otpJob[t].user /\ row.user \in Users
    /\ ~row.verified /\ ~row.expired /\ row.attempts = 0
    /\ j \in C!Jobs /\ j.user = otpJob[t].user /\ j.otp = issued + 1
    /\ otpPc' = [otpPc EXCEPT ![t] = "mail"]
    /\ otpJob' = [otpJob EXCEPT ![t] = j]
    /\ UNCHANGED <<secret, chosen, tokens, mailed, resets, proven, crossed,
                   raced>>

AsksVerify(t, p, j) ==
    /\ j.user \in Users /\ j.otp \in C!Live(j.user)
    /\ p \in {"expire", "verify", "count"}
    /\ p = "verify" => j.otp \in mailed
    /\ p = "count" => otp[j.otp].attempts < AttemptLimit
    /\ LoginBegins(t, p, j)
    /\ UNCHANGED <<secret, chosen, issued, otp, tokens>>
    /\ UNCHANGED <<mailed, resets, proven, crossed, raced>>

Counts(t, row) ==
    LET o == otpJob[t].otp IN
    /\ otpPc[t] = "count" /\ C!Exists(o)
    /\ Marks(o, row)
    /\ row.user = otp[o].user /\ row.verified = otp[o].verified
    /\ row.expired = otp[o].expired /\ row.attempts = otp[o].attempts + 1
    /\ C!Leave(t)
    /\ UNCHANGED <<secret, chosen, issued, tokens>>
    /\ UNCHANGED <<mailed, resets, proven, crossed, raced>>

Expires(t, row) ==
    LET o == otpJob[t].otp IN
    /\ otpPc[t] = "expire" /\ C!Exists(o)
    /\ Marks(o, row)
    /\ row.user = otp[o].user /\ row.verified = otp[o].verified
    /\ row.expired /\ row.attempts = otp[o].attempts
    /\ C!Leave(t)
    /\ UNCHANGED <<secret, chosen, issued, tokens>>
    /\ UNCHANGED <<mailed, resets, proven, crossed, raced>>

Verifies(t, row) ==
    LET o == otpJob[t].otp IN
    /\ otpPc[t] = "verify" /\ C!Exists(o)
    /\ Marks(o, row)
    /\ row.user = otp[o].user /\ row.verified
    /\ row.expired = otp[o].expired /\ row.attempts = otp[o].attempts
    /\ tokens' = tokens \cup {o} /\ proven' = proven \cup {o}
    /\ C!Leave(t)
    /\ UNCHANGED <<secret, chosen, issued, mailed, resets, crossed, raced>>

TimesOut(o, row) ==
    /\ C!Exists(o)
    /\ Marks(o, row)
    /\ row.user = otp[o].user /\ row.verified = otp[o].verified
    /\ row.expired /\ row.attempts = otp[o].attempts
    /\ UNCHANGED <<secret, chosen, issued, tokens, otpPc, otpJob>>
    /\ UNCHANGED <<mailed, resets, proven, crossed, raced>>

AsksReset(t, j) ==
    /\ j.otp \in C!Otps /\ C!Redeemable(j.otp) /\ chosen < MaxSecrets
    /\ j.user = otp[j.otp].user /\ j.user \in Users /\ j.new = chosen + 1
    /\ LoginBegins(t, "reset", j)
    /\ chosen' = chosen + 1
    /\ UNCHANGED <<secret, issued, otp, tokens>>
    /\ UNCHANGED <<mailed, resets, proven, crossed, raced>>

AsksChange(t, j) ==
    /\ j.user \in Users /\ j.kind \in C!Kinds /\ chosen < MaxSecrets
    /\ j.known = secret[j.user][j.kind] /\ j.new = chosen + 1
    /\ LoginBegins(t, "change", j)
    /\ chosen' = chosen + 1
    /\ UNCHANGED <<secret, issued, otp, tokens>>
    /\ UNCHANGED <<mailed, resets, proven, crossed, raced>>

Mails(t) ==
    /\ otpPc[t] = "mail"
    /\ mailed' = mailed \cup {otpJob[t].otp}
    /\ C!Leave(t)
    /\ UNCHANGED <<secret, chosen, issued, otp, tokens>>
    /\ UNCHANGED <<resets, proven, crossed, raced>>

LoginWrites(t, u, k, new) ==
    /\ secret' \in [Users -> [C!Kinds -> C!Secrets]]
    /\ \A v \in Users, i \in C!Kinds :
          <<v, i>> # <<u, k>> => secret'[v][i] = secret[v][i]
    /\ raced \subseteq raced' /\ raced' \subseteq Users \X C!Kinds
    /\ \A s \in Threads \ {t} :
          otpPc[s] = "change" /\ otpJob[s].user = u /\ otpJob[s].kind = k =>
              <<u, k>> \in raced'

Resets(t) ==
    LET o == otpJob[t].otp IN
    /\ otpPc[t] = "reset" /\ C!Exists(o)
    /\ LoginWrites(t, otpJob[t].user, "password", otpJob[t].new)
    /\ Marks(o, C!NoOtp)
    /\ resets' = [resets EXCEPT ![o] = resets[o] + 1]
    /\ C!Leave(t)
    /\ UNCHANGED <<chosen, issued, tokens, mailed, proven, crossed>>

Changes(t) ==
    /\ otpPc[t] = "change"
    /\ LoginWrites(t, otpJob[t].user, otpJob[t].kind, otpJob[t].new)
    /\ C!Leave(t)
    /\ UNCHANGED <<chosen, issued, otp, tokens, mailed, resets, proven, crossed>>

ResetsPin(t, u) ==
    /\ otpPc[t] = "idle" /\ chosen < MaxSecrets
    /\ chosen' = chosen + 1
    /\ LoginWrites(t, u, "pin", chosen + 1)
    /\ UNCHANGED <<issued, otp, tokens, otpPc, otpJob>>
    /\ UNCHANGED <<mailed, resets, proven, crossed>>

LoginFails(t) ==
    /\ C!Leave(t)
    /\ UNCHANGED <<secret, chosen, issued, otp, tokens>>
    /\ UNCHANGED <<mailed, resets, proven, crossed, raced>>

OtpStep(t) ==
    \/ \E j \in C!Jobs : AsksForgot(t, j)
    \/ \E j \in C!Jobs, row \in Row : Issues(t, j, row)
    \/ \E p \in C!Positions, j \in C!Jobs : AsksVerify(t, p, j)
    \/ \E row \in Row : Counts(t, row) \/ Expires(t, row) \/ Verifies(t, row)
    \/ Mails(t)

SecretStep(t) ==
    \/ \E j \in C!Jobs : AsksReset(t, j) \/ AsksChange(t, j)
    \/ Resets(t) \/ Changes(t) \/ LoginFails(t)
    \/ \E u \in Users : ResetsPin(t, u)

LoginStep ==
    \/ \E t \in Threads : OtpStep(t) \/ SecretStep(t)
    \/ \E o \in C!Otps, row \in Row : TimesOut(o, row)

LEMMA NoJobIsJob == C!NoJob \in C!Jobs
  BY DEF C!NoJob, C!Jobs, C!Secrets, C!Kinds

LEMMA NoOtpIsRow ==
    /\ C!NoOtp \in Row /\ C!NoOtp.user = None /\ ~C!NoOtp.verified
    /\ C!NoOtp.attempts = 0
  BY DEF C!NoOtp, Row

(* There are finitely many codes and requests.                             *)
LEMMA LiveIsFinite ==
    ASSUME NEW u
    PROVE  IsFiniteSet(C!Live(u)) /\ IsFiniteSet(Issuing(u))
<1>1. IsFiniteSet(C!Otps)
  BY FS_Interval DEF C!Otps
<1>2. C!Live(u) \subseteq C!Otps /\ Issuing(u) \subseteq Threads
  BY DEF C!Live, Issuing
<1> QED
  BY <1>1, <1>2, FS_Subset

(* The newest of the codes that can be used is one of them.                *)
LEMMA NewestIsLive ==
    ASSUME NEW u, C!Live(u) # {}
    PROVE  C!Newest(u) \in C!Live(u)
<1> DEFINE S == {MaxOtps - o : o \in C!Live(u)}
<1>1. C!Live(u) \subseteq C!Otps
  BY DEF C!Live
<1>2. S \subseteq Nat /\ S # {}
  BY <1>1 DEF C!Otps
<1>3. PICK n \in S : \A m \in S : n <= m
  BY <1>2, LeastNatural
<1>4. PICK o \in C!Live(u) : n = MaxOtps - o
  BY <1>3
<1>5. \A p \in C!Live(u) : o >= p
  BY <1>1, <1>3, <1>4 DEF C!Otps
<1> QED
  BY <1>5 DEF C!Newest, C!Max

(* Fewer requests about a code with no more guesses.                       *)
LEMMA StillFew ==
    ASSUME NEW o \in C!Otps, FewTries(o),
           otp[o].attempts \in Nat, otp'[o].attempts \in Nat,
           Counting(o)' \subseteq Counting(o),
           otp'[o].attempts <= otp[o].attempts
    PROVE  FewTries(o)'
<1>1. IsFiniteSet(Counting(o))
  BY FS_Subset DEF Counting
<1>2. /\ Cardinality(Counting(o)) \in Nat /\ Cardinality(Counting(o)') \in Nat
      /\ Cardinality(Counting(o)') <= Cardinality(Counting(o))
      /\ Cardinality(Threads) \in Nat
  BY <1>1, FS_Subset, FS_CardinalityType
<1> QED
  BY <1>2 DEF FewTries

(* Fewer codes and fewer requests for one.                                 *)
LEMMA StillLive ==
    ASSUME NEW u \in Users, FewLive(u),
           C!Live(u)' \subseteq C!Live(u), Issuing(u)' \subseteq Issuing(u),
           u \in crossed => u \in crossed'
    PROVE  FewLive(u)'
<1>1. IsFiniteSet(C!Live(u)) /\ IsFiniteSet(Issuing(u))
  BY LiveIsFinite
<1>2. /\ Cardinality(C!Live(u)) \in Nat /\ Cardinality(C!Live(u)') \in Nat
      /\ Cardinality(C!Live(u)') <= Cardinality(C!Live(u))
  BY <1>1, FS_Subset, FS_CardinalityType
<1>3. /\ Cardinality(Issuing(u)) \in Nat /\ Cardinality(Issuing(u)') \in Nat
      /\ Cardinality(Issuing(u)') <= Cardinality(Issuing(u))
      /\ Cardinality(Threads) \in Nat
  BY <1>1, FS_Subset, FS_CardinalityType
<1> QED
  BY <1>2, <1>3 DEF FewLive

LEMMA BeginForgotIs ==
    ASSUME C!TypeOK, NEW t \in Threads, NEW u \in Users, C!BeginForgot(t, u)
    PROVE  \E j \in C!Jobs : AsksForgot(t, j)
<1> DEFINE j == [C!NoJob EXCEPT !.user = u]
<1>1. j \in C!Jobs /\ j.user = u
  BY NoJobIsJob DEF C!Jobs
<1> HIDE DEF j
<1>2. LoginBegins(t, "issue", j)
  BY <1>1 DEF C!BeginForgot, C!Start, LoginBegins, j
<1>3. ASSUME NEW o \in C!Otps
      PROVE  /\ otp'[o] \in Row
             /\ otp'[o].user = otp[o].user
             /\ otp'[o].verified = otp[o].verified
             /\ otp'[o].attempts = otp[o].attempts
             /\ otp'[o].expired = (otp[o].expired \/ o \in C!Live(u))
  <2>1. otp[o] \in Row /\ (o \in C!Live(u) => ~otp[o].expired)
    BY DEF C!TypeOK, C!Live, Row
  <2>2. otp'[o] = IF o \in C!Live(u) THEN [otp[o] EXCEPT !.expired = TRUE]
                                   ELSE otp[o]
    BY DEF C!BeginForgot, C!Superseded
  <2> QED
    BY <2>1, <2>2 DEF Row
<1>4. otp' \in [C!Otps -> Row]
  <2>1. otp' = [o \in C!Otps |-> otp'[o]]
    BY DEF C!BeginForgot
  <2> QED
    BY <1>3, <2>1
<1>5. /\ crossed' = IF \E s \in Threads : /\ otpPc[s] = "issue"
                                          /\ otpJob[s].user = j.user
                    THEN crossed \cup {j.user} ELSE crossed
      /\ UNCHANGED <<secret, chosen, issued, tokens, mailed, resets, proven,
                     raced>>
  BY <1>1 DEF C!BeginForgot
<1>6. AsksForgot(t, j)
  BY <1>1, <1>2, <1>3, <1>4, <1>5 DEF AsksForgot
<1> QED
  BY <1>1, <1>6

LEMMA IssueOtpIs ==
    ASSUME C!TypeOK, JobsOK, NEW t \in Threads, C!IssueOtp(t)
    PROVE  \E j \in C!Jobs, row \in Row : Issues(t, j, row)
<1> DEFINE j == [otpJob[t] EXCEPT !.otp = issued + 1]
           row == [C!NoOtp EXCEPT !.user = otpJob[t].user]
<1>1. otpJob[t] \in C!Jobs /\ otpJob[t].user \in Users
  BY DEF C!TypeOK, JobsOK, JobOK, C!IssueOtp
<1>2. issued + 1 \in C!Otps
  BY DEF C!TypeOK, C!IssueOtp, C!Otps
<1>3. j \in C!Jobs /\ j.user = otpJob[t].user /\ j.otp = issued + 1
  BY <1>1, <1>2 DEF C!Jobs
<1>4. /\ row \in Row /\ row.user = otpJob[t].user
      /\ ~row.verified /\ ~row.expired /\ row.attempts = 0
  BY <1>1 DEF Row, C!NoOtp
<1>5. /\ otp' = [otp EXCEPT ![issued + 1] = row]
      /\ otpJob' = [otpJob EXCEPT ![t] = j]
  BY DEF C!IssueOtp, C!TypeOK
<1> HIDE DEF j, row
<1>6. /\ otpPc[t] = "issue" /\ issued < MaxOtps /\ issued' = issued + 1
      /\ otpPc' = [otpPc EXCEPT ![t] = "mail"]
      /\ UNCHANGED <<secret, chosen, tokens>>
      /\ UNCHANGED <<mailed, resets, proven, crossed, raced>>
  BY DEF C!IssueOtp, C!history
<1>7. Issues(t, j, row)
  BY <1>1, <1>2, <1>3, <1>4, <1>5, <1>6 DEF Issues, Marks
<1> QED
  BY <1>3, <1>4, <1>7

LEMMA BeginVerifyIs ==
    ASSUME C!TypeOK, NEW t \in Threads, NEW u \in Users,
           NEW guess \in mailed \cup {0}, C!BeginVerify(t, u, guess)
    PROVE  \E p \in C!Positions, j \in C!Jobs : AsksVerify(t, p, j)
<1> DEFINE o == C!Newest(u)
           j == [C!NoJob EXCEPT !.user = u, !.otp = o]
           p == CASE C!Exhausted(o) -> "expire"
                  [] ~C!Exhausted(o) /\ guess = o -> "verify"
                  [] OTHER -> "count"
<1>1. o \in C!Live(u) /\ o \in C!Otps
  BY NewestIsLive DEF C!BeginVerify, C!Live
<1>2. C!Start(t, p, j) /\ UNCHANGED <<C!rows, C!history>>
  BY DEF C!BeginVerify
<1> HIDE DEF o
<1>3. j \in C!Jobs /\ j.user = u /\ j.otp = o
  BY <1>1, NoJobIsJob DEF C!Jobs
<1>4. /\ p \in {"expire", "verify", "count"} /\ p \in C!Positions
      /\ p = "verify" => o \in mailed
      /\ p = "count" => ~C!Exhausted(o)
  BY <1>1 DEF C!Positions, C!Otps
<1>5. p = "count" => otp[o].attempts < AttemptLimit
  <2>1. otp[o].attempts \in Nat
    BY <1>1 DEF C!TypeOK
  <2> QED
    BY <1>4, <2>1 DEF C!Exhausted
<1> HIDE DEF j, p
<1>6. LoginBegins(t, p, j)
  BY <1>2, <1>3 DEF C!Start, LoginBegins
<1>7. /\ UNCHANGED <<secret, chosen, issued, otp, tokens>>
      /\ UNCHANGED <<mailed, resets, proven, crossed, raced>>
  BY <1>2 DEF C!rows, C!history
<1>8. AsksVerify(t, p, j)
  BY <1>1, <1>3, <1>4, <1>5, <1>6, <1>7 DEF AsksVerify
<1> QED
  BY <1>3, <1>4, <1>8

LEMMA BeginResetIs ==
    ASSUME C!TypeOK, NEW t \in Threads, NEW o \in C!Otps, C!BeginReset(t, o)
    PROVE  \E j \in C!Jobs : AsksReset(t, j)
<1> DEFINE j == [C!NoJob EXCEPT !.user = otp[o].user, !.otp = o,
                              !.new = chosen + 1]
<1>1. otp[o].user \in Users /\ chosen + 1 \in C!Secrets
  BY DEF C!BeginReset, C!Redeemable, C!Exists, C!TypeOK, C!Secrets
<1>2. j \in C!Jobs /\ j.user = otp[o].user /\ j.otp = o /\ j.new = chosen + 1
  BY <1>1, NoJobIsJob DEF C!Jobs
<1> HIDE DEF j
<1>3. LoginBegins(t, "reset", j)
  BY <1>2 DEF C!BeginReset, C!Start, LoginBegins, j
<1>4. AsksReset(t, j)
  BY <1>1, <1>2, <1>3 DEF C!BeginReset, AsksReset, C!history
<1> QED
  BY <1>2, <1>4

LEMMA BeginChangeIs ==
    ASSUME C!TypeOK, NEW t \in Threads, NEW u \in Users, NEW k \in C!Kinds,
           NEW given \in C!Secrets, C!BeginChange(t, u, k, given)
    PROVE  \E j \in C!Jobs : AsksChange(t, j)
<1> DEFINE j == [C!NoJob EXCEPT !.user = u, !.kind = k, !.known = given,
                              !.new = chosen + 1]
<1>1. chosen + 1 \in C!Secrets
  BY DEF C!BeginChange, C!TypeOK, C!Secrets
<1>2. /\ j \in C!Jobs /\ j.user = u /\ j.kind = k /\ j.known = given
      /\ j.new = chosen + 1
  BY <1>1, NoJobIsJob DEF C!Jobs
<1> HIDE DEF j
<1>3. LoginBegins(t, "change", j)
  BY <1>2 DEF C!BeginChange, C!Start, LoginBegins, j
<1>4. AsksChange(t, j)
  BY <1>1, <1>2, <1>3 DEF C!BeginChange, C!Matches, AsksChange, C!history
<1> QED
  BY <1>2, <1>4

LEMMA CountAttemptIs ==
    ASSUME C!TypeOK, JobsOK, NEW t \in Threads, C!CountAttempt(t)
    PROVE  \E row \in Row : Counts(t, row)
<1> DEFINE o == otpJob[t].otp
           row == [otp[o] EXCEPT !.attempts = otp[o].attempts + 1]
<1>1. o \in C!Otps /\ otp[o] \in Row /\ otpPc[t] = "count" /\ C!Exists(o)
  BY DEF C!TypeOK, JobsOK, JobOK, Row, C!CountAttempt
<1>2. otp' = [otp EXCEPT ![o] = row]
  BY <1>1 DEF C!CountAttempt, C!TypeOK
<1>3. /\ C!Leave(t)
      /\ UNCHANGED <<secret, chosen, issued, tokens>>
      /\ UNCHANGED <<mailed, resets, proven, crossed, raced>>
  BY DEF C!CountAttempt, C!history
<1> HIDE DEF o
<1>4. /\ row \in Row /\ row.attempts = (otp[o].attempts + 1)
      /\ row.user = otp[o].user
      /\ row.verified = otp[o].verified
      /\ row.expired = otp[o].expired
  BY <1>1 DEF Row
<1> HIDE DEF row
<1>5. Counts(t, row)
  BY <1>1, <1>2, <1>3, <1>4 DEF Counts, Marks, o
<1> QED
  BY <1>4, <1>5

LEMMA ExpireOtpIs ==
    ASSUME C!TypeOK, JobsOK, NEW t \in Threads, C!ExpireOtp(t)
    PROVE  \E row \in Row : Expires(t, row)
<1> DEFINE o == otpJob[t].otp
           row == [otp[o] EXCEPT !.expired = TRUE]
<1>1. o \in C!Otps /\ otp[o] \in Row /\ otpPc[t] = "expire" /\ C!Exists(o)
  BY DEF C!TypeOK, JobsOK, JobOK, Row, C!ExpireOtp
<1>2. otp' = [otp EXCEPT ![o] = row]
  BY <1>1 DEF C!ExpireOtp, C!TypeOK
<1>3. /\ C!Leave(t)
      /\ UNCHANGED <<secret, chosen, issued, tokens>>
      /\ UNCHANGED <<mailed, resets, proven, crossed, raced>>
  BY DEF C!ExpireOtp, C!history
<1> HIDE DEF o
<1>4. /\ row \in Row /\ row.expired = TRUE
      /\ row.user = otp[o].user
      /\ row.verified = otp[o].verified
      /\ row.attempts = otp[o].attempts
  BY <1>1 DEF Row
<1> HIDE DEF row
<1>5. Expires(t, row)
  BY <1>1, <1>2, <1>3, <1>4 DEF Expires, Marks, o
<1> QED
  BY <1>4, <1>5

LEMMA VerifyOtpIs ==
    ASSUME C!TypeOK, JobsOK, NEW t \in Threads, C!VerifyOtp(t)
    PROVE  \E row \in Row : Verifies(t, row)
<1> DEFINE o == otpJob[t].otp
           row == [otp[o] EXCEPT !.verified = TRUE]
<1>1. o \in C!Otps /\ otp[o] \in Row /\ otpPc[t] = "verify" /\ C!Exists(o)
  BY DEF C!TypeOK, JobsOK, JobOK, Row, C!VerifyOtp
<1>2. otp' = [otp EXCEPT ![o] = row]
  BY <1>1 DEF C!VerifyOtp, C!TypeOK
<1>3. /\ C!Leave(t)
      /\ tokens' = tokens \cup {o} /\ proven' = proven \cup {o}
      /\ UNCHANGED <<secret, chosen, issued>>
      /\ UNCHANGED <<mailed, resets, crossed, raced>>
  BY DEF C!VerifyOtp, C!history
<1> HIDE DEF o
<1>4. /\ row \in Row /\ row.verified = TRUE
      /\ row.user = otp[o].user
      /\ row.expired = otp[o].expired
      /\ row.attempts = otp[o].attempts
  BY <1>1 DEF Row
<1> HIDE DEF row
<1>5. Verifies(t, row)
  BY <1>1, <1>2, <1>3, <1>4 DEF Verifies, Marks, o
<1> QED
  BY <1>4, <1>5

LEMMA OtpExpiresIs ==
    ASSUME C!TypeOK, NEW o \in C!Otps, C!OtpExpires(o)
    PROVE  \E row \in Row : TimesOut(o, row)
<1> DEFINE row == [otp[o] EXCEPT !.expired = TRUE]
<1>1. otp[o] \in Row /\ C!Exists(o)
  BY DEF C!TypeOK, Row, C!OtpExpires
<1>2. otp' = [otp EXCEPT ![o] = row]
  BY <1>1 DEF C!OtpExpires, C!TypeOK
<1>3. /\ row \in Row /\ row.expired = TRUE
      /\ row.user = otp[o].user
      /\ row.verified = otp[o].verified
      /\ row.attempts = otp[o].attempts
  BY <1>1 DEF Row
<1> HIDE DEF row
<1>4. TimesOut(o, row)
  BY <1>1, <1>2, <1>3 DEF C!OtpExpires, TimesOut, Marks, C!request, C!history
<1> QED
  BY <1>3, <1>4

(* Setting a secret writes it and notes who had judged it.                 *)
LEMMA SetSecretIs ==
    ASSUME C!TypeOK, NEW t \in Threads, NEW u \in Users, NEW k \in C!Kinds,
           NEW new \in C!Secrets, C!SetSecret(t, u, k, new)
    PROVE  LoginWrites(t, u, k, new)
<1>1. secret' = [secret EXCEPT ![u] = [secret[u] EXCEPT ![k] = new]]
  BY DEF C!SetSecret, C!TypeOK
<1>2. [secret[u] EXCEPT ![k] = new] \in [C!Kinds -> C!Secrets]
  BY DEF C!TypeOK
<1>3. secret' \in [Users -> [C!Kinds -> C!Secrets]]
  BY <1>1, <1>2 DEF C!TypeOK
<1>4. ASSUME NEW v \in Users, NEW i \in C!Kinds, <<v, i>> # <<u, k>>
      PROVE  secret'[v][i] = secret[v][i]
  BY <1>1, <1>4 DEF C!TypeOK
<1>5. /\ raced \subseteq raced' /\ raced' \subseteq Users \X C!Kinds
      /\ \A s \in Threads \ {t} :
            otpPc[s] = "change" /\ otpJob[s].user = u /\ otpJob[s].kind = k =>
                <<u, k>> \in raced'
  BY DEF C!SetSecret, C!TypeOK
<1> QED
  BY <1>3, <1>4, <1>5 DEF LoginWrites

LEMMA CommitResetIs ==
    ASSUME C!TypeOK, JobsOK, NEW t \in Threads, C!CommitReset(t)
    PROVE  Resets(t)
<1>1. /\ otpPc[t] = "reset" /\ C!Exists(otpJob[t].otp)
      /\ otpJob[t].otp \in C!Otps /\ otpJob[t].user \in Users
      /\ otpJob[t].new \in C!Secrets /\ "password" \in C!Kinds
  BY  DEF C!CommitReset, C!Consumable, C!TypeOK, JobsOK, JobOK, C!Jobs,
     C!Kinds
<1>2. LoginWrites(t, otpJob[t].user, "password", otpJob[t].new)
  BY <1>1, SetSecretIs DEF C!CommitReset
<1>3. Marks(otpJob[t].otp, C!NoOtp)
  BY <1>1, NoOtpIsRow DEF C!CommitReset, Marks
<1>4. resets' = [resets EXCEPT ![otpJob[t].otp] = resets[otpJob[t].otp] + 1]
  BY DEF C!CommitReset
<1> QED
  BY <1>1, <1>2, <1>3, <1>4 DEF C!CommitReset, Resets

LEMMA CommitChangeIs ==
    ASSUME C!TypeOK, JobsOK, NEW t \in Threads, C!CommitChange(t)
    PROVE  Changes(t)
<1>1. /\ otpPc[t] = "change" /\ otpJob[t].user \in Users
      /\ otpJob[t].new \in C!Secrets /\ otpJob[t].kind \in C!Kinds
  BY DEF C!CommitChange, C!TypeOK, JobsOK, JobOK, C!Jobs
<1>2. LoginWrites(t, otpJob[t].user, otpJob[t].kind, otpJob[t].new)
  BY <1>1, SetSecretIs DEF C!CommitChange
<1> QED
  BY <1>1, <1>2 DEF C!CommitChange, Changes

LEMMA ResetPinIs ==
    ASSUME C!TypeOK, NEW t \in Threads, NEW u \in Users, C!ResetPin(t, u)
    PROVE  ResetsPin(t, u)
<1>1. chosen' = chosen + 1 /\ chosen + 1 \in C!Secrets /\ "pin" \in C!Kinds
  BY DEF C!ResetPin, C!TypeOK, C!Secrets, C!Kinds
<1>2. LoginWrites(t, u, "pin", chosen + 1)
  BY <1>1, SetSecretIs DEF C!ResetPin
<1> QED
  BY <1>1, <1>2 DEF C!ResetPin, ResetsPin, C!request

(* Every step is one of these. *)
LEMMA LoginStepIs ==
    ASSUME C!TypeOK, JobsOK, C!Next
    PROVE  LoginStep
<1>1. ASSUME NEW t \in Threads, C!MailOtp(t) \/ C!Fail(t)
      PROVE  LoginStep
  <2>1. Mails(t) \/ LoginFails(t)
    BY <1>1 DEF C!MailOtp, C!Fail, Mails, LoginFails, C!rows, C!history
  <2> QED
    BY <2>1 DEF LoginStep, OtpStep, SecretStep
<1>2. ASSUME NEW t \in Threads, NEW u \in Users, C!BeginForgot(t, u)
      PROVE  LoginStep
  BY <1>2, BeginForgotIs DEF LoginStep, OtpStep
<1>3. ASSUME NEW t \in Threads, NEW u \in Users,
             NEW guess \in mailed \cup {0}, C!BeginVerify(t, u, guess)
      PROVE  LoginStep
  BY <1>3, BeginVerifyIs DEF LoginStep, OtpStep
<1>4. ASSUME NEW t \in Threads, NEW u \in Users, NEW given \in C!Secrets,
             C!BeginChangePassword(t, u, given) \/ C!BeginChangePin(t, u, given)
      PROVE  LoginStep
  <2>1. "password" \in C!Kinds /\ "pin" \in C!Kinds
    BY DEF C!Kinds
  <2> QED
    BY <1>4, <2>1, BeginChangeIs
    DEF C!BeginChangePassword, C!BeginChangePin, LoginStep, SecretStep
<1>5. ASSUME NEW t \in Threads, NEW o \in C!Otps, C!BeginReset(t, o)
      PROVE  LoginStep
  BY <1>5, BeginResetIs DEF LoginStep, SecretStep
<1>6. ASSUME NEW t \in Threads, C!IssueOtp(t)
      PROVE  LoginStep
  BY <1>6, IssueOtpIs DEF LoginStep, OtpStep
<1>7. ASSUME NEW t \in Threads,
             C!CountAttempt(t) \/ C!ExpireOtp(t) \/ C!VerifyOtp(t)
      PROVE  LoginStep
  BY <1>7, CountAttemptIs, ExpireOtpIs, VerifyOtpIs DEF LoginStep, OtpStep
<1>8. ASSUME NEW t \in Threads, C!CommitReset(t) \/ C!CommitChange(t)
      PROVE  LoginStep
  BY <1>8, CommitResetIs, CommitChangeIs DEF LoginStep, SecretStep
<1>9. ASSUME NEW t \in Threads, NEW u \in Users, C!ResetPin(t, u)
      PROVE  LoginStep
  BY <1>9, ResetPinIs DEF LoginStep, SecretStep
<1>10. ASSUME NEW o \in C!Otps, C!OtpExpires(o)
       PROVE  LoginStep
  BY <1>10, OtpExpiresIs DEF LoginStep
<1> QED
  BY <1>1, <1>2, <1>3, <1>4, <1>5, <1>6, <1>7, <1>8, <1>9, <1>10 DEF C!Next

-----------------------------------------------------------------------------
(* Every step preserves each part of it. *)

(* Every request writes what the types allow.                              *)
LEMMA LoginTypeStep ==
    ASSUME C!TypeOK, JobsOK, LoginStep
    PROVE  C!TypeOK'
<1>1. ASSUME NEW t \in Threads, NEW j \in C!Jobs,
             AsksForgot(t, j)
      PROVE  C!TypeOK'
  <2>1. /\ otpPc' \in [Threads -> C!Positions]
        /\ otpJob' \in [Threads -> C!Jobs]
    BY <1>1, NoJobIsJob, NoOtpIsRow DEF C!TypeOK, C!Positions, AsksForgot,
       LoginBegins
  <2>2. otp' \in [C!Otps -> Row] /\ resets' \in [C!Otps -> Nat]
    BY <1>1, NoJobIsJob, NoOtpIsRow DEF C!TypeOK, AsksForgot, LoginBegins
  <2>3. /\ secret' \in [Users -> [C!Kinds -> C!Secrets]]
        /\ chosen' \in C!Secrets /\ issued' \in 0..MaxOtps
        /\ tokens' \subseteq C!Otps /\ mailed' \subseteq C!Otps
        /\ proven' \subseteq C!Otps /\ crossed' \subseteq Users
        /\ raced' \subseteq Users \X C!Kinds
    BY <1>1 DEF C!TypeOK, JobsOK, JobOK, C!Secrets, AsksForgot, LoginBegins
  <2> QED
    BY <2>1, <2>2, <2>3 DEF C!TypeOK, Row
<1>2. ASSUME NEW t \in Threads, NEW j \in C!Jobs, NEW row \in Row,
             Issues(t, j, row)
      PROVE  C!TypeOK'
  <2>1. /\ otpPc' \in [Threads -> C!Positions]
        /\ otpJob' \in [Threads -> C!Jobs]
    BY <1>2, NoJobIsJob, NoOtpIsRow DEF C!TypeOK, C!Positions, Issues, Marks
  <2>2. otp' \in [C!Otps -> Row] /\ resets' \in [C!Otps -> Nat]
    BY <1>2, NoJobIsJob, NoOtpIsRow DEF C!TypeOK, Row, Issues, Marks
  <2>3. /\ secret' \in [Users -> [C!Kinds -> C!Secrets]]
        /\ chosen' \in C!Secrets /\ issued' \in 0..MaxOtps
        /\ tokens' \subseteq C!Otps /\ mailed' \subseteq C!Otps
        /\ proven' \subseteq C!Otps /\ crossed' \subseteq Users
        /\ raced' \subseteq Users \X C!Kinds
    BY <1>2 DEF C!TypeOK, JobsOK, JobOK, C!Secrets, Issues, Marks
  <2> QED
    BY <2>1, <2>2, <2>3 DEF C!TypeOK, Row
<1>3. ASSUME NEW t \in Threads,
             Mails(t)
      PROVE  C!TypeOK'
  <2>1. /\ otpPc' \in [Threads -> C!Positions]
        /\ otpJob' \in [Threads -> C!Jobs]
    BY <1>3, NoJobIsJob, NoOtpIsRow DEF C!TypeOK, C!Positions, Mails, C!Leave
  <2>2. otp' \in [C!Otps -> Row] /\ resets' \in [C!Otps -> Nat]
    BY <1>3, NoJobIsJob, NoOtpIsRow DEF C!TypeOK, Row, Mails, C!Leave
  <2>3. /\ secret' \in [Users -> [C!Kinds -> C!Secrets]]
        /\ chosen' \in C!Secrets /\ issued' \in 0..MaxOtps
        /\ tokens' \subseteq C!Otps /\ mailed' \subseteq C!Otps
        /\ proven' \subseteq C!Otps /\ crossed' \subseteq Users
        /\ raced' \subseteq Users \X C!Kinds
    BY <1>3 DEF C!TypeOK, JobsOK, JobOK, C!Secrets, Mails, C!Leave
  <2> QED
    BY <2>1, <2>2, <2>3 DEF C!TypeOK, Row
<1>4. ASSUME NEW t \in Threads, NEW p \in C!Positions,
             NEW j \in C!Jobs,
             AsksVerify(t, p, j)
      PROVE  C!TypeOK'
  <2>1. /\ otpPc' \in [Threads -> C!Positions]
        /\ otpJob' \in [Threads -> C!Jobs]
    BY <1>4, NoJobIsJob, NoOtpIsRow DEF C!TypeOK, C!Positions, AsksVerify,
       LoginBegins
  <2>2. otp' \in [C!Otps -> Row] /\ resets' \in [C!Otps -> Nat]
    BY <1>4, NoJobIsJob, NoOtpIsRow DEF C!TypeOK, Row, AsksVerify, LoginBegins
  <2>3. /\ secret' \in [Users -> [C!Kinds -> C!Secrets]]
        /\ chosen' \in C!Secrets /\ issued' \in 0..MaxOtps
        /\ tokens' \subseteq C!Otps /\ mailed' \subseteq C!Otps
        /\ proven' \subseteq C!Otps /\ crossed' \subseteq Users
        /\ raced' \subseteq Users \X C!Kinds
    BY <1>4 DEF C!TypeOK, JobsOK, JobOK, C!Secrets, AsksVerify, LoginBegins
  <2> QED
    BY <2>1, <2>2, <2>3 DEF C!TypeOK, Row
<1>5. ASSUME NEW t \in Threads, NEW row \in Row,
             Counts(t, row)
      PROVE  C!TypeOK'
  <2>1. /\ otpPc' \in [Threads -> C!Positions]
        /\ otpJob' \in [Threads -> C!Jobs]
    BY <1>5, NoJobIsJob, NoOtpIsRow DEF C!TypeOK, C!Positions, Counts, Marks,
       C!Leave
  <2>2. otp' \in [C!Otps -> Row] /\ resets' \in [C!Otps -> Nat]
    BY <1>5, NoJobIsJob, NoOtpIsRow DEF C!TypeOK, Row, Counts, Marks, C!Leave
  <2>3. /\ secret' \in [Users -> [C!Kinds -> C!Secrets]]
        /\ chosen' \in C!Secrets /\ issued' \in 0..MaxOtps
        /\ tokens' \subseteq C!Otps /\ mailed' \subseteq C!Otps
        /\ proven' \subseteq C!Otps /\ crossed' \subseteq Users
        /\ raced' \subseteq Users \X C!Kinds
    BY <1>5 DEF C!TypeOK, JobsOK, JobOK, C!Secrets, Counts, Marks, C!Leave
  <2> QED
    BY <2>1, <2>2, <2>3 DEF C!TypeOK, Row
<1>6. ASSUME NEW t \in Threads, NEW row \in Row,
             Expires(t, row)
      PROVE  C!TypeOK'
  <2>1. /\ otpPc' \in [Threads -> C!Positions]
        /\ otpJob' \in [Threads -> C!Jobs]
    BY <1>6, NoJobIsJob, NoOtpIsRow DEF C!TypeOK, C!Positions, Expires, Marks,
       C!Leave
  <2>2. otp' \in [C!Otps -> Row] /\ resets' \in [C!Otps -> Nat]
    BY <1>6, NoJobIsJob, NoOtpIsRow DEF C!TypeOK, Row, Expires, Marks, C!Leave
  <2>3. /\ secret' \in [Users -> [C!Kinds -> C!Secrets]]
        /\ chosen' \in C!Secrets /\ issued' \in 0..MaxOtps
        /\ tokens' \subseteq C!Otps /\ mailed' \subseteq C!Otps
        /\ proven' \subseteq C!Otps /\ crossed' \subseteq Users
        /\ raced' \subseteq Users \X C!Kinds
    BY <1>6 DEF C!TypeOK, JobsOK, JobOK, C!Secrets, Expires, Marks, C!Leave
  <2> QED
    BY <2>1, <2>2, <2>3 DEF C!TypeOK, Row
<1>7. ASSUME NEW t \in Threads, NEW row \in Row,
             Verifies(t, row)
      PROVE  C!TypeOK'
  <2>1. /\ otpPc' \in [Threads -> C!Positions]
        /\ otpJob' \in [Threads -> C!Jobs]
    BY <1>7, NoJobIsJob, NoOtpIsRow DEF C!TypeOK, C!Positions, Verifies,
       Marks, C!Leave
  <2>2. otp' \in [C!Otps -> Row] /\ resets' \in [C!Otps -> Nat]
    BY <1>7, NoJobIsJob, NoOtpIsRow DEF C!TypeOK, Row, Verifies, Marks,
       C!Leave
  <2>3. /\ secret' \in [Users -> [C!Kinds -> C!Secrets]]
        /\ chosen' \in C!Secrets /\ issued' \in 0..MaxOtps
        /\ tokens' \subseteq C!Otps /\ mailed' \subseteq C!Otps
        /\ proven' \subseteq C!Otps /\ crossed' \subseteq Users
        /\ raced' \subseteq Users \X C!Kinds
    BY <1>7 DEF C!TypeOK, JobsOK, JobOK, C!Secrets, Verifies, Marks, C!Leave
  <2> QED
    BY <2>1, <2>2, <2>3 DEF C!TypeOK, Row
<1>8. ASSUME NEW t \in Threads, NEW j \in C!Jobs,
             AsksReset(t, j)
      PROVE  C!TypeOK'
  <2>1. /\ otpPc' \in [Threads -> C!Positions]
        /\ otpJob' \in [Threads -> C!Jobs]
    BY <1>8, NoJobIsJob, NoOtpIsRow DEF C!TypeOK, C!Positions, AsksReset,
       LoginBegins
  <2>2. otp' \in [C!Otps -> Row] /\ resets' \in [C!Otps -> Nat]
    BY <1>8, NoJobIsJob, NoOtpIsRow DEF C!TypeOK, Row, AsksReset, LoginBegins
  <2>3. /\ secret' \in [Users -> [C!Kinds -> C!Secrets]]
        /\ chosen' \in C!Secrets /\ issued' \in 0..MaxOtps
        /\ tokens' \subseteq C!Otps /\ mailed' \subseteq C!Otps
        /\ proven' \subseteq C!Otps /\ crossed' \subseteq Users
        /\ raced' \subseteq Users \X C!Kinds
    BY <1>8 DEF C!TypeOK, JobsOK, JobOK, C!Secrets, AsksReset, LoginBegins
  <2> QED
    BY <2>1, <2>2, <2>3 DEF C!TypeOK, Row
<1>9. ASSUME NEW t \in Threads,
             Resets(t)
      PROVE  C!TypeOK'
  <2>1. /\ otpPc' \in [Threads -> C!Positions]
        /\ otpJob' \in [Threads -> C!Jobs]
    BY <1>9, NoJobIsJob, NoOtpIsRow DEF C!TypeOK, C!Positions, Resets, Marks,
       C!Leave, LoginWrites
  <2>2. otp' \in [C!Otps -> Row] /\ resets' \in [C!Otps -> Nat]
    BY <1>9, NoJobIsJob, NoOtpIsRow DEF C!TypeOK, Row, Resets, Marks, C!Leave,
       LoginWrites
  <2>3. /\ secret' \in [Users -> [C!Kinds -> C!Secrets]]
        /\ chosen' \in C!Secrets /\ issued' \in 0..MaxOtps
        /\ tokens' \subseteq C!Otps /\ mailed' \subseteq C!Otps
        /\ proven' \subseteq C!Otps /\ crossed' \subseteq Users
        /\ raced' \subseteq Users \X C!Kinds
    BY <1>9 DEF C!TypeOK, JobsOK, JobOK, C!Secrets, Resets, Marks, C!Leave,
       LoginWrites
  <2> QED
    BY <2>1, <2>2, <2>3 DEF C!TypeOK, Row
<1>10. ASSUME NEW t \in Threads, NEW j \in C!Jobs,
             AsksChange(t, j)
      PROVE  C!TypeOK'
  <2>1. /\ otpPc' \in [Threads -> C!Positions]
        /\ otpJob' \in [Threads -> C!Jobs]
    BY <1>10, NoJobIsJob, NoOtpIsRow DEF C!TypeOK, C!Positions, AsksChange,
       LoginBegins
  <2>2. otp' \in [C!Otps -> Row] /\ resets' \in [C!Otps -> Nat]
    BY <1>10, NoJobIsJob, NoOtpIsRow DEF C!TypeOK, Row, AsksChange,
       LoginBegins
  <2>3. /\ secret' \in [Users -> [C!Kinds -> C!Secrets]]
        /\ chosen' \in C!Secrets /\ issued' \in 0..MaxOtps
        /\ tokens' \subseteq C!Otps /\ mailed' \subseteq C!Otps
        /\ proven' \subseteq C!Otps /\ crossed' \subseteq Users
        /\ raced' \subseteq Users \X C!Kinds
    BY <1>10 DEF C!TypeOK, JobsOK, JobOK, C!Secrets, AsksChange, LoginBegins
  <2> QED
    BY <2>1, <2>2, <2>3 DEF C!TypeOK, Row
<1>11. ASSUME NEW t \in Threads,
             Changes(t)
      PROVE  C!TypeOK'
  <2>1. /\ otpPc' \in [Threads -> C!Positions]
        /\ otpJob' \in [Threads -> C!Jobs]
    BY <1>11, NoJobIsJob, NoOtpIsRow DEF C!TypeOK, C!Positions, Changes,
       C!Leave, LoginWrites
  <2>2. otp' \in [C!Otps -> Row] /\ resets' \in [C!Otps -> Nat]
    BY <1>11, NoJobIsJob, NoOtpIsRow DEF C!TypeOK, Row, Changes, C!Leave,
       LoginWrites
  <2>3. /\ secret' \in [Users -> [C!Kinds -> C!Secrets]]
        /\ chosen' \in C!Secrets /\ issued' \in 0..MaxOtps
        /\ tokens' \subseteq C!Otps /\ mailed' \subseteq C!Otps
        /\ proven' \subseteq C!Otps /\ crossed' \subseteq Users
        /\ raced' \subseteq Users \X C!Kinds
    BY <1>11 DEF C!TypeOK, JobsOK, JobOK, C!Secrets, Changes, C!Leave,
       LoginWrites
  <2> QED
    BY <2>1, <2>2, <2>3 DEF C!TypeOK, Row
<1>12. ASSUME NEW t \in Threads, NEW u \in Users,
             ResetsPin(t, u)
      PROVE  C!TypeOK'
  <2>1. /\ otpPc' \in [Threads -> C!Positions]
        /\ otpJob' \in [Threads -> C!Jobs]
    BY <1>12, NoJobIsJob, NoOtpIsRow DEF C!TypeOK, C!Positions, ResetsPin,
       LoginWrites
  <2>2. otp' \in [C!Otps -> Row] /\ resets' \in [C!Otps -> Nat]
    BY <1>12, NoJobIsJob, NoOtpIsRow DEF C!TypeOK, Row, ResetsPin, LoginWrites
  <2>3. /\ secret' \in [Users -> [C!Kinds -> C!Secrets]]
        /\ chosen' \in C!Secrets /\ issued' \in 0..MaxOtps
        /\ tokens' \subseteq C!Otps /\ mailed' \subseteq C!Otps
        /\ proven' \subseteq C!Otps /\ crossed' \subseteq Users
        /\ raced' \subseteq Users \X C!Kinds
    BY <1>12 DEF C!TypeOK, JobsOK, JobOK, C!Secrets, ResetsPin, LoginWrites
  <2> QED
    BY <2>1, <2>2, <2>3 DEF C!TypeOK, Row
<1>13. ASSUME NEW t \in Threads,
             LoginFails(t)
      PROVE  C!TypeOK'
  <2>1. /\ otpPc' \in [Threads -> C!Positions]
        /\ otpJob' \in [Threads -> C!Jobs]
    BY <1>13, NoJobIsJob, NoOtpIsRow DEF C!TypeOK, C!Positions, LoginFails,
       C!Leave
  <2>2. otp' \in [C!Otps -> Row] /\ resets' \in [C!Otps -> Nat]
    BY <1>13, NoJobIsJob, NoOtpIsRow DEF C!TypeOK, Row, LoginFails, C!Leave
  <2>3. /\ secret' \in [Users -> [C!Kinds -> C!Secrets]]
        /\ chosen' \in C!Secrets /\ issued' \in 0..MaxOtps
        /\ tokens' \subseteq C!Otps /\ mailed' \subseteq C!Otps
        /\ proven' \subseteq C!Otps /\ crossed' \subseteq Users
        /\ raced' \subseteq Users \X C!Kinds
    BY <1>13 DEF C!TypeOK, JobsOK, JobOK, C!Secrets, LoginFails, C!Leave
  <2> QED
    BY <2>1, <2>2, <2>3 DEF C!TypeOK, Row
<1>14. ASSUME NEW o \in C!Otps, NEW row \in Row,
             TimesOut(o, row)
      PROVE  C!TypeOK'
  <2>1. /\ otpPc' \in [Threads -> C!Positions]
        /\ otpJob' \in [Threads -> C!Jobs]
    BY <1>14, NoJobIsJob, NoOtpIsRow DEF C!TypeOK, C!Positions, TimesOut,
       Marks
  <2>2. otp' \in [C!Otps -> Row] /\ resets' \in [C!Otps -> Nat]
    BY <1>14, NoJobIsJob, NoOtpIsRow DEF C!TypeOK, Row, TimesOut, Marks
  <2>3. /\ secret' \in [Users -> [C!Kinds -> C!Secrets]]
        /\ chosen' \in C!Secrets /\ issued' \in 0..MaxOtps
        /\ tokens' \subseteq C!Otps /\ mailed' \subseteq C!Otps
        /\ proven' \subseteq C!Otps /\ crossed' \subseteq Users
        /\ raced' \subseteq Users \X C!Kinds
    BY <1>14 DEF C!TypeOK, JobsOK, JobOK, C!Secrets, TimesOut, Marks
  <2> QED
    BY <2>1, <2>2, <2>3 DEF C!TypeOK, Row
<1> QED
  BY <1>1, <1>2, <1>3, <1>4, <1>5, <1>6, <1>7, <1>8, <1>9, <1>10, <1>11,
     <1>12, <1>13, <1>14 DEF LoginStep, OtpStep, SecretStep

(* A request keeps its arguments.                                          *)
LEMMA JobsStep ==
    ASSUME C!TypeOK, JobsOK, RowsOK, LoginStep
    PROVE  JobsOK'
<1>1. ASSUME NEW t \in Threads, NEW j \in C!Jobs,
             AsksForgot(t, j)
      PROVE  JobsOK'
  <2> SUFFICES ASSUME NEW s \in Threads
               PROVE  JobOK(s)'
    BY DEF JobsOK
  <2>1. CASE s = t
    <3>1. /\ otpPc'[s] = "issue"
          /\ otpJob'[s] = j
      BY <1>1, <2>1 DEF C!TypeOK, AsksForgot, LoginBegins
    <3> QED
      BY <1>1, <2>1, <3>1 DEF JobOK, C!TypeOK, C!Otps, AsksForgot, LoginBegins
  <2>2. CASE s # t
    <3>1. /\ JobOK(s) /\ otpPc'[s] = otpPc[s] /\ otpJob'[s] = otpJob[s]
          /\ otpJob[s] \in C!Jobs /\ issued <= issued'
          /\ mailed \subseteq mailed' /\ proven \subseteq proven'
          /\ raced \subseteq raced'
      BY <1>1, <2>2 DEF C!TypeOK, JobsOK, AsksForgot, LoginBegins
    <3>2. ASSUME NEW o \in C!Otps, o <= issued, C!Exists(o)'
          PROVE  C!Exists(o) /\ otp'[o].user = otp[o].user
      BY <1>1, <3>2, NoOtpIsRow DEF C!TypeOK, C!Exists, AsksForgot,
         LoginBegins
    <3>3. /\ otpPc[s] = "change"
          /\ <<otpJob[s].user, otpJob[s].kind>> \notin raced'
          => secret'[otpJob[s].user][otpJob[s].kind]
                  = secret[otpJob[s].user][otpJob[s].kind]
      BY <1>1, <2>2, <3>1 DEF C!TypeOK, JobOK, C!Jobs, AsksForgot, LoginBegins
    <3>4. issued \in Nat /\ issued' \in Nat /\ otpJob[s].otp \in Nat
      <4>1. issued \in Nat /\ issued' \in Nat
        BY LoginTypeStep DEF C!TypeOK
      <4>2. otpJob[s].otp \in Nat
        BY <3>1 DEF C!Jobs, C!Otps
      <4> QED
        BY <4>1, <4>2
    <3> QED
      BY <3>1, <3>2, <3>3, <3>4 DEF JobOK
  <2> QED
    BY <2>1, <2>2
<1>2. ASSUME NEW t \in Threads, NEW j \in C!Jobs, NEW row \in Row,
             Issues(t, j, row)
      PROVE  JobsOK'
  <2> SUFFICES ASSUME NEW s \in Threads
               PROVE  JobOK(s)'
    BY DEF JobsOK
  <2>1. CASE s = t
    <3>1. /\ otpPc'[s] = "mail"
          /\ otpJob'[s] = j
      BY <1>2, <2>1 DEF C!TypeOK, Issues, Marks
    <3> QED
      BY <1>2, <2>1, <3>1 DEF JobOK, C!TypeOK, C!Otps, Issues, Marks
  <2>2. CASE s # t
    <3>1. /\ JobOK(s) /\ otpPc'[s] = otpPc[s] /\ otpJob'[s] = otpJob[s]
          /\ otpJob[s] \in C!Jobs /\ issued <= issued'
          /\ mailed \subseteq mailed' /\ proven \subseteq proven'
          /\ raced \subseteq raced'
      BY <1>2, <2>2 DEF C!TypeOK, JobsOK, Issues, Marks
    <3>2. ASSUME NEW o \in C!Otps, o <= issued, C!Exists(o)'
          PROVE  C!Exists(o) /\ otp'[o].user = otp[o].user
      BY <1>2, <3>2, NoOtpIsRow DEF C!TypeOK, C!Exists, C!Otps, Issues, Marks
    <3>3. /\ otpPc[s] = "change"
          /\ <<otpJob[s].user, otpJob[s].kind>> \notin raced'
          => secret'[otpJob[s].user][otpJob[s].kind]
                  = secret[otpJob[s].user][otpJob[s].kind]
      BY <1>2, <2>2, <3>1 DEF C!TypeOK, JobOK, C!Jobs, Issues, Marks
    <3>4. issued \in Nat /\ issued' \in Nat /\ otpJob[s].otp \in Nat
      <4>1. issued \in Nat /\ issued' \in Nat
        BY LoginTypeStep DEF C!TypeOK
      <4>2. otpJob[s].otp \in Nat
        BY <3>1 DEF C!Jobs, C!Otps
      <4> QED
        BY <4>1, <4>2
    <3> QED
      BY <3>1, <3>2, <3>3, <3>4 DEF JobOK
  <2> QED
    BY <2>1, <2>2
<1>3. ASSUME NEW t \in Threads,
             Mails(t)
      PROVE  JobsOK'
  <2> SUFFICES ASSUME NEW s \in Threads
               PROVE  JobOK(s)'
    BY DEF JobsOK
  <2>1. CASE s = t
    <3>1. otpPc'[s] = "idle"
      BY <1>3, <2>1 DEF C!TypeOK, Mails, C!Leave
    <3> QED
      BY <3>1 DEF JobOK
  <2>2. CASE s # t
    <3>1. /\ JobOK(s) /\ otpPc'[s] = otpPc[s] /\ otpJob'[s] = otpJob[s]
          /\ otpJob[s] \in C!Jobs /\ issued <= issued'
          /\ mailed \subseteq mailed' /\ proven \subseteq proven'
          /\ raced \subseteq raced'
      BY <1>3, <2>2 DEF C!TypeOK, JobsOK, Mails, C!Leave
    <3>2. ASSUME NEW o \in C!Otps, o <= issued, C!Exists(o)'
          PROVE  C!Exists(o) /\ otp'[o].user = otp[o].user
      BY <1>3, <3>2, NoOtpIsRow DEF C!TypeOK, C!Exists, Mails, C!Leave
    <3>3. /\ otpPc[s] = "change"
          /\ <<otpJob[s].user, otpJob[s].kind>> \notin raced'
          => secret'[otpJob[s].user][otpJob[s].kind]
                  = secret[otpJob[s].user][otpJob[s].kind]
      BY <1>3, <2>2, <3>1 DEF C!TypeOK, JobOK, C!Jobs, Mails, C!Leave
    <3>4. issued \in Nat /\ issued' \in Nat /\ otpJob[s].otp \in Nat
      <4>1. issued \in Nat /\ issued' \in Nat
        BY LoginTypeStep DEF C!TypeOK
      <4>2. otpJob[s].otp \in Nat
        BY <3>1 DEF C!Jobs, C!Otps
      <4> QED
        BY <4>1, <4>2
    <3> QED
      BY <3>1, <3>2, <3>3, <3>4 DEF JobOK
  <2> QED
    BY <2>1, <2>2
<1>4. ASSUME NEW t \in Threads, NEW p \in C!Positions,
             NEW j \in C!Jobs,
             AsksVerify(t, p, j)
      PROVE  JobsOK'
  <2> SUFFICES ASSUME NEW s \in Threads
               PROVE  JobOK(s)'
    BY DEF JobsOK
  <2>1. CASE s = t
    <3>1. /\ otpPc'[s] = p
          /\ otpJob'[s] = j
      BY <1>4, <2>1 DEF C!TypeOK, AsksVerify, LoginBegins
    <3>2. /\ j.otp \in C!Otps /\ C!Exists(j.otp) /\ p \notin {"issue", "mail"}
          /\ p \in {"expire", "verify", "count"}
          /\ p = "verify" => j.otp \in mailed
          /\ issued' = issued /\ mailed' = mailed
      BY <1>4 DEF AsksVerify, C!Live, C!Exists
    <3>3. j.otp <= issued
      <4>1. ~(j.otp > issued)
        BY <3>2 DEF RowsOK
      <4> QED
        BY <3>2, <4>1 DEF C!TypeOK, C!Otps
    <3> QED
      BY <3>1, <3>2, <3>3 DEF JobOK
  <2>2. CASE s # t
    <3>1. /\ JobOK(s) /\ otpPc'[s] = otpPc[s] /\ otpJob'[s] = otpJob[s]
          /\ otpJob[s] \in C!Jobs /\ issued <= issued'
          /\ mailed \subseteq mailed' /\ proven \subseteq proven'
          /\ raced \subseteq raced'
      BY <1>4, <2>2 DEF C!TypeOK, JobsOK, AsksVerify, LoginBegins
    <3>2. ASSUME NEW o \in C!Otps, o <= issued, C!Exists(o)'
          PROVE  C!Exists(o) /\ otp'[o].user = otp[o].user
      BY <1>4, <3>2, NoOtpIsRow DEF C!TypeOK, C!Exists, AsksVerify,
         LoginBegins
    <3>3. /\ otpPc[s] = "change"
          /\ <<otpJob[s].user, otpJob[s].kind>> \notin raced'
          => secret'[otpJob[s].user][otpJob[s].kind]
                  = secret[otpJob[s].user][otpJob[s].kind]
      BY <1>4, <2>2, <3>1 DEF C!TypeOK, JobOK, C!Jobs, AsksVerify, LoginBegins
    <3>4. issued \in Nat /\ issued' \in Nat /\ otpJob[s].otp \in Nat
      <4>1. issued \in Nat /\ issued' \in Nat
        BY LoginTypeStep DEF C!TypeOK
      <4>2. otpJob[s].otp \in Nat
        BY <3>1 DEF C!Jobs, C!Otps
      <4> QED
        BY <4>1, <4>2
    <3> QED
      BY <3>1, <3>2, <3>3, <3>4 DEF JobOK
  <2> QED
    BY <2>1, <2>2
<1>5. ASSUME NEW t \in Threads, NEW row \in Row,
             Counts(t, row)
      PROVE  JobsOK'
  <2> SUFFICES ASSUME NEW s \in Threads
               PROVE  JobOK(s)'
    BY DEF JobsOK
  <2>1. CASE s = t
    <3>1. otpPc'[s] = "idle"
      BY <1>5, <2>1 DEF C!TypeOK, Counts, Marks, C!Leave
    <3> QED
      BY <3>1 DEF JobOK
  <2>2. CASE s # t
    <3>1. /\ JobOK(s) /\ otpPc'[s] = otpPc[s] /\ otpJob'[s] = otpJob[s]
          /\ otpJob[s] \in C!Jobs /\ issued <= issued'
          /\ mailed \subseteq mailed' /\ proven \subseteq proven'
          /\ raced \subseteq raced'
      BY <1>5, <2>2 DEF C!TypeOK, JobsOK, Counts, Marks, C!Leave
    <3>2. ASSUME NEW o \in C!Otps, o <= issued, C!Exists(o)'
          PROVE  C!Exists(o) /\ otp'[o].user = otp[o].user
      BY <1>5, <3>2, NoOtpIsRow DEF C!TypeOK, C!Exists, Counts, Marks, C!Leave
    <3>3. /\ otpPc[s] = "change"
          /\ <<otpJob[s].user, otpJob[s].kind>> \notin raced'
          => secret'[otpJob[s].user][otpJob[s].kind]
                  = secret[otpJob[s].user][otpJob[s].kind]
      BY <1>5, <2>2, <3>1 DEF C!TypeOK, JobOK, C!Jobs, Counts, Marks, C!Leave
    <3>4. issued \in Nat /\ issued' \in Nat /\ otpJob[s].otp \in Nat
      <4>1. issued \in Nat /\ issued' \in Nat
        BY LoginTypeStep DEF C!TypeOK
      <4>2. otpJob[s].otp \in Nat
        BY <3>1 DEF C!Jobs, C!Otps
      <4> QED
        BY <4>1, <4>2
    <3> QED
      BY <3>1, <3>2, <3>3, <3>4 DEF JobOK
  <2> QED
    BY <2>1, <2>2
<1>6. ASSUME NEW t \in Threads, NEW row \in Row,
             Expires(t, row)
      PROVE  JobsOK'
  <2> SUFFICES ASSUME NEW s \in Threads
               PROVE  JobOK(s)'
    BY DEF JobsOK
  <2>1. CASE s = t
    <3>1. otpPc'[s] = "idle"
      BY <1>6, <2>1 DEF C!TypeOK, Expires, Marks, C!Leave
    <3> QED
      BY <3>1 DEF JobOK
  <2>2. CASE s # t
    <3>1. /\ JobOK(s) /\ otpPc'[s] = otpPc[s] /\ otpJob'[s] = otpJob[s]
          /\ otpJob[s] \in C!Jobs /\ issued <= issued'
          /\ mailed \subseteq mailed' /\ proven \subseteq proven'
          /\ raced \subseteq raced'
      BY <1>6, <2>2 DEF C!TypeOK, JobsOK, Expires, Marks, C!Leave
    <3>2. ASSUME NEW o \in C!Otps, o <= issued, C!Exists(o)'
          PROVE  C!Exists(o) /\ otp'[o].user = otp[o].user
      BY <1>6, <3>2, NoOtpIsRow DEF C!TypeOK, C!Exists, Expires, Marks,
         C!Leave
    <3>3. /\ otpPc[s] = "change"
          /\ <<otpJob[s].user, otpJob[s].kind>> \notin raced'
          => secret'[otpJob[s].user][otpJob[s].kind]
                  = secret[otpJob[s].user][otpJob[s].kind]
      BY <1>6, <2>2, <3>1 DEF C!TypeOK, JobOK, C!Jobs, Expires, Marks, C!Leave
    <3>4. issued \in Nat /\ issued' \in Nat /\ otpJob[s].otp \in Nat
      <4>1. issued \in Nat /\ issued' \in Nat
        BY LoginTypeStep DEF C!TypeOK
      <4>2. otpJob[s].otp \in Nat
        BY <3>1 DEF C!Jobs, C!Otps
      <4> QED
        BY <4>1, <4>2
    <3> QED
      BY <3>1, <3>2, <3>3, <3>4 DEF JobOK
  <2> QED
    BY <2>1, <2>2
<1>7. ASSUME NEW t \in Threads, NEW row \in Row,
             Verifies(t, row)
      PROVE  JobsOK'
  <2> SUFFICES ASSUME NEW s \in Threads
               PROVE  JobOK(s)'
    BY DEF JobsOK
  <2>1. CASE s = t
    <3>1. otpPc'[s] = "idle"
      BY <1>7, <2>1 DEF C!TypeOK, Verifies, Marks, C!Leave
    <3> QED
      BY <3>1 DEF JobOK
  <2>2. CASE s # t
    <3>1. /\ JobOK(s) /\ otpPc'[s] = otpPc[s] /\ otpJob'[s] = otpJob[s]
          /\ otpJob[s] \in C!Jobs /\ issued <= issued'
          /\ mailed \subseteq mailed' /\ proven \subseteq proven'
          /\ raced \subseteq raced'
      BY <1>7, <2>2 DEF C!TypeOK, JobsOK, Verifies, Marks, C!Leave
    <3>2. ASSUME NEW o \in C!Otps, o <= issued, C!Exists(o)'
          PROVE  C!Exists(o) /\ otp'[o].user = otp[o].user
      BY <1>7, <3>2, NoOtpIsRow DEF C!TypeOK, C!Exists, Verifies, Marks,
         C!Leave
    <3>3. /\ otpPc[s] = "change"
          /\ <<otpJob[s].user, otpJob[s].kind>> \notin raced'
          => secret'[otpJob[s].user][otpJob[s].kind]
                  = secret[otpJob[s].user][otpJob[s].kind]
      BY <1>7, <2>2, <3>1 DEF C!TypeOK, JobOK, C!Jobs, Verifies, Marks,
         C!Leave
    <3>4. issued \in Nat /\ issued' \in Nat /\ otpJob[s].otp \in Nat
      <4>1. issued \in Nat /\ issued' \in Nat
        BY LoginTypeStep DEF C!TypeOK
      <4>2. otpJob[s].otp \in Nat
        BY <3>1 DEF C!Jobs, C!Otps
      <4> QED
        BY <4>1, <4>2
    <3> QED
      BY <3>1, <3>2, <3>3, <3>4 DEF JobOK
  <2> QED
    BY <2>1, <2>2
<1>8. ASSUME NEW t \in Threads, NEW j \in C!Jobs,
             AsksReset(t, j)
      PROVE  JobsOK'
  <2> SUFFICES ASSUME NEW s \in Threads
               PROVE  JobOK(s)'
    BY DEF JobsOK
  <2>1. CASE s = t
    <3>1. /\ otpPc'[s] = "reset"
          /\ otpJob'[s] = j
      BY <1>8, <2>1 DEF C!TypeOK, AsksReset, LoginBegins
    <3> QED
      BY <1>8, <2>1, <3>1 DEF JobOK, C!TypeOK, C!Otps, RowsOK, C!Redeemable,
         C!Exists, AsksReset, LoginBegins
  <2>2. CASE s # t
    <3>1. /\ JobOK(s) /\ otpPc'[s] = otpPc[s] /\ otpJob'[s] = otpJob[s]
          /\ otpJob[s] \in C!Jobs /\ issued <= issued'
          /\ mailed \subseteq mailed' /\ proven \subseteq proven'
          /\ raced \subseteq raced'
      BY <1>8, <2>2 DEF C!TypeOK, JobsOK, AsksReset, LoginBegins
    <3>2. ASSUME NEW o \in C!Otps, o <= issued, C!Exists(o)'
          PROVE  C!Exists(o) /\ otp'[o].user = otp[o].user
      BY <1>8, <3>2, NoOtpIsRow DEF C!TypeOK, C!Exists, AsksReset, LoginBegins
    <3>3. /\ otpPc[s] = "change"
          /\ <<otpJob[s].user, otpJob[s].kind>> \notin raced'
          => secret'[otpJob[s].user][otpJob[s].kind]
                  = secret[otpJob[s].user][otpJob[s].kind]
      BY <1>8, <2>2, <3>1 DEF C!TypeOK, JobOK, C!Jobs, AsksReset, LoginBegins
    <3>4. issued \in Nat /\ issued' \in Nat /\ otpJob[s].otp \in Nat
      <4>1. issued \in Nat /\ issued' \in Nat
        BY LoginTypeStep DEF C!TypeOK
      <4>2. otpJob[s].otp \in Nat
        BY <3>1 DEF C!Jobs, C!Otps
      <4> QED
        BY <4>1, <4>2
    <3> QED
      BY <3>1, <3>2, <3>3, <3>4 DEF JobOK
  <2> QED
    BY <2>1, <2>2
<1>9. ASSUME NEW t \in Threads,
             Resets(t)
      PROVE  JobsOK'
  <2> SUFFICES ASSUME NEW s \in Threads
               PROVE  JobOK(s)'
    BY DEF JobsOK
  <2>1. CASE s = t
    <3>1. otpPc'[s] = "idle"
      BY <1>9, <2>1 DEF C!TypeOK, Resets, Marks, C!Leave, LoginWrites
    <3> QED
      BY <3>1 DEF JobOK
  <2>2. CASE s # t
    <3>1. /\ JobOK(s) /\ otpPc'[s] = otpPc[s] /\ otpJob'[s] = otpJob[s]
          /\ otpJob[s] \in C!Jobs /\ issued <= issued'
          /\ mailed \subseteq mailed' /\ proven \subseteq proven'
          /\ raced \subseteq raced'
      BY <1>9, <2>2 DEF C!TypeOK, JobsOK, Resets, Marks, C!Leave, LoginWrites
    <3>2. ASSUME NEW o \in C!Otps, o <= issued, C!Exists(o)'
          PROVE  C!Exists(o) /\ otp'[o].user = otp[o].user
      BY <1>9, <3>2, NoOtpIsRow DEF C!TypeOK, C!Exists, Resets, Marks,
         C!Leave, LoginWrites
    <3>3. /\ otpPc[s] = "change"
          /\ <<otpJob[s].user, otpJob[s].kind>> \notin raced'
          => secret'[otpJob[s].user][otpJob[s].kind]
                  = secret[otpJob[s].user][otpJob[s].kind]
      BY <1>9, <2>2, <3>1 DEF C!TypeOK, JobOK, C!Jobs, Resets, Marks, C!Leave,
         LoginWrites
    <3>4. issued \in Nat /\ issued' \in Nat /\ otpJob[s].otp \in Nat
      <4>1. issued \in Nat /\ issued' \in Nat
        BY LoginTypeStep DEF C!TypeOK
      <4>2. otpJob[s].otp \in Nat
        BY <3>1 DEF C!Jobs, C!Otps
      <4> QED
        BY <4>1, <4>2
    <3> QED
      BY <3>1, <3>2, <3>3, <3>4 DEF JobOK
  <2> QED
    BY <2>1, <2>2
<1>10. ASSUME NEW t \in Threads, NEW j \in C!Jobs,
             AsksChange(t, j)
      PROVE  JobsOK'
  <2> SUFFICES ASSUME NEW s \in Threads
               PROVE  JobOK(s)'
    BY DEF JobsOK
  <2>1. CASE s = t
    <3>1. /\ otpPc'[s] = "change"
          /\ otpJob'[s] = j
      BY <1>10, <2>1 DEF C!TypeOK, AsksChange, LoginBegins
    <3> QED
      BY <1>10, <2>1, <3>1 DEF JobOK, C!TypeOK, C!Otps, AsksChange,
         LoginBegins
  <2>2. CASE s # t
    <3>1. /\ JobOK(s) /\ otpPc'[s] = otpPc[s] /\ otpJob'[s] = otpJob[s]
          /\ otpJob[s] \in C!Jobs /\ issued <= issued'
          /\ mailed \subseteq mailed' /\ proven \subseteq proven'
          /\ raced \subseteq raced'
      BY <1>10, <2>2 DEF C!TypeOK, JobsOK, AsksChange, LoginBegins
    <3>2. ASSUME NEW o \in C!Otps, o <= issued, C!Exists(o)'
          PROVE  C!Exists(o) /\ otp'[o].user = otp[o].user
      BY <1>10, <3>2, NoOtpIsRow DEF C!TypeOK, C!Exists, AsksChange,
         LoginBegins
    <3>3. /\ otpPc[s] = "change"
          /\ <<otpJob[s].user, otpJob[s].kind>> \notin raced'
          => secret'[otpJob[s].user][otpJob[s].kind]
                  = secret[otpJob[s].user][otpJob[s].kind]
      BY <1>10, <2>2, <3>1 DEF C!TypeOK, JobOK, C!Jobs, AsksChange,
         LoginBegins
    <3>4. issued \in Nat /\ issued' \in Nat /\ otpJob[s].otp \in Nat
      <4>1. issued \in Nat /\ issued' \in Nat
        BY LoginTypeStep DEF C!TypeOK
      <4>2. otpJob[s].otp \in Nat
        BY <3>1 DEF C!Jobs, C!Otps
      <4> QED
        BY <4>1, <4>2
    <3> QED
      BY <3>1, <3>2, <3>3, <3>4 DEF JobOK
  <2> QED
    BY <2>1, <2>2
<1>11. ASSUME NEW t \in Threads,
             Changes(t)
      PROVE  JobsOK'
  <2> SUFFICES ASSUME NEW s \in Threads
               PROVE  JobOK(s)'
    BY DEF JobsOK
  <2>1. CASE s = t
    <3>1. otpPc'[s] = "idle"
      BY <1>11, <2>1 DEF C!TypeOK, Changes, C!Leave, LoginWrites
    <3> QED
      BY <3>1 DEF JobOK
  <2>2. CASE s # t
    <3>1. /\ JobOK(s) /\ otpPc'[s] = otpPc[s] /\ otpJob'[s] = otpJob[s]
          /\ otpJob[s] \in C!Jobs /\ issued <= issued'
          /\ mailed \subseteq mailed' /\ proven \subseteq proven'
          /\ raced \subseteq raced'
      BY <1>11, <2>2 DEF C!TypeOK, JobsOK, Changes, C!Leave, LoginWrites
    <3>2. ASSUME NEW o \in C!Otps, o <= issued, C!Exists(o)'
          PROVE  C!Exists(o) /\ otp'[o].user = otp[o].user
      BY <1>11, <3>2, NoOtpIsRow DEF C!TypeOK, C!Exists, Changes, C!Leave,
         LoginWrites
    <3>3. /\ otpPc[s] = "change"
          /\ <<otpJob[s].user, otpJob[s].kind>> \notin raced'
          => secret'[otpJob[s].user][otpJob[s].kind]
                  = secret[otpJob[s].user][otpJob[s].kind]
      BY <1>11, <2>2, <3>1 DEF C!TypeOK, JobOK, C!Jobs, Changes, C!Leave,
         LoginWrites
    <3>4. issued \in Nat /\ issued' \in Nat /\ otpJob[s].otp \in Nat
      <4>1. issued \in Nat /\ issued' \in Nat
        BY LoginTypeStep DEF C!TypeOK
      <4>2. otpJob[s].otp \in Nat
        BY <3>1 DEF C!Jobs, C!Otps
      <4> QED
        BY <4>1, <4>2
    <3> QED
      BY <3>1, <3>2, <3>3, <3>4 DEF JobOK
  <2> QED
    BY <2>1, <2>2
<1>12. ASSUME NEW t \in Threads, NEW u \in Users,
             ResetsPin(t, u)
      PROVE  JobsOK'
  <2> SUFFICES ASSUME NEW s \in Threads
               PROVE  JobOK(s)'
    BY DEF JobsOK
  <2>1. /\ JobOK(s)
        /\ otpPc'[s] = otpPc[s]
        /\ otpJob'[s] = otpJob[s]
        /\ otpJob[s] \in C!Jobs
        /\ issued' = issued /\ mailed' = mailed /\ proven' = proven
    BY <1>12 DEF C!TypeOK, JobsOK, ResetsPin, LoginWrites
  <2>2. otp' = otp /\ raced \subseteq raced' /\ otpPc[t] = "idle"
    BY <1>12 DEF ResetsPin, LoginWrites
  <2>3. /\ otpPc[s] = "change"
        /\ <<otpJob[s].user, otpJob[s].kind>> \notin raced'
        => secret'[otpJob[s].user][otpJob[s].kind]
              = secret[otpJob[s].user][otpJob[s].kind]
    BY <1>12, <2>1, <2>2 DEF JobOK, C!Jobs, ResetsPin, LoginWrites
  <2> QED
    BY <2>1, <2>2, <2>3 DEF JobOK, C!Exists
<1>13. ASSUME NEW t \in Threads,
             LoginFails(t)
      PROVE  JobsOK'
  <2> SUFFICES ASSUME NEW s \in Threads
               PROVE  JobOK(s)'
    BY DEF JobsOK
  <2>1. CASE s = t
    <3>1. otpPc'[s] = "idle"
      BY <1>13, <2>1 DEF C!TypeOK, LoginFails, C!Leave
    <3> QED
      BY <3>1 DEF JobOK
  <2>2. CASE s # t
    <3>1. /\ JobOK(s) /\ otpPc'[s] = otpPc[s] /\ otpJob'[s] = otpJob[s]
          /\ otpJob[s] \in C!Jobs /\ issued <= issued'
          /\ mailed \subseteq mailed' /\ proven \subseteq proven'
          /\ raced \subseteq raced'
      BY <1>13, <2>2 DEF C!TypeOK, JobsOK, LoginFails, C!Leave
    <3>2. ASSUME NEW o \in C!Otps, o <= issued, C!Exists(o)'
          PROVE  C!Exists(o) /\ otp'[o].user = otp[o].user
      BY <1>13, <3>2, NoOtpIsRow DEF C!TypeOK, C!Exists, LoginFails, C!Leave
    <3>3. /\ otpPc[s] = "change"
          /\ <<otpJob[s].user, otpJob[s].kind>> \notin raced'
          => secret'[otpJob[s].user][otpJob[s].kind]
                  = secret[otpJob[s].user][otpJob[s].kind]
      BY <1>13, <2>2, <3>1 DEF C!TypeOK, JobOK, C!Jobs, LoginFails, C!Leave
    <3>4. issued \in Nat /\ issued' \in Nat /\ otpJob[s].otp \in Nat
      <4>1. issued \in Nat /\ issued' \in Nat
        BY LoginTypeStep DEF C!TypeOK
      <4>2. otpJob[s].otp \in Nat
        BY <3>1 DEF C!Jobs, C!Otps
      <4> QED
        BY <4>1, <4>2
    <3> QED
      BY <3>1, <3>2, <3>3, <3>4 DEF JobOK
  <2> QED
    BY <2>1, <2>2
<1>14. ASSUME NEW o \in C!Otps, NEW row \in Row,
             TimesOut(o, row)
      PROVE  JobsOK'
  <2> SUFFICES ASSUME NEW s \in Threads
               PROVE  JobOK(s)'
    BY DEF JobsOK
  <2>1. /\ JobOK(s)
        /\ otpPc'[s] = otpPc[s]
        /\ otpJob'[s] = otpJob[s]
        /\ otpJob[s] \in C!Jobs
        /\ issued' = issued /\ mailed' = mailed /\ proven' = proven
    BY <1>14 DEF C!TypeOK, JobsOK, TimesOut, Marks
  <2>2. secret' = secret /\ raced' = raced /\ otpJob[s].user = otpJob[s].user
    BY <1>14 DEF TimesOut, Marks
  <2> QED
    BY <1>14, <2>1, <2>2 DEF JobOK, C!Exists, C!Jobs, C!TypeOK, TimesOut,
       Marks
<1> QED
  BY <1>1, <1>2, <1>3, <1>4, <1>5, <1>6, <1>7, <1>8, <1>9, <1>10, <1>11,
     <1>12, <1>13, <1>14 DEF LoginStep, OtpStep, SecretStep

(* A code that set a password is gone, and was earned.                     *)
LEMMA RowsStep ==
    ASSUME C!TypeOK, JobsOK, RowsOK, LoginStep
    PROVE  RowsOK'
<1>1. ASSUME NEW t \in Threads, NEW j \in C!Jobs, AsksForgot(t, j)
      PROVE  RowsOK'
  BY <1>1 DEF C!TypeOK, JobsOK, JobOK, RowsOK, C!Exists, AsksForgot,
     LoginBegins
<1>2. ASSUME NEW t \in Threads, NEW j \in C!Jobs, NEW row \in Row,
             Issues(t, j, row)
      PROVE  RowsOK'
  BY <1>2 DEF C!TypeOK, JobsOK, JobOK, RowsOK, C!Exists, C!Otps, Issues, Marks
<1>3. ASSUME NEW t \in Threads, Mails(t)
      PROVE  RowsOK'
  BY <1>3, NoJobIsJob, NoOtpIsRow DEF C!TypeOK, JobsOK, JobOK, RowsOK,
     C!Exists, Mails, C!Leave
<1>4. ASSUME NEW t \in Threads, NEW p \in C!Positions, NEW j \in C!Jobs,
             AsksVerify(t, p, j)
      PROVE  RowsOK'
  BY <1>4 DEF C!TypeOK, JobsOK, JobOK, RowsOK, C!Exists, AsksVerify,
     LoginBegins
<1>5. ASSUME NEW t \in Threads, NEW row \in Row, Counts(t, row)
      PROVE  RowsOK'
  BY <1>5, NoJobIsJob, NoOtpIsRow DEF C!TypeOK, JobsOK, JobOK, RowsOK,
     C!Exists, Counts, Marks, C!Leave
<1>6. ASSUME NEW t \in Threads, NEW row \in Row, Expires(t, row)
      PROVE  RowsOK'
  BY <1>6, NoJobIsJob, NoOtpIsRow DEF C!TypeOK, JobsOK, JobOK, RowsOK,
     C!Exists, Expires, Marks, C!Leave
<1>7. ASSUME NEW t \in Threads, NEW row \in Row, Verifies(t, row)
      PROVE  RowsOK'
  <2> DEFINE o == otpJob[t].otp
  <2>1. /\ o \in C!Otps /\ o <= issued /\ C!Exists(o) /\ o \in mailed
        /\ otp' = [otp EXCEPT ![o] = row] /\ issued' = issued
        /\ mailed' = mailed
    BY <1>7 DEF Verifies, Marks, JobsOK, JobOK
  <2>2. /\ row.user = otp[o].user /\ row.verified
        /\ resets' = resets /\ proven' = proven \cup {o}
    BY <1>7 DEF Verifies
  <2> HIDE DEF o
  <2>3. RowsOK'
    BY <2>1, <2>2 DEF RowsOK, C!Exists, C!TypeOK
  <2> QED
    BY <2>3
<1>8. ASSUME NEW t \in Threads, NEW j \in C!Jobs, AsksReset(t, j)
      PROVE  RowsOK'
  BY <1>8 DEF C!TypeOK, JobsOK, JobOK, RowsOK, C!Exists, AsksReset,
     LoginBegins
<1>9. ASSUME NEW t \in Threads, Resets(t)
      PROVE  RowsOK'
  <2> DEFINE o == otpJob[t].otp
  <2>1. /\ o \in C!Otps /\ o <= issued /\ C!Exists(o) /\ o \in mailed
        /\ otp' = [otp EXCEPT ![o] = C!NoOtp] /\ issued' = issued
        /\ mailed' = mailed
    BY <1>9 DEF Resets, Marks, JobsOK, JobOK
  <2>2. /\ o \in proven \cap mailed /\ proven' = proven
        /\ resets' = [resets EXCEPT ![o] = resets[o] + 1]
    BY <1>9 DEF Resets, JobsOK, JobOK
  <2>3. resets[o] = 0
    BY <2>1 DEF RowsOK
  <2> HIDE DEF o
  <2>4. ~(o > issued)
    BY <2>1 DEF C!TypeOK, C!Otps
  <2>5. RowsOK'
    <3> SUFFICES ASSUME NEW c \in C!Otps
                 PROVE  /\ c > issued => otp'[c].user = None /\ resets'[c] = 0
                        /\ otp'[c].verified => c \in proven \cap mailed
                        /\ resets'[c] \in {0, 1}
                        /\ resets'[c] = 1 =>
                               /\ otp'[c].user = None
                               /\ c \in proven \cap mailed
      BY <2>1, <2>2 DEF RowsOK, C!Exists
    <3>1. CASE c = o
      <4>1. otp'[c] = C!NoOtp /\ resets'[c] = 1
        BY <2>1, <2>2, <2>3, <3>1 DEF C!TypeOK
      <4> QED
        BY <2>2, <2>4, <3>1, <4>1, NoOtpIsRow
    <3>2. CASE c # o
      <4>1. otp'[c] = otp[c] /\ resets'[c] = resets[c]
        BY <2>1, <2>2, <3>2 DEF C!TypeOK
      <4> QED
        BY <4>1 DEF RowsOK, C!Exists
    <3> QED
      BY <3>1, <3>2
  <2> QED
    BY <2>5
<1>10. ASSUME NEW t \in Threads, NEW j \in C!Jobs, AsksChange(t, j)
      PROVE  RowsOK'
  BY <1>10 DEF C!TypeOK, JobsOK, JobOK, RowsOK, C!Exists, AsksChange,
     LoginBegins
<1>11. ASSUME NEW t \in Threads, Changes(t)
      PROVE  RowsOK'
  BY <1>11, NoJobIsJob, NoOtpIsRow DEF C!TypeOK, JobsOK, JobOK, RowsOK,
     C!Exists, Changes, LoginWrites, C!Leave
<1>12. ASSUME NEW t \in Threads, NEW u \in Users, ResetsPin(t, u)
      PROVE  RowsOK'
  BY <1>12 DEF C!TypeOK, JobsOK, JobOK, RowsOK, C!Exists, ResetsPin,
     LoginWrites
<1>13. ASSUME NEW t \in Threads, LoginFails(t)
      PROVE  RowsOK'
  BY <1>13, NoJobIsJob, NoOtpIsRow DEF C!TypeOK, JobsOK, JobOK, RowsOK,
     C!Exists, LoginFails, C!Leave
<1>14. ASSUME NEW o \in C!Otps, NEW row \in Row, TimesOut(o, row)
      PROVE  RowsOK'
  BY <1>14 DEF C!TypeOK, JobsOK, JobOK, RowsOK, C!Exists, TimesOut, Marks
<1>15. QED
  BY <1>1, <1>2, <1>3, <1>4, <1>5, <1>6, <1>7, <1>8, <1>9, <1>10, <1>11,
     <1>12, <1>13, <1>14 DEF LoginStep, OtpStep, SecretStep

(* Tries, and those under way, are few.                                    *)
LEMMA CountStep ==
    ASSUME C!TypeOK, JobsOK, LoginCountOK, LoginStep
    PROVE  LoginCountOK'
<1>1. ASSUME NEW t \in Threads, NEW j \in C!Jobs, AsksForgot(t, j)
      PROVE  LoginCountOK'
  <2> SUFFICES ASSUME NEW o \in C!Otps
               PROVE  FewTries(o)'
    BY DEF LoginCountOK
  <2>1. /\ Counting(o)' \subseteq Counting(o)
        /\ otp'[o].attempts <= otp[o].attempts
    BY <1>1 DEF C!TypeOK, Counting, AsksForgot, LoginBegins
  <2>2. otp[o].attempts \in Nat /\ otp'[o].attempts \in Nat
    BY LoginTypeStep DEF C!TypeOK
  <2> QED
    BY <2>1, <2>2, StillFew DEF LoginCountOK
<1>2. ASSUME NEW t \in Threads, NEW j \in C!Jobs, NEW row \in Row,
             Issues(t, j, row)
      PROVE  LoginCountOK'
  <2> SUFFICES ASSUME NEW o \in C!Otps
               PROVE  FewTries(o)'
    BY DEF LoginCountOK
  <2>1. /\ Counting(o)' \subseteq Counting(o)
        /\ otp'[o].attempts <= otp[o].attempts
    BY <1>2 DEF C!TypeOK, Counting, Issues, Marks, C!NoOtp, C!Otps, Row
  <2>2. otp[o].attempts \in Nat /\ otp'[o].attempts \in Nat
    BY LoginTypeStep DEF C!TypeOK
  <2> QED
    BY <2>1, <2>2, StillFew DEF LoginCountOK
<1>3. ASSUME NEW t \in Threads, Mails(t)
      PROVE  LoginCountOK'
  <2> SUFFICES ASSUME NEW o \in C!Otps
               PROVE  FewTries(o)'
    BY DEF LoginCountOK
  <2>1. /\ Counting(o)' \subseteq Counting(o)
        /\ otp'[o].attempts <= otp[o].attempts
    BY <1>3, NoJobIsJob, NoOtpIsRow DEF C!TypeOK, Counting, Mails, C!Leave
  <2>2. otp[o].attempts \in Nat /\ otp'[o].attempts \in Nat
    BY LoginTypeStep DEF C!TypeOK
  <2> QED
    BY <2>1, <2>2, StillFew DEF LoginCountOK
<1>4. ASSUME NEW t \in Threads, NEW p \in C!Positions, NEW j \in C!Jobs,
             AsksVerify(t, p, j)
      PROVE  LoginCountOK'
  <2> SUFFICES ASSUME NEW o \in C!Otps
               PROVE  FewTries(o)'
    BY DEF LoginCountOK
  <2>1. otp' = otp /\ otp[o].attempts \in Nat
    BY <1>4 DEF AsksVerify, C!TypeOK
  <2>2. CASE p = "count" /\ o = j.otp
    <3>1. otp[o].attempts < AttemptLimit
      BY <1>4, <2>2 DEF AsksVerify
    <3>2. Counting(o)' \subseteq Threads
      BY DEF Counting
    <3>3. /\ Cardinality(Counting(o)') \in Nat /\ Cardinality(Threads) \in Nat
          /\ Cardinality(Counting(o)') <= Cardinality(Threads)
      BY <3>2, FS_Subset, FS_CardinalityType
    <3> HIDE DEF Counting
    <3> QED
      BY <2>1, <3>1, <3>3 DEF FewTries
  <2>3. CASE ~(p = "count" /\ o = j.otp)
    <3>1. Counting(o)' \subseteq Counting(o)
      BY <1>4, <2>3 DEF Counting, AsksVerify, LoginBegins, C!TypeOK
    <3> QED
      BY <2>1, <3>1, StillFew DEF LoginCountOK
  <2> QED
    BY <2>2, <2>3
<1>5. ASSUME NEW t \in Threads, NEW row \in Row, Counts(t, row)
      PROVE  LoginCountOK'
  <2> SUFFICES ASSUME NEW o \in C!Otps
               PROVE  FewTries(o)'
    BY DEF LoginCountOK
  <2>1. otp[o].attempts \in Nat
    BY DEF C!TypeOK
  <2>2. CASE o = otpJob[t].otp
    <3>1. otp'[o].attempts = otp[o].attempts + 1
      BY <1>5, <2>2 DEF Counts, Marks, C!TypeOK
    <3>2. t \in Counting(o) /\ Counting(o)' = Counting(o) \ {t}
      BY <1>5, <2>2 DEF Counting, Counts, C!Leave, C!TypeOK
    <3>3. IsFiniteSet(Counting(o)) /\ Cardinality(Counting(o)) \in Nat
      BY FS_Subset, FS_CardinalityType DEF Counting
    <3>4. Cardinality(Counting(o)') = Cardinality(Counting(o)) - 1
      BY <3>2, <3>3, FS_RemoveElement
    <3>5. Cardinality(Threads) \in Nat
      BY FS_CardinalityType
    <3> QED
      BY <2>1, <3>1, <3>3, <3>4, <3>5 DEF FewTries, LoginCountOK
  <2>3. CASE o # otpJob[t].otp
    <3>1. Counting(o)' \subseteq Counting(o) /\ otp'[o] = otp[o]
      BY <1>5, <2>3 DEF Counting, Counts, Marks, C!Leave, C!TypeOK
    <3> QED
      BY <2>1, <3>1, StillFew DEF LoginCountOK
  <2> QED
    BY <2>2, <2>3
<1>6. ASSUME NEW t \in Threads, NEW row \in Row, Expires(t, row)
      PROVE  LoginCountOK'
  <2> SUFFICES ASSUME NEW o \in C!Otps
               PROVE  FewTries(o)'
    BY DEF LoginCountOK
  <2>1. /\ Counting(o)' \subseteq Counting(o)
        /\ otp'[o].attempts <= otp[o].attempts
    BY <1>6, NoJobIsJob, NoOtpIsRow DEF C!TypeOK, Counting, Expires, Marks,
       C!Leave
  <2>2. otp[o].attempts \in Nat /\ otp'[o].attempts \in Nat
    BY LoginTypeStep DEF C!TypeOK
  <2> QED
    BY <2>1, <2>2, StillFew DEF LoginCountOK
<1>7. ASSUME NEW t \in Threads, NEW row \in Row, Verifies(t, row)
      PROVE  LoginCountOK'
  <2> SUFFICES ASSUME NEW o \in C!Otps
               PROVE  FewTries(o)'
    BY DEF LoginCountOK
  <2>1. /\ Counting(o)' \subseteq Counting(o)
        /\ otp'[o].attempts <= otp[o].attempts
    BY <1>7, NoJobIsJob, NoOtpIsRow DEF C!TypeOK, Counting, Verifies, Marks,
       C!Leave
  <2>2. otp[o].attempts \in Nat /\ otp'[o].attempts \in Nat
    BY LoginTypeStep DEF C!TypeOK
  <2> QED
    BY <2>1, <2>2, StillFew DEF LoginCountOK
<1>8. ASSUME NEW t \in Threads, NEW j \in C!Jobs, AsksReset(t, j)
      PROVE  LoginCountOK'
  <2> SUFFICES ASSUME NEW o \in C!Otps
               PROVE  FewTries(o)'
    BY DEF LoginCountOK
  <2>1. /\ Counting(o)' \subseteq Counting(o)
        /\ otp'[o].attempts <= otp[o].attempts
    BY <1>8 DEF C!TypeOK, Counting, AsksReset, LoginBegins
  <2>2. otp[o].attempts \in Nat /\ otp'[o].attempts \in Nat
    BY LoginTypeStep DEF C!TypeOK
  <2> QED
    BY <2>1, <2>2, StillFew DEF LoginCountOK
<1>9. ASSUME NEW t \in Threads, Resets(t)
      PROVE  LoginCountOK'
  <2> SUFFICES ASSUME NEW o \in C!Otps
               PROVE  FewTries(o)'
    BY DEF LoginCountOK
  <2>1. /\ Counting(o)' \subseteq Counting(o)
        /\ otp'[o].attempts <= otp[o].attempts
    BY <1>9, NoJobIsJob, NoOtpIsRow DEF C!TypeOK, Counting, Resets, Marks,
       LoginWrites, C!Leave, C!NoOtp, C!Otps, Row
  <2>2. otp[o].attempts \in Nat /\ otp'[o].attempts \in Nat
    BY LoginTypeStep DEF C!TypeOK
  <2> QED
    BY <2>1, <2>2, StillFew DEF LoginCountOK
<1>10. ASSUME NEW t \in Threads, NEW j \in C!Jobs, AsksChange(t, j)
      PROVE  LoginCountOK'
  <2> SUFFICES ASSUME NEW o \in C!Otps
               PROVE  FewTries(o)'
    BY DEF LoginCountOK
  <2>1. /\ Counting(o)' \subseteq Counting(o)
        /\ otp'[o].attempts <= otp[o].attempts
    BY <1>10 DEF C!TypeOK, Counting, AsksChange, LoginBegins
  <2>2. otp[o].attempts \in Nat /\ otp'[o].attempts \in Nat
    BY LoginTypeStep DEF C!TypeOK
  <2> QED
    BY <2>1, <2>2, StillFew DEF LoginCountOK
<1>11. ASSUME NEW t \in Threads, Changes(t)
      PROVE  LoginCountOK'
  <2> SUFFICES ASSUME NEW o \in C!Otps
               PROVE  FewTries(o)'
    BY DEF LoginCountOK
  <2>1. /\ Counting(o)' \subseteq Counting(o)
        /\ otp'[o].attempts <= otp[o].attempts
    BY <1>11, NoJobIsJob, NoOtpIsRow DEF C!TypeOK, Counting, Changes,
       LoginWrites, C!Leave
  <2>2. otp[o].attempts \in Nat /\ otp'[o].attempts \in Nat
    BY LoginTypeStep DEF C!TypeOK
  <2> QED
    BY <2>1, <2>2, StillFew DEF LoginCountOK
<1>12. ASSUME NEW t \in Threads, NEW u \in Users, ResetsPin(t, u)
      PROVE  LoginCountOK'
  <2> SUFFICES ASSUME NEW o \in C!Otps
               PROVE  FewTries(o)'
    BY DEF LoginCountOK
  <2>1. /\ Counting(o)' \subseteq Counting(o)
        /\ otp'[o].attempts <= otp[o].attempts
    BY <1>12 DEF C!TypeOK, Counting, ResetsPin, LoginWrites
  <2>2. otp[o].attempts \in Nat /\ otp'[o].attempts \in Nat
    BY LoginTypeStep DEF C!TypeOK
  <2> QED
    BY <2>1, <2>2, StillFew DEF LoginCountOK
<1>13. ASSUME NEW t \in Threads, LoginFails(t)
      PROVE  LoginCountOK'
  <2> SUFFICES ASSUME NEW o \in C!Otps
               PROVE  FewTries(o)'
    BY DEF LoginCountOK
  <2>1. /\ Counting(o)' \subseteq Counting(o)
        /\ otp'[o].attempts <= otp[o].attempts
    BY <1>13, NoJobIsJob, NoOtpIsRow DEF C!TypeOK, Counting, LoginFails,
       C!Leave
  <2>2. otp[o].attempts \in Nat /\ otp'[o].attempts \in Nat
    BY LoginTypeStep DEF C!TypeOK
  <2> QED
    BY <2>1, <2>2, StillFew DEF LoginCountOK
<1>14. ASSUME NEW o \in C!Otps, NEW row \in Row, TimesOut(o, row)
      PROVE  LoginCountOK'
  <2> SUFFICES ASSUME NEW c \in C!Otps
               PROVE  FewTries(c)'
    BY DEF LoginCountOK
  <2>1. /\ Counting(c)' \subseteq Counting(c)
        /\ otp'[c].attempts <= otp[c].attempts
    BY <1>14 DEF C!TypeOK, Counting, TimesOut, Marks
  <2>2. otp[c].attempts \in Nat /\ otp'[c].attempts \in Nat
    BY LoginTypeStep DEF C!TypeOK
  <2> QED
    BY <2>1, <2>2, StillFew DEF LoginCountOK
<1>15. QED
  BY <1>1, <1>2, <1>3, <1>4, <1>5, <1>6, <1>7, <1>8, <1>9, <1>10, <1>11,
     <1>12, <1>13, <1>14 DEF LoginStep, OtpStep, SecretStep

(* Codes that can be used, and those to be issued, are few.                *)
LEMMA LiveStep ==
    ASSUME C!TypeOK, JobsOK, RowsOK, LiveOK, LoginStep
    PROVE  LiveOK'
<1>1. ASSUME NEW t \in Threads, NEW j \in C!Jobs, AsksForgot(t, j)
      PROVE  LiveOK'
  <2> SUFFICES ASSUME NEW u \in Users
               PROVE  FewLive(u)'
    BY DEF LiveOK
  <2>1. CASE u = j.user
    <3>1. C!Live(u)' = {} /\ Issuing(u)' \subseteq Threads
      BY <1>1, <2>1 DEF AsksForgot, C!Live, Issuing, C!Otps
    <3>2. u \notin crossed' => Issuing(u)' = {t}
      BY <1>1, <2>1 DEF AsksForgot, LoginBegins, Issuing, C!TypeOK
    <3>3. /\ Cardinality(C!Live(u)') = 0
          /\ u \notin crossed' => Cardinality(Issuing(u)') = 1
      BY <3>1, <3>2, FS_EmptySet, FS_Singleton
    <3>4. /\ Cardinality(Issuing(u)') \in Nat /\ Cardinality(Threads) \in Nat
          /\ Cardinality(Issuing(u)') <= Cardinality(Threads)
      BY <3>1, FS_Subset, FS_CardinalityType
    <3> QED
      BY <3>3, <3>4 DEF FewLive
  <2>2. CASE u # j.user
    <3>1. /\ C!Live(u)' \subseteq C!Live(u)
          /\ Issuing(u)' \subseteq Issuing(u)
          /\ crossed' \subseteq crossed \cup {j.user}
          /\ crossed \subseteq crossed'
      BY <1>1, <2>2 DEF C!TypeOK, C!Live, Issuing, AsksForgot, LoginBegins
    <3> QED
      BY <2>2, <3>1, StillLive DEF LiveOK
  <2> QED
    BY <2>1, <2>2
<1>2. ASSUME NEW t \in Threads, NEW j \in C!Jobs, NEW row \in Row,
             Issues(t, j, row)
      PROVE  LiveOK'
  <2> SUFFICES ASSUME NEW u \in Users
               PROVE  FewLive(u)'
    BY DEF LiveOK
  <2> DEFINE n == issued + 1
  <2>0. n \in C!Otps /\ otp[n].user = None /\ crossed' = crossed
    BY <1>2 DEF Issues, C!TypeOK, RowsOK, C!Exists, C!Otps
  <2>1. CASE u = otpJob[t].user
    <3>1. n \notin C!Live(u) /\ C!Live(u)' = C!Live(u) \cup {n}
      BY <1>2, <2>0, <2>1 DEF Issues, Marks, C!Live, C!TypeOK
    <3>2. t \in Issuing(u) /\ Issuing(u)' = Issuing(u) \ {t}
      BY <1>2, <2>1 DEF Issues, Issuing, C!TypeOK
    <3> HIDE DEF n
    <3>3. IsFiniteSet(C!Live(u)) /\ IsFiniteSet(Issuing(u))
      BY LiveIsFinite
    <3>4. /\ Cardinality(C!Live(u)) \in Nat /\ Cardinality(Issuing(u)) \in Nat
          /\ Cardinality(Threads) \in Nat
      BY <3>3, FS_CardinalityType
    <3>5. /\ Cardinality(C!Live(u)') = Cardinality(C!Live(u)) + 1
          /\ Cardinality(Issuing(u)') = Cardinality(Issuing(u)) - 1
      <4>1. Cardinality(C!Live(u) \cup {n}) = Cardinality(C!Live(u)) + 1
        BY <3>1, <3>3, FS_AddElement
      <4>2. Cardinality(Issuing(u) \ {t}) = Cardinality(Issuing(u)) - 1
        BY <3>2, <3>3, FS_RemoveElement
      <4> QED
        BY <3>1, <3>2, <4>1, <4>2
    <3> QED
      BY <2>0, <3>4, <3>5 DEF FewLive, LiveOK
  <2>2. CASE u # otpJob[t].user
    <3>1. /\ C!Live(u)' \subseteq C!Live(u)
          /\ Issuing(u)' \subseteq Issuing(u)
      BY <1>2, <2>0, <2>2 DEF C!TypeOK, C!Live, Issuing, Issues, Marks
    <3> QED
      BY <2>0, <3>1, StillLive DEF LiveOK
  <2> QED
    BY <2>1, <2>2
<1>3. ASSUME NEW t \in Threads, Mails(t)
      PROVE  LiveOK'
  <2> SUFFICES ASSUME NEW u \in Users
               PROVE  FewLive(u)'
    BY DEF LiveOK
  <2>1. /\ C!Live(u)' \subseteq C!Live(u) /\ Issuing(u)' \subseteq Issuing(u)
        /\ crossed \subseteq crossed'
    BY <1>3, NoJobIsJob, NoOtpIsRow DEF C!TypeOK, C!Live, Issuing, Mails,
       C!Leave
  <2> QED
    BY <2>1, StillLive DEF LiveOK
<1>4. ASSUME NEW t \in Threads, NEW p \in C!Positions, NEW j \in C!Jobs,
             AsksVerify(t, p, j)
      PROVE  LiveOK'
  <2> SUFFICES ASSUME NEW u \in Users
               PROVE  FewLive(u)'
    BY DEF LiveOK
  <2>1. /\ C!Live(u)' \subseteq C!Live(u) /\ Issuing(u)' \subseteq Issuing(u)
        /\ crossed \subseteq crossed'
    BY <1>4 DEF C!TypeOK, C!Live, Issuing, AsksVerify, LoginBegins
  <2> QED
    BY <2>1, StillLive DEF LiveOK
<1>5. ASSUME NEW t \in Threads, NEW row \in Row, Counts(t, row)
      PROVE  LiveOK'
  <2> SUFFICES ASSUME NEW u \in Users
               PROVE  FewLive(u)'
    BY DEF LiveOK
  <2>1. /\ C!Live(u)' \subseteq C!Live(u) /\ Issuing(u)' \subseteq Issuing(u)
        /\ crossed \subseteq crossed'
    BY <1>5, NoJobIsJob, NoOtpIsRow DEF C!TypeOK, C!Live, Issuing, Counts,
       Marks, C!Leave
  <2> QED
    BY <2>1, StillLive DEF LiveOK
<1>6. ASSUME NEW t \in Threads, NEW row \in Row, Expires(t, row)
      PROVE  LiveOK'
  <2> SUFFICES ASSUME NEW u \in Users
               PROVE  FewLive(u)'
    BY DEF LiveOK
  <2>1. /\ C!Live(u)' \subseteq C!Live(u) /\ Issuing(u)' \subseteq Issuing(u)
        /\ crossed \subseteq crossed'
    BY <1>6, NoJobIsJob, NoOtpIsRow DEF C!TypeOK, C!Live, Issuing, Expires,
       Marks, C!Leave
  <2> QED
    BY <2>1, StillLive DEF LiveOK
<1>7. ASSUME NEW t \in Threads, NEW row \in Row, Verifies(t, row)
      PROVE  LiveOK'
  <2> SUFFICES ASSUME NEW u \in Users
               PROVE  FewLive(u)'
    BY DEF LiveOK
  <2>1. /\ C!Live(u)' \subseteq C!Live(u) /\ Issuing(u)' \subseteq Issuing(u)
        /\ crossed \subseteq crossed'
    BY <1>7, NoJobIsJob, NoOtpIsRow DEF C!TypeOK, C!Live, Issuing, Verifies,
       Marks, C!Leave
  <2> QED
    BY <2>1, StillLive DEF LiveOK
<1>8. ASSUME NEW t \in Threads, NEW j \in C!Jobs, AsksReset(t, j)
      PROVE  LiveOK'
  <2> SUFFICES ASSUME NEW u \in Users
               PROVE  FewLive(u)'
    BY DEF LiveOK
  <2>1. /\ C!Live(u)' \subseteq C!Live(u) /\ Issuing(u)' \subseteq Issuing(u)
        /\ crossed \subseteq crossed'
    BY <1>8 DEF C!TypeOK, C!Live, Issuing, AsksReset, LoginBegins
  <2> QED
    BY <2>1, StillLive DEF LiveOK
<1>9. ASSUME NEW t \in Threads, Resets(t)
      PROVE  LiveOK'
  <2> SUFFICES ASSUME NEW u \in Users
               PROVE  FewLive(u)'
    BY DEF LiveOK
  <2>1. /\ C!Live(u)' \subseteq C!Live(u) /\ Issuing(u)' \subseteq Issuing(u)
        /\ crossed \subseteq crossed'
    BY <1>9, NoJobIsJob, NoOtpIsRow DEF C!TypeOK, C!Live, Issuing, Resets,
       Marks, LoginWrites, C!Leave, C!NoOtp, Row
  <2> QED
    BY <2>1, StillLive DEF LiveOK
<1>10. ASSUME NEW t \in Threads, NEW j \in C!Jobs, AsksChange(t, j)
      PROVE  LiveOK'
  <2> SUFFICES ASSUME NEW u \in Users
               PROVE  FewLive(u)'
    BY DEF LiveOK
  <2>1. /\ C!Live(u)' \subseteq C!Live(u) /\ Issuing(u)' \subseteq Issuing(u)
        /\ crossed \subseteq crossed'
    BY <1>10 DEF C!TypeOK, C!Live, Issuing, AsksChange, LoginBegins
  <2> QED
    BY <2>1, StillLive DEF LiveOK
<1>11. ASSUME NEW t \in Threads, Changes(t)
      PROVE  LiveOK'
  <2> SUFFICES ASSUME NEW u \in Users
               PROVE  FewLive(u)'
    BY DEF LiveOK
  <2>1. /\ C!Live(u)' \subseteq C!Live(u) /\ Issuing(u)' \subseteq Issuing(u)
        /\ crossed \subseteq crossed'
    BY <1>11, NoJobIsJob, NoOtpIsRow DEF C!TypeOK, C!Live, Issuing, Changes,
       LoginWrites, C!Leave
  <2> QED
    BY <2>1, StillLive DEF LiveOK
<1>12. ASSUME NEW t \in Threads, NEW u \in Users, ResetsPin(t, u)
      PROVE  LiveOK'
  <2> SUFFICES ASSUME NEW v \in Users
               PROVE  FewLive(v)'
    BY DEF LiveOK
  <2>1. /\ C!Live(v)' \subseteq C!Live(v) /\ Issuing(v)' \subseteq Issuing(v)
        /\ crossed \subseteq crossed'
    BY <1>12 DEF C!TypeOK, C!Live, Issuing, ResetsPin, LoginWrites
  <2> QED
    BY <2>1, StillLive DEF LiveOK
<1>13. ASSUME NEW t \in Threads, LoginFails(t)
      PROVE  LiveOK'
  <2> SUFFICES ASSUME NEW u \in Users
               PROVE  FewLive(u)'
    BY DEF LiveOK
  <2>1. /\ C!Live(u)' \subseteq C!Live(u) /\ Issuing(u)' \subseteq Issuing(u)
        /\ crossed \subseteq crossed'
    BY <1>13, NoJobIsJob, NoOtpIsRow DEF C!TypeOK, C!Live, Issuing,
       LoginFails, C!Leave
  <2> QED
    BY <2>1, StillLive DEF LiveOK
<1>14. ASSUME NEW o \in C!Otps, NEW row \in Row, TimesOut(o, row)
      PROVE  LiveOK'
  <2> SUFFICES ASSUME NEW u \in Users
               PROVE  FewLive(u)'
    BY DEF LiveOK
  <2>1. /\ C!Live(u)' \subseteq C!Live(u) /\ Issuing(u)' \subseteq Issuing(u)
        /\ crossed \subseteq crossed'
    BY <1>14 DEF C!TypeOK, C!Live, Issuing, TimesOut, Marks
  <2> QED
    BY <2>1, StillLive DEF LiveOK
<1>15. QED
  BY <1>1, <1>2, <1>3, <1>4, <1>5, <1>6, <1>7, <1>8, <1>9, <1>10, <1>11,
     <1>12, <1>13, <1>14 DEF LoginStep, OtpStep, SecretStep

(* A secret is replaced by who knew it, held a code, or is logged in.      *)
LEMMA KnowingStep ==
    ASSUME C!TypeOK, JobsOK, LoginStep
    PROVE  C!ReplacedKnowingly
<1>1. ASSUME NEW t \in Threads, NEW j \in C!Jobs, AsksForgot(t, j)
      PROVE  C!ReplacedKnowingly
  BY <1>1 DEF C!TypeOK, C!ReplacedKnowingly, AsksForgot, LoginBegins
<1>2. ASSUME NEW t \in Threads, NEW j \in C!Jobs, NEW row \in Row,
             Issues(t, j, row)
      PROVE  C!ReplacedKnowingly
  BY <1>2 DEF C!TypeOK, C!ReplacedKnowingly, Issues, Marks
<1>3. ASSUME NEW t \in Threads, Mails(t)
      PROVE  C!ReplacedKnowingly
  BY <1>3 DEF C!TypeOK, C!ReplacedKnowingly, Mails, C!Leave
<1>4. ASSUME NEW t \in Threads, NEW p \in C!Positions, NEW j \in C!Jobs,
             AsksVerify(t, p, j)
      PROVE  C!ReplacedKnowingly
  BY <1>4 DEF C!TypeOK, C!ReplacedKnowingly, AsksVerify, LoginBegins
<1>5. ASSUME NEW t \in Threads, NEW row \in Row, Counts(t, row)
      PROVE  C!ReplacedKnowingly
  BY <1>5 DEF C!TypeOK, C!ReplacedKnowingly, Counts, Marks, C!Leave
<1>6. ASSUME NEW t \in Threads, NEW row \in Row, Expires(t, row)
      PROVE  C!ReplacedKnowingly
  BY <1>6 DEF C!TypeOK, C!ReplacedKnowingly, Expires, Marks, C!Leave
<1>7. ASSUME NEW t \in Threads, NEW row \in Row, Verifies(t, row)
      PROVE  C!ReplacedKnowingly
  BY <1>7 DEF C!TypeOK, C!ReplacedKnowingly, Verifies, Marks, C!Leave
<1>8. ASSUME NEW t \in Threads, NEW j \in C!Jobs, AsksReset(t, j)
      PROVE  C!ReplacedKnowingly
  BY <1>8 DEF C!TypeOK, C!ReplacedKnowingly, AsksReset, LoginBegins
<1>9. ASSUME NEW t \in Threads, Resets(t)
      PROVE  C!ReplacedKnowingly
  BY <1>9 DEF C!TypeOK, C!ReplacedKnowingly, JobsOK, JobOK, C!Exists, C!Kinds,
     Resets, Marks, LoginWrites, C!Leave
<1>10. ASSUME NEW t \in Threads, NEW j \in C!Jobs, AsksChange(t, j)
      PROVE  C!ReplacedKnowingly
  BY <1>10 DEF C!TypeOK, C!ReplacedKnowingly, AsksChange, LoginBegins
<1>11. ASSUME NEW t \in Threads, Changes(t)
      PROVE  C!ReplacedKnowingly
  BY <1>11 DEF C!TypeOK, C!ReplacedKnowingly, JobsOK, JobOK, Changes,
     LoginWrites, C!Leave
<1>12. ASSUME NEW t \in Threads, NEW u \in Users, ResetsPin(t, u)
      PROVE  C!ReplacedKnowingly
  BY <1>12 DEF C!TypeOK, C!ReplacedKnowingly, C!Kinds, ResetsPin, LoginWrites
<1>13. ASSUME NEW t \in Threads, LoginFails(t)
      PROVE  C!ReplacedKnowingly
  BY <1>13 DEF C!TypeOK, C!ReplacedKnowingly, LoginFails, C!Leave
<1>14. ASSUME NEW o \in C!Otps, NEW row \in Row, TimesOut(o, row)
      PROVE  C!ReplacedKnowingly
  BY <1>14 DEF C!TypeOK, C!ReplacedKnowingly, TimesOut, Marks
<1>15. QED
  BY <1>1, <1>2, <1>3, <1>4, <1>5, <1>6, <1>7, <1>8, <1>9, <1>10, <1>11,
     <1>12, <1>13, <1>14 DEF LoginStep, OtpStep, SecretStep

-----------------------------------------------------------------------------

LEMMA LimitPositive == 0 + 0 < AttemptLimit + Cardinality(Threads)
<1>1. Cardinality(Threads) \in Nat
  BY FS_CardinalityType
<1> QED
  BY <1>1

LEMMA LoginInitIInv == C!Init => LoginIInv
<1> SUFFICES ASSUME C!Init
             PROVE  LoginIInv
  OBVIOUS
<1>1. C!TypeOK /\ JobsOK /\ RowsOK
  <2>1. 0 \in C!Secrets /\ 0 \in 0..MaxOtps /\ "idle" \in C!Positions
    BY DEF C!Secrets, C!Positions
  <2> QED
    BY <2>1, NoJobIsJob, NoOtpIsRow
    DEF C!Init, C!TypeOK, JobsOK, JobOK, RowsOK, Row, C!Exists
<1>2. LoginCountOK
  <2>1. ASSUME NEW o \in C!Otps
        PROVE  otp[o].attempts = 0 /\ Counting(o) = {}
    BY NoOtpIsRow DEF C!Init, Counting
  <2>2. Cardinality({}) = 0 /\ Cardinality(Threads) \in Nat
    BY FS_EmptySet, FS_CardinalityType
  <2> QED
    BY <2>1, <2>2, LimitPositive DEF LoginCountOK, FewTries
<1>3. LiveOK
  <2>1. ASSUME NEW u \in Users
        PROVE  C!Live(u) = {} /\ Issuing(u) = {}
    BY NoOtpIsRow DEF C!Init, C!Live, Issuing
  <2>2. Cardinality({}) = 0 /\ Cardinality(Threads) \in Nat
    BY FS_EmptySet, FS_CardinalityType
  <2> QED
    BY <2>1, <2>2 DEF LiveOK, FewLive
<1> QED
  BY <1>1, <1>2, <1>3 DEF LoginIInv

LEMMA LoginStepIInv ==
    LoginIInv /\ [C!Next]_(C!vars) => LoginIInv' /\ C!ReplacedKnowingly
<1> SUFFICES ASSUME LoginIInv, [C!Next]_(C!vars)
             PROVE  LoginIInv' /\ C!ReplacedKnowingly
  OBVIOUS
<1>1. CASE C!Next
  BY <1>1, LoginStepIs, LoginTypeStep, JobsStep, RowsStep, CountStep,
     LiveStep, KnowingStep DEF LoginIInv
<1>2. CASE UNCHANGED C!vars
  <2>1. /\ UNCHANGED <<secret, chosen, issued, otp, tokens, otpPc, otpJob>>
        /\ UNCHANGED <<mailed, resets, proven, crossed, raced>>
    BY <1>2 DEF C!vars, C!rows, C!request, C!history
  <2>2. C!TypeOK' /\ JobsOK' /\ RowsOK'
    BY <2>1 DEF LoginIInv, C!TypeOK, JobsOK, JobOK, RowsOK, C!Exists
  <2>3. LoginCountOK' /\ LiveOK'
    BY <2>1 DEF LoginIInv, LoginCountOK, FewTries, Counting, LiveOK, FewLive,
       C!Live, Issuing
  <2> QED
    BY <2>1, <2>2, <2>3 DEF LoginIInv, C!ReplacedKnowingly
<1> QED
  BY <1>1, <1>2

(* What the invariant says of resets.                                      *)
LEMMA ResetsFollow ==
    ASSUME LoginIInv
    PROVE  /\ \A o \in C!Otps :
                 otp[o].attempts < AttemptLimit + Cardinality(Threads)
           /\ \A u \in Users :
                 /\ Cardinality(C!Live(u)) <= Cardinality(Threads)
                 /\ u \notin crossed => Cardinality(C!Live(u)) <= 1
           /\ C!ResetsAreEarned
<1>1. ASSUME NEW o \in C!Otps
      PROVE  otp[o].attempts < AttemptLimit + Cardinality(Threads)
  <2>1. Cardinality(Counting(o)) \in Nat /\ Cardinality(Threads) \in Nat
    BY FS_Subset, FS_CardinalityType DEF Counting
  <2> QED
    BY <2>1 DEF LoginIInv, LoginCountOK, FewTries, C!TypeOK
<1>2. ASSUME NEW u \in Users
      PROVE  /\ Cardinality(C!Live(u)) <= Cardinality(Threads)
             /\ u \notin crossed => Cardinality(C!Live(u)) <= 1
  <2>1. Cardinality(C!Live(u)) \in Nat /\ Cardinality(Issuing(u)) \in Nat
    BY LiveIsFinite, FS_CardinalityType
  <2>2. Cardinality(Threads) \in Nat
    BY FS_CardinalityType
  <2> QED
    BY <2>1, <2>2 DEF LoginIInv, LiveOK, FewLive
<1>3. C!ResetsAreEarned
  BY DEF LoginIInv, RowsOK, C!ResetsAreEarned
<1> QED
  BY <1>1, <1>2, <1>3

HIDE CredentialsAssumption

-----------------------------------------------------------------------------
(* Polls, rooms, announcements, tickets: the inductive invariant. *)

Reqs == [item : Y!Items \cup DOMAIN RoomIds \cup {None},
         user : Y!Everyone \cup {None}, cleared : BOOLEAN, held : BOOLEAN,
         field : {"likes", "comments"}, delta : {-1, 0, 1},
         value : BOOLEAN, outcome : Y!Outcomes \cup {"OPEN"}]

(* What a request is about at each place, ...                              *)
PlaceOK(p, j) ==
    /\ p \in {"ballot", "cast"} => j.item \in Polls /\ j.user \in Y!Everyone
    /\ p = "write" => j.item \in Y!Rooms /\ j.user \in Y!Everyone
    /\ p = "room" => j.item \in DOMAIN RoomIds
    /\ p \in {"like", "unlike"} =>
           j.item \in Posts /\ j.user \in Y!Everyone /\ j.field = "likes"
    /\ p \in {"count", "pin"} => j.item \in Posts
    /\ p = "decide" => j.item \in Tickets /\ j.outcome \in Y!Outcomes
    /\ p \in {"join", "leave"} => j.item \in Committees /\ j.user \in Y!Everyone

ReqsOK ==
    /\ req \in [Threads -> Reqs]
    /\ \A t \in Threads : PlaceOK(pos[t], req[t])

Timelines == [Tickets -> Seq(Y!Outcomes \cup {"OPEN"})]

(* ... and what it has judged: the poll or room was open, or is known to   *)
(* have been; the user was cleared, or is known to have been.              *)
EntryOK(t) ==
    /\ pos[t] \in {"cast", "write"} /\ state[req[t].item] = "CLOSED" =>
           <<req[t].item, req[t].user>> \in granted
    /\ pos[t] = "ballot" /\ req[t].cleared => req[t].user \in cleared \cup lapsed
    /\ pos[t] = "cast" =>
           /\ state[req[t].item] # "NONE"
           /\ req[t].item \in restricted => req[t].user \in cleared \cup lapsed

EntriesOK == \A t \in Threads : EntryOK(t)

(* A request about to take a like back that it found finds it.             *)
HeldOK == \A t \in Threads :
    pos[t] = "unlike" /\ req[t].held /\ state[req[t].item] # "GONE" =>
        req[t].user \in rowsOf[req[t].item]

(* Requests that still owe a count its change.                             *)
Owing(a, field) == {t \in Threads : pos[t] = "count" /\ req[t].item = a
                                   /\ req[t].field = field}

CommunityCountOK(a) == state[a] # "GONE" /\ a \notin torn =>
    /\ count[a].likes + Y!Owed(a, "likes") = Cardinality(rowsOf[a])
    /\ count[a].comments + Y!Owed(a, "comments") = comments[a]

CountsOK == \A a \in Posts : IsFiniteSet(rowsOf[a]) /\ CommunityCountOK(a)

(* Of what has no key, one request at a time, unless two were noted.       *)
Alone(place, i) == \A t, v \in Threads :
    pos[t] = place /\ pos[v] = place /\ req[t].item = i /\ req[v].item = i =>
        t = v

RoomOK(k) == k \notin doubled =>
    /\ Alone("room", k)
    /\ \A t \in Threads : pos[t] = "room" /\ req[t].item = k => Y!Existing(k) = {}
    /\ \A r, q \in Y!Existing(k) : r = q

RoomsOK == \A k \in DOMAIN RoomIds : RoomOK(k)

TicketOK(i) ==
    /\ \A t \in Threads :
          pos[t] = "decide" /\ req[t].item = i => state[i] # "NONE"
    /\ state[i] # "NONE" => timeline[i] # <<>> /\ Y!Last(timeline[i]) = state[i]
    /\ i \notin doubled =>
          /\ Alone("decide", i)
          /\ \A t \in Threads :
                pos[t] = "decide" /\ req[t].item = i => state[i] = "OPEN"
          /\ state[i] = "OPEN" => Len(timeline[i]) = 1
          /\ state[i] # "NONE" => Len(timeline[i]) <= 2

TicketsOK == timeline \in Timelines /\ \A i \in Tickets : TicketOK(i)

PinOK(a) ==
    /\ \A t \in Threads : pos[t] = "pin" /\ req[t].item = a => state[a] # "NONE"
    /\ a \notin doubled =>
          /\ Alone("pin", a)
          /\ \A t \in Threads : pos[t] = "pin" /\ req[t].item = a =>
                (req[t].value <=> a \notin pinned)
          /\ a \in pinned <=> a \in flips

PinsOK == \A a \in Posts : PinOK(a)

CommunityIInv == Y!TypeOK /\ ReqsOK /\ EntriesOK /\ HeldOK /\ CountsOK /\ RoomsOK
        /\ TicketsOK /\ PinsOK

USE CredentialsAssumption
USE CommunityAssumption

-----------------------------------------------------------------------------
(* What the proofs know of a step. *)

(* The requests but t keep everything, but may lose what they held.        *)
Alike(j, k) ==
    /\ j.item = k.item /\ j.user = k.user /\ j.cleared = k.cleared
    /\ j.field = k.field /\ j.delta = k.delta /\ j.value = k.value
    /\ j.outcome = k.outcome
    /\ j.held => k.held

Turns(t, p, j) ==
    /\ p \in Y!Places /\ j \in Reqs /\ PlaceOK(p, j)
    /\ pos' = [pos EXCEPT ![t] = p]
    /\ req' \in [Threads -> Reqs]
    /\ req'[t] = j
    /\ \A v \in Threads \ {t} : Alike(req'[v], req[v])

Stays == UNCHANGED <<pos, req, doubled>>

(* Items. *)

MakesPoll(p) ==
    /\ p \in Polls /\ state[p] = "NONE"
    /\ state' = [state EXCEPT ![p] = "OPEN"]
    /\ restricted' \subseteq restricted \cup {p}
    /\ Stays
    /\ UNCHANGED <<area, rowsOf, cleared, comments, count, pinned, timeline>>
    /\ UNCHANGED <<granted, lapsed, torn, flips>>

Makes(i) ==
    /\ i \in Posts \cup Committees /\ state[i] = "NONE"
    /\ state' = [state EXCEPT ![i] = "OPEN"]
    /\ \/ UNCHANGED <<pinned, flips>>
       \/ i \in Posts /\ pinned' = pinned \cup {i} /\ flips' = flips \cup {i}
    /\ Stays
    /\ UNCHANGED <<area, rowsOf, restricted, cleared, comments, count>>
    /\ UNCHANGED <<timeline, granted, lapsed, torn>>

MakesTicket(i) ==
    /\ i \in Tickets /\ state[i] = "NONE"
    /\ state' = [state EXCEPT ![i] = "OPEN"]
    /\ timeline' = [timeline EXCEPT ![i] = <<"OPEN">>]
    /\ Stays
    /\ UNCHANGED <<area, rowsOf, restricted, cleared, comments, count, pinned>>
    /\ UNCHANGED <<granted, lapsed, torn, flips>>

Closes(i) ==
    /\ i \in Polls \cup Y!Rooms /\ state[i] = "OPEN"
    /\ state' = [state EXCEPT ![i] = "CLOSED"]
    /\ granted \subseteq granted'
    /\ \A v \in Threads : pos[v] \in {"cast", "write"} /\ req[v].item = i =>
          <<i, req[v].user>> \in granted'
    /\ Stays
    /\ UNCHANGED <<area, rowsOf, restricted, cleared, comments, count, pinned>>
    /\ UNCHANGED <<timeline, lapsed, torn, flips>>

Deletes(i) ==
    /\ i \in Polls \cup Posts \cup Committees
    /\ state[i] \in {"OPEN", "CLOSED"}
    /\ state' = [state EXCEPT ![i] = "GONE"]
    /\ rowsOf' = [rowsOf EXCEPT ![i] = {}]
    /\ comments' \in [Posts -> 0..MaxComments]
    /\ \A a \in Posts \ {i} : comments'[a] = comments[a]
    /\ Stays
    /\ UNCHANGED <<area, restricted, cleared, count, pinned, timeline>>
    /\ UNCHANGED <<granted, lapsed, torn, flips>>

Clears(u) ==
    /\ cleared \subseteq cleared' \cup {u} /\ cleared' \subseteq Neighbours
    /\ lapsed \subseteq lapsed'
    /\ (\E t \in Threads : req[t].user = u) => u \in lapsed'
    /\ Stays
    /\ UNCHANGED <<area, state, rowsOf, restricted, comments, count, pinned>>
    /\ UNCHANGED <<timeline, granted, torn, flips>>

(* Requests begin. *)

Asks(t, p, j) ==
    /\ pos[t] = "idle"
    /\ Turns(t, p, j)
    /\ UNCHANGED <<area, state, rowsOf, restricted, cleared, count, pinned>>
    /\ UNCHANGED <<timeline, granted, lapsed, torn, flips>>

AsksVote(t, j) ==
    /\ Asks(t, "ballot", j)
    /\ j.cleared => j.user \in cleared
    /\ UNCHANGED <<comments, doubled>>

AsksMessage(t, j) ==
    /\ Asks(t, "write", j)
    /\ state[j.item] = "OPEN"
    /\ UNCHANGED <<comments, doubled>>

AsksOther(t, p, j) ==
    /\ p \in {"like", "join", "leave"}
    /\ Asks(t, p, j)
    /\ UNCHANGED <<comments, doubled>>

AsksUnlike(t, j) ==
    /\ Asks(t, "unlike", j)
    /\ j.user \in rowsOf[j.item]
    /\ UNCHANGED <<comments, doubled>>

AddsComment(t, j) ==
    /\ Asks(t, "count", j)
    /\ j.field = "comments" /\ j.delta = 1 /\ comments[j.item] < MaxComments
    /\ comments' = [comments EXCEPT ![j.item] = comments[j.item] + 1]
    /\ UNCHANGED doubled

Contends(p, i) ==
    /\ doubled \subseteq doubled'
    /\ \A v \in Threads : pos[v] = p /\ req[v].item = i => i \in doubled'
    /\ UNCHANGED comments

AsksRoom(t, j) ==
    /\ Asks(t, "room", j) /\ Contends("room", j.item)
    /\ Y!Existing(j.item) = {}

AsksPin(t, j) ==
    /\ Asks(t, "pin", j) /\ Contends("pin", j.item)
    /\ state[j.item] = "OPEN" /\ (j.value <=> j.item \notin pinned)

AsksDecide(t, j) ==
    /\ Asks(t, "decide", j) /\ Contends("decide", j.item)
    /\ state[j.item] = "OPEN"

(* Requests go on. *)

Judges(t, j) ==
    /\ pos[t] = "ballot"
    /\ Turns(t, "cast", j) /\ j = req[t]
    /\ j.item \in restricted => j.cleared
    /\ state[j.item] = "OPEN"
    /\ UNCHANGED <<area, state, rowsOf, restricted, cleared, comments, count>>
    /\ UNCHANGED <<pinned, timeline, granted, lapsed, doubled, torn, flips>>

Adds(i, u) ==
    /\ rowsOf' = [rowsOf EXCEPT ![i] = rowsOf[i] \cup {u}]
    /\ UNCHANGED <<area, state, restricted, cleared, comments, count, pinned>>
    /\ UNCHANGED <<timeline, granted, lapsed, doubled, torn, flips>>

Casts(t) ==
    /\ pos[t] = "cast"
    /\ Adds(req[t].item, req[t].user)
    /\ Turns(t, "idle", Y!NoRequest)

CommunityWrites(t) ==
    /\ pos[t] = "write"
    /\ Adds(req[t].item, req[t].user)
    /\ Turns(t, "idle", Y!NoRequest)

Joins(t) ==
    /\ pos[t] = "join" /\ state[req[t].item] = "OPEN"
    /\ Adds(req[t].item, req[t].user)
    /\ Turns(t, "idle", Y!NoRequest)

Likes(t, j) ==
    /\ pos[t] = "like" /\ state[req[t].item] = "OPEN"
    /\ req[t].user \notin rowsOf[req[t].item]
    /\ Adds(req[t].item, req[t].user)
    /\ Turns(t, "count", j)
    /\ j.item = req[t].item /\ j.field = "likes" /\ j.delta = 1

Takes(t) ==
    /\ rowsOf' = [rowsOf EXCEPT ![req[t].item] = @ \ {req[t].user}]
    /\ \A v \in Threads \ {t} :
          req'[v].held => \/ req[v].item # req[t].item
                          \/ req[v].user # req[t].user
    /\ UNCHANGED <<area, state, restricted, cleared, comments, count, pinned>>
    /\ UNCHANGED <<timeline, granted, lapsed, doubled, torn, flips>>

Unlikes(t, j) ==
    /\ pos[t] = "unlike" /\ req[t].held
    /\ Takes(t)
    /\ Turns(t, "count", j)
    /\ j.item = req[t].item /\ j.field = "likes" /\ j.delta = -1

Leaves(t) ==
    /\ pos[t] = "leave"
    /\ Takes(t)
    /\ Turns(t, "idle", Y!NoRequest)

MakesRoom(t, r) ==
    /\ pos[t] = "room"
    /\ r \in RoomIds[req[t].item] /\ state[r] = "NONE"
    /\ state' = [state EXCEPT ![r] = "OPEN"]
    /\ Turns(t, "idle", Y!NoRequest)
    /\ UNCHANGED <<area, rowsOf, restricted, cleared, comments, count, pinned>>
    /\ UNCHANGED <<timeline, granted, lapsed, doubled, torn, flips>>

Adjusts(t, c) ==
    LET a == req[t].item IN
    /\ pos[t] = "count"
    /\ c \in [likes : Int, comments : Int]
    /\ req[t].field = "likes" => /\ c.likes = count[a].likes + req[t].delta
                                 /\ c.comments = count[a].comments
    /\ req[t].field = "comments" =>
          /\ c.comments = count[a].comments + req[t].delta
          /\ c.likes = count[a].likes
    /\ count' = [count EXCEPT ![a] = c]
    /\ Turns(t, "idle", Y!NoRequest)
    /\ UNCHANGED <<area, state, rowsOf, restricted, cleared, comments, pinned>>
    /\ UNCHANGED <<timeline, granted, lapsed, doubled, torn, flips>>

Pins(t) ==
    LET a == req[t].item IN
    /\ pos[t] = "pin"
    /\ \A b \in Posts : /\ b \in pinned' <=> IF b = a THEN req[t].value
                                                      ELSE b \in pinned
                        /\ b \in flips' <=> IF b = a THEN b \notin flips
                                                     ELSE b \in flips
    /\ pinned' \subseteq Posts /\ flips' \subseteq Posts
    /\ Turns(t, "idle", Y!NoRequest)
    /\ UNCHANGED <<area, state, rowsOf, restricted, cleared, comments, count>>
    /\ UNCHANGED <<timeline, granted, lapsed, doubled, torn>>

Decides(t) ==
    LET i == req[t].item IN
    /\ pos[t] = "decide"
    /\ state' = [state EXCEPT ![i] = req[t].outcome]
    /\ timeline' = [timeline EXCEPT ![i] = Append(timeline[i], req[t].outcome)]
    /\ Turns(t, "idle", Y!NoRequest)
    /\ UNCHANGED <<area, rowsOf, restricted, cleared, comments, count, pinned>>
    /\ UNCHANGED <<granted, lapsed, doubled, torn, flips>>

CommunityFails(t) ==
    /\ Turns(t, "idle", Y!NoRequest)
    /\ torn \subseteq torn'
    /\ pos[t] = "count" => req[t].item \in torn'
    /\ UNCHANGED <<area, state, rowsOf, restricted, cleared, comments, count>>
    /\ UNCHANGED <<pinned, timeline, granted, lapsed, doubled, flips>>

ItemStep ==
    \/ \E i \in Y!Items : \/ MakesPoll(i) \/ Makes(i) \/ MakesTicket(i)
                        \/ Closes(i) \/ Deletes(i)
    \/ \E u \in Neighbours : Clears(u)

CommunityAskStep(t, j) ==
    \/ AsksVote(t, j) \/ AsksMessage(t, j) \/ AsksUnlike(t, j)
    \/ AddsComment(t, j) \/ AsksRoom(t, j) \/ AsksPin(t, j) \/ AsksDecide(t, j)
    \/ \E p \in Y!Places : AsksOther(t, p, j)

GoStep(t) ==
    \/ \E j \in Reqs : Judges(t, j) \/ Likes(t, j) \/ Unlikes(t, j)
    \/ Casts(t) \/ CommunityWrites(t) \/ Joins(t) \/ Leaves(t)
    \/ \E r \in Y!Rooms : MakesRoom(t, r)
    \/ \E c \in [likes : Int, comments : Int] : Adjusts(t, c)
    \/ Pins(t) \/ Decides(t) \/ CommunityFails(t)

CommunityStep ==
    \/ ItemStep
    \/ \E t \in Threads : GoStep(t) \/ \E j \in Reqs : CommunityAskStep(t, j)

LEMMA NoRequestIsReq ==
    /\ Y!NoRequest \in Reqs /\ PlaceOK("idle", Y!NoRequest)
    /\ Y!NoRequest.field = "likes" /\ Y!NoRequest.item = None
  BY DEF Y!NoRequest, Reqs, PlaceOK

(* The kinds of items are apart.                                           *)
LEMMA CommunityKinds ==
    /\ \A i \in Polls : i \notin Posts /\ i \notin Tickets
                        /\ i \notin Committees /\ i \notin Y!Rooms
    /\ \A i \in Posts : i \notin Tickets /\ i \notin Committees /\ i \notin Y!Rooms
    /\ \A i \in Tickets : i \notin Committees /\ i \notin Y!Rooms
    /\ \A i \in Committees : i \notin Y!Rooms
    /\ Polls \subseteq Y!Items
    /\ Posts \subseteq Y!Items
    /\ Tickets \subseteq Y!Items
    /\ Committees \subseteq Y!Items /\ Y!Rooms \subseteq Y!Items
  BY DEF Y!Items

LEMMA RoomKinds ==
    /\ \A k \in DOMAIN RoomIds : RoomIds[k] \subseteq Y!Rooms
    /\ \A r \in Y!Rooms : \E k \in DOMAIN RoomIds : r \in RoomIds[k]
    /\ \A k, l \in DOMAIN RoomIds : \A r \in Y!Rooms :
          r \in RoomIds[k] /\ r \in RoomIds[l] => k = l
  BY DEF Y!Rooms

LEMMA AlikeSelf == \A j : Alike(j, j)
  BY DEF Alike

(* A request that begins or goes on turns.                                 *)
LEMMA StartTurns ==
    ASSUME ReqsOK, NEW t \in Threads, NEW p \in Y!Places, NEW j \in Reqs,
           PlaceOK(p, j), Y!Start(t, p, j)
    PROVE  /\ pos[t] = "idle" /\ Turns(t, p, j)
           /\ p \notin Y!Unkeyed => doubled' = doubled
           /\ p \in Y!Unkeyed =>
                 /\ doubled \subseteq doubled'
                 /\ \A v \in Threads : pos[v] = p /\ req[v].item = j.item =>
                       j.item \in doubled'
<1>1. pos[t] = "idle" /\ Turns(t, p, j)
  <2>1. /\ req' \in [Threads -> Reqs] /\ req'[t] = j
        /\ \A v \in Threads \ {t} : req'[v] = req[v]
    BY DEF Y!Start, ReqsOK
  <2> QED
    BY <2>1, AlikeSelf DEF Y!Start, Turns
<1>2. /\ p \notin Y!Unkeyed => doubled' = doubled
      /\ p \in Y!Unkeyed =>
            doubled' = doubled \cup ({j.item} \cap Y!Busy(p))
  BY DEF Y!Start
<1>3. \A v \in Threads : pos[v] = p /\ req[v].item = j.item =>
         j.item \in Y!Busy(p)
  BY DEF Y!Busy
<1> QED
  BY <1>1, <1>2, <1>3

LEMMA GoTurns ==
    ASSUME ReqsOK, NEW t \in Threads, NEW p \in Y!Places, NEW j \in Reqs,
           PlaceOK(p, j), Y!GoTo(t, p, j)
    PROVE  Turns(t, p, j) /\ doubled' = doubled
<1>1. /\ req' \in [Threads -> Reqs] /\ req'[t] = j
      /\ \A v \in Threads \ {t} : req'[v] = req[v]
  BY DEF Y!GoTo, ReqsOK
<1> QED
  BY <1>1, AlikeSelf DEF Y!GoTo, Turns

LEMMA LeaveTurns ==
    ASSUME ReqsOK, NEW t \in Threads, Y!Leave(t)
    PROVE  Turns(t, "idle", Y!NoRequest) /\ doubled' = doubled
<1>1. "idle" \in Y!Places
  BY DEF Y!Places
<1> QED
  BY <1>1, NoRequestIsReq, GoTurns DEF Y!Leave

LEMMA ReleaseTurns ==
    ASSUME ReqsOK, NEW t \in Threads, NEW p \in Y!Places, NEW j \in Reqs,
           PlaceOK(p, j), Y!Release(t, p, j)
    PROVE  /\ Turns(t, p, j) /\ doubled' = doubled
           /\ \A v \in Threads \ {t} :
                 req'[v].held => \/ req[v].item # req[t].item
                                 \/ req[v].user # req[t].user
<1>1. ASSUME NEW v \in Threads \ {t}
      PROVE  /\ req'[v] \in Reqs /\ Alike(req'[v], req[v])
             /\ req'[v].held => \/ req[v].item # req[t].item
                                \/ req[v].user # req[t].user
  <2>1. req[v] \in Reqs
    BY DEF ReqsOK
  <2>2. CASE req[v].item = req[t].item /\ req[v].user = req[t].user
    <3>1. req'[v] = [req[v] EXCEPT !.held = FALSE]
      BY <2>2 DEF Y!Release
    <3> QED
      BY <2>1, <2>2, <3>1 DEF Reqs, Alike
  <2>3. CASE ~(req[v].item = req[t].item /\ req[v].user = req[t].user)
    <3>1. req'[v] = req[v]
      BY <2>3 DEF Y!Release
    <3> QED
      BY <2>1, <2>3, <3>1, AlikeSelf
  <2> QED
    BY <2>2, <2>3
<1>2. req'[t] = j /\ req' = [v \in Threads |-> req'[v]]
  BY DEF Y!Release
<1>3. req' \in [Threads -> Reqs]
  BY <1>1, <1>2
<1> QED
  BY <1>1, <1>2, <1>3 DEF Y!Release, Turns

LEMMA BeginVoteIs ==
    ASSUME Y!TypeOK, ReqsOK, NEW t \in Threads, NEW u \in Y!Everyone,
           NEW p \in Polls,
           Y!BeginVote(t, u, p)
    PROVE  \E j \in Reqs : AsksVote(t, j)
<1> DEFINE j == [Y!NoRequest EXCEPT !.item = p, !.user = u,
                                   !.cleared = u \in cleared]
<1>1. /\ j \in Reqs /\ j.item = p /\ j.user = u
      /\ j.cleared => u \in cleared
  <2>1. CASE u \in cleared
    <3>1. j = [Y!NoRequest EXCEPT !.item = p, !.user = u, !.cleared = TRUE]
      BY <2>1
    <3> QED
      BY <2>1, <3>1, NoRequestIsReq, CommunityKinds DEF Reqs
  <2>2. CASE u \notin cleared
    <3>1. j = [Y!NoRequest EXCEPT !.item = p, !.user = u, !.cleared = FALSE]
      <4>1. (u \in cleared) = FALSE
        BY <2>2
      <4> QED
        BY <4>1
    <3> QED
      BY <3>1, NoRequestIsReq, CommunityKinds DEF Reqs
  <2> QED
    BY <2>1, <2>2
<1>2. Y!Start(t, "ballot", j)
  BY DEF Y!BeginVote
<1> HIDE DEF j
<1>3. PlaceOK("ballot", j) /\ "ballot" \in Y!Places
  BY <1>1, NoRequestIsReq DEF PlaceOK, Y!Places
<1>4. /\ pos[t] = "idle" /\ Turns(t, "ballot", j)
      /\ doubled' = doubled
  BY <1>1, <1>2, <1>3, StartTurns DEF Y!Unkeyed
<1>5. /\ UNCHANGED <<area, state, rowsOf, restricted, cleared, comments>>
      /\ UNCHANGED <<count, pinned, timeline, granted, lapsed, torn, flips>>
  BY DEF Y!BeginVote, Y!content
<1>6. AsksVote(t, j)
  BY <1>1, <1>3, <1>4, <1>5 DEF AsksVote, Asks
<1> QED
  BY <1>1, <1>6

LEMMA EnsureRoomIs ==
    ASSUME Y!TypeOK, ReqsOK, NEW t \in Threads, NEW k \in DOMAIN RoomIds,
           Y!EnsureRoom(t, k)
    PROVE  \E j \in Reqs : AsksRoom(t, j)
<1> DEFINE j == [Y!NoRequest EXCEPT !.item = k]
<1>1. /\ j \in Reqs
      /\ j.item = k
  BY NoRequestIsReq, CommunityKinds, RoomKinds DEF Reqs, Y!Everyone,
     Y!Outcomes
<1>2. Y!Start(t, "room", j)
  BY DEF Y!EnsureRoom
<1> HIDE DEF j
<1>3. PlaceOK("room", j) /\ "room" \in Y!Places
  BY <1>1, NoRequestIsReq DEF PlaceOK, Y!Places
<1>4. /\ pos[t] = "idle" /\ Turns(t, "room", j)
      /\ doubled \subseteq doubled'
      /\ \A v \in Threads : pos[v] = "room" /\ req[v].item = j.item =>
            j.item \in doubled'
  BY <1>1, <1>2, <1>3, StartTurns DEF Y!Unkeyed
<1>5. /\ UNCHANGED <<area, state, rowsOf, restricted, cleared, comments>>
      /\ UNCHANGED <<count, pinned, timeline, granted, lapsed, torn, flips>>
  BY DEF Y!EnsureRoom, Y!content
<1>6. AsksRoom(t, j)
  BY <1>1, <1>3, <1>4, <1>5 DEF AsksRoom, Asks, Contends, Y!EnsureRoom
<1> QED
  BY <1>1, <1>6

LEMMA BeginMessageIs ==
    ASSUME Y!TypeOK, ReqsOK, NEW t \in Threads, NEW u \in Y!Everyone,
           NEW r \in Y!Rooms,
           Y!BeginMessage(t, u, r)
    PROVE  \E j \in Reqs : AsksMessage(t, j)
<1> DEFINE j == [Y!NoRequest EXCEPT !.item = r, !.user = u]
<1>1. /\ j \in Reqs
      /\ j.item = r
      /\ j.user = u
  BY NoRequestIsReq, CommunityKinds, RoomKinds DEF Reqs, Y!Everyone,
     Y!Outcomes
<1>2. Y!Start(t, "write", j)
  BY DEF Y!BeginMessage, Y!MayWrite
<1> HIDE DEF j
<1>3. PlaceOK("write", j) /\ "write" \in Y!Places
  BY <1>1, NoRequestIsReq DEF PlaceOK, Y!Places
<1>4. /\ pos[t] = "idle" /\ Turns(t, "write", j)
      /\ doubled' = doubled
  BY <1>1, <1>2, <1>3, StartTurns DEF Y!Unkeyed
<1>5. /\ UNCHANGED <<area, state, rowsOf, restricted, cleared, comments>>
      /\ UNCHANGED <<count, pinned, timeline, granted, lapsed, torn, flips>>
  BY DEF Y!BeginMessage, Y!content, Y!MayWrite
<1>6. AsksMessage(t, j)
  BY <1>1, <1>3, <1>4, <1>5 DEF AsksMessage, Asks, Y!BeginMessage, Y!MayWrite
<1> QED
  BY <1>1, <1>6

LEMMA AddCommentIs ==
    ASSUME Y!TypeOK, ReqsOK, NEW t \in Threads, NEW u \in Y!Everyone,
           NEW a \in Posts,
           Y!AddComment(t, u, a)
    PROVE  \E j \in Reqs : AddsComment(t, j)
<1> DEFINE j == [Y!NoRequest EXCEPT !.item = a, !.user = u,
                                   !.field = "comments", !.delta = 1]
<1>1. /\ j \in Reqs
      /\ j.item = a
      /\ j.user = u
      /\ j.field = "comments"
      /\ j.delta = 1
  BY NoRequestIsReq, CommunityKinds, RoomKinds DEF Reqs, Y!Everyone,
     Y!Outcomes
<1>2. Y!Start(t, "count", j)
  BY DEF Y!AddComment
<1> HIDE DEF j
<1>3. PlaceOK("count", j) /\ "count" \in Y!Places
  BY <1>1, NoRequestIsReq DEF PlaceOK, Y!Places
<1>4. /\ pos[t] = "idle" /\ Turns(t, "count", j)
      /\ doubled' = doubled
  BY <1>1, <1>2, <1>3, StartTurns DEF Y!Unkeyed
<1>5. /\ UNCHANGED <<area, state, rowsOf, restricted, cleared>>
      /\ UNCHANGED <<count, pinned, timeline, granted, lapsed, torn, flips>>
      /\ comments[a] < MaxComments
      /\ comments' = [comments EXCEPT ![a] = comments[a] + 1]
  BY DEF Y!AddComment
<1>6. AddsComment(t, j)
  BY <1>1, <1>3, <1>4, <1>5 DEF AddsComment, Asks
<1> QED
  BY <1>1, <1>6

LEMMA BeginPinIs ==
    ASSUME Y!TypeOK, ReqsOK, NEW t \in Threads, NEW a \in Posts,
           Y!BeginPin(t, a)
    PROVE  \E j \in Reqs : AsksPin(t, j)
<1> DEFINE j == [Y!NoRequest EXCEPT !.item = a, !.value = a \notin pinned]
<1>1. /\ j \in Reqs
      /\ j.item = a
      /\ j.value = (a \notin pinned)
  BY NoRequestIsReq, CommunityKinds, RoomKinds DEF Reqs, Y!Everyone,
     Y!Outcomes
<1>2. Y!Start(t, "pin", j)
  BY DEF Y!BeginPin
<1> HIDE DEF j
<1>3. PlaceOK("pin", j) /\ "pin" \in Y!Places
  BY <1>1, NoRequestIsReq DEF PlaceOK, Y!Places
<1>4. /\ pos[t] = "idle" /\ Turns(t, "pin", j)
      /\ doubled \subseteq doubled'
      /\ \A v \in Threads : pos[v] = "pin" /\ req[v].item = j.item =>
            j.item \in doubled'
  BY <1>1, <1>2, <1>3, StartTurns DEF Y!Unkeyed
<1>5. /\ UNCHANGED <<area, state, rowsOf, restricted, cleared, comments>>
      /\ UNCHANGED <<count, pinned, timeline, granted, lapsed, torn, flips>>
  BY DEF Y!BeginPin, Y!content
<1>6. state[a] = "OPEN"
  BY DEF Y!BeginPin
<1>7. AsksPin(t, j)
  BY <1>1, <1>3, <1>4, <1>5, <1>6 DEF AsksPin, Asks, Contends
<1> QED
  BY <1>1, <1>7

LEMMA BeginDecideIs ==
    ASSUME Y!TypeOK, ReqsOK, NEW t \in Threads, NEW i \in Tickets,
           NEW outcome \in Y!Outcomes,
           Y!BeginDecide(t, i, outcome)
    PROVE  \E j \in Reqs : AsksDecide(t, j)
<1> DEFINE j == [Y!NoRequest EXCEPT !.item = i, !.outcome = outcome]
<1>1. /\ j \in Reqs
      /\ j.item = i
      /\ j.outcome = outcome
  BY NoRequestIsReq, CommunityKinds, RoomKinds DEF Reqs, Y!Everyone,
     Y!Outcomes
<1>2. Y!Start(t, "decide", j)
  BY DEF Y!BeginDecide, Y!Undecided
<1> HIDE DEF j
<1>3. PlaceOK("decide", j) /\ "decide" \in Y!Places
  BY <1>1, NoRequestIsReq DEF PlaceOK, Y!Places
<1>4. /\ pos[t] = "idle" /\ Turns(t, "decide", j)
      /\ doubled \subseteq doubled'
      /\ \A v \in Threads : pos[v] = "decide" /\ req[v].item = j.item =>
            j.item \in doubled'
  BY <1>1, <1>2, <1>3, StartTurns DEF Y!Unkeyed
<1>5. /\ UNCHANGED <<area, state, rowsOf, restricted, cleared, comments>>
      /\ UNCHANGED <<count, pinned, timeline, granted, lapsed, torn, flips>>
  BY DEF Y!BeginDecide, Y!content, Y!Undecided
<1>6. AsksDecide(t, j)
  BY <1>1, <1>3, <1>4, <1>5 DEF AsksDecide, Asks, Contends, Y!BeginDecide,
     Y!Undecided
<1> QED
  BY <1>1, <1>6

LEMMA BeginJoinIs ==
    ASSUME Y!TypeOK, ReqsOK, NEW t \in Threads, NEW u \in Y!Everyone,
           NEW c \in Committees,
           Y!BeginJoin(t, u, c)
    PROVE  \E j \in Reqs : \E p \in Y!Places : AsksOther(t, p, j)
<1> DEFINE j == [Y!NoRequest EXCEPT !.item = c, !.user = u]
<1>1. /\ j \in Reqs
      /\ j.item = c
      /\ j.user = u
  BY NoRequestIsReq, CommunityKinds, RoomKinds DEF Reqs, Y!Everyone,
     Y!Outcomes
<1>2. Y!Start(t, "join", j)
  BY DEF Y!BeginJoin
<1> HIDE DEF j
<1>3. PlaceOK("join", j) /\ "join" \in Y!Places
  BY <1>1, NoRequestIsReq DEF PlaceOK, Y!Places
<1>4. /\ pos[t] = "idle" /\ Turns(t, "join", j)
      /\ doubled' = doubled
  BY <1>1, <1>2, <1>3, StartTurns DEF Y!Unkeyed
<1>5. /\ UNCHANGED <<area, state, rowsOf, restricted, cleared, comments>>
      /\ UNCHANGED <<count, pinned, timeline, granted, lapsed, torn, flips>>
  BY DEF Y!BeginJoin, Y!content
<1>6. AsksOther(t, "join", j)
  BY <1>1, <1>3, <1>4, <1>5 DEF AsksOther, Asks
<1> QED
  BY <1>1, <1>3, <1>6

LEMMA BeginLeaveIs ==
    ASSUME Y!TypeOK, ReqsOK, NEW t \in Threads, NEW u \in Y!Everyone,
           NEW c \in Committees,
           Y!BeginLeave(t, u, c)
    PROVE  \E j \in Reqs : \E p \in Y!Places : AsksOther(t, p, j)
<1> DEFINE j == [Y!NoRequest EXCEPT !.item = c, !.user = u,
                                   !.held = TRUE]
<1>1. /\ j \in Reqs
      /\ j.item = c
      /\ j.user = u
  BY NoRequestIsReq, CommunityKinds, RoomKinds DEF Reqs, Y!Everyone,
     Y!Outcomes
<1>2. Y!Start(t, "leave", j)
  BY DEF Y!BeginLeave
<1> HIDE DEF j
<1>3. PlaceOK("leave", j) /\ "leave" \in Y!Places
  BY <1>1, NoRequestIsReq DEF PlaceOK, Y!Places
<1>4. /\ pos[t] = "idle" /\ Turns(t, "leave", j)
      /\ doubled' = doubled
  BY <1>1, <1>2, <1>3, StartTurns DEF Y!Unkeyed
<1>5. /\ UNCHANGED <<area, state, rowsOf, restricted, cleared, comments>>
      /\ UNCHANGED <<count, pinned, timeline, granted, lapsed, torn, flips>>
  BY DEF Y!BeginLeave, Y!content
<1>6. AsksOther(t, "leave", j)
  BY <1>1, <1>3, <1>4, <1>5 DEF AsksOther, Asks
<1> QED
  BY <1>1, <1>3, <1>6

LEMMA BeginToggleIs ==
    ASSUME Y!TypeOK, ReqsOK, NEW t \in Threads, NEW u \in Y!Everyone,
           NEW a \in Posts, Y!BeginToggle(t, u, a)
    PROVE  \E j \in Reqs : AsksUnlike(t, j) \/ \E p \in Y!Places : AsksOther(t, p, j)
<1> DEFINE liked == u \in rowsOf[a]
           j == [Y!NoRequest EXCEPT !.item = a, !.user = u, !.held = liked]
           p == IF liked THEN "unlike" ELSE "like"
<1>1. j \in Reqs /\ j.item = a /\ j.user = u
  <2>1. CASE liked
    <3>1. j = [Y!NoRequest EXCEPT !.item = a, !.user = u, !.held = TRUE]
      BY <2>1
    <3> QED
      BY <3>1, NoRequestIsReq, CommunityKinds DEF Reqs
  <2>2. CASE ~liked
    <3>1. j = [Y!NoRequest EXCEPT !.item = a, !.user = u, !.held = FALSE]
      <4>1. liked = FALSE
        BY <2>2
      <4> QED
        BY <4>1
    <3> QED
      BY <3>1, NoRequestIsReq, CommunityKinds DEF Reqs
  <2> QED
    BY <2>1, <2>2
<1>2. Y!Start(t, p, j)
  BY DEF Y!BeginToggle
<1>3. /\ UNCHANGED <<area, state, rowsOf, restricted, cleared, comments>>
      /\ UNCHANGED <<count, pinned, timeline, granted, lapsed, torn, flips>>
  BY DEF Y!BeginToggle, Y!content
<1>4. j.field = "likes"
  BY NoRequestIsReq DEF Reqs
<1> HIDE DEF j
<1>5. PlaceOK(p, j) /\ p \in Y!Places /\ p \notin Y!Unkeyed
  BY <1>1, <1>4 DEF PlaceOK, Y!Places, Y!Unkeyed
<1>6. pos[t] = "idle" /\ Turns(t, p, j) /\ doubled' = doubled
  BY <1>1, <1>2, <1>5, StartTurns
<1>7. CASE liked
  <2>1. p = "unlike"
    BY <1>7
  <2>2. AsksUnlike(t, j)
    BY <1>1, <1>3, <1>6, <1>7, <2>1 DEF AsksUnlike, Asks
  <2> QED
    BY <1>1, <2>2
<1>8. CASE ~liked
  <2>1. p = "like"
    BY <1>8
  <2>2. AsksOther(t, "like", j)
    BY <1>1, <1>3, <1>6, <2>1 DEF AsksOther, Asks
  <2> QED
    BY <1>1, <1>5, <2>1, <2>2
<1> QED
  BY <1>7, <1>8

LEMMA JudgeVoteIs ==
    ASSUME Y!TypeOK, ReqsOK, NEW t \in Threads, Y!JudgeVote(t)
    PROVE  \E j \in Reqs : Judges(t, j)
<1>1. req[t] \in Reqs /\ PlaceOK("cast", req[t]) /\ "cast" \in Y!Places
  BY DEF Y!JudgeVote, ReqsOK, PlaceOK, Y!Places
<1>2. Turns(t, "cast", req[t]) /\ doubled' = doubled
  BY <1>1, GoTurns DEF Y!JudgeVote
<1>3. /\ UNCHANGED <<area, state, rowsOf, restricted, cleared, comments>>
      /\ UNCHANGED <<count, pinned, timeline, granted, lapsed, torn, flips>>
  BY DEF Y!JudgeVote, Y!content
<1>4. Judges(t, req[t])
  BY <1>1, <1>2, <1>3 DEF Judges, Y!JudgeVote, Y!MayVote
<1> QED
  BY <1>1, <1>4

LEMMA CastVoteIs ==
    ASSUME Y!TypeOK, ReqsOK, NEW t \in Threads, Y!CastVote(t)
    PROVE  Casts(t)
<1>1. Turns(t, "idle", Y!NoRequest) /\ doubled' = doubled
  BY LeaveTurns DEF Y!CastVote
<1> QED
  BY <1>1 DEF Y!CastVote, Casts, Adds, Y!AddRow

LEMMA CreateMessageIs ==
    ASSUME Y!TypeOK, ReqsOK, NEW t \in Threads, Y!CreateMessage(t)
    PROVE  CommunityWrites(t)
<1>1. Turns(t, "idle", Y!NoRequest) /\ doubled' = doubled
  BY LeaveTurns DEF Y!CreateMessage
<1> QED
  BY <1>1 DEF Y!CreateMessage, CommunityWrites, Adds, Y!AddRow

LEMMA JoinCommitteeIs ==
    ASSUME Y!TypeOK, ReqsOK, NEW t \in Threads, Y!JoinCommittee(t)
    PROVE  Joins(t)
<1>1. Turns(t, "idle", Y!NoRequest) /\ doubled' = doubled
  BY LeaveTurns DEF Y!JoinCommittee
<1> QED
  BY <1>1 DEF Y!JoinCommittee, Joins, Adds, Y!AddRow

LEMMA AddLikeIs ==
    ASSUME Y!TypeOK, ReqsOK, NEW t \in Threads, Y!AddLike(t)
    PROVE  \E j \in Reqs : Likes(t, j)
<1> DEFINE j == [req[t] EXCEPT !.delta = 1]
<1>1. req[t] \in Reqs /\ req[t].item \in Posts /\ req[t].field = "likes"
  BY DEF Y!AddLike, ReqsOK, PlaceOK
<1>2. j \in Reqs /\ j.item = req[t].item /\ j.field = "likes" /\ j.delta = 1
  BY <1>1 DEF Reqs
<1>3. Y!GoTo(t, "count", j)
  BY DEF Y!AddLike
<1> HIDE DEF j
<1>4. PlaceOK("count", j) /\ "count" \in Y!Places
  BY <1>1, <1>2 DEF PlaceOK, Y!Places
<1>5. Turns(t, "count", j) /\ doubled' = doubled
  BY <1>2, <1>3, <1>4, GoTurns
<1>6. Likes(t, j)
  BY <1>1, <1>2, <1>5 DEF Y!AddLike, Likes, Adds, Y!AddRow
<1> QED
  BY <1>2, <1>6

LEMMA DropLikeIs ==
    ASSUME Y!TypeOK, ReqsOK, NEW t \in Threads, Y!DropLike(t)
    PROVE  \E j \in Reqs : Unlikes(t, j)
<1> DEFINE j == [req[t] EXCEPT !.delta = -1]
<1>1. req[t] \in Reqs /\ req[t].item \in Posts /\ req[t].field = "likes"
  BY DEF Y!DropLike, ReqsOK, PlaceOK
<1>2. j \in Reqs /\ j.item = req[t].item /\ j.field = "likes" /\ j.delta = -1
  BY <1>1 DEF Reqs
<1>3. Y!Release(t, "count", j)
  BY DEF Y!DropLike
<1> HIDE DEF j
<1>4. PlaceOK("count", j) /\ "count" \in Y!Places
  BY <1>1, <1>2 DEF PlaceOK, Y!Places
<1>5. /\ Turns(t, "count", j) /\ doubled' = doubled
      /\ \A v \in Threads \ {t} :
            req'[v].held => \/ req[v].item # req[t].item
                            \/ req[v].user # req[t].user
  BY <1>2, <1>3, <1>4, ReleaseTurns
<1>6. Takes(t)
  BY <1>5 DEF Y!DropLike, Y!DropRow, Takes
<1>7. Unlikes(t, j)
  BY <1>2, <1>5, <1>6 DEF Y!DropLike, Unlikes
<1> QED
  BY <1>2, <1>7

LEMMA LeaveCommitteeIs ==
    ASSUME Y!TypeOK, ReqsOK, NEW t \in Threads, Y!LeaveCommittee(t)
    PROVE  Leaves(t)
<1>1. "idle" \in Y!Places
  BY DEF Y!Places
<1>2. /\ Turns(t, "idle", Y!NoRequest) /\ doubled' = doubled
      /\ \A v \in Threads \ {t} :
            req'[v].held => \/ req[v].item # req[t].item
                            \/ req[v].user # req[t].user
  BY <1>1, NoRequestIsReq, ReleaseTurns DEF Y!LeaveCommittee
<1>3. Takes(t)
  BY <1>2 DEF Y!LeaveCommittee, Y!DropRow, Takes
<1> QED
  BY <1>2, <1>3 DEF Y!LeaveCommittee, Leaves

LEMMA CreateRoomIs ==
    ASSUME Y!TypeOK, ReqsOK, NEW t \in Threads, Y!CreateRoom(t)
    PROVE  \E r \in Y!Rooms : MakesRoom(t, r)
<1>1. Turns(t, "idle", Y!NoRequest) /\ doubled' = doubled
  BY LeaveTurns DEF Y!CreateRoom
<1>2. req[t].item \in DOMAIN RoomIds
  BY DEF Y!CreateRoom, ReqsOK, PlaceOK
<1>3. PICK r \in RoomIds[req[t].item] \ Y!Existing(req[t].item) : Y!Become(r, "OPEN")
  BY DEF Y!CreateRoom
<1>4. r \in Y!Rooms /\ state[r] = "NONE"
  BY <1>2, <1>3, RoomKinds DEF Y!Existing
<1>5. MakesRoom(t, r)
  BY <1>1, <1>3, <1>4 DEF Y!CreateRoom, Y!Become, MakesRoom
<1> QED
  BY <1>4, <1>5

LEMMA AdjustIs ==
    ASSUME Y!TypeOK, ReqsOK, NEW t \in Threads, Y!Adjust(t)
    PROVE  \E c \in [likes : Int, comments : Int] : Adjusts(t, c)
<1> DEFINE a == req[t].item
           c == [count[a] EXCEPT ![req[t].field] = count[a][req[t].field]
                                                       + req[t].delta]
<1>1. /\ a \in Posts /\ req[t].field \in {"likes", "comments"}
      /\ req[t].delta \in Int /\ count[a] \in [likes : Int, comments : Int]
  BY DEF Y!Adjust, ReqsOK, PlaceOK, Reqs, Y!TypeOK
<1>2. count' = [count EXCEPT ![a] = c]
  BY <1>1 DEF Y!Adjust, Y!TypeOK
<1>3. Turns(t, "idle", Y!NoRequest) /\ doubled' = doubled
  BY LeaveTurns DEF Y!Adjust
<1>4. CASE req[t].field = "likes"
  <2>1. /\ c \in [likes : Int, comments : Int]
        /\ c.likes = count[a].likes + req[t].delta
        /\ c.comments = count[a].comments
    BY <1>1, <1>4
  <2> HIDE DEF c
  <2> QED
    BY <1>2, <1>3, <1>4, <2>1 DEF Y!Adjust, Adjusts
<1>5. CASE req[t].field = "comments"
  <2>1. /\ c \in [likes : Int, comments : Int]
        /\ c.comments = count[a].comments + req[t].delta
        /\ c.likes = count[a].likes
    BY <1>1, <1>5
  <2> HIDE DEF c
  <2> QED
    BY <1>2, <1>3, <1>5, <2>1 DEF Y!Adjust, Adjusts
<1> QED
  BY <1>1, <1>4, <1>5

LEMMA PinIs ==
    ASSUME Y!TypeOK, ReqsOK, NEW t \in Threads, Y!Pin(t)
    PROVE  Pins(t)
<1> DEFINE a == req[t].item
<1>1. Turns(t, "idle", Y!NoRequest) /\ doubled' = doubled
  BY LeaveTurns DEF Y!Pin
<1>2. a \in Posts
  BY DEF Y!Pin, ReqsOK, PlaceOK
<1>3. /\ pinned' = IF req[t].value THEN pinned \cup {a} ELSE pinned \ {a}
      /\ flips' = (flips \ {a}) \cup ({a} \ flips)
      /\ pinned \subseteq Posts /\ flips \subseteq Posts
  BY DEF Y!Pin, Y!SymDiff, Y!TypeOK
<1>4. ASSUME NEW b \in Posts
      PROVE  /\ b \in pinned' <=> IF b = a THEN req[t].value ELSE b \in pinned
             /\ b \in flips' <=> IF b = a THEN b \notin flips ELSE b \in flips
  BY <1>3
<1>5. pinned' \subseteq Posts /\ flips' \subseteq Posts
  BY <1>2, <1>3
<1> QED
  BY <1>1, <1>4, <1>5 DEF Y!Pin, Pins

LEMMA DecideIs ==
    ASSUME Y!TypeOK, ReqsOK, NEW t \in Threads, Y!Decide(t)
    PROVE  Decides(t)
<1>1. Turns(t, "idle", Y!NoRequest) /\ doubled' = doubled
  BY LeaveTurns DEF Y!Decide
<1> QED
  BY <1>1 DEF Y!Decide, Decides, Y!Become

LEMMA FailIs ==
    ASSUME Y!TypeOK, ReqsOK, NEW t \in Threads, Y!Fail(t)
    PROVE  CommunityFails(t)
<1>1. Turns(t, "idle", Y!NoRequest) /\ doubled' = doubled
  BY LeaveTurns DEF Y!Fail
<1> QED
  BY <1>1 DEF Y!Fail, CommunityFails, Y!content

LEMMA ItemsAre ==
    ASSUME Y!TypeOK, ReqsOK,
           \/ \E p \in Polls, levyOnly \in BOOLEAN : Y!CreatePoll(p, levyOnly)
           \/ \E p \in Polls : Y!ClosePoll(p) \/ Y!DeletePoll(p)
           \/ \E u \in Neighbours : Y!ChangeClearance(u)
           \/ \E r \in Y!Rooms : Y!CloseRoom(r)
           \/ \E a \in Posts, pin \in BOOLEAN : Y!CreateAnnouncement(a, pin)
           \/ \E a \in Posts : Y!DeleteAnnouncement(a)
           \/ \E i \in Tickets : Y!CreateTicket(i)
           \/ \E c \in Committees : Y!CreateCommittee(c) \/ Y!DeleteCommittee(c)
    PROVE  ItemStep
<1>1. ASSUME NEW p \in Polls, NEW levyOnly \in BOOLEAN,
             Y!CreatePoll(p, levyOnly)
      PROVE  \E i \in Y!Items : MakesPoll(i)
  <2>1. MakesPoll(p)
    BY <1>1 DEF Y!CreatePoll, Y!Become, MakesPoll, Stays, Y!history
  <2> QED
    BY <2>1, CommunityKinds
<1>2. ASSUME NEW p \in Polls \cup Y!Rooms,
             Y!ClosePoll(p) \/ Y!CloseRoom(p)
      PROVE  \E i \in Y!Items : Closes(i)
  <2>1. /\ state[p] = "OPEN" /\ state' = [state EXCEPT ![p] = "CLOSED"]
        /\ granted' = granted \cup Y!Judged(p)
        /\ Stays
        /\ UNCHANGED <<area, rowsOf, restricted, cleared, comments, count>>
        /\ UNCHANGED <<pinned, timeline, lapsed, torn, flips>>
    BY <1>2 DEF Y!ClosePoll, Y!CloseRoom, Y!Become, Stays
  <2>2. \A v \in Threads : pos[v] \in {"cast", "write"} /\ req[v].item = p =>
           <<p, req[v].user>> \in granted'
    BY <2>1 DEF Y!Judged
  <2>3. Closes(p)
    BY <2>1, <2>2 DEF Closes
  <2> QED
    BY <2>3, CommunityKinds
<1>3. ASSUME NEW p \in Polls \cup Posts \cup Committees,
             Y!DeletePoll(p) \/ Y!DeleteCommittee(p) \/ Y!DeleteAnnouncement(p)
      PROVE  \E i \in Y!Items : Deletes(i)
  <2>1. /\ Y!Delete(p) /\ Stays
        /\ \/ comments' = comments
           \/ p \in Posts /\ comments' = [comments EXCEPT ![p] = 0]
        /\ UNCHANGED <<area, restricted, cleared, count, pinned, timeline>>
        /\ UNCHANGED <<granted, lapsed, torn, flips>>
    BY <1>3 DEF Y!DeletePoll, Y!DeleteCommittee, Y!DeleteAnnouncement, Stays,
       Y!history
  <2>2. /\ comments' \in [Posts -> 0..MaxComments]
        /\ \A a \in Posts \ {p} : comments'[a] = comments[a]
    <3>1. comments \in [Posts -> 0..MaxComments] /\ 0 \in 0..MaxComments
      BY CommunityAssumption DEF Y!TypeOK
    <3> QED
      BY <2>1, <3>1
  <2>3. Deletes(p)
    BY <2>1, <2>2 DEF Deletes, Y!Delete, Y!Become
  <2> QED
    BY <2>3, CommunityKinds
<1>4. ASSUME NEW p \in Posts \cup Committees,
             \/ p \in Posts /\ \E pin \in BOOLEAN : Y!CreateAnnouncement(p, pin)
             \/ Y!CreateCommittee(p)
      PROVE  \E i \in Y!Items : Makes(i)
  <2>1. ASSUME NEW pin \in BOOLEAN, p \in Posts, Y!CreateAnnouncement(p, pin)
        PROVE  Makes(p)
    BY <2>1 DEF Y!CreateAnnouncement, Y!Become, Makes, Stays
  <2>2. ASSUME Y!CreateCommittee(p)
        PROVE  Makes(p)
    BY <2>2 DEF Y!CreateCommittee, Y!Become, Makes, Stays, Y!history
  <2> QED
    BY <1>4, <2>1, <2>2, CommunityKinds
<1>5. ASSUME NEW i \in Tickets, Y!CreateTicket(i)
      PROVE  \E k \in Y!Items : MakesTicket(k)
  <2>1. MakesTicket(i)
    BY <1>5 DEF Y!CreateTicket, Y!Become, MakesTicket, Stays, Y!history
  <2> QED
    BY <2>1, CommunityKinds
<1>6. ASSUME NEW u \in Neighbours, Y!ChangeClearance(u)
      PROVE  Clears(u)
  BY <1>6 DEF Y!ChangeClearance, Clears, Stays, Y!TypeOK
<1> QED
  BY <1>1, <1>2, <1>3, <1>4, <1>5, <1>6 DEF ItemStep

(* Every step is one of these.                                             *)
LEMMA CommunityStepIs ==
    ASSUME Y!TypeOK, ReqsOK, Y!Next
    PROVE  CommunityStep
<1>1. CASE \/ \E p \in Polls, levyOnly \in BOOLEAN : Y!CreatePoll(p, levyOnly)
           \/ \E p \in Polls : Y!ClosePoll(p) \/ Y!DeletePoll(p)
           \/ \E u \in Neighbours : Y!ChangeClearance(u)
           \/ \E r \in Y!Rooms : Y!CloseRoom(r)
           \/ \E a \in Posts, pin \in BOOLEAN : Y!CreateAnnouncement(a, pin)
           \/ \E a \in Posts : Y!DeleteAnnouncement(a)
           \/ \E i \in Tickets : Y!CreateTicket(i)
           \/ \E c \in Committees : Y!CreateCommittee(c) \/ Y!DeleteCommittee(c)
  BY <1>1, ItemsAre DEF CommunityStep
<1>2. ASSUME NEW t \in Threads,
             \/ Y!JudgeVote(t) \/ Y!CastVote(t) \/ Y!CreateRoom(t)
             \/ Y!CreateMessage(t) \/ Y!AddLike(t) \/ Y!DropLike(t) \/ Y!Adjust(t)
             \/ Y!Pin(t) \/ Y!ResolveTicket(t) \/ Y!CancelTicket(t)
             \/ Y!JoinCommittee(t) \/ Y!LeaveCommittee(t) \/ Y!Fail(t)
      PROVE  CommunityStep
  <2>1. GoStep(t)
    BY <1>2, JudgeVoteIs, CastVoteIs, CreateRoomIs, CreateMessageIs,
       AddLikeIs, DropLikeIs, AdjustIs, PinIs, DecideIs, JoinCommitteeIs,
       LeaveCommitteeIs, FailIs
    DEF GoStep, Y!ResolveTicket, Y!CancelTicket
  <2> QED
    BY <2>1 DEF CommunityStep
<1>3. ASSUME NEW t \in Threads,
             \/ \E a \in Posts : Y!BeginPin(t, a)
             \/ \E i \in Tickets : Y!BeginResolve(t, i) \/ Y!BeginCancel(t, i)
             \/ \E u \in Y!Everyone :
                  \/ \E k \in DOMAIN RoomIds : Y!BeginGetRooms(t, u, k)
                  \/ "BROADCAST" \in DOMAIN RoomIds /\ Y!BeginBroadcast(t, u)
                  \/ \E p \in Polls : Y!BeginVote(t, u, p)
                  \/ \E r \in Y!Rooms : Y!BeginMessage(t, u, r)
                  \/ \E a \in Posts : Y!BeginToggle(t, u, a) \/ Y!AddComment(t, u, a)
                  \/ \E c \in Committees : \/ Y!BeginJoin(t, u, c)
                                           \/ Y!BeginLeave(t, u, c)
      PROVE  CommunityStep
  <2>1. ASSUME NEW i \in Tickets, Y!BeginResolve(t, i) \/ Y!BeginCancel(t, i)
        PROVE  \E j \in Reqs : CommunityAskStep(t, j)
    <3>1. PICK outcome \in Y!Outcomes : Y!BeginDecide(t, i, outcome)
      BY <2>1 DEF Y!BeginResolve, Y!BeginCancel, Y!Outcomes
    <3> QED
      BY <3>1, BeginDecideIs DEF CommunityAskStep
  <2>2. ASSUME NEW u \in Y!Everyone,
               \/ \E k \in DOMAIN RoomIds : Y!BeginGetRooms(t, u, k)
               \/ "BROADCAST" \in DOMAIN RoomIds /\ Y!BeginBroadcast(t, u)
        PROVE  \E j \in Reqs : CommunityAskStep(t, j)
    <3>1. PICK k \in DOMAIN RoomIds : Y!EnsureRoom(t, k)
      BY <2>2 DEF Y!BeginGetRooms, Y!BeginBroadcast
    <3> QED
      BY <3>1, EnsureRoomIs DEF CommunityAskStep
  <2>3. ASSUME NEW u \in Y!Everyone, NEW p \in Polls, Y!BeginVote(t, u, p)
        PROVE  \E j \in Reqs : CommunityAskStep(t, j)
    BY <2>3, BeginVoteIs DEF CommunityAskStep
  <2>4. ASSUME NEW u \in Y!Everyone, NEW r \in Y!Rooms,
               Y!BeginMessage(t, u, r)
        PROVE  \E j \in Reqs : CommunityAskStep(t, j)
    BY <2>4, BeginMessageIs DEF CommunityAskStep
  <2>5. ASSUME NEW u \in Y!Everyone, NEW a \in Posts,
               Y!BeginToggle(t, u, a) \/ Y!AddComment(t, u, a)
        PROVE  \E j \in Reqs : CommunityAskStep(t, j)
    BY <2>5, BeginToggleIs, AddCommentIs DEF CommunityAskStep
  <2>6. ASSUME NEW u \in Y!Everyone, NEW c \in Committees,
               Y!BeginJoin(t, u, c) \/ Y!BeginLeave(t, u, c)
        PROVE  \E j \in Reqs : CommunityAskStep(t, j)
    BY <2>6, BeginJoinIs, BeginLeaveIs DEF CommunityAskStep
  <2>7. ASSUME NEW a \in Posts, Y!BeginPin(t, a)
        PROVE  \E j \in Reqs : CommunityAskStep(t, j)
    BY <2>7, BeginPinIs DEF CommunityAskStep
  <2>8. \E j \in Reqs : CommunityAskStep(t, j)
    BY <1>3, <2>1, <2>2, <2>3, <2>4, <2>5, <2>6, <2>7
  <2> QED
    BY <2>8 DEF CommunityStep
<1> QED
  BY <1>1, <1>2, <1>3 DEF Y!Next

-----------------------------------------------------------------------------
(* The type invariant and the requests. *)

LEMMA TurnFacts ==
    ASSUME Y!TypeOK, NEW t \in Threads, NEW p, NEW j, Turns(t, p, j)
    PROVE  /\ pos' \in [Threads -> Y!Places] /\ pos'[t] = p /\ req'[t] = j
           /\ \A v \in Threads \ {t} : pos'[v] = pos[v] /\ Alike(req'[v], req[v])
  BY DEF Turns, Y!TypeOK

LEMMA AskIsAsks ==
    ASSUME NEW t \in Threads, NEW j \in Reqs, CommunityAskStep(t, j)
    PROVE  \E p \in Y!Places : Asks(t, p, j)
  BY DEF CommunityAskStep, AsksVote, AsksMessage, AsksUnlike, AddsComment,
     AsksRoom, AsksPin, AsksDecide, AsksOther, Asks, Turns

LEMMA GoTurnsSome ==
    ASSUME NEW t \in Threads, GoStep(t)
    PROVE  \E p \in Y!Places, j \in Reqs : Turns(t, p, j)
  BY NoRequestIsReq DEF GoStep, Judges, Likes, Unlikes, Casts,
     CommunityWrites, Joins, Leaves, MakesRoom, Adjusts, Pins, Decides,
     CommunityFails, Turns

LEMMA ItemStays ==
    ASSUME ItemStep
    PROVE  Stays
  BY DEF ItemStep, MakesPoll, Makes, MakesTicket, Closes, Deletes, Clears

LEMMA StepTurns ==
    ASSUME CommunityStep
    PROVE  Stays \/ \E t \in Threads, p \in Y!Places, j \in Reqs : Turns(t, p, j)
<1>1. CASE ItemStep
  BY <1>1, ItemStays
<1>2. ASSUME NEW t \in Threads, GoStep(t)
      PROVE  \E p \in Y!Places, j \in Reqs : Turns(t, p, j)
  BY <1>2, GoTurnsSome
<1>3. ASSUME NEW t \in Threads, NEW j \in Reqs, CommunityAskStep(t, j)
      PROVE  \E p \in Y!Places : Turns(t, p, j)
  BY <1>3, AskIsAsks DEF Asks
<1> QED
  BY <1>1, <1>2, <1>3 DEF CommunityStep

LEMMA ReqsStep ==
    ASSUME Y!TypeOK, ReqsOK, CommunityStep
    PROVE  pos' \in [Threads -> Y!Places] /\ ReqsOK'
<1>1. CASE Stays
  BY <1>1 DEF Stays, ReqsOK, Y!TypeOK
<1>2. ASSUME NEW t \in Threads, NEW p \in Y!Places, NEW j \in Reqs,
             Turns(t, p, j)
      PROVE  pos' \in [Threads -> Y!Places] /\ ReqsOK'
  <2>1. /\ pos' \in [Threads -> Y!Places] /\ pos'[t] = p /\ req'[t] = j
        /\ \A v \in Threads \ {t} : pos'[v] = pos[v] /\ Alike(req'[v], req[v])
    BY <1>2, TurnFacts
  <2>2. PlaceOK(p, j) /\ req' \in [Threads -> Reqs]
    BY <1>2 DEF Turns
  <2>3. ASSUME NEW v \in Threads
        PROVE  PlaceOK(pos'[v], req'[v])
    <3>1. CASE v = t
      BY <2>1, <2>2, <3>1
    <3>2. CASE v # t
      <4>1. PlaceOK(pos[v], req[v])
        BY DEF ReqsOK
      <4>2. pos'[v] = pos[v] /\ Alike(req'[v], req[v])
        BY <2>1, <3>2
      <4> QED
        BY <4>1, <4>2 DEF PlaceOK, Alike
    <3> QED
      BY <3>1, <3>2
  <2> QED
    BY <2>1, <2>2, <2>3 DEF ReqsOK
<1> QED
  BY <1>1, <1>2, StepTurns

(* A thing of a kind changes its state, or none does.                      *)
LEMMA StateChanges ==
    ASSUME Y!TypeOK, ReqsOK, CommunityStep
    PROVE  /\ state' \in [Y!Items -> Y!States]
           /\ \A i \in Y!Items : state'[i] # state[i] =>
                 \/ state[i] = "NONE" /\ state'[i] = "OPEN"
                 \/ /\ i \in Polls \cup Y!Rooms
                    /\ state[i] = "OPEN" /\ state'[i] = "CLOSED"
                 \/ i \in Polls \cup Posts \cup Committees /\ state'[i] = "GONE"
                 \/ i \in Tickets /\ state'[i] \in Y!Outcomes
<1> DEFINE Good ==
       /\ state' \in [Y!Items -> Y!States]
       /\ \A i \in Y!Items : state'[i] # state[i] =>
             \/ state[i] = "NONE" /\ state'[i] = "OPEN"
             \/ /\ i \in Polls \cup Y!Rooms
                /\ state[i] = "OPEN" /\ state'[i] = "CLOSED"
             \/ i \in Polls \cup Posts \cup Committees /\ state'[i] = "GONE"
             \/ i \in Tickets /\ state'[i] \in Y!Outcomes
<1>1. CASE ItemStep
  <2>1. ASSUME NEW i \in Y!Items,
               \/ MakesPoll(i) \/ Makes(i) \/ MakesTicket(i)
               \/ Closes(i) \/ Deletes(i)
        PROVE  Good
    BY <2>1 DEF MakesPoll, Makes, MakesTicket, Closes, Deletes, Y!TypeOK,
       Y!States
  <2>2. ASSUME NEW u \in Neighbours, Clears(u)
        PROVE  Good
    BY <2>2 DEF Clears, Y!TypeOK
  <2> QED
    BY <1>1, <2>1, <2>2 DEF ItemStep
<1>2. ASSUME NEW t \in Threads, NEW j \in Reqs, CommunityAskStep(t, j)
      PROVE  Good
  <2>1. state' = state
    BY <1>2, AskIsAsks DEF Asks
  <2> QED
    BY <2>1 DEF Y!TypeOK
<1>3. ASSUME NEW t \in Threads, GoStep(t)
      PROVE  Good
  <2>1. CASE state' = state
    BY <2>1 DEF Y!TypeOK
  <2>2. ASSUME NEW r \in Y!Rooms, MakesRoom(t, r)
        PROVE  Good
    BY <2>2 DEF MakesRoom, Y!TypeOK, Y!States
  <2>3. CASE Decides(t)
    <3>1. req[t].item \in Tickets /\ req[t].outcome \in Y!Outcomes
      BY <2>3 DEF Decides, ReqsOK, PlaceOK
    <3>2. state' = [state EXCEPT ![req[t].item] = req[t].outcome]
      BY <2>3 DEF Decides
    <3> QED
      BY <3>1, <3>2 DEF Y!TypeOK, Y!States, Y!Outcomes
  <2> QED
    BY <1>3, <2>1, <2>2, <2>3 DEF GoStep, Judges, Likes, Unlikes, Casts,
       CommunityWrites, Joins, Leaves, Adjusts, Pins, CommunityFails, Adds,
       Takes
<1> QED
  BY <1>1, <1>2, <1>3 DEF CommunityStep

(* Which rows a step changes, and how.                                     *)
LEMMA RowsChange ==
    ASSUME Y!TypeOK, ReqsOK, CommunityStep
    PROVE  /\ rowsOf' \in [Y!Items -> SUBSET Y!Everyone]
           /\ \/ rowsOf' = rowsOf
              \/ \E i \in Polls \cup Posts \cup Committees : Deletes(i)
              \/ \E t \in Threads : \/ Casts(t) \/ CommunityWrites(t) \/ Joins(t)
                                    \/ Leaves(t)
                                    \/ \E j \in Reqs : \/ Likes(t, j)
                                                       \/ Unlikes(t, j)
<1>1. CASE rowsOf' = rowsOf
  BY <1>1 DEF Y!TypeOK
<1>2. ASSUME NEW i \in Y!Items, Deletes(i)
      PROVE  /\ i \in Polls \cup Posts \cup Committees
             /\ rowsOf' \in [Y!Items -> SUBSET Y!Everyone]
  BY <1>2 DEF Deletes, Y!TypeOK
<1>3. ASSUME NEW t \in Threads, NEW j \in Reqs,
             Casts(t) \/ CommunityWrites(t) \/ Joins(t) \/ Likes(t, j)
      PROVE  rowsOf' \in [Y!Items -> SUBSET Y!Everyone]
  <2>1. pos[t] \in {"cast", "write", "join", "like"} /\ Adds(req[t].item, req[t].user)
    BY <1>3 DEF Casts, CommunityWrites, Joins, Likes
  <2>2. req[t].item \in Y!Items /\ req[t].user \in Y!Everyone
    BY <2>1, CommunityKinds DEF ReqsOK, PlaceOK
  <2> QED
    BY <2>1, <2>2 DEF Adds, Y!TypeOK
<1>4. ASSUME NEW t \in Threads, NEW j \in Reqs, Leaves(t) \/ Unlikes(t, j)
      PROVE  rowsOf' \in [Y!Items -> SUBSET Y!Everyone]
  BY <1>4 DEF Leaves, Unlikes, Takes, Y!TypeOK
<1>5. CASE ItemStep
  BY <1>1, <1>2, <1>5 DEF ItemStep, MakesPoll, Makes, MakesTicket, Closes,
     Clears
<1>6. ASSUME NEW t \in Threads, NEW j \in Reqs, CommunityAskStep(t, j)
      PROVE  rowsOf' = rowsOf
  BY <1>6, AskIsAsks DEF Asks
<1>7. ASSUME NEW t \in Threads, GoStep(t)
      PROVE  \/ rowsOf' = rowsOf
             \/ Casts(t) \/ CommunityWrites(t) \/ Joins(t) \/ Leaves(t)
             \/ \E j \in Reqs : Likes(t, j) \/ Unlikes(t, j)
  BY <1>7 DEF GoStep, Judges, MakesRoom, Adjusts, Pins, Decides,
     CommunityFails
<1> QED
  BY <1>1, <1>3, <1>4, <1>5, <1>6, <1>7, NoRequestIsReq DEF CommunityStep

(* The rest of the type invariant.                                         *)
LEMMA RestChanges ==
    ASSUME Y!TypeOK, ReqsOK, CommunityStep
    PROVE  /\ area' \in Y!Areas
           /\ restricted' \subseteq Polls /\ cleared' \subseteq Neighbours
           /\ comments' \in [Posts -> 0..MaxComments]
           /\ count' \in [Posts -> [likes : Int, comments : Int]]
           /\ pinned' \subseteq Posts /\ flips' \subseteq Posts
<1> DEFINE Good ==
       /\ area' \in Y!Areas
       /\ restricted' \subseteq Polls /\ cleared' \subseteq Neighbours
       /\ comments' \in [Posts -> 0..MaxComments]
       /\ count' \in [Posts -> [likes : Int, comments : Int]]
       /\ pinned' \subseteq Posts /\ flips' \subseteq Posts
<1>1. CASE ItemStep
  BY <1>1 DEF ItemStep, MakesPoll, Makes, MakesTicket, Closes, Deletes,
     Clears, Y!TypeOK
<1>2. ASSUME NEW t \in Threads, NEW j \in Reqs, CommunityAskStep(t, j)
      PROVE  Good
  <2>1. PICK p \in Y!Places : Asks(t, p, j)
    BY <1>2, AskIsAsks
  <2>2. comments' \in [Posts -> 0..MaxComments]
    <3>1. CASE comments' = comments
      BY <3>1 DEF Y!TypeOK
    <3>2. CASE AddsComment(t, j)
      <4>1. j.item \in Posts
        BY <3>2 DEF AddsComment, Asks, Turns, PlaceOK
      <4>2. comments[j.item] \in 0..MaxComments /\ comments[j.item] < MaxComments
        BY <3>2, <4>1 DEF AddsComment, Y!TypeOK
      <4>3. comments[j.item] + 1 \in 0..MaxComments
        BY <4>2
      <4> QED
        BY <3>2, <4>3 DEF AddsComment, Y!TypeOK
    <3> QED
      BY <1>2, <3>1, <3>2 DEF CommunityAskStep, AsksVote, AsksMessage,
         AsksUnlike, AsksRoom, AsksPin, AsksDecide, AsksOther, Contends
  <2> QED
    BY <2>1, <2>2 DEF Asks, Y!TypeOK
<1>3. ASSUME NEW t \in Threads, GoStep(t)
      PROVE  Good
  <2>1. CASE UNCHANGED <<area, restricted, cleared, comments, count>>
             /\ UNCHANGED <<pinned, flips>>
    BY <2>1 DEF Y!TypeOK
  <2>2. ASSUME NEW c \in [likes : Int, comments : Int], Adjusts(t, c)
        PROVE  Good
    BY <2>2 DEF Adjusts, Y!TypeOK
  <2>3. CASE Pins(t)
    BY <2>3 DEF Pins, Y!TypeOK
  <2> QED
    BY <1>3, <2>1, <2>2, <2>3 DEF GoStep, Judges, Likes, Unlikes, Casts,
       CommunityWrites, Joins, Leaves, Adds, Takes, MakesRoom, Decides,
       CommunityFails
<1> QED
  BY <1>1, <1>2, <1>3 DEF CommunityStep

LEMMA TimelineStep ==
    ASSUME Y!TypeOK, ReqsOK, timeline \in Timelines, CommunityStep
    PROVE  timeline' \in Timelines
<1>1. CASE timeline' = timeline
  BY <1>1
<1>2. ASSUME NEW i \in Y!Items, MakesTicket(i)
      PROVE  timeline' \in Timelines
  BY <1>2 DEF MakesTicket, Timelines
<1>3. ASSUME NEW t \in Threads, Decides(t)
      PROVE  timeline' \in Timelines
  <2>1. req[t].item \in Tickets /\ req[t].outcome \in Y!Outcomes
    BY <1>3 DEF Decides, ReqsOK, PlaceOK
  <2>2. Append(timeline[req[t].item], req[t].outcome)
           \in Seq(Y!Outcomes \cup {"OPEN"})
    BY <2>1 DEF Timelines
  <2> QED
    BY <1>3, <2>2 DEF Decides, Timelines
<1>4. CASE ItemStep
  BY <1>1, <1>2, <1>4 DEF ItemStep, MakesPoll, Makes, Closes, Deletes, Clears
<1>5. ASSUME NEW t \in Threads, NEW j \in Reqs, CommunityAskStep(t, j)
      PROVE  timeline' = timeline
  BY <1>5, AskIsAsks DEF Asks
<1>6. ASSUME NEW t \in Threads, GoStep(t)
      PROVE  timeline' = timeline \/ Decides(t)
  BY <1>6 DEF GoStep, Judges, Likes, Unlikes, Casts, CommunityWrites, Joins,
     Leaves, Adds, Takes, MakesRoom, Adjusts, Pins, CommunityFails
<1> QED
  BY <1>1, <1>3, <1>4, <1>5, <1>6 DEF CommunityStep

LEMMA CommunityTypeStep ==
    ASSUME CommunityIInv, CommunityStep
    PROVE  Y!TypeOK' /\ ReqsOK' /\ timeline' \in Timelines
<1>1. Y!TypeOK /\ ReqsOK /\ timeline \in Timelines
  BY DEF CommunityIInv, TicketsOK
<1>2. pos' \in [Threads -> Y!Places] /\ ReqsOK' /\ timeline' \in Timelines
  BY <1>1, ReqsStep, TimelineStep
<1>3. /\ \A t \in Threads : req'[t].user \in Y!Everyone \cup {None}
      /\ \A i \in Tickets : timeline'[i] \in Seq(Y!Outcomes \cup {"OPEN"})
  BY <1>2 DEF ReqsOK, Reqs, Timelines
<1>4. state' \in [Y!Items -> Y!States] /\ rowsOf' \in [Y!Items -> SUBSET Y!Everyone]
  BY <1>1, StateChanges, RowsChange
<1>5. /\ area' \in Y!Areas
      /\ restricted' \subseteq Polls /\ cleared' \subseteq Neighbours
      /\ comments' \in [Posts -> 0..MaxComments]
      /\ count' \in [Posts -> [likes : Int, comments : Int]]
      /\ pinned' \subseteq Posts /\ flips' \subseteq Posts
  BY <1>1, RestChanges
<1> QED
  BY <1>2, <1>3, <1>4, <1>5 DEF Y!TypeOK

-----------------------------------------------------------------------------
(* Entries. *)

(* What a step that no one turns in leaves of the judgements.              *)
LEMMA EntriesOnItem ==
    ASSUME CommunityIInv, ItemStep, NEW v \in Threads
    PROVE  EntryOK(v)'
<1>1. EntryOK(v) /\ state \in [Y!Items -> Y!States] /\ PlaceOK(pos[v], req[v])
  BY DEF CommunityIInv, EntriesOK, Y!TypeOK, ReqsOK
<1>2. pos' = pos /\ req' = req
  BY ItemStays DEF Stays
<1>3. pos[v] \in {"cast", "write"} => req[v].item \in Y!Items
  BY <1>1, CommunityKinds DEF PlaceOK
<1>4. ASSUME NEW i \in Y!Items, MakesPoll(i)
      PROVE  EntryOK(v)'
  BY <1>1, <1>2, <1>3, <1>4 DEF MakesPoll, EntryOK
<1>5. ASSUME NEW i \in Y!Items, Makes(i) \/ MakesTicket(i)
      PROVE  EntryOK(v)'
  BY <1>1, <1>2, <1>3, <1>5 DEF Makes, MakesTicket, EntryOK
<1>6. ASSUME NEW i \in Y!Items, Closes(i)
      PROVE  EntryOK(v)'
  BY <1>1, <1>2, <1>3, <1>6 DEF Closes, EntryOK
<1>7. ASSUME NEW i \in Y!Items, Deletes(i)
      PROVE  EntryOK(v)'
  BY <1>1, <1>2, <1>3, <1>7 DEF Deletes, EntryOK
<1>8. ASSUME NEW u \in Neighbours, Clears(u)
      PROVE  EntryOK(v)'
  BY <1>1, <1>2, <1>3, <1>8 DEF Clears, EntryOK
<1> QED
  BY <1>4, <1>5, <1>6, <1>7, <1>8 DEF ItemStep

(* What the request that turns leaves of the others' judgements.           *)
LEMMA EntriesOfOthers ==
    ASSUME Y!TypeOK, ReqsOK, NEW v \in Threads, EntryOK(v), NEW t \in Threads,
           v # t, NEW p \in Y!Places, NEW j \in Reqs, Turns(t, p, j),
           \A i \in Polls \cup Y!Rooms :
               /\ state'[i] = "CLOSED" => state[i] = "CLOSED"
               /\ state'[i] = "NONE" => state[i] = "NONE",
           UNCHANGED <<restricted, cleared, granted, lapsed>>
    PROVE  EntryOK(v)'
<1>1. pos'[v] = pos[v] /\ Alike(req'[v], req[v])
  BY TurnFacts
<1>2. pos[v] \in {"cast", "write"} => req[v].item \in Polls \cup Y!Rooms
  BY DEF ReqsOK, PlaceOK
<1> QED
  BY <1>1, <1>2 DEF EntryOK, Alike

LEMMA GoKeeps ==
    ASSUME Y!TypeOK, ReqsOK, NEW t \in Threads, GoStep(t)
    PROVE  /\ UNCHANGED <<restricted, cleared, granted, lapsed>>
           /\ \A i \in Polls \cup Y!Rooms :
                 /\ state'[i] = "CLOSED" => state[i] = "CLOSED"
                 /\ state'[i] = "NONE" => state[i] = "NONE"
<1>1. UNCHANGED <<restricted, cleared, granted, lapsed>>
  BY DEF GoStep, Judges, Likes, Unlikes, Casts, CommunityWrites, Joins,
     Leaves, Adds, Takes, MakesRoom, Adjusts, Pins, Decides, CommunityFails
<1>2. state' = state \/ (\E r \in Y!Rooms : MakesRoom(t, r)) \/ Decides(t)
  BY DEF GoStep, Judges, Likes, Unlikes, Casts, CommunityWrites, Joins,
     Leaves, Adds, Takes, Adjusts, Pins, CommunityFails
<1>3. ASSUME NEW r \in Y!Rooms, MakesRoom(t, r), NEW i \in Polls \cup Y!Rooms
      PROVE  /\ state'[i] = "CLOSED" => state[i] = "CLOSED"
             /\ state'[i] = "NONE" => state[i] = "NONE"
  BY <1>3, CommunityKinds DEF MakesRoom, Y!TypeOK
<1>4. ASSUME Decides(t), NEW i \in Polls \cup Y!Rooms
      PROVE  state'[i] = state[i]
  <2>1. req[t].item \in Tickets
    BY <1>4 DEF Decides, ReqsOK, PlaceOK
  <2> QED
    BY <1>4, <2>1, CommunityKinds DEF Decides, Y!TypeOK
<1> QED
  BY <1>1, <1>2, <1>3, <1>4

LEMMA EntriesStep ==
    ASSUME CommunityIInv, CommunityStep
    PROVE  EntriesOK'
<1> Y!TypeOK /\ ReqsOK /\ \A v \in Threads : EntryOK(v)
  BY DEF CommunityIInv, EntriesOK
<1>1. ASSUME ItemStep, NEW v \in Threads
      PROVE  EntryOK(v)'
  BY <1>1, EntriesOnItem
<1>2. ASSUME NEW t \in Threads, NEW j \in Reqs, CommunityAskStep(t, j),
             NEW v \in Threads
      PROVE  EntryOK(v)'
  <2>1. PICK p \in Y!Places : Asks(t, p, j)
    BY <1>2, AskIsAsks
  <2>2. /\ Turns(t, p, j)
        /\ UNCHANGED <<state, restricted, cleared, granted, lapsed>>
    BY <2>1 DEF Asks
  <2>3. pos'[t] = p /\ req'[t] = j
    BY <2>2, TurnFacts
  <2>4. CASE v # t
    <3>1. pos'[v] = pos[v] /\ Alike(req'[v], req[v])
      BY <2>2, <2>4, TurnFacts
    <3> QED
      BY <2>2, <3>1 DEF EntryOK, Alike
  <2>5. CASE v = t
    <3>1. /\ p # "cast"
          /\ p = "write" => state[j.item] = "OPEN"
          /\ p = "ballot" => (j.cleared => j.user \in cleared)
      <4>1. p = pos'[t]
        BY <2>3
      <4>2. CASE AsksVote(t, j)
        <5>1. pos'[t] = "ballot"
          BY <4>2, TurnFacts DEF AsksVote, Asks
        <5> QED
          BY <4>1, <4>2, <5>1 DEF AsksVote
      <4>3. CASE AsksMessage(t, j)
        <5>1. pos'[t] = "write"
          BY <4>3, TurnFacts DEF AsksMessage, Asks
        <5> QED
          BY <4>1, <4>3, <5>1 DEF AsksMessage
      <4>4. CASE ~AsksVote(t, j) /\ ~AsksMessage(t, j)
        <5>1. pos'[t] \notin {"cast", "write", "ballot"}
          BY <1>2, <4>4, TurnFacts DEF CommunityAskStep, AsksUnlike,
             AddsComment, AsksRoom, AsksPin, AsksDecide, AsksOther, Asks
        <5> QED
          BY <4>1, <5>1
      <4> QED
        BY <4>2, <4>3, <4>4
    <3> QED
      BY <2>2, <2>3, <2>5, <3>1 DEF EntryOK
  <2> QED
    BY <2>4, <2>5
<1>3. ASSUME NEW t \in Threads, GoStep(t), NEW v \in Threads
      PROVE  EntryOK(v)'
  <2>1. PICK p \in Y!Places, j \in Reqs : Turns(t, p, j)
    BY <1>3, GoTurnsSome
  <2>2. UNCHANGED <<restricted, cleared, granted, lapsed>>
    BY <1>3, GoKeeps
  <2>3. pos'[t] = p /\ req'[t] = j
    BY <2>1, TurnFacts
  <2>4. CASE v # t
    BY <1>3, <2>1, <2>4, GoKeeps, EntriesOfOthers
  <2>5. CASE v = t
    <3>1. ASSUME NEW k \in Reqs, Judges(t, k)
          PROVE  EntryOK(v)'
      <4>1. pos'[t] = "cast" /\ req'[t] = k
        BY <3>1, TurnFacts DEF Judges
      <4>2. /\ k = req[t] /\ state' = state /\ state[k.item] = "OPEN"
            /\ k.item \in restricted => k.cleared
            /\ k.cleared => k.user \in cleared \cup lapsed
        BY <3>1 DEF Judges, EntryOK
      <4> QED
        BY <2>2, <2>5, <4>1, <4>2 DEF EntryOK
    <3>2. CASE \A k \in Reqs : ~Judges(t, k)
      <4>1. pos'[t] \in {"idle", "count"}
        BY <1>3, <3>2, TurnFacts, NoRequestIsReq DEF GoStep, Likes, Unlikes,
           Casts, CommunityWrites, Joins, Leaves, MakesRoom, Adjusts, Pins,
           Decides, CommunityFails
      <4> QED
        BY <2>5, <4>1 DEF EntryOK
    <3> QED
      BY <3>1, <3>2
  <2> QED
    BY <2>4, <2>5
<1> QED
  BY <1>1, <1>2, <1>3 DEF CommunityStep, EntriesOK

(* A step allows the entries it makes.                                     *)
LEMMA EntriesAllowedStep ==
    ASSUME CommunityIInv, CommunityStep
    PROVE  Y!EntriesAllowed
<1> SUFFICES ASSUME NEW i \in Y!Items, NEW u \in rowsOf'[i] \ rowsOf[i]
             PROVE  /\ state[i] = "CLOSED" => <<i, u>> \in granted
                    /\ i \in restricted => u \in cleared \cup lapsed
  BY DEF Y!EntriesAllowed
<1> Y!TypeOK /\ ReqsOK /\ \A v \in Threads : EntryOK(v)
  BY DEF CommunityIInv, EntriesOK
<1>1. ASSUME NEW k \in Y!Items, Deletes(k)
      PROVE  FALSE
  BY <1>1 DEF Deletes, Y!TypeOK
<1>2. ASSUME NEW t \in Threads, NEW j \in Reqs, Leaves(t) \/ Unlikes(t, j)
      PROVE  FALSE
  BY <1>2 DEF Leaves, Unlikes, Takes, Y!TypeOK
<1>3. ASSUME NEW t \in Threads, NEW j \in Reqs,
             Casts(t) \/ CommunityWrites(t) \/ Joins(t) \/ Likes(t, j)
      PROVE  /\ i = req[t].item /\ u = req[t].user
             /\ pos[t] \in {"cast", "write"} \/ state[i] = "OPEN"
             /\ pos[t] \in {"cast", "write", "join", "like"}
  BY <1>3 DEF Casts, CommunityWrites, Joins, Likes, Adds, Y!TypeOK
<1>4. ASSUME NEW t \in Threads, i = req[t].item, u = req[t].user,
             pos[t] \in {"cast", "write"} \/ state[i] = "OPEN",
             pos[t] \in {"cast", "write", "join", "like"}
      PROVE  /\ state[i] = "CLOSED" => <<i, u>> \in granted
             /\ i \in restricted => u \in cleared \cup lapsed
  <2>1. EntryOK(t) /\ PlaceOK(pos[t], req[t]) /\ restricted \subseteq Polls
    BY DEF ReqsOK, Y!TypeOK
  <2>2. pos[t] # "cast" => i \notin restricted
    BY <1>4, <2>1, CommunityKinds DEF PlaceOK
  <2> QED
    BY <1>4, <2>1, <2>2 DEF EntryOK
<1>5. rowsOf' # rowsOf
  OBVIOUS
<1> QED
  BY <1>1, <1>2, <1>3, <1>4, <1>5, RowsChange, NoRequestIsReq, CommunityKinds

-----------------------------------------------------------------------------
(* Likes that a request has found. *)

LEMMA HeldStep ==
    ASSUME CommunityIInv, CommunityStep
    PROVE  HeldOK'
<1> Y!TypeOK /\ ReqsOK /\ HeldOK
  BY DEF CommunityIInv
<1> SUFFICES ASSUME NEW v \in Threads, pos'[v] = "unlike", req'[v].held,
                    state'[req'[v].item] # "GONE"
             PROVE  req'[v].user \in rowsOf'[req'[v].item]
  BY DEF HeldOK
<1> DEFINE Had == /\ pos[v] = "unlike" /\ req[v].held
                  /\ req'[v].item = req[v].item /\ req'[v].user = req[v].user
<1>1. ASSUME Had
      PROVE  req[v].item \in Posts /\ req[v].user \in rowsOf[req[v].item]
  <2>1. req[v].item \in Posts
    BY <1>1 DEF ReqsOK, PlaceOK
  <2>2. state[req[v].item] # "GONE"
    BY <1>1, <2>1, StateChanges, CommunityKinds DEF Y!Outcomes
  <2> QED
    BY <1>1, <2>1, <2>2 DEF HeldOK
<1>2. ASSUME NEW t \in Threads, NEW p \in Y!Places, NEW j \in Reqs,
             Turns(t, p, j),
             t # v
      PROVE  Had
  BY <1>2, TurnFacts DEF Alike
<1>3. CASE ItemStep
  <2>1. Had
    BY <1>3, ItemStays DEF Stays
  <2>2. ASSUME NEW i \in Y!Items, Deletes(i)
        PROVE  req'[v].user \in rowsOf'[req'[v].item]
    <3>1. i # req[v].item
      BY <2>1, <2>2 DEF Deletes, Y!TypeOK
    <3> QED
      BY <1>1, <2>1, <2>2, <3>1 DEF Deletes
  <2>3. CASE rowsOf' = rowsOf
    BY <1>1, <2>1, <2>3
  <2> QED
    BY <1>3, <2>2, <2>3 DEF ItemStep, MakesPoll, Makes, MakesTicket, Closes,
       Clears
<1>4. ASSUME NEW t \in Threads, NEW j \in Reqs, CommunityAskStep(t, j)
      PROVE  req'[v].user \in rowsOf'[req'[v].item]
  <2>1. PICK p \in Y!Places : Asks(t, p, j)
    BY <1>4, AskIsAsks
  <2>2. Turns(t, p, j) /\ rowsOf' = rowsOf
    BY <2>1 DEF Asks
  <2>3. CASE t # v
    BY <1>1, <1>2, <2>2, <2>3
  <2>4. CASE t = v
    <3>1. AsksUnlike(t, j)
      BY <1>4, <2>4, TurnFacts DEF CommunityAskStep, AsksVote, AsksMessage,
         AddsComment, AsksRoom, AsksPin, AsksDecide, AsksOther, Asks
    <3>2. req'[v] = j
      BY <2>2, <2>4, TurnFacts
    <3> QED
      BY <2>2, <3>1, <3>2 DEF AsksUnlike
  <2> QED
    BY <2>3, <2>4
<1>5. ASSUME NEW t \in Threads, GoStep(t)
      PROVE  req'[v].user \in rowsOf'[req'[v].item]
  <2>1. PICK p \in Y!Places, j \in Reqs : Turns(t, p, j)
    BY <1>5, GoTurnsSome
  <2>2. t # v
    BY <1>5, TurnFacts, NoRequestIsReq DEF GoStep, Judges, Likes, Unlikes,
       Casts, CommunityWrites, Joins, Leaves, MakesRoom, Adjusts, Pins,
       Decides, CommunityFails
  <2>3. Had
    BY <1>2, <2>1, <2>2
  <2>4. CASE rowsOf' = rowsOf
    BY <1>1, <2>3, <2>4
  <2>5. CASE Adds(req[t].item, req[t].user)
    BY <1>1, <2>3, <2>5, CommunityKinds DEF Adds, Y!TypeOK
  <2>6. CASE Takes(t)
    <3>1. req[v].item # req[t].item \/ req[v].user # req[t].user
      BY <2>2, <2>6 DEF Takes
    <3> QED
      BY <1>1, <2>3, <2>6, <3>1, CommunityKinds DEF Takes, Y!TypeOK
  <2> QED
    BY <1>5, <2>4, <2>5, <2>6 DEF GoStep, Judges, Likes, Unlikes, Casts,
       CommunityWrites, Joins, Leaves, MakesRoom, Adjusts, Pins, Decides,
       CommunityFails
<1> QED
  BY <1>3, <1>4, <1>5 DEF CommunityStep

-----------------------------------------------------------------------------
(* What requests owe a count is a sum over them. *)

IsDebt(g, r, S) ==
    g = [s \in SUBSET S |->
            IF s = {} THEN 0 ELSE r[Pick(s)].delta + g[s \ {Pick(s)}]]

Debt(r, S) == (CHOOSE g : IsDebt(g, r, S))[S]

LEMMA DebtIsSum ==
    ASSUME NEW r, NEW S
    PROVE  Debt(r, S) = SumFunctionOnSet([t \in S |-> r[t].delta], S)
<1> DEFINE f == [t \in S |-> r[t].delta]
<1>1. ASSUME NEW s \in SUBSET S, s # {}
      PROVE  f[Pick(s)] = r[Pick(s)].delta
  BY <1>1 DEF Pick
<1> HIDE DEF f
<1>2. ASSUME NEW g
      PROVE  IsDebt(g, r, S) <=> IsSum(g, f, S)
  <2>1. [s \in SUBSET S |->
            IF s = {} THEN 0 ELSE r[Pick(s)].delta + g[s \ {Pick(s)}]]
        = [s \in SUBSET S |->
            IF s = {} THEN 0 ELSE f[Pick(s)] + g[s \ {Pick(s)}]]
    BY <1>1
  <2> QED
    BY <2>1 DEF IsDebt, IsSum
<1>3. (CHOOSE g : IsDebt(g, r, S)) = (CHOOSE g : IsSum(g, f, S))
  BY <1>2
<1> QED
  BY <1>3, SumIsChosen DEF Debt, f

LEMMA DebtIsInt ==
    ASSUME NEW S, IsFiniteSet(S), NEW r, \A t \in S : r[t].delta \in Int
    PROVE  Debt(r, S) \in Int
<1> DEFINE f == [t \in S |-> r[t].delta]
<1>1. \A t \in S : f[t] \in Int
  OBVIOUS
<1>2. Debt(r, S) = SumFunctionOnSet(f, S)
  BY DebtIsSum
<1> HIDE DEF f
<1> QED
  BY <1>1, <1>2, SumIsInt

LEMMA DebtSame ==
    ASSUME NEW S, IsFiniteSet(S), NEW r, NEW q,
           \A t \in S : q[t].delta = r[t].delta
    PROVE  Debt(q, S) = Debt(r, S)
<1>1. [t \in S |-> q[t].delta] = [t \in S |-> r[t].delta]
  OBVIOUS
<1> QED
  BY <1>1, DebtIsSum

LEMMA DebtGains ==
    ASSUME NEW S, IsFiniteSet(S), NEW r, NEW q, NEW t, t \notin S,
           \A v \in S : r[v].delta \in Int /\ q[v].delta = r[v].delta,
           q[t].delta \in Int
    PROVE  Debt(q, S \cup {t}) = Debt(r, S) + q[t].delta
<1> DEFINE f == [v \in S |-> r[v].delta]
           g == [v \in S \cup {t} |-> q[v].delta]
<1>1. /\ \A v \in S : f[v] \in Int /\ g[v] = f[v]
      /\ g[t] = q[t].delta
  OBVIOUS
<1>2. Debt(r, S) = SumFunctionOnSet(f, S)
  BY DebtIsSum
<1>3. Debt(q, S \cup {t}) = SumFunctionOnSet(g, S \cup {t})
  BY DebtIsSum
<1> HIDE DEF f, g
<1>4. SumFunctionOnSet(g, S \cup {t}) = SumFunctionOnSet(f, S) + g[t]
  BY <1>1, SumGains
<1> QED
  BY <1>1, <1>2, <1>3, <1>4

LEMMA OwedIs ==
    ASSUME NEW a, NEW field
    PROVE  Y!Owed(a, field) = Debt(req, Owing(a, field))
  BY DEF Y!Owed, Debt, IsDebt, Owing, Y!MapThenSumSet, Y!MapThenFoldSet, Pick

LEMMA OwedIsNext ==
    ASSUME NEW a, NEW field
    PROVE  Y!Owed(a, field)' = Debt(req', Owing(a, field)')
  BY DEF Y!Owed, Debt, IsDebt, Owing, Y!MapThenSumSet, Y!MapThenFoldSet, Pick

LEMMA OwingFinite ==
    ASSUME ReqsOK, NEW a, NEW field
    PROVE  /\ IsFiniteSet(Owing(a, field))
           /\ \A t \in Owing(a, field) : req[t].delta \in Int
           /\ Y!Owed(a, field) \in Int
<1>1. Owing(a, field) \subseteq Threads
  BY DEF Owing
<1>2. IsFiniteSet(Owing(a, field))
  BY <1>1, FS_Subset
<1>3. \A t \in Owing(a, field) : req[t].delta \in Int
  BY <1>1 DEF ReqsOK, Reqs
<1> QED
  BY <1>2, <1>3, DebtIsInt, OwedIs

(* Requests stay where they are: they owe what they owed.                  *)
LEMMA OwedStays ==
    ASSUME Stays, ReqsOK, NEW a, NEW field
    PROVE  Y!Owed(a, field)' = Y!Owed(a, field)
<1>1. Owing(a, field)' = Owing(a, field) /\ req' = req
  BY DEF Stays, Owing
<1> QED
  BY <1>1, OwedIs, OwedIsNext

(* One turns: it owes, or owes no longer, what it says.                    *)
LEMMA OwedTurns ==
    ASSUME Y!TypeOK, ReqsOK, NEW t \in Threads, NEW p \in Y!Places,
           NEW j \in Reqs,
           Turns(t, p, j), NEW a, NEW field,
           pos[t] # "count" \/ p # "count"
    PROVE  /\ ~(p = "count" /\ j.item = a /\ j.field = field)
              /\ t \notin Owing(a, field) => Y!Owed(a, field)' = Y!Owed(a, field)
           /\ p = "count" /\ j.item = a /\ j.field = field =>
                 Y!Owed(a, field)' = Y!Owed(a, field) + j.delta
           /\ t \in Owing(a, field) =>
                 Y!Owed(a, field)' = Y!Owed(a, field) - req[t].delta
<1> DEFINE S == Owing(a, field)
           T == Owing(a, field)'
           n == req'
<1>1. /\ IsFiniteSet(S) /\ \A v \in S : req[v].delta \in Int
      /\ Y!Owed(a, field) = Debt(req, S)
  BY OwingFinite, OwedIs
<1>2. Y!Owed(a, field)' = Debt(n, T)
  BY OwedIsNext
<1>3. /\ pos'[t] = p /\ n[t] = j
      /\ \A v \in Threads \ {t} : pos'[v] = pos[v] /\ Alike(n[v], req[v])
  BY TurnFacts
<1>4. \A v \in Threads \ {t} : v \in T <=> v \in S
  BY <1>3 DEF Alike, Owing
<1>5. t \in T <=> p = "count" /\ j.item = a /\ j.field = field
  BY <1>3 DEF Owing
<1>6. S \subseteq Threads /\ T \subseteq Threads
  BY DEF Owing
<1>7. \A v \in Threads \ {t} : n[v].delta = req[v].delta
  BY <1>3 DEF Alike
<1>8. t \in S => pos[t] = "count"
  BY DEF Owing
<1>9. j.delta \in Int
  BY DEF Reqs
<1> HIDE DEF S, T, n
<1>10. CASE t \notin S /\ t \notin T
  <2>1. T = S
    BY <1>4, <1>6, <1>10
  <2>2. Debt(n, S) = Debt(req, S)
    BY <1>1, <1>6, <1>7, <1>10, DebtSame
  <2> QED
    BY <1>1, <1>2, <1>5, <1>10, <2>1, <2>2 DEF S
<1>11. CASE t \notin S /\ t \in T
  <2>1. T = S \cup {t}
    BY <1>4, <1>6, <1>11
  <2>2. Debt(n, S \cup {t}) = Debt(req, S) + n[t].delta
    <3>1. \A v \in S : req[v].delta \in Int /\ n[v].delta = req[v].delta
      BY <1>1, <1>6, <1>7, <1>11
    <3>2. n[t].delta \in Int
      BY <1>3, <1>9
    <3>3. IsFiniteSet(S) /\ t \notin S
      BY <1>1, <1>11
    <3> QED
      BY <3>1, <3>2, <3>3, DebtGains
  <2> QED
    BY <1>1, <1>2, <1>3, <1>5, <1>11, <2>1, <2>2 DEF S
<1>12. CASE t \in S /\ t \notin T
  <2>1. T = S \ {t}
    BY <1>4, <1>6, <1>12
  <2>2. Debt(req, T \cup {t}) = Debt(n, T) + req[t].delta
    <3>1. \A v \in T : n[v].delta \in Int /\ req[v].delta = n[v].delta
      BY <1>1, <1>6, <1>7, <2>1
    <3>2. IsFiniteSet(T) /\ t \notin T /\ req[t].delta \in Int
      BY <1>1, <1>12, <2>1, FS_Subset
    <3> QED
      BY <3>1, <3>2, DebtGains
  <2>3. T \cup {t} = S /\ Debt(n, T) \in Int
    <3>1. IsFiniteSet(T) /\ \A v \in T : n[v].delta \in Int
      BY <1>1, <1>6, <1>7, <2>1, FS_Subset
    <3> QED
      BY <1>12, <2>1, <3>1, DebtIsInt
  <2>4. Debt(n, T) = Debt(req, S) - req[t].delta
    <3>1. Debt(req, S) = Debt(n, T) + req[t].delta /\ req[t].delta \in Int
      BY <1>1, <1>12, <2>2, <2>3
    <3>2. \A x, y, d \in Int : x = y + d => y = x - d
      OBVIOUS
    <3>3. Debt(req, S) \in Int
      BY <1>1, DebtIsInt
    <3> QED
      BY <2>3, <3>1, <3>2, <3>3
  <2>5. Y!Owed(a, field)' = Y!Owed(a, field) - req[t].delta
    BY <1>1, <1>2, <2>4
  <2> QED
    BY <1>5, <1>12, <2>5 DEF S
<1> QED
  BY <1>5, <1>8, <1>10, <1>11, <1>12

-----------------------------------------------------------------------------
(* Counts. *)

LEMMA CountKept ==
    ASSUME NEW a \in Posts, CommunityCountOK(a),
           \A f \in {"likes", "comments"} : Y!Owed(a, f)' = Y!Owed(a, f),
           state'[a] # "GONE" => state[a] # "GONE",
           torn \subseteq torn', count'[a] = count[a],
           comments'[a] = comments[a], rowsOf'[a] = rowsOf[a]
    PROVE  CommunityCountOK(a)'
  BY DEF CommunityCountOK

LEMMA RevivedNever ==
    ASSUME Y!TypeOK, ReqsOK, CommunityStep, NEW a \in Posts
    PROVE  state'[a] # "GONE" => state[a] # "GONE"
  BY StateChanges, CommunityKinds DEF Y!Outcomes

(* A request that neither comes to a count of a nor leaves one.            *)
LEMMA OwedByOthers ==
    ASSUME Y!TypeOK, ReqsOK, NEW t \in Threads, NEW p \in Y!Places,
           NEW j \in Reqs,
           Turns(t, p, j), NEW a,
           p # "count" \/ j.item # a, pos[t] # "count" \/ req[t].item # a,
           pos[t] # "count" \/ p # "count"
    PROVE  \A f \in {"likes", "comments"} : Y!Owed(a, f)' = Y!Owed(a, f)
<1> SUFFICES ASSUME NEW f \in {"likes", "comments"}
             PROVE  Y!Owed(a, f)' = Y!Owed(a, f)
  OBVIOUS
<1>1. t \notin Owing(a, f)
  BY DEF Owing
<1> QED
  BY <1>1, OwedTurns

LEMMA CountsOnItem ==
    ASSUME CommunityIInv, ItemStep, NEW a \in Posts
    PROVE  IsFiniteSet(rowsOf'[a]) /\ CommunityCountOK(a)'
<1>1. /\ Y!TypeOK /\ ReqsOK /\ CommunityCountOK(a) /\ IsFiniteSet(rowsOf[a])
      /\ state'[a] # "GONE" => state[a] # "GONE"
  BY RevivedNever DEF CommunityIInv, CountsOK, CommunityStep
<1>2. \A f \in {"likes", "comments"} : Y!Owed(a, f)' = Y!Owed(a, f)
  BY <1>1, ItemStays, OwedStays
<1>3. count' = count /\ torn' = torn
  BY DEF ItemStep, MakesPoll, Makes, MakesTicket, Closes, Deletes, Clears
<1>4. CASE rowsOf'[a] = rowsOf[a] /\ comments'[a] = comments[a]
  BY <1>1, <1>2, <1>3, <1>4, CountKept
<1>5. ASSUME NEW i \in Y!Items, Deletes(i), i = a
      PROVE  rowsOf'[a] = {} /\ state'[a] = "GONE"
  BY <1>1, <1>5 DEF Deletes, Y!TypeOK
<1>6. ASSUME NEW i \in Y!Items, Deletes(i), i # a
      PROVE  rowsOf'[a] = rowsOf[a] /\ comments'[a] = comments[a]
  BY <1>1, <1>6 DEF Deletes, Y!TypeOK
<1>7. CASE rowsOf'[a] = {} /\ state'[a] = "GONE"
  BY <1>7, FS_EmptySet DEF CommunityCountOK
<1> QED
  BY <1>4, <1>5, <1>6, <1>7 DEF ItemStep, MakesPoll, Makes, MakesTicket,
     Closes, Clears

LEMMA CountsOnAsk ==
    ASSUME CommunityIInv, NEW t \in Threads, NEW j \in Reqs,
           CommunityAskStep(t, j), NEW a \in Posts
    PROVE  IsFiniteSet(rowsOf'[a]) /\ CommunityCountOK(a)'
<1>1. Y!TypeOK /\ ReqsOK /\ CommunityCountOK(a) /\ IsFiniteSet(rowsOf[a])
  BY DEF CommunityIInv, CountsOK
<1>2. PICK p \in Y!Places : Asks(t, p, j)
  BY AskIsAsks
<1>3. /\ Turns(t, p, j) /\ pos[t] = "idle" /\ PlaceOK(p, j)
      /\ UNCHANGED <<state, rowsOf, count, torn>>
  BY <1>2 DEF Asks, Turns
<1>4. ASSUME ~(p = "count" /\ j.item = a), comments'[a] = comments[a]
      PROVE  CommunityCountOK(a)'
  <2>1. \A f \in {"likes", "comments"} : Y!Owed(a, f)' = Y!Owed(a, f)
    BY <1>1, <1>3, <1>4, OwedByOthers
  <2> QED
    BY <1>1, <1>3, <1>4, <2>1, CountKept
<1>5. CASE AddsComment(t, j)
  <2>1. /\ p = "count"
        /\ j.item \in Posts
        /\ j.field = "comments"
        /\ j.delta = 1
        /\ comments' = [comments EXCEPT ![j.item] = comments[j.item] + 1]
    <3>1. Turns(t, "count", j)
      BY <1>5 DEF AddsComment, Asks
    <3>2. pos'[t] = "count" /\ pos'[t] = p
      BY <1>1, <1>3, <3>1, TurnFacts
    <3> QED
      BY <1>3, <1>5, <3>2 DEF AddsComment, PlaceOK
  <2>2. CASE j.item = a
    <3>1. t \notin Owing(a, "likes") /\ t \notin Owing(a, "comments")
      BY <1>3 DEF Owing
    <3>2. Y!Owed(a, "likes")' = Y!Owed(a, "likes")
      BY <1>1, <1>3, <2>1, <3>1, OwedTurns
    <3>3. Y!Owed(a, "comments")' = Y!Owed(a, "comments") + 1
      BY <1>1, <1>3, <2>1, <2>2, OwedTurns
    <3>4. comments'[a] = comments[a] + 1 /\ comments[a] \in Nat
      BY <1>1, <2>1, <2>2 DEF Y!TypeOK
    <3>5. count[a].comments \in Int /\ Y!Owed(a, "comments") \in Int
      BY <1>1, OwingFinite DEF Y!TypeOK
    <3>6. \A c, o, n \in Int : c + o = n => c + (o + 1) = n + 1
      OBVIOUS
    <3>7. count[a].comments + Y!Owed(a, "comments") = comments[a] =>
             count[a].comments + (Y!Owed(a, "comments") + 1) = comments[a] + 1
      BY <3>4, <3>5, <3>6
    <3> QED
      BY <1>1, <1>3, <3>2, <3>3, <3>4, <3>7 DEF CommunityCountOK
  <2>3. CASE j.item # a
    <3>1. comments'[a] = comments[a]
      BY <1>1, <2>1, <2>3 DEF Y!TypeOK
    <3> QED
      BY <1>1, <1>3, <1>4, <2>3, <3>1
  <2> QED
    BY <1>1, <1>3, <2>2, <2>3
<1>6. CASE ~AddsComment(t, j)
  <2>1. comments' = comments
    BY <1>6 DEF CommunityAskStep, AsksVote, AsksMessage, AsksUnlike, AsksRoom,
       AsksPin, AsksDecide, AsksOther, Contends
  <2>2. p # "count"
    <3>1. pos'[t] # "count"
      BY <1>1, <1>6, TurnFacts DEF CommunityAskStep, AsksVote, AsksMessage,
         AsksUnlike, AsksRoom, AsksPin, AsksDecide, AsksOther, Asks
    <3> QED
      BY <1>1, <1>3, <3>1, TurnFacts
  <2> QED
    BY <1>1, <1>3, <1>4, <2>1, <2>2
<1> QED
  BY <1>5, <1>6

LEMMA CountsOnLike ==
    ASSUME CommunityIInv, NEW t \in Threads, NEW j \in Reqs, Likes(t, j),
           NEW a \in Posts
    PROVE  IsFiniteSet(rowsOf'[a]) /\ CommunityCountOK(a)'
<1> DEFINE u == req[t].user
<1>1. Y!TypeOK /\ ReqsOK /\ CommunityCountOK(a) /\ IsFiniteSet(rowsOf[a])
  BY DEF CommunityIInv, CountsOK
<1>2. /\ Turns(t, "count", j) /\ pos[t] = "like" /\ "count" \in Y!Places
      /\ UNCHANGED <<state, count, comments, torn>>
      /\ j.item = req[t].item /\ j.field = "likes" /\ j.delta = 1
  BY DEF Likes, Adds, Turns
<1>3. /\ rowsOf' = [rowsOf EXCEPT ![j.item] = rowsOf[j.item] \cup {u}]
      /\ j.item \in Y!Items
  BY <1>1, <1>2, CommunityKinds DEF Likes, Adds, ReqsOK, PlaceOK
<1>4. CASE j.item = a
  <2>1. u \notin rowsOf[a]
    BY <1>2, <1>4 DEF Likes
  <2>2. rowsOf'[a] = rowsOf[a] \cup {u}
    BY <1>1, <1>3, <1>4 DEF Y!TypeOK
  <2>3. /\ IsFiniteSet(rowsOf[a] \cup {u})
        /\ Cardinality(rowsOf[a] \cup {u}) = Cardinality(rowsOf[a]) + 1
    BY <1>1, <2>1, FS_AddElement
  <2>4. t \notin Owing(a, "comments")
    BY <1>2 DEF Owing
  <2>5. /\ Y!Owed(a, "comments")' = Y!Owed(a, "comments")
        /\ Y!Owed(a, "likes")' = Y!Owed(a, "likes") + 1
    BY <1>1, <1>2, <1>4, <2>4, OwedTurns
  <2>6. /\ count[a].likes \in Int /\ Y!Owed(a, "likes") \in Int
        /\ Cardinality(rowsOf[a]) \in Int
    BY <1>1, OwingFinite, FS_CardinalityType DEF Y!TypeOK
  <2>7. \A c, o, n \in Int : c + o = n => c + (o + 1) = n + 1
    OBVIOUS
  <2>8. count[a].likes + Y!Owed(a, "likes") = Cardinality(rowsOf[a]) =>
           count[a].likes + (Y!Owed(a, "likes") + 1) = Cardinality(rowsOf[a]) + 1
    BY <2>6, <2>7
  <2>9. Cardinality(rowsOf'[a]) = Cardinality(rowsOf[a]) + 1
    BY <2>2, <2>3
  <2> QED
    BY <1>1, <1>2, <2>2, <2>3, <2>5, <2>8, <2>9 DEF CommunityCountOK
<1>5. CASE j.item # a
  <2>1. rowsOf'[a] = rowsOf[a]
    BY <1>1, <1>3, <1>5, CommunityKinds DEF Y!TypeOK
  <2>2. \A f \in {"likes", "comments"} : Y!Owed(a, f)' = Y!Owed(a, f)
    BY <1>1, <1>2, <1>5, OwedByOthers
  <2> QED
    BY <1>1, <1>2, <2>1, <2>2, CountKept
<1> QED
  BY <1>4, <1>5

LEMMA CountsOnUnlike ==
    ASSUME CommunityIInv, NEW t \in Threads, NEW j \in Reqs, Unlikes(t, j),
           NEW a \in Posts
    PROVE  IsFiniteSet(rowsOf'[a]) /\ CommunityCountOK(a)'
<1> DEFINE u == req[t].user
<1>1. Y!TypeOK /\ ReqsOK /\ CommunityCountOK(a) /\ IsFiniteSet(rowsOf[a]) /\ HeldOK
  BY DEF CommunityIInv, CountsOK
<1>2. /\ Turns(t, "count", j) /\ pos[t] = "unlike" /\ req[t].held
      /\ "count" \in Y!Places
      /\ UNCHANGED <<state, count, comments, torn>>
      /\ j.item = req[t].item /\ j.field = "likes" /\ j.delta = -1
  BY DEF Unlikes, Takes, Turns
<1>3. /\ rowsOf' = [rowsOf EXCEPT ![j.item] = rowsOf[j.item] \ {u}]
      /\ j.item \in Y!Items
  BY <1>1, <1>2, CommunityKinds DEF Unlikes, Takes, ReqsOK, PlaceOK
<1>4. CASE j.item = a
  <2>1. rowsOf'[a] = rowsOf[a] \ {u}
    BY <1>1, <1>3, <1>4 DEF Y!TypeOK
  <2>2. IsFiniteSet(rowsOf'[a])
    BY <1>1, <2>1, FS_RemoveElement
  <2>3. CASE state[a] # "GONE"
    <3>1. u \in rowsOf[a]
      BY <1>1, <1>2, <1>4, <2>3 DEF HeldOK
    <3>2. Cardinality(rowsOf[a] \ {u}) = Cardinality(rowsOf[a]) - 1
      BY <1>1, <3>1, FS_RemoveElement
    <3>3. t \notin Owing(a, "comments")
      BY <1>2 DEF Owing
    <3>4. /\ Y!Owed(a, "comments")' = Y!Owed(a, "comments")
          /\ Y!Owed(a, "likes")' = Y!Owed(a, "likes") + -1
      BY <1>1, <1>2, <1>4, <3>3, OwedTurns
    <3>5. /\ count[a].likes \in Int /\ Y!Owed(a, "likes") \in Int
          /\ Cardinality(rowsOf[a]) \in Int
      BY <1>1, OwingFinite, FS_CardinalityType DEF Y!TypeOK
    <3>6. \A c, o, n \in Int : c + o = n => c + (o + -1) = n - 1
      OBVIOUS
    <3>7. count[a].likes + Y!Owed(a, "likes") = Cardinality(rowsOf[a]) =>
             count[a].likes + (Y!Owed(a, "likes") + -1) = Cardinality(rowsOf[a]) - 1
      BY <3>5, <3>6
    <3>8. Cardinality(rowsOf'[a]) = Cardinality(rowsOf[a]) - 1
      BY <2>1, <3>2
    <3> QED
      BY <1>1, <1>2, <2>2, <3>4, <3>7, <3>8 DEF CommunityCountOK
  <2>4. CASE state[a] = "GONE"
    BY <1>2, <2>2, <2>4 DEF CommunityCountOK
  <2> QED
    BY <2>3, <2>4
<1>5. CASE j.item # a
  <2>1. rowsOf'[a] = rowsOf[a]
    BY <1>1, <1>3, <1>5, CommunityKinds DEF Y!TypeOK
  <2>2. \A f \in {"likes", "comments"} : Y!Owed(a, f)' = Y!Owed(a, f)
    BY <1>1, <1>2, <1>5, OwedByOthers
  <2> QED
    BY <1>1, <1>2, <2>1, <2>2, CountKept
<1> QED
  BY <1>4, <1>5

LEMMA CountsOnAdjust ==
    ASSUME CommunityIInv, NEW t \in Threads,
           NEW c \in [likes : Int, comments : Int],
           Adjusts(t, c), NEW a \in Posts
    PROVE  IsFiniteSet(rowsOf'[a]) /\ CommunityCountOK(a)'
<1> DEFINE d == req[t].delta
<1>1. Y!TypeOK /\ ReqsOK /\ CommunityCountOK(a) /\ IsFiniteSet(rowsOf[a])
  BY DEF CommunityIInv, CountsOK
<1>2. /\ Turns(t, "idle", Y!NoRequest)
      /\ pos[t] = "count"
      /\ "idle" \in Y!Places
      /\ UNCHANGED <<state, rowsOf, comments, torn>>
      /\ count' = [count EXCEPT ![req[t].item] = c]
      /\ req[t] \in Reqs /\ req[t].item \in Posts
  BY <1>1 DEF Adjusts, Turns, ReqsOK, PlaceOK
<1>3. CASE req[t].item = a
  <2>1. count'[a] = c
    BY <1>1, <1>2, <1>3 DEF Y!TypeOK
  <2>2. /\ count[a].likes \in Int /\ Y!Owed(a, "likes") \in Int
        /\ count[a].comments \in Int /\ Y!Owed(a, "comments") \in Int
        /\ d \in Int
    BY <1>1, <1>2, OwingFinite DEF Y!TypeOK, Reqs
  <2>3. \A n, o, k \in Int : (n + k) + (o - k) = n + o
    OBVIOUS
  <2>4. ASSUME NEW f \in {"likes", "comments"}
        PROVE  Y!Owed(a, f)' = IF req[t].field = f THEN Y!Owed(a, f) - d
                                                 ELSE Y!Owed(a, f)
    <3>1. CASE req[t].field = f
      <4>1. t \in Owing(a, f)
        BY <1>2, <1>3, <3>1 DEF Owing
      <4>2. Y!Owed(a, f)' = Y!Owed(a, f) - d
        BY <1>1, <1>2, <4>1, OwedTurns, NoRequestIsReq
      <4> QED
        BY <3>1, <4>2
    <3>2. CASE req[t].field # f
      <4>1. t \notin Owing(a, f)
        BY <3>2 DEF Owing
      <4>2. Y!Owed(a, f)' = Y!Owed(a, f)
        BY <1>1, <1>2, <4>1, OwedTurns, NoRequestIsReq
      <4> QED
        BY <3>2, <4>2
    <3> QED
      BY <3>1, <3>2
  <2>5. CASE req[t].field = "likes"
    <3>1. c.likes = count[a].likes + d /\ c.comments = count[a].comments
      BY <1>3, <2>5 DEF Adjusts
    <3>2. /\ Y!Owed(a, "likes")' = Y!Owed(a, "likes") - d
          /\ Y!Owed(a, "comments")' = Y!Owed(a, "comments")
      BY <2>4, <2>5
    <3>3. (count[a].likes + d) + (Y!Owed(a, "likes") - d)
             = count[a].likes + Y!Owed(a, "likes")
      BY <2>2, <2>3
    <3> QED
      BY <1>1, <1>2, <2>1, <3>1, <3>2, <3>3 DEF CommunityCountOK
  <2>6. CASE req[t].field = "comments"
    <3>1. c.comments = count[a].comments + d /\ c.likes = count[a].likes
      BY <1>3, <2>6 DEF Adjusts
    <3>2. /\ Y!Owed(a, "comments")' = Y!Owed(a, "comments") - d
          /\ Y!Owed(a, "likes")' = Y!Owed(a, "likes")
      BY <2>4, <2>6
    <3>3. (count[a].comments + d) + (Y!Owed(a, "comments") - d)
             = count[a].comments + Y!Owed(a, "comments")
      BY <2>2, <2>3
    <3> QED
      BY <1>1, <1>2, <2>1, <3>1, <3>2, <3>3 DEF CommunityCountOK
  <2>7. req[t].field \in {"likes", "comments"}
    BY <1>2 DEF Reqs
  <2> QED
    BY <2>5, <2>6, <2>7
<1>4. CASE req[t].item # a
  <2>1. count'[a] = count[a]
    BY <1>1, <1>2, <1>4 DEF Y!TypeOK
  <2>2. \A f \in {"likes", "comments"} : Y!Owed(a, f)' = Y!Owed(a, f)
    BY <1>1, <1>2, <1>4, OwedByOthers, NoRequestIsReq
  <2> QED
    BY <1>1, <1>2, <2>1, <2>2, CountKept
<1> QED
  BY <1>3, <1>4

(* The other turns write no like, no comment and no count of a.            *)
LEMMA CountsOnOther ==
    ASSUME CommunityIInv, NEW t \in Threads, GoStep(t),
           \A j \in Reqs : ~Likes(t, j) /\ ~Unlikes(t, j),
           \A c \in [likes : Int, comments : Int] : ~Adjusts(t, c),
           NEW a \in Posts
    PROVE  IsFiniteSet(rowsOf'[a]) /\ CommunityCountOK(a)'
<1>1. /\ Y!TypeOK /\ ReqsOK /\ CommunityCountOK(a) /\ IsFiniteSet(rowsOf[a])
      /\ state'[a] # "GONE" => state[a] # "GONE"
  BY RevivedNever DEF CommunityIInv, CountsOK, CommunityStep
<1>2. PICK p \in Y!Places, j \in Reqs : Turns(t, p, j)
  BY GoTurnsSome
<1>3. pos'[t] # "count"
  BY <1>1, TurnFacts, NoRequestIsReq DEF GoStep, Judges, Casts,
     CommunityWrites, Joins, Leaves, MakesRoom, Pins, Decides, CommunityFails
<1>4. p # "count"
  BY <1>1, <1>2, <1>3, TurnFacts
<1>5. /\ count' = count /\ comments' = comments /\ torn \subseteq torn'
      /\ pos[t] = "count" => req[t].item \in torn'
  BY DEF GoStep, Judges, Casts, CommunityWrites, Joins, Leaves, MakesRoom,
     Pins, Decides, CommunityFails, Adds, Takes
<1>6. rowsOf'[a] = rowsOf[a]
  <2>1. CASE rowsOf' = rowsOf
    BY <2>1
  <2>2. CASE Casts(t) \/ CommunityWrites(t) \/ Joins(t) \/ Leaves(t)
    <3>1. pos[t] \in {"cast", "write", "join", "leave"}
      BY <2>2 DEF Casts, CommunityWrites, Joins, Leaves
    <3>2. req[t].item # a
      BY <1>1, <3>1, CommunityKinds DEF ReqsOK, PlaceOK
    <3> QED
      BY <1>1, <2>2, <3>2, CommunityKinds DEF Casts, CommunityWrites, Joins,
         Leaves, Adds, Takes, Y!TypeOK
  <2> QED
    BY <2>1, <2>2 DEF GoStep, Judges, MakesRoom, Pins, Decides, CommunityFails
<1>7. CASE pos[t] # "count" \/ req[t].item # a
  <2>1. \A f \in {"likes", "comments"} : Y!Owed(a, f)' = Y!Owed(a, f)
    BY <1>1, <1>2, <1>4, <1>7, OwedByOthers
  <2> QED
    BY <1>1, <1>5, <1>6, <2>1, CountKept
<1>8. CASE pos[t] = "count" /\ req[t].item = a
  BY <1>1, <1>5, <1>6, <1>8 DEF CommunityCountOK
<1> QED
  BY <1>7, <1>8

LEMMA CountsStep ==
    ASSUME CommunityIInv, CommunityStep
    PROVE  CountsOK'
<1> SUFFICES ASSUME NEW a \in Posts
             PROVE  IsFiniteSet(rowsOf'[a]) /\ CommunityCountOK(a)'
  BY DEF CountsOK
<1>1. ASSUME NEW t \in Threads, GoStep(t)
      PROVE  IsFiniteSet(rowsOf'[a]) /\ CommunityCountOK(a)'
  <2>1. CASE \A j \in Reqs : ~Likes(t, j) /\ ~Unlikes(t, j)
    <3>1. CASE \A c \in [likes : Int, comments : Int] : ~Adjusts(t, c)
      BY <1>1, <2>1, <3>1, CountsOnOther
    <3> QED
      BY <3>1, CountsOnAdjust
  <2> QED
    BY <2>1, CountsOnLike, CountsOnUnlike
<1> QED
  BY <1>1, CountsOnItem, CountsOnAsk DEF CommunityStep

-----------------------------------------------------------------------------
(* Rooms. *)

(* Rooms change only when one is created or closed.                        *)
LEMMA RoomsChange ==
    ASSUME Y!TypeOK, ReqsOK, CommunityStep,
           \A t \in Threads, r \in Y!Rooms : ~MakesRoom(t, r),
           NEW k \in DOMAIN RoomIds
    PROVE  Y!Existing(k)' = Y!Existing(k)
<1>1. ASSUME NEW r \in Y!Rooms
      PROVE  state'[r] = "NONE" <=> state[r] = "NONE"
  <2>1. CASE ItemStep
    <3>1. ASSUME NEW i \in Y!Items, MakesPoll(i) \/ Makes(i) \/ MakesTicket(i)
          PROVE  state'[r] = state[r]
      BY <3>1, CommunityKinds DEF MakesPoll, Makes, MakesTicket, Y!TypeOK
    <3>2. ASSUME NEW i \in Y!Items, Closes(i) \/ Deletes(i)
          PROVE  state'[r] = "NONE" <=> state[r] = "NONE"
      BY <3>2, CommunityKinds DEF Closes, Deletes, Y!TypeOK
    <3> QED
      BY <2>1, <3>1, <3>2 DEF ItemStep, Clears
  <2>2. ASSUME NEW t \in Threads, NEW j \in Reqs, CommunityAskStep(t, j)
        PROVE  state' = state
    BY <2>2, AskIsAsks DEF Asks
  <2>3. ASSUME NEW t \in Threads, GoStep(t)
        PROVE  state'[r] = state[r]
    <3>1. CASE Decides(t)
      <4>1. req[t].item \in Tickets
        BY <3>1 DEF Decides, ReqsOK, PlaceOK
      <4> QED
        BY <3>1, <4>1, CommunityKinds DEF Decides, Y!TypeOK
    <3> QED
      BY <2>3, <3>1 DEF GoStep, Judges, Likes, Unlikes, Casts,
         CommunityWrites, Joins, Leaves, Adds, Takes, Adjusts, Pins,
         CommunityFails
  <2> QED
    BY <2>1, <2>2, <2>3 DEF CommunityStep
<1> QED
  BY <1>1, RoomKinds DEF Y!Existing

LEMMA ContestedGrows ==
    ASSUME CommunityStep
    PROVE  doubled \subseteq doubled'
<1>1. CASE ItemStep
  BY <1>1, ItemStays DEF Stays
<1>2. ASSUME NEW t \in Threads, NEW j \in Reqs, CommunityAskStep(t, j)
      PROVE  doubled \subseteq doubled'
  BY <1>2 DEF CommunityAskStep, AsksVote, AsksMessage, AsksUnlike,
     AddsComment, AsksRoom, AsksPin, AsksDecide, AsksOther, Contends
<1>3. ASSUME NEW t \in Threads, GoStep(t)
      PROVE  doubled \subseteq doubled'
  BY <1>3 DEF GoStep, Judges, Likes, Unlikes, Casts, CommunityWrites, Joins,
     Leaves, Adds, Takes, MakesRoom, Adjusts, Pins, Decides, CommunityFails
<1> QED
  BY <1>1, <1>2, <1>3 DEF CommunityStep

(* Who comes to a place no key watches over has asked for it.              *)
LEMMA Arrivals ==
    ASSUME Y!TypeOK, ReqsOK, CommunityStep, NEW t \in Threads,
           pos'[t] \in Y!Unkeyed,
           ~(pos'[t] = pos[t] /\ Alike(req'[t], req[t]))
    PROVE  \E j \in Reqs : \/ AsksRoom(t, j) /\ pos'[t] = "room"
                           \/ AsksPin(t, j) /\ pos'[t] = "pin"
                           \/ AsksDecide(t, j) /\ pos'[t] = "decide"
<1>1. ASSUME Stays
      PROVE  FALSE
  BY <1>1, AlikeSelf DEF Stays
<1>2. ASSUME NEW v \in Threads, NEW p \in Y!Places, NEW j \in Reqs,
             Turns(v, p, j)
      PROVE  v = t /\ pos'[t] = p
  BY <1>2, TurnFacts
<1>3. ASSUME NEW v \in Threads, GoStep(v)
      PROVE  FALSE
  <2>1. PICK p \in Y!Places, j \in Reqs : Turns(v, p, j)
    BY <1>3, GoTurnsSome
  <2>2. pos'[v] \notin Y!Unkeyed
    BY <1>3, TurnFacts, NoRequestIsReq DEF Y!Unkeyed, GoStep, Judges, Likes,
       Unlikes, Casts, CommunityWrites, Joins, Leaves, MakesRoom, Adjusts,
       Pins, Decides, CommunityFails
  <2> QED
    BY <1>2, <2>1, <2>2
<1>4. ASSUME NEW v \in Threads, NEW j \in Reqs, CommunityAskStep(v, j)
      PROVE  \/ AsksRoom(t, j) /\ pos'[t] = "room"
             \/ AsksPin(t, j) /\ pos'[t] = "pin"
             \/ AsksDecide(t, j) /\ pos'[t] = "decide"
  <2>1. PICK p \in Y!Places : Asks(v, p, j)
    BY <1>4, AskIsAsks
  <2>2. v = t /\ pos'[t] = p
    BY <1>2, <2>1 DEF Asks
  <2>3. \/ AsksRoom(v, j) /\ pos'[v] = "room"
        \/ AsksPin(v, j) /\ pos'[v] = "pin"
        \/ AsksDecide(v, j) /\ pos'[v] = "decide"
        \/ pos'[v] \notin Y!Unkeyed
    BY <1>4, TurnFacts DEF CommunityAskStep, AsksVote, AsksMessage,
       AsksUnlike, AddsComment, AsksRoom, AsksPin, AsksDecide, AsksOther,
       Asks, Y!Unkeyed
  <2> QED
    BY <2>2, <2>3
<1> QED
  BY <1>1, <1>3, <1>4, ItemStays DEF CommunityStep

LEMMA OthersStay ==
    ASSUME Y!TypeOK, CommunityStep, NEW t \in Threads, NEW v \in Threads,
           t # v
    PROVE  \/ pos'[t] = pos[t] /\ Alike(req'[t], req[t])
           \/ pos'[v] = pos[v] /\ Alike(req'[v], req[v])
<1>1. CASE Stays
  BY <1>1, AlikeSelf DEF Stays
<1>2. ASSUME NEW w \in Threads, NEW p \in Y!Places, NEW j \in Reqs,
             Turns(w, p, j)
      PROVE  \A x \in Threads \ {w} : pos'[x] = pos[x] /\ Alike(req'[x], req[x])
  BY <1>2, TurnFacts
<1> QED
  BY <1>1, <1>2, StepTurns

(* One request about i stays one, unless a second is noted.                *)
LEMMA AloneStep ==
    ASSUME Y!TypeOK, ReqsOK, CommunityStep, NEW place \in Y!Unkeyed, NEW i,
           i \notin doubled', Alone(place, i)
    PROVE  Alone(place, i)'
<1>1. ASSUME NEW t \in Threads, NEW v \in Threads, t # v,
             pos'[t] = place, pos'[v] = place,
             req'[t].item = i, req'[v].item = i,
             pos'[v] = pos[v], Alike(req'[v], req[v])
      PROVE  FALSE
  <2>1. pos[v] = place /\ req[v].item = i
    BY <1>1 DEF Alike
  <2>2. CASE pos'[t] = pos[t] /\ Alike(req'[t], req[t])
    BY <1>1, <2>1, <2>2 DEF Alike, Alone
  <2>3. CASE ~(pos'[t] = pos[t] /\ Alike(req'[t], req[t]))
    <3>1. PICK j \in Reqs : \/ AsksRoom(t, j) /\ pos'[t] = "room"
                            \/ AsksPin(t, j) /\ pos'[t] = "pin"
                            \/ AsksDecide(t, j) /\ pos'[t] = "decide"
      BY <1>1, <2>3, Arrivals
    <3>2. req'[t] = j
      BY <3>1, TurnFacts DEF AsksRoom, AsksPin, AsksDecide, Asks
    <3>3. Contends(place, j.item)
      BY <1>1, <3>1 DEF AsksRoom, AsksPin, AsksDecide
    <3> QED
      BY <1>1, <2>1, <3>2, <3>3 DEF Contends
  <2> QED
    BY <2>2, <2>3
<1> SUFFICES ASSUME NEW t \in Threads, NEW v \in Threads, t # v,
                    pos'[t] = place, pos'[v] = place,
                    req'[t].item = i, req'[v].item = i
             PROVE  FALSE
  BY DEF Alone
<1> QED
  BY <1>1, OthersStay

LEMMA RoomsStep ==
    ASSUME CommunityIInv, CommunityStep
    PROVE  RoomsOK'
<1> Y!TypeOK /\ ReqsOK /\ RoomsOK
  BY DEF CommunityIInv
<1> SUFFICES ASSUME NEW k \in DOMAIN RoomIds, k \notin doubled'
             PROVE  /\ Alone("room", k)'
                    /\ \A t \in Threads : pos'[t] = "room" /\ req'[t].item = k =>
                          Y!Existing(k)' = {}
                    /\ \A r, q \in Y!Existing(k)' : r = q
  BY DEF RoomsOK, RoomOK
<1>1. /\ Alone("room", k)
      /\ \A t \in Threads : pos[t] = "room" /\ req[t].item = k => Y!Existing(k) = {}
      /\ \A r, q \in Y!Existing(k) : r = q
  BY ContestedGrows DEF RoomsOK, RoomOK
<1>2. Alone("room", k)'
  BY <1>1, AloneStep DEF Y!Unkeyed
<1>3. ASSUME NEW t \in Threads, pos'[t] = "room", req'[t].item = k
      PROVE  \/ pos[t] = "room" /\ req[t].item = k
             \/ Y!Existing(k) = {} /\ state' = state
  <2>1. CASE pos'[t] = pos[t] /\ Alike(req'[t], req[t])
    BY <1>3, <2>1 DEF Alike
  <2>2. CASE ~(pos'[t] = pos[t] /\ Alike(req'[t], req[t]))
    <3>1. PICK j \in Reqs : AsksRoom(t, j)
      BY <1>3, <2>2, Arrivals DEF Y!Unkeyed
    <3>2. req'[t] = j
      BY <3>1, TurnFacts DEF AsksRoom, Asks
    <3> QED
      BY <1>3, <3>1, <3>2 DEF AsksRoom, Asks
  <2> QED
    BY <2>1, <2>2
<1>4. CASE \A t \in Threads, r \in Y!Rooms : ~MakesRoom(t, r)
  <2>1. Y!Existing(k)' = Y!Existing(k)
    BY <1>4, RoomsChange
  <2> QED
    BY <1>1, <1>2, <1>3, <2>1
<1>5. ASSUME NEW t \in Threads, NEW r \in Y!Rooms, MakesRoom(t, r)
      PROVE  /\ \A v \in Threads : pos'[v] = "room" /\ req'[v].item = k =>
                   Y!Existing(k)' = {}
             /\ \A x, y \in Y!Existing(k)' : x = y
  <2>1. /\ Turns(t, "idle", Y!NoRequest) /\ pos[t] = "room"
        /\ r \in RoomIds[req[t].item] /\ req[t].item \in DOMAIN RoomIds
        /\ state' = [state EXCEPT ![r] = "OPEN"] /\ state[r] = "NONE"
    BY <1>5 DEF MakesRoom, ReqsOK, PlaceOK
  <2>2. \A q \in Y!Rooms : state'[q] = IF q = r THEN "OPEN" ELSE state[q]
    BY <2>1, CommunityKinds DEF Y!TypeOK
  <2>3. \A v \in Threads : pos'[v] = "room" /\ req'[v].item = k =>
           v # t /\ pos[v] = "room" /\ req[v].item = k
    BY <2>1, TurnFacts DEF Alike
  <2>4. CASE req[t].item = k
    <3>1. Y!Existing(k) = {}
      BY <1>1, <2>1, <2>4
    <3>2. Y!Existing(k)' \subseteq {r}
      BY <2>2, <3>1, RoomKinds DEF Y!Existing
    <3>3. \A v \in Threads : ~(pos'[v] = "room" /\ req'[v].item = k)
      BY <1>1, <2>1, <2>3, <2>4 DEF Alone
    <3> QED
      BY <3>2, <3>3
  <2>5. CASE req[t].item # k
    <3>1. r \notin RoomIds[k]
      BY <2>1, <2>5, RoomKinds
    <3>2. Y!Existing(k)' = Y!Existing(k)
      BY <2>2, <3>1, RoomKinds DEF Y!Existing
    <3> QED
      BY <1>1, <2>3, <3>2
  <2> QED
    BY <2>4, <2>5
<1> QED
  BY <1>2, <1>4, <1>5

-----------------------------------------------------------------------------
(* Tickets. *)

LEMMA TicketChanges ==
    ASSUME Y!TypeOK, ReqsOK, timeline \in Timelines, CommunityStep,
           NEW i \in Tickets
    PROVE  \/ state'[i] = state[i] /\ timeline'[i] = timeline[i]
           \/ /\ state[i] = "NONE" /\ state'[i] = "OPEN"
              /\ timeline'[i] = <<"OPEN">>
           \/ \E t \in Threads :
                 /\ pos[t] = "decide" /\ req[t].item = i
                 /\ req[t].outcome \in Y!Outcomes /\ pos'[t] = "idle"
                 /\ state'[i] = req[t].outcome
                 /\ timeline'[i] = Append(timeline[i], req[t].outcome)
<1>1. CASE ItemStep
  <2>1. ASSUME NEW k \in Y!Items,
               MakesPoll(k) \/ Makes(k) \/ Closes(k) \/ Deletes(k)
        PROVE  state'[i] = state[i] /\ timeline'[i] = timeline[i]
    BY <2>1, CommunityKinds DEF MakesPoll, Makes, Closes, Deletes, Y!TypeOK
  <2>2. ASSUME NEW k \in Y!Items, MakesTicket(k)
        PROVE  \/ state'[i] = state[i] /\ timeline'[i] = timeline[i]
               \/ /\ state[i] = "NONE" /\ state'[i] = "OPEN"
                  /\ timeline'[i] = <<"OPEN">>
    BY <2>2, CommunityKinds DEF MakesTicket, Y!TypeOK, Timelines
  <2> QED
    BY <1>1, <2>1, <2>2 DEF ItemStep, Clears
<1>2. ASSUME NEW t \in Threads, NEW j \in Reqs, CommunityAskStep(t, j)
      PROVE  state' = state /\ timeline' = timeline
  BY <1>2, AskIsAsks DEF Asks
<1>3. ASSUME NEW t \in Threads, GoStep(t), ~Decides(t)
      PROVE  state'[i] = state[i] /\ timeline'[i] = timeline[i]
  <2>1. CASE state' = state /\ timeline' = timeline
    BY <2>1
  <2>2. ASSUME NEW r \in Y!Rooms, MakesRoom(t, r)
        PROVE  state'[i] = state[i] /\ timeline'[i] = timeline[i]
    BY <2>2, CommunityKinds DEF MakesRoom, Y!TypeOK
  <2> QED
    BY <1>3, <2>1, <2>2 DEF GoStep, Judges, Likes, Unlikes, Casts,
       CommunityWrites, Joins, Leaves, Adds, Takes, Adjusts, Pins,
       CommunityFails
<1>4. ASSUME NEW t \in Threads, Decides(t)
      PROVE  \/ state'[i] = state[i] /\ timeline'[i] = timeline[i]
             \/ /\ pos[t] = "decide" /\ req[t].item = i
                /\ req[t].outcome \in Y!Outcomes /\ pos'[t] = "idle"
                /\ state'[i] = req[t].outcome
                /\ timeline'[i] = Append(timeline[i], req[t].outcome)
  <2>1. /\ pos[t] = "decide" /\ req[t].outcome \in Y!Outcomes
        /\ Turns(t, "idle", Y!NoRequest)
    BY <1>4 DEF Decides, ReqsOK, PlaceOK
  <2>2. pos'[t] = "idle"
    BY <2>1, TurnFacts
  <2>3. /\ state' = [state EXCEPT ![req[t].item] = req[t].outcome]
        /\ timeline' = [timeline EXCEPT
                          ![req[t].item] = Append(timeline[req[t].item],
                                                  req[t].outcome)]
    BY <1>4 DEF Decides
  <2>4. i \in DOMAIN state /\ i \in DOMAIN timeline
    BY CommunityKinds DEF Y!TypeOK, Timelines
  <2>5. CASE req[t].item = i
    BY <2>1, <2>2, <2>3, <2>4, <2>5
  <2>6. CASE req[t].item # i
    BY <2>3, <2>4, <2>6
  <2> QED
    BY <2>5, <2>6
<1> QED
  BY <1>1, <1>2, <1>3, <1>4 DEF CommunityStep

LEMMA AppendFacts ==
    ASSUME NEW S, NEW s \in Seq(S), NEW e \in S
    PROVE  /\ Append(s, e) # <<>> /\ Y!Last(Append(s, e)) = e
           /\ Len(Append(s, e)) = Len(s) + 1
  BY DEF Y!Last

LEMMA FirstFacts ==
    /\ <<"OPEN">> # <<>> /\ Y!Last(<<"OPEN">>) = "OPEN" /\ Len(<<"OPEN">>) = 1
  BY DEF Y!Last

LEMMA TicketsStep ==
    ASSUME CommunityIInv, CommunityStep
    PROVE  TicketsOK'
<1> Y!TypeOK /\ ReqsOK /\ timeline \in Timelines /\ \A i \in Tickets : TicketOK(i)
  BY DEF CommunityIInv, TicketsOK
<1>1. timeline' \in Timelines
  BY CommunityTypeStep
<1>2. ASSUME NEW i \in Tickets, NEW t \in Threads,
             pos'[t] = "decide", req'[t].item = i
      PROVE  \/ pos[t] = "decide" /\ req[t].item = i
             \/ /\ state[i] = "OPEN" /\ state' = state
  <2>1. CASE pos'[t] = pos[t] /\ Alike(req'[t], req[t])
    BY <1>2, <2>1 DEF Alike
  <2>2. CASE ~(pos'[t] = pos[t] /\ Alike(req'[t], req[t]))
    <3>1. PICK j \in Reqs : AsksDecide(t, j)
      BY <1>2, <2>2, Arrivals DEF Y!Unkeyed
    <3>2. req'[t] = j
      BY <3>1, TurnFacts DEF AsksDecide, Asks
    <3> QED
      BY <1>2, <3>1, <3>2 DEF AsksDecide, Asks
  <2> QED
    BY <2>1, <2>2
<1>3. ASSUME NEW i \in Tickets
      PROVE  TicketOK(i)'
  <2>1. /\ \A t \in Threads :
              pos[t] = "decide" /\ req[t].item = i => state[i] # "NONE"
        /\ state[i] # "NONE" => timeline[i] # <<>> /\ Y!Last(timeline[i]) = state[i]
    BY DEF TicketOK
  <2>2. /\ \A t \in Threads :
              pos'[t] = "decide" /\ req'[t].item = i => state'[i] # "NONE"
        /\ state'[i] # "NONE" =>
              timeline'[i] # <<>> /\ Y!Last(timeline'[i]) = state'[i]
    <3>1. CASE state'[i] = state[i] /\ timeline'[i] = timeline[i]
      BY <1>2, <2>1, <3>1
    <3>2. CASE state'[i] = "OPEN" /\ timeline'[i] = <<"OPEN">>
      BY <3>2, FirstFacts
    <3>3. ASSUME NEW t \in Threads, req[t].outcome \in Y!Outcomes,
                 state'[i] = req[t].outcome,
                 timeline'[i] = Append(timeline[i], req[t].outcome)
          PROVE  /\ state'[i] # "NONE" /\ timeline'[i] # <<>>
                 /\ Y!Last(timeline'[i]) = state'[i]
      <4>1. timeline[i] \in Seq(Y!Outcomes \cup {"OPEN"})
        BY DEF Timelines
      <4> QED
        BY <3>3, <4>1, AppendFacts DEF Y!Outcomes
    <3> QED
      BY <3>1, <3>2, <3>3, TicketChanges
  <2>3. ASSUME i \notin doubled'
        PROVE  /\ Alone("decide", i)'
               /\ \A t \in Threads :
                     pos'[t] = "decide" /\ req'[t].item = i => state'[i] = "OPEN"
               /\ state'[i] = "OPEN" => Len(timeline'[i]) = 1
               /\ state'[i] # "NONE" => Len(timeline'[i]) <= 2
    <3>1. /\ Alone("decide", i)
          /\ \A t \in Threads :
                pos[t] = "decide" /\ req[t].item = i => state[i] = "OPEN"
          /\ state[i] = "OPEN" => Len(timeline[i]) = 1
          /\ state[i] # "NONE" => Len(timeline[i]) <= 2
      BY <2>3, ContestedGrows DEF TicketOK
    <3>2. Alone("decide", i)'
      BY <2>3, <3>1, AloneStep DEF Y!Unkeyed
    <3>3. CASE state'[i] = state[i] /\ timeline'[i] = timeline[i]
      BY <1>2, <3>1, <3>2, <3>3
    <3>4. CASE state'[i] = "OPEN" /\ timeline'[i] = <<"OPEN">>
      BY <3>2, <3>4, FirstFacts
    <3>5. ASSUME NEW t \in Threads, pos[t] = "decide", req[t].item = i,
                 req[t].outcome \in Y!Outcomes, pos'[t] = "idle",
                 state'[i] = req[t].outcome,
                 timeline'[i] = Append(timeline[i], req[t].outcome)
          PROVE  /\ \A v \in Threads : ~(pos'[v] = "decide" /\ req'[v].item = i)
                 /\ state'[i] # "OPEN" /\ Len(timeline'[i]) <= 2
      <4>1. state[i] = "OPEN" /\ state'[i] # state[i] /\ state'[i] # "OPEN"
        BY <3>1, <3>5 DEF Y!Outcomes
      <4>2. \A v \in Threads : ~(pos'[v] = "decide" /\ req'[v].item = i)
        BY <1>2, <3>1, <3>5, <4>1 DEF Alone
      <4>3. timeline[i] \in Seq(Y!Outcomes \cup {"OPEN"})
        BY DEF Timelines
      <4>4. Len(timeline'[i]) = Len(timeline[i]) + 1
        BY <3>5, <4>3, AppendFacts
      <4>5. Len(timeline[i]) = 1
        BY <3>1, <4>1
      <4>6. Len(timeline'[i]) = 1 + 1
        BY <4>4, <4>5
      <4>7. \A n : n = 1 + 1 => n <= 2
        OBVIOUS
      <4>8. Len(timeline'[i]) <= 2
        BY <4>6, <4>7
      <4> QED
        BY <4>1, <4>2, <4>8
    <3> QED
      BY <3>2, <3>3, <3>4, <3>5, TicketChanges
  <2> QED
    BY <2>2, <2>3 DEF TicketOK
<1> QED
  BY <1>1, <1>3 DEF TicketsOK

-----------------------------------------------------------------------------
(* Pins. *)

LEMMA PinsChange ==
    ASSUME Y!TypeOK, ReqsOK, CommunityStep,
           \A t \in Threads : ~Pins(t)
    PROVE  \/ pinned' = pinned /\ flips' = flips
           \/ \E i \in Posts : Makes(i) /\ pinned' = pinned \cup {i}
                             /\ flips' = flips \cup {i}
<1>1. CASE ItemStep
  BY <1>1 DEF ItemStep, MakesPoll, Makes, MakesTicket, Closes, Deletes, Clears
<1>2. ASSUME NEW t \in Threads, NEW j \in Reqs, CommunityAskStep(t, j)
      PROVE  pinned' = pinned /\ flips' = flips
  BY <1>2, AskIsAsks DEF Asks
<1>3. ASSUME NEW t \in Threads, GoStep(t)
      PROVE  pinned' = pinned /\ flips' = flips
  BY <1>3 DEF GoStep, Judges, Likes, Unlikes, Casts, CommunityWrites, Joins,
     Leaves, Adds, Takes, MakesRoom, Adjusts, Decides, CommunityFails
<1> QED
  BY <1>1, <1>2, <1>3 DEF CommunityStep

LEMMA PinsStep ==
    ASSUME CommunityIInv, CommunityStep
    PROVE  PinsOK'
<1> Y!TypeOK /\ ReqsOK /\ PinsOK
  BY DEF CommunityIInv
<1>0. ASSUME NEW a \in Posts, NEW t \in Threads,
             pos'[t] = "pin", req'[t].item = a
      PROVE  state'[a] # "NONE"
  <2>1. state[a] # "NONE"
    <3>1. CASE pos'[t] = pos[t] /\ Alike(req'[t], req[t])
      BY <1>0, <3>1 DEF Alike, PinsOK, PinOK
    <3>2. CASE ~(pos'[t] = pos[t] /\ Alike(req'[t], req[t]))
      <4>1. PICK j \in Reqs : AsksPin(t, j)
        BY <1>0, <3>2, Arrivals DEF Y!Unkeyed
      <4>2. req'[t] = j
        BY <4>1, TurnFacts DEF AsksPin, Asks
      <4> QED
        BY <1>0, <4>1, <4>2 DEF AsksPin
    <3> QED
      BY <3>1, <3>2
  <2> QED
    BY <2>1, StateChanges, CommunityKinds DEF Y!Outcomes
<1> SUFFICES ASSUME NEW a \in Posts, a \notin doubled'
             PROVE  /\ Alone("pin", a)'
                    /\ \A t \in Threads : pos'[t] = "pin" /\ req'[t].item = a =>
                          (req'[t].value <=> a \notin pinned')
                    /\ a \in pinned' <=> a \in flips'
  BY <1>0 DEF PinsOK, PinOK
<1>1. /\ Alone("pin", a)
      /\ \A t \in Threads : pos[t] = "pin" /\ req[t].item = a =>
            state[a] # "NONE" /\ (req[t].value <=> a \notin pinned)
      /\ a \in pinned <=> a \in flips
  BY ContestedGrows DEF PinsOK, PinOK
<1>2. Alone("pin", a)'
  BY <1>1, AloneStep DEF Y!Unkeyed
<1>3. ASSUME NEW t \in Threads, pos'[t] = "pin", req'[t].item = a
      PROVE  \/ /\ pos[t] = "pin" /\ req[t].item = a
                /\ req'[t].value = req[t].value
             \/ (req'[t].value <=> a \notin pinned) /\ pinned' = pinned
  <2>1. CASE pos'[t] = pos[t] /\ Alike(req'[t], req[t])
    BY <1>3, <2>1 DEF Alike
  <2>2. CASE ~(pos'[t] = pos[t] /\ Alike(req'[t], req[t]))
    <3>1. PICK j \in Reqs : AsksPin(t, j)
      BY <1>3, <2>2, Arrivals DEF Y!Unkeyed
    <3>2. req'[t] = j
      BY <3>1, TurnFacts DEF AsksPin, Asks
    <3> QED
      BY <1>3, <3>1, <3>2 DEF AsksPin, Asks
  <2> QED
    BY <2>1, <2>2
<1>4. CASE pinned' = pinned /\ flips' = flips
  BY <1>1, <1>2, <1>3, <1>4
<1>6. ASSUME NEW i \in Posts, Makes(i), pinned' = pinned \cup {i},
             flips' = flips \cup {i}
      PROVE  /\ \A t \in Threads : pos'[t] = "pin" /\ req'[t].item = a =>
                   (req'[t].value <=> a \notin pinned')
             /\ a \in pinned' <=> a \in flips'
  <2>1. pos' = pos /\ req' = req /\ state[i] = "NONE"
    BY <1>6 DEF Makes, Stays
  <2>2. CASE a = i
    BY <1>1, <1>6, <2>1, <2>2
  <2>3. CASE a # i
    BY <1>1, <1>6, <2>1, <2>3
  <2> QED
    BY <2>2, <2>3
<1>5. ASSUME NEW t \in Threads, Pins(t)
      PROVE  /\ \A v \in Threads : pos'[v] = "pin" /\ req'[v].item = a =>
                   (req'[v].value <=> a \notin pinned')
             /\ a \in pinned' <=> a \in flips'
  <2>1. pos[t] = "pin" /\ Turns(t, "idle", Y!NoRequest)
    BY <1>5 DEF Pins
  <2>2. /\ a \in pinned' <=> IF a = req[t].item THEN req[t].value
                                                ELSE a \in pinned
        /\ a \in flips' <=> IF a = req[t].item THEN a \notin flips
                                               ELSE a \in flips
    BY <1>5 DEF Pins
  <2>3. ASSUME NEW v \in Threads, pos'[v] = "pin", req'[v].item = a
        PROVE  /\ v # t /\ pos[v] = "pin" /\ req[v].item = a
               /\ req'[v].value = req[v].value
    BY <2>1, <2>3, TurnFacts DEF Alike
  <2>4. CASE req[t].item = a
    <3>1. \A v \in Threads : ~(pos'[v] = "pin" /\ req'[v].item = a)
      BY <1>1, <2>1, <2>3, <2>4 DEF Alone
    <3>2. req[t].value <=> a \notin pinned
      BY <1>1, <2>1, <2>4
    <3> QED
      BY <1>1, <2>2, <2>4, <3>1, <3>2
  <2>5. CASE req[t].item # a
    <3>1. (a \in pinned' <=> a \in pinned) /\ (a \in flips' <=> a \in flips)
      BY <2>2, <2>5
    <3> QED
      BY <1>1, <2>3, <3>1
  <2> QED
    BY <2>4, <2>5
<1> QED
  BY <1>2, <1>4, <1>5, <1>6, PinsChange

-----------------------------------------------------------------------------
(* The invariant is inductive. *)

LEMMA CommunityInitIInv ==
    ASSUME Y!Init
    PROVE  CommunityIInv
<1>1. Y!TypeOK
  BY NoRequestIsReq DEF Y!Init, Y!TypeOK, Y!States, Y!Places, Y!NoRequest
<1>2. ReqsOK /\ \A t \in Threads : pos[t] = "idle"
  BY NoRequestIsReq DEF Y!Init, ReqsOK
<1>3. EntriesOK /\ HeldOK
  BY <1>2 DEF EntriesOK, EntryOK, HeldOK
<1>4. CountsOK
  <2>1. ASSUME NEW a \in Posts, NEW f
        PROVE  Y!Owed(a, f) = 0
    <3>1. Owing(a, f) = {}
      BY <1>2 DEF Owing
    <3>2. Debt(req, {}) = 0
      BY DebtIsSum, SumEmpty
    <3> QED
      BY <3>1, <3>2, OwedIs
  <2>2. ASSUME NEW a \in Posts
        PROVE  IsFiniteSet(rowsOf[a]) /\ CommunityCountOK(a)
    <3>1. /\ rowsOf[a] = {} /\ comments[a] = 0
          /\ count[a].likes = 0 /\ count[a].comments = 0
      BY CommunityKinds DEF Y!Init
    <3>2. IsFiniteSet(rowsOf[a]) /\ Cardinality(rowsOf[a]) = 0
      BY <3>1, FS_EmptySet
    <3> QED
      BY <2>1, <3>1, <3>2 DEF CommunityCountOK
  <2> QED
    BY <2>2 DEF CountsOK
<1>5. RoomsOK
  <2>1. ASSUME NEW k \in DOMAIN RoomIds, NEW r \in Y!Existing(k),
               NEW q \in Y!Existing(k)
        PROVE  r = q
    <3>1. /\ r \in Y!Rooms
          /\ q \in Y!Rooms
          /\ r \in RoomIds[k]
          /\ q \in RoomIds[k]
          /\ state[r] # "NONE" /\ state[q] # "NONE"
      BY RoomKinds DEF Y!Existing
    <3>2. /\ "INCIDENT" \in DOMAIN RoomIds
          /\ r \in RoomIds["INCIDENT"] /\ q \in RoomIds["INCIDENT"]
      BY <3>1, CommunityKinds DEF Y!Init
    <3> QED
      BY <3>2
  <2> QED
    BY <1>2, <2>1 DEF RoomsOK, RoomOK, Alone
<1>6. TicketsOK
  <2>1. timeline \in Timelines
    BY DEF Y!Init, Timelines
  <2>2. ASSUME NEW i \in Tickets
        PROVE  state[i] = "NONE"
    <3>1. ~("INCIDENT" \in DOMAIN RoomIds /\ i \in RoomIds["INCIDENT"])
      BY RoomKinds, CommunityKinds
    <3> QED
      BY <3>1, CommunityKinds DEF Y!Init
  <2> QED
    BY <1>2, <2>1, <2>2 DEF TicketsOK, TicketOK, Alone
<1>7. PinsOK
  BY <1>2 DEF Y!Init, PinsOK, PinOK, Alone
<1> QED
  BY <1>1, <1>2, <1>3, <1>4, <1>5, <1>6, <1>7 DEF CommunityIInv

LEMMA StutterIInv ==
    ASSUME CommunityIInv, UNCHANGED Y!vars
    PROVE  CommunityIInv'
<1>1. /\ UNCHANGED <<area, state, rowsOf, restricted, cleared, comments, count>>
      /\ UNCHANGED <<pinned, timeline, pos, req, granted, lapsed, doubled>>
      /\ UNCHANGED <<torn, flips>>
  BY DEF Y!vars, Y!content, Y!history
<1>2. Y!TypeOK' /\ ReqsOK'
  BY <1>1 DEF CommunityIInv, Y!TypeOK, ReqsOK
<1>3. EntriesOK' /\ HeldOK'
  BY <1>1 DEF CommunityIInv, EntriesOK, EntryOK, HeldOK
<1>4. CountsOK'
  <2>1. ASSUME NEW a \in Posts
        PROVE  CommunityCountOK(a)'
    <3>1. \A f \in {"likes", "comments"} : Y!Owed(a, f)' = Y!Owed(a, f)
      BY <1>1, OwedStays DEF CommunityIInv, Stays
    <3> QED
      BY <1>1, <3>1, CountKept DEF CommunityIInv, CountsOK
  <2> QED
    BY <1>1, <2>1 DEF CommunityIInv, CountsOK
<1>5. RoomsOK' /\ PinsOK'
  BY <1>1 DEF CommunityIInv, RoomsOK, RoomOK, PinsOK, PinOK, Alone, Y!Existing
<1>6. TicketsOK'
  BY <1>1 DEF CommunityIInv, TicketsOK, TicketOK, Alone
<1> QED
  BY <1>2, <1>3, <1>4, <1>5, <1>6 DEF CommunityIInv

LEMMA CommunityStepIInv ==
    ASSUME CommunityIInv, [Y!Next]_(Y!vars)
    PROVE  CommunityIInv'
<1>1. CASE Y!Next
  <2>1. CommunityStep
    BY <1>1, CommunityStepIs DEF CommunityIInv
  <2> QED
    BY <2>1, CommunityTypeStep, EntriesStep, HeldStep, CountsStep, RoomsStep,
       TicketsStep, PinsStep DEF CommunityIInv
<1> QED
  BY <1>1, StutterIInv

(* What the invariant says of counts, rooms, tickets and pins; and what a  *)
(* step says of entries.                                                   *)
LEMMA RecordsFollow ==
    ASSUME CommunityIInv
    PROVE  Y!CountsAreTrue /\ Y!NothingTwice
<1>1. Y!CountsAreTrue
  BY DEF CommunityIInv, CountsOK, CommunityCountOK, Y!CountsAreTrue,
     Y!Cardinality, Cardinality
<1>2. ASSUME NEW k \in DOMAIN RoomIds \ doubled
      PROVE  Cardinality(Y!Existing(k)) <= 1
  <2>1. \A r, q \in Y!Existing(k) : r = q
    BY DEF CommunityIInv, RoomsOK, RoomOK
  <2>2. CASE Y!Existing(k) = {}
    BY <2>2, FS_EmptySet
  <2>3. ASSUME NEW r \in Y!Existing(k)
        PROVE  Cardinality(Y!Existing(k)) <= 1
    <3>1. Y!Existing(k) = {r}
      BY <2>1, <2>3
    <3>2. Cardinality({r}) = 1
      BY FS_Singleton
    <3>3. Cardinality(Y!Existing(k)) = 1
      BY <3>1, <3>2
    <3> QED
      BY <3>3
  <2> QED
    BY <2>2, <2>3
<1>3. \A i \in Tickets : state[i] # "NONE" =>
         /\ Y!Last(timeline[i]) = state[i]
         /\ i \notin doubled => Len(timeline[i]) <= 2
  BY DEF CommunityIInv, TicketsOK, TicketOK
<1>4. \A a \in Posts \ doubled : a \in pinned <=> a \in flips
  BY DEF CommunityIInv, PinsOK, PinOK
<1> QED
  BY <1>1, <1>2, <1>3, <1>4 DEF Y!NothingTwice, Y!Cardinality, Cardinality

LEMMA StepAllows ==
    ASSUME CommunityIInv, [Y!Next]_(Y!vars)
    PROVE  Y!EntriesAllowed
<1>1. CASE Y!Next
  BY <1>1, CommunityStepIs, EntriesAllowedStep DEF CommunityIInv
<1>2. CASE UNCHANGED Y!vars
  <2>1. rowsOf' = rowsOf
    BY <1>2 DEF Y!vars, Y!content
  <2> QED
    BY <2>1 DEF Y!EntriesAllowed
<1> QED
  BY <1>1, <1>2

HIDE CredentialsAssumption
HIDE CommunityAssumption

-----------------------------------------------------------------------------
(* Membership: the inductive invariant. *)

(* A request is on its way to an activation, to an approval, or to a        *)
(* profile that is to be written.                                          *)
Activating(p, j) ==
    \/ p = "activate"
    \/ p = "draw" /\ j.then = "activate"
    \/ p = "judge" /\ j.then # "profile"
Approving(p, j)  == p = "approve" \/ (p = "draw" /\ j.then = "approve")
Completing(p, j) ==
    p \in {"validate", "profile"} \/ (p = "judge" /\ j.then = "profile")

(* What a position says about the job: whose rows it may be about, and     *)
(* that these exist.                                                       *)
PersonOK(p, j) ==
    /\ p \in {"create", "onboard", "commitOnboard", "reject", "judge",
              "validate", "profile"} => j.who \in Residents
    /\ p \in {"staff", "selfStaff", "promote"} => j.who \in Guards
    /\ p \in {"invite", "edit", "remove", "refuse"} => j.who \in Associates
    /\ p \in {"ensure", "store", "draw"} => j.who \in Residents \cup Associates
    /\ p = "draw" => j.then \in {"activate", "approve", "store"}
    /\ p = "judge" => j.then \in {"activate", "draw", "profile"}
    /\ p = "validate" => j.then = "profile"
    /\ Activating(p, j) => j.who \in Residents \cup Guards /\ j.sent = None
    /\ Approving(p, j) => j.who \in Associates
    /\ p = "mail" => j.who \in People
    /\ p \in {"reject", "mail"} \/ Activating(p, j) => status[j.who] # "NONE"
    /\ \/ p \in {"create", "onboard", "commitOnboard", "staff", "selfStaff",
                 "admin", "invite", "edit"}
       \/ Approving(p, j)
       => j.email \in Emails
    /\ p = "promote" => j.given \in BOOLEAN
    /\ Completing(p, j) /\ j.agreed => j.given = TRUE
    /\ j.agreed => j.typed \/ p \in {"validate", "judge"}
    /\ j.sent # None => j.who \in Residents

PersonsOK == \A t \in Threads : PersonOK(pc[t], job[t])

(* A person of whom no two requests were under way at a time ...           *)
PersonsApart == \A t, u \in Threads :
    t # u /\ job[t].who = job[u].who => job[t].who \in overlapped \cup {None}

(* ... is as the request has read.                                         *)
VerdictOK(p, j) ==
    /\ j.agreed => j.who \in agreed \/ Completing(p, j)
    /\ p = "edit" => (j.linked <=> login[j.who] # None)
    /\ Approving(p, j) => status[j.who] = "PENDING" /\ j.email = mail[j.who]
    /\ p = "refuse" => status[j.who] = "PENDING"
    /\ p = "reject" \/ (Activating(p, j) /\ j.who \in Residents /\ j.nin = None)
       => status[j.who] \notin {"ACTIVE", "REJECTED"}
    /\ p = "commitOnboard" => status[j.who] = "NONE"

VerdictsOK == \A t \in Threads :
    job[t].who \notin overlapped => VerdictOK(pc[t], job[t])

(* A co-resident's row has an email while there is one, and no guard is    *)
(* rejected.                                                               *)
KindsOK ==
    /\ \A a \in Associates : mail[a] = None <=> status[a] \in {"NONE", "REMOVED"}
    /\ \A g \in Guards : status[g] \in {"NONE", "PENDING", "ACTIVE"}

(* An onboarding that has inserted its login keeps the email to itself.    *)
LocksOK == \A t \in Threads : pc[t] = "commitOnboard" =>
    /\ job[t].email \notin Accounts
    /\ \A u \in Threads \ {t} :
          pc[u] = "commitOnboard" => job[u].email # job[t].email

(* A NIN that is being verified is nobody else's, nor verified by another  *)
(* request, unless it was contested.                                       *)
NinsOK == \A t \in Threads : job[t].nin # None /\ job[t].nin \notin contested =>
    /\ ~NinTaken(job[t].who, job[t].nin)
    /\ \A u \in Threads \ {t} : job[u].nin # job[t].nin

(* Who a request takes to have an apartment type, though the estate asks   *)
(* for one and there is none, has lost it or was never asked for it; a     *)
(* type that the request writes itself is another matter.                  *)
TrustsOK == \A t \in Threads :
    job[t].typed /\ job[t].sent # TRUE /\ job[t].who \in Lacking
    => job[t].who \in undone

MemberIInv ==
    /\ TypeOK /\ PersonsOK /\ PersonsApart /\ VerdictsOK /\ KindsOK
    /\ LocksOK /\ NinsOK /\ TrustsOK
    /\ LoginsAgree /\ CodesAreValid /\ ProfilesAreTrue

USE PeopleAssumption
USE NoneAssumption

-----------------------------------------------------------------------------
(* What the proofs know of a step: the job it leaves as a value that has    *)
(* certain fields.                                                         *)

(* A request begins, judged by the rows as they are.                       *)
MemberAsks(t, p, j) ==
    /\ j \in Jobs /\ p \in Positions \ {"idle", "commitOnboard"}
    /\ Start(t, p, j)
    /\ PersonOK(p, j) /\ VerdictOK(p, j)
    /\ j.nin # None => ~NinTaken(j.who, j.nin)
    /\ j.typed /\ j.sent # TRUE => j.who \in typed
    /\ UNCHANGED <<scope, rows, estate, ranks, shown, told, cut>>

(* A request goes on about the same person.                                *)
MemberMoves(t, p, j) ==
    /\ j \in Jobs /\ p \in Positions /\ p # pc[t]
    /\ j.who = job[t].who /\ j.email = job[t].email
    /\ j.nin = job[t].nin /\ j.sent = job[t].sent
    /\ j.typed /\ asked => job[t].typed
    /\ GoTo(t, p, j)

Enrolls(t) == pc[t] \in {"create", "staff", "selfStaff"} /\ CreateMember(t)

Draws(t) == \E kind \in {Residents, Associates}, c \in Codes : Draw(t, kind, c)

(* The steps that write status, row or login of the person they are about. *)
RowStep(t) ==
    \/ Enrolls(t) \/ CommitOnboard(t) \/ Reject(t)
    \/ ActivateResident(t) \/ StoreIdentity(t) \/ ActivateGuard(t)
    \/ Invite(t) \/ Edit(t) \/ Remove(t)
    \/ ApproveAssociate(t) \/ RefuseAssociate(t)

(* The steps that write what else there is about them.                     *)
SideStep(t) ==
    \/ MailPassword(t) \/ MailOnboarding(t) \/ CreateAdmin(t)
    \/ Draws(t) \/ ShowCode(t) \/ MissCode(t) \/ StoreDrawnCode(t)
    \/ Judge(t) \/ ValidateType(t) \/ CompleteProfile(t) \/ Fail(t)

(* The steps that may change who has an apartment type.                    *)
Supplies(t) == Enrolls(t) \/ CommitOnboard(t) \/ CompleteProfile(t)

Supplied ==
    \E now \in BOOLEAN, holders \in SUBSET Residents : Furnish(now, holders)

HandStep ==
    \/ /\ Supplied
       /\ UNCHANGED <<scope, rows, ranks, request, shown, told, overlapped,
                      contested, cut>>
    \/ \E g \in Guards, e \in Emails, super \in BOOLEAN :
          UpdateGuard(g, e, super) /\ UNCHANGED estate

MemberStep ==
    \/ \E t \in Threads, p \in Positions, j \in Jobs : MemberAsks(t, p, j)
    \/ \E t \in Threads : /\ RowStep(t) \/ SideStep(t)
                          /\ Supplies(t) \/ UNCHANGED estate
                          /\ UNCHANGED ranks
    \/ \E t \in Threads : Promote(t) /\ UNCHANGED estate
    \/ HandStep

LEMMA NoJobIs ==
    /\ NoJob \in Jobs
    /\ NoJob.who = None /\ NoJob.email = None /\ NoJob.linked = FALSE
    /\ NoJob.nin = None /\ NoJob.code = None /\ NoJob.agreed = FALSE
    /\ NoJob.given = None /\ NoJob.then = "idle"
    /\ NoJob.typed = FALSE /\ NoJob.sent = None
    /\ PersonOK("idle", NoJob) /\ VerdictOK("idle", NoJob)
  BY  DEF NoJob, Jobs, Positions, PersonOK, VerdictOK, Activating, Approving,
     Completing

(* A request for a person and an email.                                    *)
LEMMA EnrolmentIs ==
    ASSUME NEW t \in Threads,
           NEW p \in {"staff", "selfStaff", "invite"},
           NEW w \in People, NEW e \in Emails,
           Start(t, p, [NoJob EXCEPT !.who = w, !.email = e]),
           UNCHANGED <<scope, rows, shown, told, cut>>,
           UNCHANGED <<estate, ranks>>,
           p \in {"staff", "selfStaff"} => w \in Guards,
           p = "invite" => w \in Associates
    PROVE  \E q \in Positions, j \in Jobs : MemberAsks(t, q, j)
<1> DEFINE j == [NoJob EXCEPT !.who = w, !.email = e]
<1>1. /\ j \in Jobs /\ j.who = w /\ j.email = e
      /\ j.nin = None /\ j.agreed = FALSE /\ j.typed = FALSE /\ j.sent = None
  BY NoJobIs DEF Jobs
<1>2. Start(t, p, j)
  OBVIOUS
<1> HIDE DEF j
<1>3. PersonOK(p, j) /\ VerdictOK(p, j)
  BY <1>1 DEF PersonOK, VerdictOK, Activating, Approving, Completing
<1>4. p \in Positions \ {"idle", "commitOnboard"}
  BY DEF Positions
<1>5. MemberAsks(t, p, j)
  BY <1>1, <1>2, <1>3, <1>4 DEF MemberAsks
<1> QED
  BY <1>1, <1>4, <1>5

LEMMA RegistrationOf ==
    ASSUME NEW t \in Threads, NEW p \in {"create", "onboard"},
           NEW r \in Residents, NEW e \in Emails, NEW s \in BOOLEAN \cup {None},
           Start(t, p, [NoJob EXCEPT !.who = r, !.email = e, !.sent = s]),
           UNCHANGED <<scope, rows, shown, told, cut>>,
           UNCHANGED <<estate, ranks>>
    PROVE  \E q \in Positions, j \in Jobs : MemberAsks(t, q, j)
<1> DEFINE j == [NoJob EXCEPT !.who = r, !.email = e, !.sent = s]
<1>1. /\ j \in Jobs /\ j.who = r /\ j.email = e
      /\ j.nin = None /\ j.agreed = FALSE /\ j.typed = FALSE
  BY NoJobIs DEF Jobs, People
<1>2. Start(t, p, j)
  OBVIOUS
<1> HIDE DEF j
<1>3. PersonOK(p, j) /\ VerdictOK(p, j)
  BY <1>1 DEF PersonOK, VerdictOK, Activating, Approving, Completing
<1>4. p \in Positions \ {"idle", "commitOnboard"}
  BY DEF Positions
<1>5. MemberAsks(t, p, j)
  BY <1>1, <1>2, <1>3, <1>4 DEF MemberAsks
<1> QED
  BY <1>1, <1>4, <1>5

(* A request for a person.                                                 *)
LEMMA VisitIs ==
    ASSUME NEW t \in Threads, NEW p \in {"reject", "ensure", "remove", "refuse"},
           NEW w \in Residents \cup Associates,
           Start(t, p, [NoJob EXCEPT !.who = w]),
           UNCHANGED <<scope, rows, shown, told, cut>>,
           UNCHANGED <<estate, ranks>>,
           p = "reject" => w \in Residents
               /\ status[w] \notin {"NONE", "ACTIVE", "REJECTED"},
           p \in {"remove", "refuse"} => w \in Associates,
           p = "refuse" => status[w] = "PENDING"
    PROVE  \E q \in Positions, j \in Jobs : MemberAsks(t, q, j)
<1> DEFINE j == [NoJob EXCEPT !.who = w]
<1>1. /\ j \in Jobs /\ j.who = w /\ j.nin = None
      /\ j.agreed = FALSE /\ j.typed = FALSE /\ j.sent = None
  BY NoJobIs DEF Jobs, People
<1>2. Start(t, p, j)
  OBVIOUS
<1> HIDE DEF j
<1>3. PersonOK(p, j) /\ VerdictOK(p, j)
  BY <1>1 DEF PersonOK, VerdictOK, Activating, Approving, Completing
<1>4. p \in Positions \ {"idle", "commitOnboard"}
  BY DEF Positions
<1>5. MemberAsks(t, p, j)
  BY <1>1, <1>2, <1>3, <1>4 DEF MemberAsks
<1> QED
  BY <1>1, <1>4, <1>5

LEMMA BeginCreateAdminIs ==
    ASSUME NEW t \in Threads, NEW e \in Emails, BeginCreateAdmin(t, e),
           UNCHANGED <<estate, ranks>>
    PROVE  \E q \in Positions, j \in Jobs : MemberAsks(t, q, j)
<1> DEFINE j == [NoJob EXCEPT !.email = e]
<1>1. /\ j \in Jobs /\ j.email = e /\ j.nin = None
      /\ j.agreed = FALSE /\ j.typed = FALSE /\ j.sent = None
  BY NoJobIs DEF Jobs
<1>2. Start(t, "admin", j)
  BY DEF BeginCreateAdmin
<1> HIDE DEF j
<1>3. PersonOK("admin", j) /\ VerdictOK("admin", j)
  BY <1>1 DEF PersonOK, VerdictOK, Activating, Approving, Completing
<1>4. "admin" \in Positions \ {"idle", "commitOnboard"}
  BY DEF Positions
<1>5. MemberAsks(t, "admin", j)
  BY <1>1, <1>2, <1>3, <1>4 DEF MemberAsks, BeginCreateAdmin
<1> QED
  BY <1>1, <1>4, <1>5

(* A review or a check of a NIN, begun for a person there is.              *)
LEMMA ActivationIs ==
    ASSUME NEW t \in Threads, NEW p \in {"judge", "activate"},
           NEW j \in Jobs, Start(t, p, j), j.who \in Residents \cup Guards,
           UNCHANGED <<scope, rows, shown, told, cut>>,
           UNCHANGED <<estate, ranks>>,
           status[j.who] # "NONE", j.sent = None,
           p = "judge" => /\ j.who \in Residents
                          /\ j.then \in {"draw", "activate"}
                          /\ j.agreed => j.who \in agreed
                          /\ j.typed => j.who \in typed,
           p = "activate" => ~j.agreed /\ ~j.typed,
           j.nin # None => ~NinTaken(j.who, j.nin),
           j.nin = None => status[j.who] \notin {"ACTIVE", "REJECTED"}
    PROVE  \E q \in Positions : MemberAsks(t, q, j)
<1>1. PersonOK(p, j) /\ VerdictOK(p, j)
  BY DEF PersonOK, VerdictOK, Activating, Approving, Completing
<1>2. p \in Positions \ {"idle", "commitOnboard"}
  BY DEF Positions
<1> QED
  BY <1>1, <1>2 DEF MemberAsks

(* What is read of a resident ...                                          *)
LEMMA ReadIs ==
    ASSUME NEW r \in Residents
    PROVE  /\ Read(r) \in Jobs /\ Read(r).who = r
           /\ Read(r).nin = None /\ Read(r).sent = None
           /\ Read(r).agreed => r \in agreed
           /\ Read(r).typed => r \in typed
           /\ Read(r).then \in {"draw", "activate"}
<1> DEFINE a == r \in agreed
           h == r \in typed
           o == Onward(r)
<1>1. /\ a \in BOOLEAN /\ h \in BOOLEAN
      /\ (a => r \in agreed) /\ (h => r \in typed)
  OBVIOUS
<1>2. o \in {"draw", "activate"}
  BY DEF Onward
<1>3. Read(r) = [NoJob EXCEPT !.who = r, !.agreed = a, !.typed = h, !.then = o]
  BY DEF Read
<1> HIDE DEF a, h, o
<1> QED
  BY <1>1, <1>2, <1>3, NoJobIs DEF Jobs, People, Positions

(* ... for a review, or with a NIN that is checked.                        *)
LEMMA BeginApprovalIs ==
    ASSUME NEW t \in Threads, NEW r \in Residents, BeginApproval(t, r),
           UNCHANGED <<estate, ranks>>
    PROVE  \E q \in Positions, j \in Jobs : MemberAsks(t, q, j)
<1>1. PICK j \in Jobs : j = Read(r)
  BY ReadIs
<1>2. Start(t, "judge", j)
  BY <1>1 DEF BeginApproval
<1> QED
  BY <1>1, <1>2, ReadIs, ActivationIs DEF BeginApproval, Undecided

LEMMA BeginVerifyNinIs ==
    ASSUME NEW t \in Threads, NEW r \in Residents, NEW n \in Nins,
           BeginVerifyNin(t, r, n), UNCHANGED <<estate, ranks>>
    PROVE  \E q \in Positions, j \in Jobs : MemberAsks(t, q, j)
<1>1. PICK k \in Jobs : k = Read(r)
  BY ReadIs
<1> DEFINE j == [k EXCEPT !.nin = n]
<1>2. /\ j \in Jobs /\ j.who = k.who /\ j.nin = n /\ j.then = k.then
      /\ j.agreed = k.agreed /\ j.typed = k.typed /\ j.sent = k.sent
  BY DEF Jobs
<1>3. Start(t, "judge", j)
  BY <1>1 DEF BeginVerifyNin
<1> HIDE DEF j
<1>4. n # None
  OBVIOUS
<1> QED
  BY <1>1, <1>2, <1>3, <1>4, ReadIs, ActivationIs DEF BeginVerifyNin

LEMMA BeginVerifyGuardNinIs ==
    ASSUME NEW t \in Threads, NEW g \in Guards, NEW n \in Nins,
           BeginVerifyGuardNin(t, g, n), UNCHANGED <<estate, ranks>>
    PROVE  \E q \in Positions, j \in Jobs : MemberAsks(t, q, j)
<1> DEFINE j == [NoJob EXCEPT !.who = g, !.nin = n]
<1>1. /\ j \in Jobs /\ j.who = g /\ j.nin = n
      /\ j.agreed = FALSE /\ j.typed = FALSE /\ j.sent = None
  BY NoJobIs DEF Jobs, People
<1>2. Start(t, "activate", j)
  BY DEF BeginVerifyGuardNin
<1> HIDE DEF j
<1>3. n # None
  OBVIOUS
<1> QED
  BY <1>1, <1>2, <1>3, ActivationIs DEF BeginVerifyGuardNin

LEMMA BeginCompleteProfileIs ==
    ASSUME NEW t \in Threads, NEW r \in Residents, NEW given \in BOOLEAN,
           NEW sent \in BOOLEAN \cup {None},
           BeginCompleteProfile(t, r, given, sent), UNCHANGED <<estate, ranks>>
    PROVE  \E q \in Positions, j \in Jobs : MemberAsks(t, q, j)
<1> DEFINE h == sent = TRUE \/ r \in typed
<1>1. h \in BOOLEAN /\ (h /\ sent # TRUE => r \in typed)
  OBVIOUS
<1> HIDE DEF h
<1> DEFINE j == [NoJob EXCEPT !.who = r, !.agreed = given, !.given = given,
                              !.typed = h, !.sent = sent, !.then = "profile"]
<1>2. /\ j \in Jobs /\ j.who = r /\ j.nin = None
      /\ j.agreed = given /\ j.given = given
      /\ j.typed = h /\ j.sent = sent /\ j.then = "profile"
  <2>1. r \in People \cup {None} /\ "profile" \in Positions
    BY DEF People, Positions
  <2>2. j \in Jobs
    BY <1>1, <2>1, NoJobIs DEF Jobs
  <2>3. j.who = r /\ j.nin = None /\ j.agreed = given /\ j.given = given
    BY NoJobIs DEF Jobs
  <2>4. j.typed = h /\ j.sent = sent /\ j.then = "profile"
    BY NoJobIs DEF Jobs
  <2> QED
    BY <2>2, <2>3, <2>4
<1>3. Start(t, "validate", j)
  BY DEF BeginCompleteProfile, h
<1> HIDE DEF j
<1>4. PersonOK("validate", j) /\ VerdictOK("validate", j)
  BY <1>2 DEF PersonOK, VerdictOK, Activating, Approving, Completing
<1>5. "validate" \in Positions \ {"idle", "commitOnboard"}
  BY DEF Positions
<1>6. MemberAsks(t, "validate", j)
  BY <1>1, <1>2, <1>3, <1>4, <1>5 DEF MemberAsks, BeginCompleteProfile
<1> QED
  BY <1>2, <1>5, <1>6

LEMMA BeginEditIs ==
    ASSUME NEW t \in Threads, NEW a \in Associates, NEW e \in Emails,
           BeginEdit(t, a, e), UNCHANGED <<estate, ranks>>
    PROVE  \E q \in Positions, j \in Jobs : MemberAsks(t, q, j)
<1> DEFINE j == [NoJob EXCEPT !.who = a, !.email = e, !.linked = login[a] # None]
<1>1. /\ j \in Jobs /\ j.who = a /\ j.email = e /\ j.nin = None
      /\ j.agreed = FALSE /\ j.typed = FALSE /\ j.sent = None
      /\ (j.linked <=> login[a] # None)
  <2>1. CASE login[a] # None
    <3>1. (login[a] # None) = TRUE
      BY <2>1
    <3>2. j = [NoJob EXCEPT !.who = a, !.email = e, !.linked = TRUE]
      BY <3>1
    <3> QED
      BY <2>1, <3>2, NoJobIs DEF Jobs, People
  <2>2. CASE login[a] = None
    <3>1. (login[a] # None) = FALSE
      BY <2>2
    <3>2. j = [NoJob EXCEPT !.who = a, !.email = e, !.linked = FALSE]
      BY <3>1
    <3> QED
      BY <2>2, <3>2, NoJobIs DEF Jobs, People
  <2> QED
    BY <2>1, <2>2
<1>2. Start(t, "edit", j)
  BY DEF BeginEdit
<1> HIDE DEF j
<1>3. PersonOK("edit", j) /\ VerdictOK("edit", j)
  BY <1>1 DEF PersonOK, VerdictOK, Activating, Approving, Completing
<1>4. "edit" \in Positions \ {"idle", "commitOnboard"}
  BY DEF Positions
<1>5. MemberAsks(t, "edit", j)
  BY <1>1, <1>2, <1>3, <1>4 DEF MemberAsks, BeginEdit
<1> QED
  BY <1>1, <1>4, <1>5

LEMMA BeginApproveAssociateIs ==
    ASSUME TypeOK, KindsOK, NEW t \in Threads, NEW a \in Associates,
           BeginApproveAssociate(t, a), UNCHANGED <<estate, ranks>>
    PROVE  \E q \in Positions, j \in Jobs : MemberAsks(t, q, j)
<1> DEFINE j == [NoJob EXCEPT !.who = a, !.email = mail[a], !.then = "approve"]
<1>1. mail[a] \in Emails /\ status[a] = "PENDING"
  BY DEF TypeOK, KindsOK, BeginApproveAssociate, Open, People
<1>2. /\ j \in Jobs /\ j.who = a /\ j.email = mail[a] /\ j.nin = None
      /\ j.agreed = FALSE /\ j.typed = FALSE /\ j.sent = None
      /\ j.then = "approve"
  BY <1>1, NoJobIs DEF Jobs, People, Positions
<1>3. Start(t, "draw", j)
  BY DEF BeginApproveAssociate
<1> HIDE DEF j
<1>4. PersonOK("draw", j) /\ VerdictOK("draw", j)
  BY <1>1, <1>2 DEF PersonOK, VerdictOK, Activating, Approving, Completing
<1>5. "draw" \in Positions \ {"idle", "commitOnboard"}
  BY DEF Positions
<1>6. MemberAsks(t, "draw", j)
  BY <1>2, <1>3, <1>4, <1>5 DEF MemberAsks, BeginApproveAssociate
<1> QED
  BY <1>2, <1>5, <1>6

LEMMA BeginPromoteIs ==
    ASSUME NEW t \in Threads, NEW g \in Guards,
           NEW given \in BOOLEAN \cup {None}, BeginPromote(t, g, given),
           UNCHANGED estate
    PROVE  \E q \in Positions, j \in Jobs : MemberAsks(t, q, j)
<1> DEFINE v == IF given = None THEN g \notin superGuards ELSE given
<1>1. v \in BOOLEAN
  OBVIOUS
<1> HIDE DEF v
<1> DEFINE j == [NoJob EXCEPT !.who = g, !.given = v]
<1>2. /\ j \in Jobs /\ j.who = g /\ j.given = v /\ j.nin = None
      /\ j.agreed = FALSE /\ j.typed = FALSE /\ j.sent = None
  BY <1>1, NoJobIs DEF Jobs, People
<1>3. Start(t, "promote", j)
  BY DEF BeginPromote, v
<1> HIDE DEF j
<1>4. PersonOK("promote", j) /\ VerdictOK("promote", j)
  BY <1>1, <1>2 DEF PersonOK, VerdictOK, Activating, Approving, Completing
<1>5. "promote" \in Positions \ {"idle", "commitOnboard"}
  BY DEF Positions
<1>6. MemberAsks(t, "promote", j)
  BY <1>2, <1>3, <1>4, <1>5 DEF MemberAsks, BeginPromote
<1> QED
  BY <1>2, <1>5, <1>6

(* Every step is one of these.                                             *)
LEMMA RegistrationIs ==
    ASSUME Registration, UNCHANGED <<estate, ranks>>
    PROVE  MemberStep
<1>1. ASSUME NEW t \in Threads, NEW e \in Emails, NEW r \in Residents,
             NEW sent \in Sendable,
             BeginRegister(t, r, e, sent) \/ BeginOnboard(t, r, e, sent)
      PROVE  MemberStep
  <2>1. sent \in BOOLEAN \cup {None}
    BY DEF Sendable
  <2> QED
    BY <1>1, <2>1, RegistrationOf DEF BeginRegister, BeginOnboard, MemberStep
<1>2. ASSUME NEW t \in Threads, NEW e \in Emails, NEW g \in Guards,
             BeginCreateGuard(t, g, e) \/ BeginGuardSelfOnboarding(t, g, e)
      PROVE  MemberStep
  <2>1. g \in People
    BY DEF People
  <2> QED
    BY <1>2, <2>1, EnrolmentIs
    DEF BeginCreateGuard, BeginGuardSelfOnboarding, MemberStep
<1>3. ASSUME NEW t \in Threads, NEW e \in Emails, BeginCreateAdmin(t, e)
      PROVE  MemberStep
  BY <1>3, BeginCreateAdminIs DEF MemberStep
<1>4. ASSUME NEW t \in Threads,
             MailPassword(t) \/ CreateAdmin(t) \/ MailOnboarding(t)
      PROVE  MemberStep
  BY <1>4 DEF SideStep, MemberStep
<1> QED
  BY <1>1, <1>2, <1>3, <1>4 DEF Registration

LEMMA CreationIs ==
    ASSUME Creation, UNCHANGED ranks
    PROVE  MemberStep
  BY DEF Creation, CreateResident, CreateGuard, CreateOnboardedGuard, Enrolls,
     RowStep, Supplies, MemberStep

LEMMA AdmissionIs ==
    ASSUME Admission, UNCHANGED <<estate, ranks>>
    PROVE  MemberStep
<1>1. ASSUME NEW t \in Threads, NEW r \in Residents,
             \/ BeginApproval(t, r) \/ BeginRejection(t, r)
             \/ \E given \in BOOLEAN, sent \in BOOLEAN \cup {None} :
                   BeginCompleteProfile(t, r, given, sent)
      PROVE  MemberStep
  BY <1>1, BeginApprovalIs, BeginCompleteProfileIs, VisitIs
  DEF BeginRejection, Undecided, MemberStep
<1>2. ASSUME NEW t \in Threads, NEW n \in Nins,
             \/ \E r \in Residents : BeginVerifyNin(t, r, n)
             \/ \E g \in Guards : BeginVerifyGuardNin(t, g, n)
      PROVE  MemberStep
  BY <1>2, BeginVerifyNinIs, BeginVerifyGuardNinIs DEF MemberStep
<1>3. ASSUME NEW t \in Threads, NEW p \in People,
             BeginGateCode(t, p) \/ BeginDashboard(t, p)
      PROVE  MemberStep
  BY <1>3, VisitIs DEF BeginGateCode, BeginDashboard, AskForCode, MemberStep
<1>4. ASSUME NEW t \in Threads, NEW c \in Codes,
             DrawCode(t, c) \/ DrawAssociateCode(t, c)
      PROVE  MemberStep
  BY <1>4 DEF DrawCode, DrawAssociateCode, Draws, SideStep, MemberStep
<1>5. ASSUME NEW t \in Threads,
             \/ Reject(t) \/ Judge(t) \/ ActivateResident(t)
             \/ StoreIdentity(t) \/ ActivateGuard(t)
             \/ ShowCode(t) \/ MissCode(t) \/ StoreDrawnCode(t)
             \/ ValidateType(t)
      PROVE  MemberStep
  BY <1>5 DEF RowStep, SideStep, MemberStep
<1> QED
  BY <1>1, <1>2, <1>3, <1>4, <1>5 DEF Admission

LEMMA FurnishingIs ==
    ASSUME TypeOK, Furnishing, UNCHANGED ranks
    PROVE  MemberStep
<1>1. ASSUME NEW t \in Threads, CompleteProfile(t)
      PROVE  MemberStep
  BY <1>1 DEF SideStep, Supplies, MemberStep
<1>2. ASSUME NEW r \in Residents, NEW sent \in BOOLEAN, UpdateProfile(r, sent)
      PROVE  MemberStep
  <2>1. asked \in BOOLEAN /\ Choose(r, sent) \in SUBSET Residents
    BY DEF TypeOK, Choose
  <2> QED
    BY <1>2, <2>1 DEF UpdateProfile, Supplied, HandStep, MemberStep
<1>3. CASE UpdateSettings
  BY <1>3 DEF UpdateSettings, TypeOK, Supplied, HandStep, MemberStep
<1>4. ASSUME NEW holders \in SUBSET typed, EraseType(holders)
      PROVE  MemberStep
  BY <1>4 DEF EraseType, TypeOK, Supplied, HandStep, MemberStep
<1> QED
  BY <1>1, <1>2, <1>3, <1>4 DEF Furnishing

LEMMA FamilyIs ==
    ASSUME TypeOK, KindsOK, Family, UNCHANGED <<estate, ranks>>
    PROVE  MemberStep
<1>1. ASSUME NEW t \in Threads, NEW a \in Associates,
             BeginRemove(t, a) \/ BeginRefuse(t, a)
      PROVE  MemberStep
  BY <1>1, VisitIs DEF BeginRemove, BeginRefuse, Open, MemberStep
<1>2. ASSUME NEW t \in Threads, NEW a \in Associates, BeginApproveAssociate(t, a)
      PROVE  MemberStep
  BY <1>2, BeginApproveAssociateIs DEF MemberStep
<1>3. ASSUME NEW t \in Threads, NEW a \in Associates, NEW e \in Emails,
             BeginInvite(t, a, e) \/ BeginEdit(t, a, e)
      PROVE  MemberStep
  <2>1. a \in People
    BY DEF People
  <2> QED
    BY <1>3, <2>1, EnrolmentIs, BeginEditIs DEF BeginInvite, MemberStep
<1>4. ASSUME NEW t \in Threads,
             \/ Invite(t) \/ Edit(t) \/ Remove(t)
             \/ ApproveAssociate(t) \/ RefuseAssociate(t)
      PROVE  MemberStep
  BY <1>4 DEF RowStep, MemberStep
<1> QED
  BY <1>1, <1>2, <1>3, <1>4 DEF Family

LEMMA MemberStepIs ==
    ASSUME TypeOK, KindsOK, Next
    PROVE  MemberStep
<1>1. CASE Registration /\ UNCHANGED <<estate, ranks>>
  BY <1>1, RegistrationIs
<1>2. CASE Admission /\ UNCHANGED <<estate, ranks>>
  BY <1>2, AdmissionIs
<1>3. CASE Family /\ UNCHANGED <<estate, ranks>>
  BY <1>3, FamilyIs
<1>4. ASSUME NEW t \in Threads, Fail(t), UNCHANGED <<estate, ranks>>
      PROVE  MemberStep
  BY <1>4 DEF SideStep, MemberStep
<1>5. CASE Creation /\ UNCHANGED ranks
  BY <1>5, CreationIs
<1>6. CASE Furnishing /\ UNCHANGED ranks
  BY <1>6, FurnishingIs
<1>7. ASSUME NEW t \in Threads, NEW g \in Guards,
             NEW given \in BOOLEAN \cup {None}, BeginPromote(t, g, given),
             UNCHANGED estate
      PROVE  MemberStep
  BY <1>7, BeginPromoteIs DEF MemberStep
<1>8. ASSUME NEW t \in Threads, Promote(t), UNCHANGED estate
      PROVE  MemberStep
  BY <1>8 DEF MemberStep
<1>9. ASSUME NEW g \in Guards, NEW e \in Emails, NEW super \in BOOLEAN,
             UpdateGuard(g, e, super), UNCHANGED estate
      PROVE  MemberStep
  BY <1>9 DEF HandStep, MemberStep
<1> QED
  BY <1>1, <1>2, <1>3, <1>4, <1>5, <1>6, <1>7, <1>8, <1>9 DEF Next, Ranking

(* What a request's step leaves alone: the rows of everybody else.         *)
KeepsRow(q) ==
    /\ status'[q] = status[q] /\ mail'[q] = mail[q] /\ login'[q] = login[q]
    /\ nin'[q] = nin[q] /\ code'[q] = code[q] /\ shown'[q] = shown[q]
    /\ (q \in agreed' <=> q \in agreed) /\ (q \in complete' <=> q \in complete)
    /\ (q \in told' <=> q \in told)

Works(t) == RowStep(t) \/ SideStep(t) \/ Promote(t)

LEMMA OthersAreKept ==
    ASSUME TypeOK, NEW t \in Threads, Works(t),
           NEW q \in People, q # job[t].who
    PROVE  KeepsRow(q)
<1>1. CASE Enrolls(t) \/ CommitOnboard(t)
  BY <1>1 DEF Enrolls, CreateMember, CommitOnboard, AddMember, KeepsRow,
     TypeOK
<1>2. CASE Reject(t) \/ ActivateGuard(t) \/ Invite(t) \/ RefuseAssociate(t)
  BY <1>2 DEF Reject, ActivateGuard, Invite, RefuseAssociate, KeepsRow, TypeOK
<1>3. CASE ActivateResident(t)
  BY <1>3 DEF ActivateResident, Activate, StoreCode, KeepsRow, TypeOK
<1>4. CASE StoreIdentity(t)
  BY <1>4 DEF StoreIdentity, Activate, StoreCode, KeepsRow, TypeOK
<1>5. CASE Edit(t)
  BY <1>5 DEF Edit, KeepsRow, TypeOK
<1>6. CASE Remove(t)
  BY <1>6 DEF Remove, KeepsRow, TypeOK
<1>7. CASE ApproveAssociate(t)
  BY <1>7 DEF ApproveAssociate, StoreCode, KeepsRow, TypeOK
<1>8. CASE MailPassword(t) \/ MailOnboarding(t) \/ CreateAdmin(t) \/ Fail(t)
  BY <1>8 DEF MailPassword, MailOnboarding, CreateAdmin, Fail, rows, KeepsRow
<1>9. CASE Draws(t) \/ MissCode(t) \/ Judge(t) \/ ValidateType(t)
  BY <1>9 DEF Draws, Draw, MissCode, Judge, ValidateType, rows, KeepsRow
<1>10. CASE ShowCode(t) \/ StoreDrawnCode(t)
  BY <1>10 DEF ShowCode, StoreDrawnCode, StoreCode, rows, KeepsRow, TypeOK
<1>11. CASE CompleteProfile(t)
  <2>1. q \in agreed' <=> q \in agreed
    BY <1>11 DEF CompleteProfile
  <2>2. q \in complete' <=> q \in complete
    BY <1>11 DEF CompleteProfile
  <2> QED
    BY <1>11, <2>1, <2>2 DEF CompleteProfile, KeepsRow
<1>12. CASE Promote(t)
  BY <1>12 DEF Promote, rows, KeepsRow
<1> QED
  BY <1>1, <1>2, <1>3, <1>4, <1>5, <1>6, <1>7, <1>8, <1>9, <1>10, <1>11, <1>12
  DEF Works, RowStep, SideStep

(* A row that is there stays there, though it may be removed.              *)
LEMMA RowsStay ==
    ASSUME TypeOK, NEW t \in Threads, Works(t),
           NEW q \in People, status[q] # "NONE"
    PROVE  status'[q] # "NONE"
<1>1. CASE Enrolls(t) \/ CommitOnboard(t)
  BY <1>1 DEF Enrolls, CreateMember, CommitOnboard, AddMember, TypeOK
<1>2. CASE Reject(t) \/ ActivateGuard(t) \/ Invite(t) \/ RefuseAssociate(t)
  BY <1>2 DEF Reject, ActivateGuard, Invite, RefuseAssociate, TypeOK
<1>3. CASE ActivateResident(t) \/ StoreIdentity(t)
  BY <1>3 DEF ActivateResident, StoreIdentity, Activate, TypeOK
<1>4. CASE Edit(t) \/ Remove(t) \/ ApproveAssociate(t)
  BY <1>4 DEF Edit, Remove, ApproveAssociate, TypeOK
<1>5. CASE SideStep(t) \/ Promote(t)
  BY <1>5 DEF SideStep, Promote, MailPassword, MailOnboarding, CreateAdmin,
     Draws, Draw, ShowCode, MissCode, StoreDrawnCode, Judge, ValidateType,
     CompleteProfile, Fail, rows
<1> QED
  BY <1>1, <1>2, <1>3, <1>4, <1>5 DEF Works, RowStep

(* A request goes on, with a verdict that is still true unless another     *)
(* request about the person overlapped, or it ends.                        *)
GoesOn(t) == \E p \in Positions, j \in Jobs :
    /\ MemberMoves(t, p, j) /\ PersonOK(p, j)'
    /\ job[t].who \notin overlapped => VerdictOK(p, j)'
    /\ p = "commitOnboard" => MailOnboarding(t)

LEMMA MemberTurns ==
    ASSUME TypeOK, PersonsOK, VerdictsOK, NEW t \in Threads, Works(t)
    PROVE  Leave(t) \/ GoesOn(t)
<1>0. PICK j \in Jobs : j = job[t]
  BY DEF TypeOK
<1>1. /\ j \in Jobs /\ j = job[t] /\ PersonOK(pc[t], j)
      /\ j.who \notin overlapped => VerdictOK(pc[t], j)
  BY <1>0 DEF TypeOK, PersonsOK, VerdictsOK
<1>2. CASE Enrolls(t)
  <2>1. MemberMoves(t, "mail", j)
    BY <1>1, <1>2 DEF Enrolls, CreateMember, MemberMoves, Positions
  <2>2. PersonOK("mail", j)'
    BY <1>1, <1>2 DEF Enrolls, CreateMember, AddMember, GoTo, PersonOK,
       Activating, Approving, Completing, TypeOK, People
  <2>3. j.who \notin overlapped => VerdictOK("mail", j)'
    BY <1>1, <1>2 DEF Enrolls, CreateMember, AddMember, VerdictOK, Activating,
       Approving, Completing
  <2> QED
    BY <1>1, <2>1, <2>2, <2>3 DEF GoesOn, Positions
<1>3. CASE ApproveAssociate(t)
  <2>1. MemberMoves(t, "mail", j)
    BY <1>1, <1>3 DEF ApproveAssociate, MemberMoves, Positions
  <2>2. PersonOK("mail", j)'
    BY <1>1, <1>3 DEF ApproveAssociate, PersonOK, Activating, Approving,
       Completing, TypeOK, People
  <2>3. j.who \notin overlapped => VerdictOK("mail", j)'
    BY <1>1, <1>3 DEF ApproveAssociate, VerdictOK, Activating, Approving,
       Completing
  <2> QED
    BY <1>1, <2>1, <2>2, <2>3 DEF GoesOn, Positions
<1>4. CASE MailOnboarding(t)
  <2>1. MemberMoves(t, "commitOnboard", j)
    BY <1>1, <1>4 DEF MailOnboarding, MemberMoves, Positions
  <2>2. PersonOK("commitOnboard", j)'
    BY <1>1, <1>4 DEF MailOnboarding, PersonOK, Activating, Approving,
       Completing
  <2>3. j.who \notin overlapped => VerdictOK("commitOnboard", j)'
    BY <1>1, <1>4 DEF MailOnboarding, VerdictOK, Activating, Approving,
       Completing, rows
  <2> QED
    BY <1>1, <1>4, <2>1, <2>2, <2>3 DEF GoesOn, Positions
<1>5. CASE Draws(t)
  <2>1. PICK kind \in {Residents, Associates}, c \in Codes : Draw(t, kind, c)
    BY <1>5 DEF Draws
  <2>2. PICK k \in Jobs :
            /\ k = [j EXCEPT !.code = c]
            /\ k.who = j.who /\ k.email = j.email /\ k.nin = j.nin
            /\ k.agreed = j.agreed /\ k.then = j.then /\ k.linked = j.linked
            /\ k.given = j.given /\ k.typed = j.typed /\ k.sent = j.sent
    <3> DEFINE i == [j EXCEPT !.code = c]
    <3>1. /\ i \in Jobs /\ i.who = j.who /\ i.email = j.email /\ i.nin = j.nin
          /\ i.agreed = j.agreed /\ i.then = j.then /\ i.linked = j.linked
          /\ i.given = j.given /\ i.typed = j.typed /\ i.sent = j.sent
      BY <1>1 DEF Jobs
    <3> QED
      BY <3>1
  <2>3. GoTo(t, j.then, k) /\ pc[t] = "draw" /\ UNCHANGED rows
    BY <1>1, <2>1, <2>2 DEF Draw
  <2>4. j.then \in {"activate", "approve", "store"}
    BY <1>1, <2>3 DEF PersonOK
  <2>5. MemberMoves(t, j.then, k)
    BY <1>1, <2>2, <2>3, <2>4 DEF MemberMoves, Positions
  <2>6. PersonOK(j.then, k)'
    BY <1>1, <2>2, <2>3, <2>4 DEF PersonOK, Activating, Approving, Completing,
       rows
  <2>7. j.who \notin overlapped => VerdictOK(j.then, k)'
    BY <1>1, <2>2, <2>3, <2>4 DEF VerdictOK, Activating, Approving,
       Completing, rows
  <2> QED
    BY <1>1, <2>2, <2>4, <2>5, <2>6, <2>7 DEF GoesOn, Positions
<1>6. CASE MissCode(t)
  <2>1. PICK k \in Jobs :
            /\ k = [j EXCEPT !.then = "store"]
            /\ k.who = j.who /\ k.email = j.email /\ k.nin = j.nin
            /\ k.agreed = j.agreed /\ k.then = "store"
            /\ k.typed = j.typed /\ k.sent = j.sent
    <3> DEFINE i == [j EXCEPT !.then = "store"]
    <3>1. /\ i \in Jobs /\ i.who = j.who /\ i.email = j.email /\ i.nin = j.nin
          /\ i.agreed = j.agreed /\ i.then = "store"
          /\ i.typed = j.typed /\ i.sent = j.sent
      BY <1>1 DEF Jobs, Positions
    <3> QED
      BY <3>1
  <2>2. GoTo(t, "draw", k) /\ pc[t] = "ensure" /\ UNCHANGED rows
    BY <1>1, <1>6, <2>1 DEF MissCode
  <2>3. MemberMoves(t, "draw", k)
    BY <1>1, <2>1, <2>2 DEF MemberMoves, Positions
  <2>4. PersonOK("draw", k)'
    BY <1>1, <2>1, <2>2 DEF PersonOK, Activating, Approving, Completing
  <2>5. j.who \notin overlapped => VerdictOK("draw", k)'
    BY <1>1, <2>1, <2>2 DEF VerdictOK, Activating, Approving, Completing, rows
  <2> QED
    BY <1>1, <2>1, <2>3, <2>4, <2>5 DEF GoesOn, Positions
<1>7. CASE \/ CommitOnboard(t) \/ Reject(t) \/ ActivateResident(t)
           \/ StoreIdentity(t) \/ ActivateGuard(t) \/ Invite(t) \/ Edit(t)
           \/ Remove(t) \/ RefuseAssociate(t)
  BY <1>7 DEF CommitOnboard, Reject, ActivateResident, StoreIdentity,
     Activate, ActivateGuard, Invite, Edit, Remove, RefuseAssociate
<1>8. CASE \/ MailPassword(t) \/ CreateAdmin(t) \/ ShowCode(t)
           \/ StoreDrawnCode(t) \/ CompleteProfile(t) \/ Fail(t) \/ Promote(t)
  BY <1>8 DEF MailPassword, CreateAdmin, ShowCode, StoreDrawnCode,
     CompleteProfile, Fail, Promote
<1>9. CASE ValidateType(t)
  <2>1. GoTo(t, "judge", j) /\ pc[t] = "validate" /\ UNCHANGED rows
    BY <1>1, <1>9 DEF ValidateType
  <2>2. MemberMoves(t, "judge", j)
    BY <1>1, <2>1 DEF MemberMoves, Positions
  <2>3. PersonOK("judge", j)'
    BY <1>1, <2>1 DEF PersonOK, Activating, Approving, Completing
  <2>4. j.who \notin overlapped => VerdictOK("judge", j)'
    BY <1>1, <2>1 DEF PersonOK, VerdictOK, Activating, Approving, Completing,
       rows
  <2> QED
    BY <1>1, <2>2, <2>3, <2>4 DEF GoesOn, Positions
<1>10. CASE Judge(t)
  <2> DEFINE v == Qualified(t)
  <2>0. GoTo(t, j.then, [j EXCEPT !.agreed = v, !.typed = v, !.then = "activate"])
    BY <1>1, <1>10 DEF Judge
  <2>1. v \in BOOLEAN /\ (v => j.agreed) /\ (v /\ asked => j.typed)
    BY <1>1 DEF Qualified, Jobs
  <2> HIDE DEF v
  <2>2. PICK k \in Jobs :
            /\ k = [j EXCEPT !.agreed = v, !.typed = v, !.then = "activate"]
            /\ k.who = j.who /\ k.email = j.email /\ k.nin = j.nin
            /\ k.agreed = v /\ k.typed = v /\ k.then = "activate"
            /\ k.sent = j.sent /\ k.given = j.given
    <3> DEFINE i == [j EXCEPT !.agreed = v, !.typed = v, !.then = "activate"]
    <3>1. /\ i \in Jobs /\ i.who = j.who /\ i.email = j.email /\ i.nin = j.nin
          /\ i.agreed = v /\ i.typed = v /\ i.then = "activate"
          /\ i.sent = j.sent /\ i.given = j.given
      BY <1>1, <2>1 DEF Jobs, Positions
    <3> QED
      BY <3>1
  <2>3. GoTo(t, j.then, k) /\ pc[t] = "judge" /\ UNCHANGED rows
    BY <1>10, <2>0, <2>2 DEF Judge
  <2>4. j.then \in {"activate", "draw", "profile"}
    BY <1>1, <2>3 DEF PersonOK
  <2>5. MemberMoves(t, j.then, k)
    BY <1>1, <2>1, <2>2, <2>3, <2>4 DEF MemberMoves, Positions
  <2>6. PersonOK(j.then, k)'
    BY <1>1, <2>1, <2>2, <2>3, <2>4
    DEF PersonOK, Activating, Approving, Completing, rows
  <2>7. j.who \notin overlapped => VerdictOK(j.then, k)'
    BY <1>1, <2>1, <2>2, <2>3, <2>4
    DEF PersonOK, VerdictOK, Activating, Approving, Completing, rows
  <2> QED
    BY <1>1, <2>2, <2>4, <2>5, <2>6, <2>7 DEF GoesOn, Positions
<1> QED
  BY <1>2, <1>3, <1>4, <1>5, <1>6, <1>7, <1>8, <1>9, <1>10
  DEF Works, RowStep, SideStep

(* Types. *)

RequestsTyped ==
    pc \in [Threads -> Positions] /\ job \in [Threads -> Jobs]

MembersTyped ==
    /\ scope \in Scopes
    /\ status \in [People -> Statuses]
    /\ mail \in [People -> Emails \cup {None}]
    /\ login \in [People -> Emails \cup {None}]
    /\ unowned \subseteq Emails
    /\ nin \in [People -> Nins \cup {None}]
    /\ code \in [People -> Codes \cup {None}]
    /\ agreed \subseteq Residents /\ complete \subseteq Residents
    /\ superGuards \subseteq Guards /\ superUsers \subseteq Guards
    /\ edited \subseteq Guards
    /\ shown \in [People -> Codes \cup {None}]
    /\ told \subseteq People /\ cut \subseteq People

EstateTyped ==
    asked \in BOOLEAN /\ typed \subseteq Residents /\ undone \subseteq Residents

LEMMA TypeOKIs ==
    TypeOK <=> /\ MembersTyped /\ RequestsTyped /\ EstateTyped
               /\ overlapped \subseteq People /\ contested \subseteq Nins
  BY DEF TypeOK, MembersTyped, RequestsTyped, EstateTyped

(* Whatever a step does to the estate, it is furnished with types of its   *)
(* residents.                                                              *)
LEMMA EstateIs ==
    ASSUME TypeOK, PersonsOK, MemberStep
    PROVE  UNCHANGED estate \/ Supplied
<1>1. ASSUME NEW t \in Threads, Supplies(t)
      PROVE  Supplied
  <2>1. /\ job[t].sent \in BOOLEAN \cup {None}
        /\ job[t].sent # None => job[t].who \in Residents
    BY DEF TypeOK, Jobs, PersonsOK, PersonOK
  <2>2. Choose(job[t].who, job[t].sent) \in SUBSET Residents
    BY <2>1 DEF TypeOK, Choose
  <2>3. Furnish(asked, Choose(job[t].who, job[t].sent))
    BY <1>1 DEF Supplies, Enrolls, CreateMember, CommitOnboard, AddMember,
       CompleteProfile
  <2> QED
    BY <2>2, <2>3 DEF Supplied, TypeOK
<1> QED
  BY <1>1 DEF MemberStep, MemberAsks, HandStep

LEMMA EstateTypes ==
    ASSUME TypeOK, UNCHANGED estate \/ Supplied
    PROVE  EstateTyped'
<1>1. CASE UNCHANGED estate
  BY <1>1 DEF estate, TypeOK, EstateTyped
<1>2. CASE Supplied
  <2>1. PICK now \in BOOLEAN, holders \in SUBSET Residents : Furnish(now, holders)
    BY <1>2 DEF Supplied
  <2>2. /\ asked' \in BOOLEAN /\ typed' \subseteq Residents
        /\ undone' \subseteq Lacking'
    BY <2>1 DEF Furnish
  <2>3. Lacking' \subseteq Residents
    BY DEF Lacking
  <2> QED
    BY <2>2, <2>3 DEF EstateTyped
<1> QED
  BY <1>1, <1>2

LEMMA StepTypes ==
    ASSUME TypeOK, PersonsOK, NEW t \in Threads, RowStep(t), UNCHANGED ranks
    PROVE  MembersTyped'
<1> USE DEF TypeOK, MembersTyped, ranks
<1>1. job[t] \in Jobs /\ PersonOK(pc[t], job[t])
  BY DEF PersonsOK
<1>2. CASE Enrolls(t)
  <2>1. job[t].who \in People /\ job[t].email \in Emails
    BY <1>1, <1>2 DEF Enrolls, PersonOK, People
  <2> QED
    BY <1>2, <2>1 DEF Enrolls, CreateMember, AddMember, Statuses
<1>3. CASE CommitOnboard(t)
  <2>1. job[t].who \in People /\ job[t].email \in Emails
    BY <1>1, <1>3 DEF CommitOnboard, PersonOK, People
  <2> QED
    BY <1>3, <2>1 DEF CommitOnboard, AddMember, Statuses
<1>4. CASE Reject(t)
  BY <1>4 DEF Reject, Statuses
<1>5. CASE ActivateResident(t)
  <2>1. job[t].who \in People /\ job[t].code \in Codes \cup {None}
    BY <1>1, <1>5 DEF ActivateResident, Activate, Jobs, People
  <2> QED
    BY <1>5, <2>1 DEF ActivateResident, Activate, StoreCode, Statuses
<1>6. CASE StoreIdentity(t)
  <2>1. /\ job[t].who \in People /\ job[t].code \in Codes \cup {None}
        /\ job[t].nin \in Nins \cup {None}
    BY <1>1, <1>6 DEF StoreIdentity, Activate, Jobs, People
  <2> QED
    BY <1>6, <2>1 DEF StoreIdentity, Activate, StoreCode, Statuses
<1>7. CASE ActivateGuard(t)
  <2>1. job[t].nin \in Nins \cup {None}
    BY <1>1 DEF Jobs
  <2> QED
    BY <1>7, <2>1 DEF ActivateGuard, Statuses
<1>8. CASE Invite(t)
  <2>1. job[t].email \in Emails
    BY <1>1, <1>8 DEF Invite, PersonOK
  <2> QED
    BY <1>8, <2>1 DEF Invite, Statuses
<1>9. CASE Edit(t)
  <2>1. job[t].email \in Emails
    BY <1>1, <1>9 DEF Edit, PersonOK
  <2> QED
    BY <1>9, <2>1 DEF Edit
<1>10. CASE Remove(t)
  <2>1. job[t].who \in People
    BY <1>1, <1>10 DEF Remove, PersonOK, People
  <2> QED
    BY <1>10, <2>1 DEF Remove, Statuses
<1>11. CASE ApproveAssociate(t)
  <2>1. /\ job[t].who \in People /\ job[t].email \in Emails
        /\ job[t].code \in Codes \cup {None}
    BY <1>1, <1>11 DEF ApproveAssociate, PersonOK, Approving, Jobs, People
  <2> QED
    BY <1>11, <2>1 DEF ApproveAssociate, StoreCode, Statuses
<1>12. CASE RefuseAssociate(t)
  BY <1>12 DEF RefuseAssociate, Statuses
<1> QED
  BY <1>2, <1>3, <1>4, <1>5, <1>6, <1>7, <1>8, <1>9, <1>10, <1>11, <1>12
  DEF RowStep

LEMMA SideTypes ==
    ASSUME TypeOK, PersonsOK, NEW t \in Threads, SideStep(t), UNCHANGED ranks
    PROVE  MembersTyped'
<1> USE DEF TypeOK, MembersTyped, ranks, rows
<1>1. job[t] \in Jobs /\ PersonOK(pc[t], job[t])
  BY DEF PersonsOK
<1>2. CASE MailPassword(t)
  <2>1. job[t].who \in People
    BY <1>1, <1>2 DEF MailPassword, PersonOK
  <2> QED
    BY <1>2, <2>1 DEF MailPassword
<1>3. CASE MailOnboarding(t)
  <2>1. job[t].who \in People
    BY <1>1, <1>3 DEF MailOnboarding, PersonOK, People
  <2> QED
    BY <1>3, <2>1 DEF MailOnboarding
<1>4. CASE CreateAdmin(t)
  <2>1. job[t].email \in Emails
    BY <1>1, <1>4 DEF CreateAdmin, PersonOK
  <2> QED
    BY <1>4, <2>1 DEF CreateAdmin
<1>5. CASE Draws(t)
  BY <1>5 DEF Draws, Draw
<1>6. CASE ShowCode(t)
  <2>1. job[t].who \in People
    BY <1>1, <1>6 DEF ShowCode, PersonOK, People
  <2> QED
    BY <1>6, <2>1 DEF ShowCode
<1>7. CASE MissCode(t)
  BY <1>7 DEF MissCode
<1>8. CASE StoreDrawnCode(t)
  <2>1. job[t].who \in People /\ job[t].code \in Codes \cup {None}
    BY <1>1, <1>8 DEF StoreDrawnCode, PersonOK, People, Jobs
  <2> QED
    BY <1>8, <2>1 DEF StoreDrawnCode, StoreCode
<1>9. CASE CompleteProfile(t)
  <2>1. job[t].who \in Residents
    BY <1>1, <1>9 DEF CompleteProfile, PersonOK
  <2>2. agreed' \subseteq Residents
    BY <1>9, <2>1 DEF CompleteProfile
  <2>3. complete' \subseteq Residents
    BY <1>9, <2>1 DEF CompleteProfile
  <2> QED
    BY <1>9, <2>2, <2>3 DEF CompleteProfile
<1>10. CASE Fail(t)
  <2>1. pc[t] = "commitOnboard" => job[t].who \in People
    BY <1>1, <1>10 DEF PersonOK, People
  <2> QED
    BY <1>10, <2>1 DEF Fail
<1>11. CASE Judge(t) \/ ValidateType(t)
  BY <1>11 DEF Judge, ValidateType
<1> QED
  BY <1>2, <1>3, <1>4, <1>5, <1>6, <1>7, <1>8, <1>9, <1>10, <1>11 DEF SideStep

LEMMA HandTypes ==
    ASSUME TypeOK, PersonsOK, HandStep
    PROVE  TypeOK'
<1>0. EstateTyped'
  BY EstateIs, EstateTypes DEF MemberStep
<1>1. CASE UNCHANGED <<scope, rows, ranks, request, shown, told, overlapped,
                       contested, cut>>
  BY <1>0, <1>1 DEF TypeOK, EstateTyped, rows, request, ranks
<1>2. ASSUME NEW g \in Guards, NEW e \in Emails, NEW super \in BOOLEAN,
             UpdateGuard(g, e, super)
      PROVE  TypeOK'
  BY <1>0, <1>2 DEF UpdateGuard, SetRole, TypeOK, EstateTyped, request
<1> QED
  BY <1>1, <1>2 DEF HandStep

LEMMA RequestTypes ==
    ASSUME TypeOK, NEW t \in Threads, Leave(t) \/ GoesOn(t)
    PROVE  /\ RequestsTyped'
           /\ overlapped' \subseteq People /\ contested' \subseteq Nins
<1>1. CASE Leave(t)
  BY <1>1, NoJobIs DEF Leave, TypeOK, RequestsTyped, Positions
<1>2. CASE GoesOn(t)
  BY <1>2 DEF GoesOn, MemberMoves, GoTo, TypeOK, RequestsTyped
<1> QED
  BY <1>1, <1>2

LEMMA TypesKept ==
    ASSUME TypeOK, PersonsOK, VerdictsOK, MemberStep
    PROVE  TypeOK'
<1>0. EstateTyped'
  BY EstateIs, EstateTypes
<1>1. ASSUME NEW t \in Threads, NEW p \in Positions, NEW j \in Jobs,
             MemberAsks(t, p, j)
      PROVE  TypeOK'
  <2>1. RequestsTyped'
    BY <1>1 DEF MemberAsks, Start, TypeOK, RequestsTyped
  <2>2. /\ overlapped' \subseteq People /\ contested' \subseteq Nins
    BY <1>1 DEF MemberAsks, Start, Others, Checked, TypeOK, Jobs
  <2>3. MembersTyped'
    BY <1>1 DEF MemberAsks, TypeOK, MembersTyped, rows, ranks
  <2> QED
    BY <1>0, <2>1, <2>2, <2>3 DEF TypeOK, MembersTyped, RequestsTyped,
       EstateTyped
<1>2. ASSUME NEW t \in Threads, RowStep(t) \/ SideStep(t), UNCHANGED ranks
      PROVE  TypeOK'
  <2>1. MembersTyped'
    BY <1>2, StepTypes, SideTypes
  <2>2. Leave(t) \/ GoesOn(t)
    BY <1>2, MemberTurns DEF Works
  <2> QED
    BY <1>0, <2>1, <2>2, RequestTypes DEF TypeOK, MembersTyped, RequestsTyped,
       EstateTyped
<1>3. ASSUME NEW t \in Threads, Promote(t)
      PROVE  TypeOK'
  <2>1. job[t].who \in Guards
    BY <1>3 DEF Promote, PersonsOK, PersonOK
  <2>2. MembersTyped'
    BY <1>3, <2>1 DEF Promote, SetRole, TypeOK, MembersTyped, rows
  <2>3. Leave(t)
    BY <1>3 DEF Promote
  <2> QED
    BY <1>0, <2>2, <2>3, RequestTypes DEF TypeOK, MembersTyped, RequestsTyped,
       EstateTyped
<1> QED
  BY <1>1, <1>2, <1>3, HandTypes DEF MemberStep

(* Requests and the people they are about. *)

(* What a step makes of the requests: one begins, goes on or ends, and the *)
(* others stay.                                                            *)
Begins(t) == \E p \in Positions, j \in Jobs : MemberAsks(t, p, j)

LEMMA LeaveIs ==
    ASSUME TypeOK, NEW t \in Threads, Leave(t)
    PROVE  /\ pc'[t] = "idle" /\ job'[t] = NoJob
           /\ \A u \in Threads \ {t} : pc'[u] = pc[u] /\ job'[u] = job[u]
           /\ overlapped' = overlapped /\ contested' = contested
  BY DEF Leave, TypeOK

LEMMA MovesIs ==
    ASSUME TypeOK, NEW t \in Threads, NEW p \in Positions, NEW j \in Jobs,
           MemberMoves(t, p, j)
    PROVE  /\ pc'[t] = p /\ job'[t] = j
           /\ \A u \in Threads \ {t} : pc'[u] = pc[u] /\ job'[u] = job[u]
           /\ overlapped' = overlapped /\ contested' = contested
  BY DEF MemberMoves, GoTo, TypeOK

LEMMA AsksIs ==
    ASSUME TypeOK, NEW t \in Threads, NEW p \in Positions, NEW j \in Jobs,
           MemberAsks(t, p, j)
    PROVE  /\ pc'[t] = p /\ job'[t] = j
           /\ \A u \in Threads \ {t} :
                 /\ pc'[u] = pc[u] /\ job'[u] = job[u]
                 /\ job[u].who = j.who => j.who \in overlapped' \cup {None}
                 /\ job[u].nin = j.nin => j.nin \in contested' \cup {None}
           /\ overlapped \subseteq overlapped' /\ contested \subseteq contested'
  BY DEF MemberAsks, Start, Others, Checked, TypeOK

LEMMA HandIs ==
    ASSUME TypeOK, HandStep
    PROVE  /\ UNCHANGED <<pc, job, overlapped, contested, status, login, nin,
                          code, agreed, complete, unowned, shown, told, cut,
                          superUsers>>
           /\ \A q \in People \ Guards : mail'[q] = mail[q]
<1>1. CASE UNCHANGED <<scope, rows, ranks, request, shown, told, overlapped,
                       contested, cut>>
  BY <1>1 DEF rows, ranks, request
<1>2. ASSUME NEW g \in Guards, NEW e \in Emails, NEW super \in BOOLEAN,
             UpdateGuard(g, e, super)
      PROVE  /\ UNCHANGED <<pc, job, overlapped, contested, status, login, nin,
                            code, agreed, complete, unowned, shown, told, cut,
                            superUsers>>
             /\ \A q \in People \ Guards : mail'[q] = mail[q]
  BY <1>2 DEF UpdateGuard, request, TypeOK
<1> QED
  BY <1>1, <1>2 DEF HandStep

LEMMA StepKinds ==
    ASSUME TypeOK, PersonsOK, VerdictsOK, MemberStep
    PROVE  \/ \E t \in Threads : Begins(t)
           \/ \E t \in Threads : /\ Works(t) /\ (Leave(t) \/ GoesOn(t))
                                 /\ asked' = asked
           \/ HandStep
<1>1. ASSUME NEW t \in Threads, Supplies(t) \/ UNCHANGED estate
      PROVE  asked' = asked
  BY <1>1 DEF Supplies, Enrolls, CreateMember, CommitOnboard, AddMember,
     CompleteProfile, Furnish, estate
<1> QED
  BY <1>1, MemberTurns DEF MemberStep, Begins, Works

LEMMA PersonsKept ==
    ASSUME TypeOK, PersonsOK, VerdictsOK, MemberStep
    PROVE  PersonsOK'
<1> SUFFICES ASSUME NEW u \in Threads
             PROVE  PersonOK(pc[u], job[u])'
  BY DEF PersonsOK
<1>0. PersonOK(pc[u], job[u])
  BY DEF PersonsOK
<1>1. ASSUME NEW t \in Threads, Begins(t)
      PROVE  PersonOK(pc[u], job[u])'
  <2>1. PICK p \in Positions, j \in Jobs : MemberAsks(t, p, j)
    BY <1>1 DEF Begins
  <2>2. status' = status
    BY <2>1 DEF MemberAsks, rows
  <2>3. CASE u = t
    <3>1. pc'[u] = p /\ job'[u] = j
      BY <2>1, <2>3, AsksIs
    <3>2. PersonOK(p, j)
      BY <2>1 DEF MemberAsks
    <3> QED
      BY <2>2, <3>1, <3>2 DEF PersonOK, Activating, Approving, Completing
  <2>4. CASE u # t
    BY <1>0, <2>1, <2>2, <2>4, AsksIs DEF PersonOK, Activating, Approving,
       Completing
  <2> QED
    BY <2>3, <2>4
<1>2. ASSUME NEW t \in Threads, Works(t), Leave(t) \/ GoesOn(t)
      PROVE  PersonOK(pc[u], job[u])'
  <2>1. CASE u = t
    <3>1. CASE Leave(t)
      BY <2>1, <3>1, LeaveIs, NoJobIs DEF PersonOK, Activating, Approving,
         Completing
    <3>2. CASE GoesOn(t)
      <4>1. PICK p \in Positions, j \in Jobs :
                MemberMoves(t, p, j) /\ PersonOK(p, j)'
        BY <3>2 DEF GoesOn
      <4>2. pc'[t] = p /\ job'[t] = j
        BY <4>1, MovesIs
      <4> QED
        BY <2>1, <4>1, <4>2 DEF PersonOK
    <3> QED
      BY <1>2, <3>1, <3>2
  <2>2. CASE u # t
    <3>1. pc'[u] = pc[u] /\ job'[u] = job[u]
      BY <1>2, <2>2, LeaveIs, MovesIs DEF GoesOn
    <3>2. pc[u] \in {"reject", "mail"} \/ Activating(pc[u], job[u])
          => job[u].who \in People
      BY <1>0 DEF PersonOK, People
    <3>3. pc[u] \in {"reject", "mail"} \/ Activating(pc[u], job[u])
          => status'[job[u].who] # "NONE"
      BY <1>0, <1>2, <3>2, RowsStay DEF PersonOK
    <3> QED
      BY <1>0, <3>1, <3>3 DEF PersonOK, Activating, Approving, Completing
  <2> QED
    BY <2>1, <2>2
<1>3. CASE HandStep
  BY <1>0, <1>3, HandIs DEF PersonOK, Activating, Approving, Completing
<1> QED
  BY <1>1, <1>2, <1>3, StepKinds

LEMMA ApartKept ==
    ASSUME TypeOK, PersonsOK, VerdictsOK, PersonsApart, MemberStep
    PROVE  PersonsApart'
<1>1. ASSUME NEW t \in Threads, Begins(t)
      PROVE  PersonsApart'
  <2>1. PICK p \in Positions, j \in Jobs : MemberAsks(t, p, j)
    BY <1>1 DEF Begins
  <2> QED
    BY <2>1, AsksIs DEF PersonsApart
<1>2. ASSUME NEW t \in Threads, Leave(t)
      PROVE  PersonsApart'
  BY <1>2, LeaveIs, NoJobIs DEF PersonsApart
<1>3. ASSUME NEW t \in Threads, GoesOn(t)
      PROVE  PersonsApart'
  <2>1. PICK p \in Positions, j \in Jobs : MemberMoves(t, p, j)
    BY <1>3 DEF GoesOn
  <2>2. job'[t].who = job[t].who
    BY <2>1, MovesIs DEF MemberMoves
  <2> QED
    BY <2>1, <2>2, MovesIs DEF PersonsApart
<1>4. CASE HandStep
  BY <1>4, HandIs DEF PersonsApart
<1> QED
  BY <1>1, <1>2, <1>3, <1>4, StepKinds

LEMMA VerdictsKept ==
    ASSUME TypeOK, PersonsOK, PersonsApart, VerdictsOK, MemberStep
    PROVE  VerdictsOK'
<1> SUFFICES ASSUME NEW u \in Threads, job'[u].who \notin overlapped'
             PROVE  VerdictOK(pc[u], job[u])'
  BY DEF VerdictsOK
<1>0. /\ PersonOK(pc[u], job[u])
      /\ job[u].who \notin overlapped => VerdictOK(pc[u], job[u])
  BY DEF PersonsOK, VerdictsOK
<1>1. ASSUME NEW t \in Threads, Begins(t)
      PROVE  VerdictOK(pc[u], job[u])'
  <2>1. PICK p \in Positions, j \in Jobs : MemberAsks(t, p, j)
    BY <1>1 DEF Begins
  <2>2. UNCHANGED <<status, login, mail, agreed>>
    BY <2>1 DEF MemberAsks, rows
  <2>3. CASE u = t
    <3>1. pc'[u] = p /\ job'[u] = j
      BY <2>1, <2>3, AsksIs
    <3>2. VerdictOK(p, j)
      BY <2>1 DEF MemberAsks
    <3> QED
      BY <2>2, <3>1, <3>2 DEF VerdictOK, Activating, Approving, Completing
  <2>4. CASE u # t
    <3>1. /\ pc'[u] = pc[u] /\ job'[u] = job[u]
          /\ job[u].who \notin overlapped
      BY <2>1, <2>4, AsksIs
    <3> QED
      BY <1>0, <2>2, <3>1 DEF VerdictOK, Activating, Approving, Completing
  <2> QED
    BY <2>3, <2>4
<1>2. ASSUME NEW t \in Threads, Works(t), Leave(t) \/ GoesOn(t)
      PROVE  VerdictOK(pc[u], job[u])'
  <2>0. overlapped' = overlapped
    BY <1>2, LeaveIs, MovesIs DEF GoesOn
  <2>1. CASE u = t
    <3>1. CASE Leave(t)
      BY <2>1, <3>1, LeaveIs, NoJobIs DEF VerdictOK, Activating, Approving,
         Completing
    <3>2. CASE GoesOn(t)
      <4>1. PICK p \in Positions, j \in Jobs :
                /\ MemberMoves(t, p, j)
                /\ job[t].who \notin overlapped => VerdictOK(p, j)'
        BY <3>2 DEF GoesOn
      <4>2. pc'[t] = p /\ job'[t] = j /\ j.who = job[t].who
        BY <4>1, MovesIs DEF MemberMoves
      <4> QED
        BY <2>0, <2>1, <4>1, <4>2 DEF VerdictOK
    <3> QED
      BY <1>2, <3>1, <3>2
  <2>2. CASE u # t
    <3>1. pc'[u] = pc[u] /\ job'[u] = job[u]
      BY <1>2, <2>2, LeaveIs, MovesIs DEF GoesOn
    <3>2. VerdictOK(pc[u], job[u])
      BY <1>0, <2>0, <3>1
    <3>3. CASE job[u].who \in People
      <4>1. job[u].who # job[t].who
        BY <2>0, <2>2, <3>1, <3>3 DEF PersonsApart
      <4>2. KeepsRow(job[u].who)
        BY <1>2, <3>3, <4>1, OthersAreKept
      <4> QED
        BY <3>1, <3>2, <4>2 DEF KeepsRow, VerdictOK, Activating, Approving,
           Completing
    <3>4. CASE job[u].who \notin People
      <4>1. ~job[u].agreed
        BY <1>0, <3>2, <3>4 DEF VerdictOK, PersonOK, Completing, TypeOK,
           People
      <4>2. /\ pc[u] \notin {"edit", "refuse", "reject", "commitOnboard"}
            /\ ~Activating(pc[u], job[u]) /\ ~Approving(pc[u], job[u])
        BY <1>0, <3>4 DEF PersonOK, People
      <4> QED
        BY <3>1, <4>1, <4>2 DEF VerdictOK, Activating, Approving, Completing
    <3> QED
      BY <3>3, <3>4
  <2> QED
    BY <2>1, <2>2
<1>3. CASE HandStep
  <2>1. UNCHANGED <<pc, job, overlapped, status, login, agreed>>
    BY <1>3, HandIs
  <2>2. Approving(pc[u], job[u]) => mail'[job[u].who] = mail[job[u].who]
    BY <1>0, <1>3, HandIs DEF PersonOK, People
  <2> QED
    BY <1>0, <2>1, <2>2 DEF VerdictOK, Activating, Approving, Completing
<1> QED
  BY <1>1, <1>2, <1>3, StepKinds

(* Rows and logins. *)

LEMMA KindsKept ==
    ASSUME TypeOK, PersonsOK, KindsOK, VerdictsOK, MemberStep
    PROVE  KindsOK'
<1>1. ASSUME NEW t \in Threads, Begins(t)
      PROVE  KindsOK'
  BY <1>1 DEF Begins, MemberAsks, rows, KindsOK
<1>2. ASSUME NEW t \in Threads, RowStep(t)
      PROVE  KindsOK'
  <2>0. PersonOK(pc[t], job[t])
    BY DEF PersonsOK
  <2>1. CASE Enrolls(t) \/ CommitOnboard(t)
    <3>1. job[t].who \in Residents \cup Guards
      BY <2>0, <2>1 DEF Enrolls, CommitOnboard, PersonOK
    <3> QED
      BY <2>1, <3>1 DEF Enrolls, CreateMember, CommitOnboard, AddMember,
         KindsOK, TypeOK, People
  <2>2. CASE Reject(t)
    BY <2>0, <2>2 DEF Reject, KindsOK, TypeOK, People, PersonOK
  <2>3. CASE ActivateResident(t) \/ StoreIdentity(t)
    BY <2>3 DEF ActivateResident, StoreIdentity, Activate, KindsOK, TypeOK,
       People
  <2>4. CASE ActivateGuard(t)
    BY <2>4 DEF ActivateGuard, KindsOK, TypeOK, People
  <2>5. CASE Invite(t)
    <3>1. job[t].who \in Associates /\ job[t].email \in Emails
      BY <2>0, <2>5 DEF Invite, PersonOK
    <3> QED
      BY <2>5, <3>1 DEF Invite, KindsOK, TypeOK, People
  <2>6. CASE Edit(t)
    <3>1. job[t].who \in Associates /\ job[t].email \in Emails
      BY <2>0, <2>6 DEF Edit, PersonOK
    <3> QED
      BY <2>6, <3>1 DEF Edit, Known, KindsOK, TypeOK, People
  <2>7. CASE Remove(t)
    BY <2>0, <2>7 DEF Remove, KindsOK, TypeOK, People, PersonOK
  <2>8. CASE ApproveAssociate(t)
    <3>1. job[t].who \in Associates
      BY <2>0, <2>8 DEF ApproveAssociate, PersonOK, Approving
    <3> QED
      BY <2>8, <3>1 DEF ApproveAssociate, Known, KindsOK, TypeOK, People
  <2>9. CASE RefuseAssociate(t)
    <3>1. job[t].who \in Associates
      BY <2>0, <2>9 DEF RefuseAssociate, PersonOK
    <3> QED
      BY <2>9, <3>1 DEF RefuseAssociate, Known, KindsOK, TypeOK, People
  <2> QED
    BY <1>2, <2>1, <2>2, <2>3, <2>4, <2>5, <2>6, <2>7, <2>8, <2>9 DEF RowStep
<1>3. ASSUME NEW t \in Threads, SideStep(t) \/ Promote(t)
      PROVE  KindsOK'
  <2>1. status' = status /\ mail' = mail
    BY <1>3 DEF SideStep, Promote, MailPassword, MailOnboarding, CreateAdmin,
       Draws, Draw, ShowCode, MissCode, StoreDrawnCode, Judge, ValidateType,
       CompleteProfile, Fail, rows
  <2> QED
    BY <2>1 DEF KindsOK
<1>4. CASE HandStep
  BY <1>4, HandIs DEF KindsOK, People
<1> QED
  BY <1>1, <1>2, <1>3, <1>4 DEF MemberStep, Begins

(* Logins only come with an email that is free, or under a lock.           *)
LEMMA AccountsGrow ==
    ASSUME TypeOK, PersonsOK, NEW t \in Threads, Works(t)
    PROVE  \A e \in Accounts' :
               \/ e \in Accounts
               \/ e = job[t].email /\ (e \notin Reserved(t) \/ CommitOnboard(t))
<1>1. CASE Enrolls(t)
  BY <1>1 DEF Enrolls, CreateMember, AddMember, FreeAccount, Accounts, TypeOK
<1>2. CASE CommitOnboard(t)
  BY <1>2 DEF CommitOnboard, AddMember, Accounts, TypeOK
<1>3. CASE Edit(t)
  <2>1. job[t].linked =>
            /\ job[t].email \notin Reserved(t)
            /\ login' = [login EXCEPT ![job[t].who] = job[t].email]
    BY <1>3 DEF Edit
  <2>2. ~job[t].linked => login' = login
    BY <1>3 DEF Edit
  <2>3. unowned' = unowned
    BY <1>3 DEF Edit
  <2> QED
    BY <2>1, <2>2, <2>3 DEF Accounts, TypeOK
<1>4. CASE Remove(t)
  <2>1. job[t].who \in People
    BY <1>4 DEF Remove, PersonsOK, PersonOK, People
  <2> QED
    BY <1>4, <2>1 DEF Remove, Accounts, TypeOK
<1>5. CASE ApproveAssociate(t)
  <2>1. job[t].who \in People
    BY <1>5 DEF ApproveAssociate, PersonsOK, PersonOK, Approving, People
  <2> QED
    BY <1>5, <2>1 DEF ApproveAssociate, FreeAccount, Accounts, TypeOK
<1>6. CASE CreateAdmin(t)
  BY <1>6 DEF CreateAdmin, FreeAccount, Accounts
<1>7. CASE \/ Reject(t) \/ ActivateResident(t) \/ StoreIdentity(t)
           \/ ActivateGuard(t) \/ Invite(t) \/ RefuseAssociate(t)
  BY <1>7 DEF Reject, ActivateResident, StoreIdentity, Activate,
     ActivateGuard, Invite, RefuseAssociate, Accounts
<1>8. CASE \/ MailPassword(t) \/ MailOnboarding(t) \/ Draws(t) \/ ShowCode(t)
           \/ MissCode(t) \/ StoreDrawnCode(t) \/ Judge(t)
           \/ ValidateType(t) \/ CompleteProfile(t) \/ Fail(t)
           \/ Promote(t)
  BY <1>8 DEF MailPassword, MailOnboarding, Draws, Draw, ShowCode, MissCode,
     StoreDrawnCode, Judge, ValidateType, CompleteProfile, Fail, Promote,
     rows, Accounts
<1> QED
  BY <1>1, <1>2, <1>3, <1>4, <1>5, <1>6, <1>7, <1>8 DEF Works, RowStep,
     SideStep

LEMMA LocksKept ==
    ASSUME TypeOK, PersonsOK, VerdictsOK, LocksOK, MemberStep
    PROVE  LocksOK'
<1>1. ASSUME NEW t \in Threads, Begins(t)
      PROVE  LocksOK'
  <2>1. PICK p \in Positions, j \in Jobs : MemberAsks(t, p, j)
    BY <1>1 DEF Begins
  <2>2. p # "commitOnboard" /\ Accounts' = Accounts
    BY <2>1 DEF MemberAsks, rows, Accounts
  <2> QED
    BY <2>1, <2>2, AsksIs DEF LocksOK
<1>2. ASSUME NEW t \in Threads, Works(t), Leave(t) \/ GoesOn(t)
      PROVE  LocksOK'
  <2>1. \A u \in Threads \ {t} : pc'[u] = pc[u] /\ job'[u] = job[u]
    BY <1>2, LeaveIs, MovesIs DEF GoesOn
  <2>2. pc'[t] = "commitOnboard" =>
            MailOnboarding(t) /\ job'[t].email = job[t].email
    <3>1. CASE Leave(t)
      BY <3>1, LeaveIs
    <3>2. CASE GoesOn(t)
      <4>1. PICK p \in Positions, j \in Jobs :
                /\ MemberMoves(t, p, j)
                /\ p = "commitOnboard" => MailOnboarding(t)
        BY <3>2 DEF GoesOn
      <4> QED
        BY <4>1, MovesIs DEF MemberMoves
    <3> QED
      BY <1>2, <3>1, <3>2
  <2>3. MailOnboarding(t) => /\ job[t].email \notin Reserved(t)
                             /\ job[t].email \notin Accounts
                             /\ Accounts' = Accounts
    BY DEF MailOnboarding, FreeAccount, rows, Accounts
  <2>4. ASSUME NEW v \in Threads \ {t}, pc[v] = "commitOnboard"
        PROVE  /\ job[v].email \notin Accounts'
               /\ job[v].email \in Reserved(t)
    <3>1. job[v].email \in Reserved(t)
      BY <2>4 DEF Reserved
    <3>2. job[v].email \notin Accounts
      BY <2>4 DEF LocksOK
    <3>3. CommitOnboard(t) => job[v].email # job[t].email
      BY <2>4 DEF CommitOnboard, LocksOK
    <3> QED
      BY <1>2, <3>1, <3>2, <3>3, AccountsGrow
  <2>5. ASSUME NEW v \in Threads, pc'[v] = "commitOnboard"
        PROVE  job'[v].email \notin Accounts'
    BY <2>1, <2>2, <2>3, <2>4, <2>5
  <2>6. ASSUME NEW v \in Threads, NEW u \in Threads \ {v},
               pc'[v] = "commitOnboard", pc'[u] = "commitOnboard"
        PROVE  job'[u].email # job'[v].email
    <3>1. CASE v # t /\ u # t
      BY <2>1, <2>6, <3>1 DEF LocksOK
    <3>2. CASE v = t
      <4>1. pc[u] = "commitOnboard" /\ job'[u] = job[u]
        BY <2>1, <2>6, <3>2
      <4> QED
        BY <2>2, <2>3, <2>4, <2>6, <3>2, <4>1
    <3>3. CASE u = t
      <4>1. pc[v] = "commitOnboard" /\ job'[v] = job[v]
        BY <2>1, <2>6, <3>3
      <4> QED
        BY <2>2, <2>3, <2>4, <2>6, <3>3, <4>1
    <3> QED
      BY <3>1, <3>2, <3>3
  <2> QED
    BY <2>5, <2>6 DEF LocksOK
<1>3. CASE HandStep
  <2>1. UNCHANGED <<pc, job>> /\ Accounts' = Accounts
    BY <1>3, HandIs DEF Accounts
  <2> QED
    BY <2>1 DEF LocksOK
<1> QED
  BY <1>1, <1>2, <1>3, StepKinds

LEMMA LoginsStayDistinct ==
    ASSUME TypeOK, PersonsOK, LocksOK, LoginsAreDistinct, MemberStep
    PROVE  LoginsAreDistinct'
<1>0. None \notin unowned
  BY DEF TypeOK
<1>1. ASSUME NEW t \in Threads, Begins(t)
      PROVE  LoginsAreDistinct'
  BY <1>1 DEF Begins, MemberAsks, rows, LoginsAreDistinct
<1>2. ASSUME NEW t \in Threads, Works(t)
      PROVE  LoginsAreDistinct'
  <2> DEFINE w == job[t].who
             e == job[t].email
  <2>0. PersonOK(pc[t], job[t])
    BY DEF PersonsOK
  <2>1. CASE Enrolls(t) \/ CommitOnboard(t)
    <3>1. /\ login' = [login EXCEPT ![w] = e] /\ unowned' = unowned
          /\ w \in People /\ e \in Emails /\ e \notin Accounts
      BY <2>0, <2>1 DEF Enrolls, CreateMember, CommitOnboard, AddMember,
         FreeAccount, LocksOK, PersonOK, People
    <3> QED
      BY <3>1 DEF LoginsAreDistinct, Accounts, TypeOK
  <2>2. CASE Edit(t)
    <3>1. CASE job[t].linked
      <4>1. /\ login' = [login EXCEPT ![w] = e] /\ unowned' = unowned
            /\ w \in People /\ e \in Emails /\ e \notin Accounts \ {login[w]}
        BY <2>0, <2>2, <3>1 DEF Edit, PersonOK, People
      <4>2. login[w] \notin unowned
        BY <4>1 DEF LoginsAreDistinct
      <4> QED
        BY <1>0, <4>1, <4>2 DEF LoginsAreDistinct, Accounts, TypeOK
    <3>2. CASE ~job[t].linked
      BY <2>2, <3>2 DEF Edit, LoginsAreDistinct
    <3> QED
      BY <3>1, <3>2
  <2>3. CASE Remove(t)
    <3>1. /\ login' = [login EXCEPT ![w] = None] /\ w \in People
          /\ unowned' = unowned \cup ({login[w]} \ {None})
      BY <2>0, <2>3 DEF Remove, PersonOK, People
    <3> QED
      BY <1>0, <3>1 DEF LoginsAreDistinct, TypeOK
  <2>4. CASE ApproveAssociate(t)
    <3>1. /\ login' = [login EXCEPT ![w] = e] /\ w \in People
          /\ unowned' = unowned \cup ({login[w]} \ {None})
          /\ e \in Emails /\ e \notin Accounts
      BY <2>0, <2>4 DEF ApproveAssociate, FreeAccount, PersonOK, Approving,
         People
    <3> QED
      BY <1>0, <3>1 DEF LoginsAreDistinct, Accounts, TypeOK
  <2>5. CASE CreateAdmin(t)
    <3>1. /\ login' = login /\ unowned' = unowned \cup {e}
          /\ e \in Emails /\ e \notin Accounts
      BY <2>0, <2>5 DEF CreateAdmin, FreeAccount, PersonOK
    <3> QED
      BY <3>1 DEF LoginsAreDistinct, Accounts
  <2>6. CASE \/ Reject(t) \/ ActivateResident(t) \/ StoreIdentity(t)
             \/ ActivateGuard(t) \/ Invite(t) \/ RefuseAssociate(t)
    BY <2>6 DEF Reject, ActivateResident, StoreIdentity, Activate,
       ActivateGuard, Invite, RefuseAssociate, LoginsAreDistinct
  <2>7. CASE \/ MailPassword(t) \/ MailOnboarding(t) \/ Draws(t) \/ ShowCode(t)
             \/ MissCode(t) \/ StoreDrawnCode(t) \/ Judge(t)
             \/ ValidateType(t) \/ CompleteProfile(t) \/ Fail(t)
             \/ Promote(t)
    BY <2>7 DEF MailPassword, MailOnboarding, Draws, Draw, ShowCode, MissCode,
       StoreDrawnCode, Judge, ValidateType, CompleteProfile, Fail, Promote,
       rows, LoginsAreDistinct
  <2> QED
    BY <1>2, <2>1, <2>2, <2>3, <2>4, <2>5, <2>6, <2>7
    DEF Works, RowStep, SideStep
<1>3. CASE HandStep
  BY <1>3, HandIs DEF LoginsAreDistinct
<1> QED
  BY <1>1, <1>2, <1>3 DEF MemberStep, Begins, Works

(* The rest of what a step writes about somebody, by the kind of person.   *)
LEMMA MembersKeepLogins ==
    ASSUME TypeOK, PersonsOK, VerdictsOK, MembersHaveLogins, MemberStep
    PROVE  MembersHaveLogins'
<1>1. ASSUME NEW t \in Threads, Begins(t)
      PROVE  MembersHaveLogins'
  BY <1>1 DEF Begins, MemberAsks, rows, ranks, MembersHaveLogins
<1>2. ASSUME NEW t \in Threads, Works(t), edited' = edited
      PROVE  MembersHaveLogins'
  <2> SUFFICES ASSUME NEW p \in Residents \cup Guards
               PROVE  /\ (status'[p] = "NONE") = (login'[p] = None)
                      /\ login'[p] = mail'[p] \/ p \in edited'
    BY DEF MembersHaveLogins
  <2>0. /\ p \in People \ Associates /\ PersonOK(pc[t], job[t])
        /\ (status[p] = "NONE") = (login[p] = None)
        /\ login[p] = mail[p] \/ p \in edited
    BY DEF PersonsOK, People, MembersHaveLogins
  <2>1. CASE p # job[t].who
    <3>1. KeepsRow(p)
      BY <1>2, <2>0, <2>1, OthersAreKept
    <3> QED
      BY <1>2, <2>0, <3>1 DEF KeepsRow
  <2>2. CASE p = job[t].who /\ (Enrolls(t) \/ CommitOnboard(t))
    <3>1. job[t].email \in Emails
      BY <2>0, <2>2 DEF Enrolls, CommitOnboard, PersonOK
    <3> QED
      BY <2>0, <2>2, <3>1 DEF Enrolls, CreateMember, CommitOnboard, AddMember,
         TypeOK
  <2>3. CASE p = job[t].who /\ (Reject(t) \/ ActivateResident(t)
                                \/ StoreIdentity(t) \/ ActivateGuard(t))
    <3>1. status[p] # "NONE"
      BY <2>0, <2>3 DEF Reject, ActivateResident, StoreIdentity, Activate,
         ActivateGuard, PersonOK, Activating
    <3> QED
      BY <1>2, <2>0, <2>3, <3>1 DEF Reject, ActivateResident, StoreIdentity,
         Activate, ActivateGuard, TypeOK
  <2>4. CASE p = job[t].who /\ (Invite(t) \/ Edit(t) \/ Remove(t)
                                \/ ApproveAssociate(t) \/ RefuseAssociate(t))
    BY <2>0, <2>4 DEF Invite, Edit, Remove, ApproveAssociate, RefuseAssociate,
       PersonOK, Approving
  <2>5. CASE SideStep(t) \/ Promote(t)
    BY <1>2, <2>0, <2>5 DEF SideStep, Promote, MailPassword, MailOnboarding,
       CreateAdmin, Draws, Draw, ShowCode, MissCode, StoreDrawnCode, Judge,
       ValidateType, CompleteProfile, Fail, rows
  <2> QED
    BY <1>2, <2>1, <2>2, <2>3, <2>4, <2>5 DEF Works, RowStep
<1>3. CASE UNCHANGED <<rows, ranks>>
  BY <1>3 DEF rows, ranks, MembersHaveLogins
<1>4. ASSUME NEW g \in Guards, NEW e \in Emails, NEW super \in BOOLEAN,
             UpdateGuard(g, e, super)
      PROVE  MembersHaveLogins'
  BY <1>4 DEF UpdateGuard, MembersHaveLogins, TypeOK, People
<1>5. ASSUME NEW t \in Threads, RowStep(t) \/ SideStep(t), UNCHANGED ranks
      PROVE  MembersHaveLogins'
  BY <1>2, <1>5 DEF Works, ranks
<1>6. ASSUME NEW t \in Threads, Promote(t)
      PROVE  MembersHaveLogins'
  BY <1>2, <1>6 DEF Works, Promote
<1> QED
  BY <1>1, <1>3, <1>4, <1>5, <1>6 DEF MemberStep, Begins, HandStep

LEMMA AssociatesKeepLogins ==
    ASSUME TypeOK, PersonsOK, VerdictsOK, KindsOK, AssociatesHaveLogins,
           MemberStep
    PROVE  AssociatesHaveLogins'
<1>1. ASSUME NEW t \in Threads, Begins(t)
      PROVE  AssociatesHaveLogins'
  <2>1. PICK p \in Positions, j \in Jobs : MemberAsks(t, p, j)
    BY <1>1 DEF Begins
  <2> QED
    BY <2>1, AsksIs DEF MemberAsks, rows, AssociatesHaveLogins
<1>2. ASSUME NEW t \in Threads, Works(t), Leave(t) \/ GoesOn(t)
      PROVE  AssociatesHaveLogins'
  <2> SUFFICES ASSUME NEW a \in Associates, a \notin overlapped'
               PROVE  login'[a] = IF status'[a] = "ACTIVE" THEN mail'[a] ELSE None
    BY DEF AssociatesHaveLogins
  <2>0. /\ a \in People \ (Residents \cup Guards) /\ PersonOK(pc[t], job[t])
        /\ overlapped' = overlapped
        /\ login[a] = IF status[a] = "ACTIVE" THEN mail[a] ELSE None
        /\ a = job[t].who => VerdictOK(pc[t], job[t])
    BY <1>2, LeaveIs, MovesIs
    DEF GoesOn, PersonsOK, VerdictsOK, People, AssociatesHaveLogins
  <2>1. CASE a # job[t].who
    <3>1. KeepsRow(a)
      BY <1>2, <2>0, <2>1, OthersAreKept
    <3> QED
      BY <2>0, <3>1 DEF KeepsRow
  <2>2. CASE a = job[t].who /\ (Enrolls(t) \/ CommitOnboard(t) \/ Reject(t)
                                \/ ActivateResident(t) \/ StoreIdentity(t)
                                \/ ActivateGuard(t))
    BY <2>0, <2>2 DEF Enrolls, CommitOnboard, Reject, ActivateResident,
       StoreIdentity, Activate, ActivateGuard, PersonOK
  <2>3. CASE a = job[t].who /\ Invite(t)
    BY <2>0, <2>3 DEF Invite, TypeOK
  <2>4. CASE a = job[t].who /\ Edit(t)
    <3>1. mail[a] # None
      BY <2>4 DEF Edit, Known, KindsOK
    <3>2. job[t].linked <=> status[a] = "ACTIVE"
      BY <2>0, <2>4, <3>1 DEF Edit, VerdictOK
    <3>3. mail'[a] = job[t].email /\ status'[a] = status[a]
      BY <2>0, <2>4 DEF Edit, TypeOK
    <3>4. CASE job[t].linked
      BY <2>0, <2>4, <3>2, <3>3, <3>4 DEF Edit, TypeOK
    <3>5. CASE ~job[t].linked
      BY <2>0, <2>4, <3>2, <3>3, <3>5 DEF Edit
    <3> QED
      BY <3>4, <3>5
  <2>5. CASE a = job[t].who /\ Remove(t)
    BY <2>0, <2>5 DEF Remove, TypeOK
  <2>6. CASE a = job[t].who /\ ApproveAssociate(t)
    BY <2>0, <2>6 DEF ApproveAssociate, VerdictOK, Approving, TypeOK
  <2>7. CASE a = job[t].who /\ RefuseAssociate(t)
    BY <2>0, <2>7 DEF RefuseAssociate, VerdictOK, TypeOK
  <2>8. CASE SideStep(t) \/ Promote(t)
    BY <2>0, <2>8 DEF SideStep, Promote, MailPassword, MailOnboarding,
       CreateAdmin, Draws, Draw, ShowCode, MissCode, StoreDrawnCode, Judge,
       ValidateType, CompleteProfile, Fail, rows
  <2> QED
    BY <1>2, <2>1, <2>2, <2>3, <2>4, <2>5, <2>6, <2>7, <2>8 DEF Works, RowStep
<1>3. CASE HandStep
  BY <1>3, HandIs DEF AssociatesHaveLogins, People
<1> QED
  BY <1>1, <1>2, <1>3, StepKinds

LEMMA RolesKept ==
    ASSUME TypeOK, RolesAgree, MemberStep
    PROVE  RolesAgree'
<1>1. ASSUME NEW t \in Threads, Promote(t)
      PROVE  RolesAgree'
  BY <1>1 DEF Promote, SetRole, RolesAgree
<1>2. ASSUME NEW g \in Guards, NEW e \in Emails, NEW super \in BOOLEAN,
             UpdateGuard(g, e, super)
      PROVE  RolesAgree'
  BY <1>2 DEF UpdateGuard, SetRole, RolesAgree
<1>3. CASE UNCHANGED ranks
  BY <1>3 DEF ranks, RolesAgree
<1> QED
  BY <1>1, <1>2, <1>3 DEF MemberStep, HandStep, MemberAsks

LEMMA PasswordsStayTrue ==
    ASSUME TypeOK, PersonsOK, VerdictsOK, PasswordsOpenAccounts, MemberStep
    PROVE  PasswordsOpenAccounts'
<1>1. ASSUME NEW t \in Threads, Begins(t)
      PROVE  PasswordsOpenAccounts'
  <2>1. PICK p \in Positions, j \in Jobs : MemberAsks(t, p, j)
    BY <1>1 DEF Begins
  <2>2. pc[t] = "idle" /\ UNCHANGED <<told, status, cut>>
    BY <2>1 DEF MemberAsks, Start, rows
  <2>3. \A u \in Threads : pc[u] = "commitOnboard"
            => pc'[u] = pc[u] /\ job'[u] = job[u]
    BY <2>1, <2>2, AsksIs
  <2> QED
    BY <2>2, <2>3 DEF PasswordsOpenAccounts
<1>2. ASSUME NEW t \in Threads, Works(t), Leave(t) \/ GoesOn(t)
      PROVE  PasswordsOpenAccounts'
  <2> DEFINE w == job[t].who
  <2>0. /\ PersonOK(pc[t], job[t])
        /\ \A u \in Threads \ {t} : pc'[u] = pc[u] /\ job'[u] = job[u]
    BY <1>2, LeaveIs, MovesIs DEF GoesOn, PersonsOK
  <2> SUFFICES ASSUME NEW p \in told'
               PROVE  \/ status'[p] # "NONE"
                      \/ p \in cut'
                      \/ \E u \in Threads : pc'[u] = "commitOnboard"
                                            /\ job'[u].who = p
    BY DEF PasswordsOpenAccounts
  <2>1. CASE p \notin told
    <3>1. CASE MailPassword(t)
      BY <2>0, <2>1, <3>1 DEF MailPassword, PersonOK, rows
    <3>2. CASE MailOnboarding(t)
      BY <2>1, <3>2 DEF MailOnboarding, GoTo, TypeOK
    <3>3. MailPassword(t) \/ MailOnboarding(t) \/ told' = told
      BY <1>2 DEF Works, RowStep, SideStep, Promote, Enrolls, CreateMember,
         CommitOnboard, Reject, ActivateResident, StoreIdentity, Activate,
         ActivateGuard, Invite, Edit, Remove, ApproveAssociate,
         RefuseAssociate, CreateAdmin, Draws, Draw, ShowCode, MissCode,
         StoreDrawnCode, Judge, ValidateType, CompleteProfile, Fail
    <3> QED
      BY <2>1, <3>1, <3>2, <3>3
  <2>2. CASE p \in People /\ status[p] # "NONE"
    BY <1>2, <2>2, RowsStay
  <2>3. CASE p \in cut
    <3>1. cut \subseteq cut'
      BY <1>2 DEF Works, RowStep, SideStep, Promote, Enrolls, CreateMember,
         CommitOnboard, Reject, ActivateResident, StoreIdentity, Activate,
         ActivateGuard, Invite, Edit, Remove, ApproveAssociate,
         RefuseAssociate, MailPassword, MailOnboarding, CreateAdmin, Draws,
         Draw, ShowCode, MissCode, StoreDrawnCode, Judge, ValidateType,
         CompleteProfile, Fail
    <3> QED
      BY <2>3, <3>1
  <2>4. CASE pc[t] = "commitOnboard" /\ w = p
    <3>1. CASE CommitOnboard(t)
      BY <2>0, <2>4, <3>1 DEF CommitOnboard, AddMember, TypeOK, PersonOK,
         People
    <3>2. CASE Fail(t)
      BY <2>4, <3>2 DEF Fail
    <3>3. CommitOnboard(t) \/ Fail(t)
      BY <1>2, <2>4 DEF Works, RowStep, SideStep, Promote, Enrolls, Reject,
         ActivateResident, StoreIdentity, Activate, ActivateGuard, Invite,
         Edit, Remove, ApproveAssociate, RefuseAssociate, MailPassword,
         MailOnboarding, CreateAdmin, Draws, Draw, ShowCode, MissCode,
         StoreDrawnCode, Judge, ValidateType, CompleteProfile
    <3> QED
      BY <3>1, <3>2, <3>3
  <2>5. CASE \E u \in Threads \ {t} : pc[u] = "commitOnboard" /\ job[u].who = p
    BY <2>0, <2>5
  <2> QED
    BY <2>1, <2>2, <2>3, <2>4, <2>5 DEF PasswordsOpenAccounts, TypeOK
<1>3. CASE HandStep
  BY <1>3, HandIs DEF PasswordsOpenAccounts
<1> QED
  BY <1>1, <1>2, <1>3, StepKinds

(* Gate codes. *)

LEMMA CodesStayValid ==
    ASSUME TypeOK, PersonsOK, VerdictsOK, CodesAreValid, MemberStep
    PROVE  CodesAreValid'
<1>1. ASSUME NEW t \in Threads, Begins(t)
      PROVE  CodesAreValid'
  <2>1. PICK p \in Positions, j \in Jobs : MemberAsks(t, p, j)
    BY <1>1 DEF Begins
  <2>2. UNCHANGED <<code, shown>> /\ overlapped \subseteq overlapped'
    BY <2>1, AsksIs DEF MemberAsks, rows
  <2> QED
    BY <2>2 DEF CodesAreValid
<1>2. ASSUME NEW t \in Threads, Works(t), Leave(t) \/ GoesOn(t)
      PROVE  CodesAreValid'
  <2> DEFINE w == job[t].who
             c == job[t].code
  <2>0. /\ PersonOK(pc[t], job[t]) /\ overlapped' = overlapped
    BY <1>2, LeaveIs, MovesIs DEF GoesOn, PersonsOK
  <2>1. ASSUME w \in Residents \cup Associates, StoreCode(w, c)
        PROVE  CodesAreValid'
    <3>1. c = None \/ \A q \in (IF w \in Residents THEN Residents
                                ELSE Associates) \ {w} : code[q] # c
      BY <2>1 DEF StoreCode, FreeCode, CodesOf
    <3>2. shown' = [shown EXCEPT ![w] = code'[w]]
      BY <2>1 DEF StoreCode
    <3>3. code' = IF c = None THEN code ELSE [code EXCEPT ![w] = c]
      BY <2>1 DEF StoreCode
    <3>4. \A q \in People \ {w} : code'[q] = code[q] /\ shown'[q] = shown[q]
      BY <2>1, <3>2, <3>3 DEF TypeOK, People
    <3>5. /\ shown'[w] = code'[w]
          /\ code'[w] = IF c = None THEN code[w] ELSE c
      BY <2>1, <3>2, <3>3 DEF TypeOK, People
    <3>6. \A q \in People \ overlapped' : shown'[q] \in {None, code'[q]}
      BY <2>0, <3>4, <3>5 DEF CodesAreValid
    <3>7. ASSUME NEW p \in People, NEW q \in People, p # q,
                 code'[p] = code'[q], code'[p] # None
          PROVE  ~({p, q} \subseteq Residents) /\ ~({p, q} \subseteq Associates)
      <4>1. CASE p # w /\ q # w
        BY <3>4, <3>7, <4>1 DEF CodesAreValid
      <4>2. CASE c = None
        <5>1. code' = code
          BY <3>3, <4>2
        <5> QED
          BY <3>7, <5>1 DEF CodesAreValid
      <4>3. CASE c # None /\ (p = w \/ q = w)
        BY <2>1, <3>1, <3>4, <3>5, <3>7, <4>3
      <4> QED
        BY <4>1, <4>2, <4>3
    <3> QED
      BY <3>6, <3>7 DEF CodesAreValid
  <2>2. CASE ActivateResident(t) \/ StoreIdentity(t)
    BY <2>1, <2>2 DEF ActivateResident, StoreIdentity, Activate
  <2>3. CASE ApproveAssociate(t)
    BY <2>0, <2>1, <2>3 DEF ApproveAssociate, PersonOK, Approving
  <2>4. CASE StoreDrawnCode(t)
    BY <2>0, <2>1, <2>4 DEF StoreDrawnCode, PersonOK
  <2>5. CASE ShowCode(t)
    <3>1. code' = code /\ shown' = [shown EXCEPT ![w] = code[w]]
      BY <2>5 DEF ShowCode, rows
    <3> QED
      BY <2>0, <3>1 DEF CodesAreValid, TypeOK
  <2>6. CASE Remove(t)
    <3>1. /\ code' = [code EXCEPT ![w] = None]
          /\ shown' = [shown EXCEPT ![w] = None]
      BY <2>6 DEF Remove
    <3> QED
      BY <2>0, <3>1 DEF CodesAreValid, TypeOK
  <2>7. CASE \/ Enrolls(t) \/ CommitOnboard(t) \/ Reject(t) \/ ActivateGuard(t)
             \/ Invite(t) \/ Edit(t) \/ RefuseAssociate(t)
    BY <2>0, <2>7 DEF Enrolls, CreateMember, CommitOnboard, AddMember, Reject,
       ActivateGuard, Invite, Edit, RefuseAssociate, CodesAreValid
  <2>8. CASE \/ MailPassword(t) \/ MailOnboarding(t) \/ CreateAdmin(t)
             \/ Draws(t) \/ MissCode(t) \/ Judge(t)
             \/ ValidateType(t) \/ CompleteProfile(t) \/ Fail(t)
             \/ Promote(t)
    BY <2>0, <2>8 DEF MailPassword, MailOnboarding, CreateAdmin, Draws, Draw,
       MissCode, Judge, ValidateType, CompleteProfile, Fail, Promote, rows,
       CodesAreValid
  <2> QED
    BY <1>2, <2>2, <2>3, <2>4, <2>5, <2>6, <2>7, <2>8
    DEF Works, RowStep, SideStep
<1>3. CASE HandStep
  BY <1>3, HandIs DEF CodesAreValid
<1> QED
  BY <1>1, <1>2, <1>3, StepKinds

(* Identities. *)

LEMMA NinsChange ==
    ASSUME TypeOK, PersonsOK, NEW t \in Threads, Works(t)
    PROVE  \A r \in Residents :
               \/ nin'[r] = nin[r]
               \/ nin'[r] = job[t].nin /\ job[t].nin # None /\ r = job[t].who
<1>1. CASE StoreIdentity(t)
  BY <1>1 DEF StoreIdentity, TypeOK, People
<1>2. CASE ActivateGuard(t)
  BY <1>2 DEF ActivateGuard, TypeOK, People
<1>3. CASE \/ Enrolls(t) \/ CommitOnboard(t) \/ Reject(t) \/ ActivateResident(t)
           \/ Invite(t) \/ Edit(t) \/ Remove(t) \/ ApproveAssociate(t)
           \/ RefuseAssociate(t)
  BY <1>3 DEF Enrolls, CreateMember, CommitOnboard, AddMember, Reject,
     ActivateResident, Activate, Invite, Edit, Remove, ApproveAssociate,
     RefuseAssociate
<1>4. CASE SideStep(t) \/ Promote(t)
  BY <1>4 DEF SideStep, Promote, MailPassword, MailOnboarding, CreateAdmin,
     Draws, Draw, ShowCode, MissCode, StoreDrawnCode, Judge, ValidateType,
     CompleteProfile, Fail, rows
<1> QED
  BY <1>1, <1>2, <1>3, <1>4 DEF Works, RowStep

LEMMA NinsKept ==
    ASSUME TypeOK, PersonsOK, VerdictsOK, NinsOK, MemberStep
    PROVE  NinsOK'
<1>1. ASSUME NEW t \in Threads, Begins(t)
      PROVE  NinsOK'
  <2>1. PICK p \in Positions, j \in Jobs : MemberAsks(t, p, j)
    BY <1>1 DEF Begins
  <2>2. nin' = nin /\ (j.nin # None => ~NinTaken(j.who, j.nin))
    BY <2>1 DEF MemberAsks, rows
  <2> QED
    BY <2>1, <2>2, AsksIs DEF NinsOK, NinTaken
<1>2. ASSUME NEW t \in Threads, Works(t), Leave(t) \/ GoesOn(t)
      PROVE  NinsOK'
  <2>1. /\ \A u \in Threads \ {t} : job'[u] = job[u]
        /\ contested' = contested
    BY <1>2, LeaveIs, MovesIs DEF GoesOn
  <2>2. job'[t].nin = None \/ (job'[t].nin = job[t].nin
                               /\ job'[t].who = job[t].who)
    <3>1. CASE Leave(t)
      BY <3>1, LeaveIs, NoJobIs
    <3>2. CASE GoesOn(t)
      BY <3>2, MovesIs DEF GoesOn, MemberMoves
    <3> QED
      BY <1>2, <3>1, <3>2
  <2> SUFFICES ASSUME NEW v \in Threads, job'[v].nin # None,
                      job'[v].nin \notin contested'
               PROVE  /\ ~NinTaken(job[v].who, job[v].nin)'
                      /\ \A u \in Threads \ {v} : job'[u].nin # job'[v].nin
    BY DEF NinsOK
  <2>3. job'[v].nin = job[v].nin /\ job'[v].who = job[v].who
    BY <2>1, <2>2
  <2>4. /\ ~NinTaken(job[v].who, job[v].nin)
        /\ \A u \in Threads \ {v} : job[u].nin # job[v].nin
    BY <2>1, <2>3 DEF NinsOK
  <2>5. ASSUME NEW r \in Residents, r # job[v].who
        PROVE  nin'[r] # job[v].nin
    <3>1. nin[r] # job[v].nin
      BY <2>4, <2>5 DEF NinTaken
    <3>2. job[t].nin # job[v].nin \/ t = v
      BY <2>4
    <3> QED
      BY <1>2, <2>5, <3>1, <3>2, NinsChange
  <2>6. \A u \in Threads \ {v} : job'[u].nin # job'[v].nin
    BY <2>1, <2>2, <2>3, <2>4
  <2> QED
    BY <2>3, <2>5, <2>6 DEF NinTaken
<1>3. CASE HandStep
  BY <1>3, HandIs DEF NinsOK, NinTaken
<1> QED
  BY <1>1, <1>2, <1>3, StepKinds

(* Profiles: what has nothing to do with apartment types ... *)

VerdictsTrue ==
    /\ \A p, q \in Residents :
          p # q /\ nin[p] = nin[q] => nin[p] \in contested \cup {None}
    /\ complete \subseteq agreed \cup overlapped

LEMMA VerdictsStayTrue ==
    ASSUME TypeOK, PersonsOK, VerdictsOK, NinsOK, VerdictsTrue, MemberStep
    PROVE  VerdictsTrue'
<1>1. ASSUME NEW t \in Threads, Begins(t)
      PROVE  VerdictsTrue'
  <2>1. PICK p \in Positions, j \in Jobs : MemberAsks(t, p, j)
    BY <1>1 DEF Begins
  <2> QED
    BY <2>1, AsksIs DEF MemberAsks, rows, VerdictsTrue
<1>2. ASSUME NEW t \in Threads, Works(t), Leave(t) \/ GoesOn(t)
      PROVE  VerdictsTrue'
  <2>0. /\ overlapped' = overlapped /\ contested' = contested
        /\ job[t].who \notin overlapped => VerdictOK(pc[t], job[t])
        /\ PersonOK(pc[t], job[t])
    BY <1>2, LeaveIs, MovesIs DEF GoesOn, VerdictsOK, PersonsOK
  <2>1. ASSUME NEW p \in Residents, NEW q \in Residents, p # q,
               nin'[p] = nin'[q]
        PROVE  nin'[p] \in contested' \cup {None}
    <3> DEFINE n == job[t].nin
    <3>1. CASE nin'[p] = nin[p] /\ nin'[q] = nin[q]
      BY <2>0, <2>1, <3>1 DEF VerdictsTrue
    <3>2. CASE n \in contested
      BY <1>2, <2>0, <2>1, <3>1, <3>2, NinsChange
    <3>3. CASE n \notin contested /\ n # None
      <4>1. \A r \in Residents \ {job[t].who} : nin[r] # n
        BY <3>3 DEF NinsOK, NinTaken
      <4> QED
        BY <1>2, <2>1, <3>1, <4>1, NinsChange
    <3>4. CASE n = None
      BY <1>2, <3>1, <3>4, NinsChange
    <3> QED
      BY <3>2, <3>3, <3>4
  <2>2. complete' \subseteq agreed' \cup overlapped'
    <3>0. complete \subseteq agreed \cup overlapped
      BY DEF VerdictsTrue
    <3>1. CASE ActivateResident(t) \/ StoreIdentity(t)
      <4>1. /\ agreed' = agreed
            /\ complete' = IF job[t].agreed THEN complete \cup {job[t].who}
                                            ELSE complete \ {job[t].who}
        BY <3>1 DEF ActivateResident, StoreIdentity, Activate
      <4>2. job[t].agreed => job[t].who \in agreed \cup overlapped
        BY <2>0, <3>1 DEF ActivateResident, StoreIdentity, Activate,
           VerdictOK, Completing
      <4> QED
        BY <2>0, <3>0, <4>1, <4>2
    <3>2. CASE CompleteProfile(t)
      <4>1. job[t].agreed => job[t].given = TRUE
        BY <2>0, <3>2 DEF CompleteProfile, PersonOK, Completing
      <4>2. CASE job[t].agreed
        <5>1. agreed' = agreed \cup {job[t].who}
          BY <3>2, <4>1, <4>2 DEF CompleteProfile
        <5>2. complete' \subseteq complete \cup {job[t].who}
          BY <3>2 DEF CompleteProfile
        <5> QED
          BY <2>0, <3>0, <5>1, <5>2
      <4>3. CASE ~job[t].agreed
        <5>1. agreed \ {job[t].who} \subseteq agreed'
          BY <3>2 DEF CompleteProfile
        <5>2. complete' = complete \ {job[t].who}
          BY <3>2, <4>3 DEF CompleteProfile
        <5> QED
          BY <2>0, <3>0, <5>1, <5>2
      <4> QED
        BY <4>2, <4>3
    <3>3. CASE agreed' = agreed /\ complete' = complete
      BY <2>0, <3>0, <3>3
    <3>4. \/ ActivateResident(t) \/ StoreIdentity(t) \/ CompleteProfile(t)
          \/ (agreed' = agreed /\ complete' = complete)
      BY <1>2 DEF Works, RowStep, SideStep, Promote, Enrolls, CreateMember,
         CommitOnboard, AddMember, Reject, ActivateGuard, Invite, Edit,
         Remove, ApproveAssociate, RefuseAssociate, MailPassword,
         MailOnboarding, CreateAdmin, Draws, Draw, ShowCode, MissCode,
         StoreDrawnCode, Judge, ValidateType, Fail, rows
    <3> QED
      BY <3>1, <3>2, <3>3, <3>4
  <2> QED
    BY <2>1, <2>2 DEF VerdictsTrue
<1>3. CASE HandStep
  BY <1>3, HandIs DEF VerdictsTrue
<1> QED
  BY <1>1, <1>2, <1>3, StepKinds

(* ... and what has.  Who is taken to have a type, and comes to lack it,   *)
(* is remembered.                                                          *)
LEMMA LackIsNoted ==
    ASSUME TypeOK, UNCHANGED estate \/ Supplied,
           NEW r \in Lacking', r \in Judged, r \in Lacking => r \in undone
    PROVE  r \in undone'
<1>1. CASE UNCHANGED estate
  BY <1>1 DEF estate, Lacking
<1>2. CASE Supplied
  BY <1>2 DEF Supplied, Furnish
<1> QED
  BY <1>1, <1>2

LEMMA TrustsKept ==
    ASSUME TypeOK, PersonsOK, VerdictsOK, TrustsOK, MemberStep
    PROVE  TrustsOK'
<1> SUFFICES ASSUME NEW u \in Threads, job'[u].typed, job'[u].sent # TRUE,
                    job'[u].who \in Lacking'
             PROVE  job'[u].who \in undone'
  BY DEF TrustsOK
<1>0. UNCHANGED estate \/ Supplied
  BY EstateIs
<1>1. ASSUME job[u].typed, job'[u].who = job[u].who, job'[u].sent = job[u].sent
      PROVE  job'[u].who \in undone'
  <2>1. job[u].who \in Judged
    BY <1>1 DEF Judged
  <2>2. job[u].who \in Lacking => job[u].who \in undone
    BY <1>1 DEF TrustsOK
  <2> QED
    BY <1>0, <1>1, <2>1, <2>2, LackIsNoted
<1>2. ASSUME NEW t \in Threads, Begins(t)
      PROVE  job'[u].who \in undone'
  <2>1. PICK p \in Positions, j \in Jobs : MemberAsks(t, p, j)
    BY <1>2 DEF Begins
  <2>2. CASE u # t
    BY <1>1, <2>1, <2>2, AsksIs
  <2>3. CASE u = t
    <3>1. j.who \in typed /\ UNCHANGED estate /\ job'[u] = j
      BY <2>1, <2>3, AsksIs DEF MemberAsks
    <3> QED
      BY <3>1 DEF estate, Lacking
  <2> QED
    BY <2>2, <2>3
<1>3. ASSUME NEW t \in Threads, Leave(t) \/ GoesOn(t), asked' = asked
      PROVE  job'[u].who \in undone'
  <2>1. CASE u # t
    BY <1>1, <1>3, <2>1, LeaveIs, MovesIs DEF GoesOn
  <2>2. CASE u = t
    <3>1. CASE Leave(t)
      BY <2>2, <3>1, LeaveIs, NoJobIs
    <3>2. CASE GoesOn(t)
      <4>1. PICK p \in Positions, j \in Jobs : MemberMoves(t, p, j)
        BY <3>2 DEF GoesOn
      <4>2. /\ job'[u].who = job[u].who /\ job'[u].sent = job[u].sent
            /\ job'[u].typed /\ asked => job[u].typed
        BY <2>2, <4>1, MovesIs DEF MemberMoves
      <4>3. asked
        BY <1>3 DEF Lacking
      <4> QED
        BY <1>1, <4>2, <4>3
    <3> QED
      BY <1>3, <3>1, <3>2
  <2> QED
    BY <2>1, <2>2
<1>4. CASE HandStep
  BY <1>1, <1>4, HandIs
<1> QED
  BY <1>2, <1>3, <1>4, StepKinds

LEMMA ProfilesStayTrue ==
    ASSUME TypeOK, PersonsOK, VerdictsOK, NinsOK, TrustsOK, ProfilesAreTrue,
           MemberStep
    PROVE  ProfilesAreTrue'
<1>0. VerdictsTrue
  BY DEF ProfilesAreTrue, VerdictsTrue
<1>1. VerdictsTrue'
  BY <1>0, VerdictsStayTrue
<1>2. UNCHANGED estate \/ Supplied
  BY EstateIs
<1>3. ASSUME NEW r \in complete', r \in Lacking'
      PROVE  r \in undone'
  <2>1. CASE r \in complete
    <3>1. r \in Judged /\ (r \in Lacking => r \in undone)
      BY <2>1 DEF Judged, ProfilesAreTrue
    <3> QED
      BY <1>2, <1>3, <3>1, LackIsNoted
  <2>2. ASSUME NEW t \in Threads, job[t].who = r, job[t].typed,
               job[t].sent # TRUE
        PROVE  r \in undone'
    <3>1. r \in Judged /\ (r \in Lacking => r \in undone)
      BY <2>2 DEF Judged, TrustsOK
    <3> QED
      BY <1>2, <1>3, <3>1, LackIsNoted
  <2>3. ASSUME r \notin complete, NEW t \in Threads, Works(t)
        PROVE  r \in undone'
    <3>0. PersonOK(pc[t], job[t])
      BY DEF PersonsOK
    <3>1. CASE ActivateResident(t) \/ StoreIdentity(t)
      <4>1. r = job[t].who /\ job[t].agreed /\ pc[t] = "activate"
        BY <1>3, <2>3, <3>1 DEF ActivateResident, StoreIdentity, Activate
      <4>2. job[t].typed /\ job[t].sent # TRUE
        BY <3>0, <4>1 DEF PersonOK, Activating
      <4> QED
        BY <2>2, <4>1, <4>2
    <3>2. CASE CompleteProfile(t)
      <4>1. r = job[t].who /\ job[t].agreed /\ pc[t] = "profile"
        BY <1>3, <2>3, <3>2 DEF CompleteProfile
      <4>2. job[t].typed
        BY <3>0, <4>1 DEF PersonOK
      <4>3. job[t].sent # TRUE
        <5>1. typed' = Choose(r, job[t].sent)
          BY <3>2, <4>1 DEF CompleteProfile, Furnish
        <5>2. r \notin typed'
          BY <1>3 DEF Lacking
        <5>3. job[t].sent = TRUE => r \in Choose(r, job[t].sent)
          BY DEF Choose
        <5> QED
          BY <5>1, <5>2, <5>3
      <4> QED
        BY <2>2, <4>1, <4>2, <4>3
    <3>3. \/ ActivateResident(t) \/ StoreIdentity(t) \/ CompleteProfile(t)
          \/ complete' = complete
      BY <2>3 DEF Works, RowStep, SideStep, Promote, Enrolls, CreateMember,
         CommitOnboard, AddMember, Reject, ActivateGuard, Invite, Edit,
         Remove, ApproveAssociate, RefuseAssociate, MailPassword,
         MailOnboarding, CreateAdmin, Draws, Draw, ShowCode, MissCode,
         StoreDrawnCode, Judge, ValidateType, Fail, rows
    <3> QED
      BY <1>3, <2>3, <3>1, <3>2, <3>3
  <2>4. CASE r \notin complete /\ ~\E t \in Threads : Works(t)
    <3>1. complete' = complete
      BY <2>4, StepKinds, HandIs DEF Begins, MemberAsks, rows
    <3> QED
      BY <1>3, <2>4, <3>1
  <2> QED
    BY <2>1, <2>3, <2>4
<1> QED
  BY <1>1, <1>3 DEF ProfilesAreTrue, VerdictsTrue

(* Decisions. *)

AdmissionKept(p) ==
    /\ status[p] = "ACTIVE" =>
          \/ status'[p] = "ACTIVE"
          \/ p \in Associates /\ status'[p] = "REMOVED"
    /\ status[p] = "REJECTED" =>
          \/ status'[p] = "REJECTED"
          \/ p \in Associates /\ status'[p] = "REMOVED"
          \/ p \in Residents /\ Verifying(p)

LEMMA AdmissionsStep ==
    ASSUME TypeOK, PersonsOK, VerdictsOK, KindsOK, MemberStep,
           NEW p \in People \ overlapped
    PROVE  AdmissionKept(p)
<1>1. ASSUME NEW t \in Threads, Begins(t)
      PROVE  AdmissionKept(p)
  BY <1>1 DEF Begins, MemberAsks, rows, AdmissionKept
<1>2. ASSUME NEW t \in Threads, Works(t)
      PROVE  AdmissionKept(p)
  <2>0. /\ PersonOK(pc[t], job[t])
        /\ p = job[t].who => VerdictOK(pc[t], job[t])
    BY DEF PersonsOK, VerdictsOK
  <2>1. CASE p # job[t].who
    BY <1>2, <2>1, OthersAreKept DEF KeepsRow, AdmissionKept
  <2>2. CASE p = job[t].who /\ (Enrolls(t) \/ Invite(t))
    BY <2>2 DEF Enrolls, CreateMember, Invite, AdmissionKept
  <2>3. CASE p = job[t].who /\ CommitOnboard(t)
    BY <2>0, <2>3 DEF CommitOnboard, VerdictOK, AdmissionKept
  <2>4. CASE p = job[t].who /\ Reject(t)
    BY <2>0, <2>4 DEF Reject, VerdictOK, AdmissionKept
  <2>5. CASE p = job[t].who /\ ActivateResident(t)
    <3>1. /\ status[p] # "REJECTED"
          /\ status'[p] = "ACTIVE"
      BY <2>0, <2>5 DEF ActivateResident, Activate, VerdictOK, Activating,
         TypeOK
    <3> QED
      BY <3>1 DEF AdmissionKept
  <2>6. CASE p = job[t].who /\ StoreIdentity(t)
    <3>1. p \in Residents /\ Verifying(p) /\ status'[p] = "ACTIVE"
      BY <2>6 DEF StoreIdentity, Activate, Verifying, TypeOK
    <3> QED
      BY <3>1 DEF AdmissionKept
  <2>7. CASE p = job[t].who /\ ActivateGuard(t)
    <3>1. status[p] # "REJECTED" /\ status'[p] = "ACTIVE"
      BY <2>7 DEF ActivateGuard, KindsOK, TypeOK
    <3> QED
      BY <3>1 DEF AdmissionKept
  <2>8. CASE p = job[t].who /\ Remove(t)
    <3>1. p \in Associates /\ status'[p] = "REMOVED"
      BY <2>0, <2>8 DEF Remove, PersonOK, TypeOK
    <3> QED
      BY <3>1 DEF AdmissionKept
  <2>9. CASE p = job[t].who /\ (ApproveAssociate(t) \/ RefuseAssociate(t))
    <3>1. status[p] = "PENDING"
      BY <2>0, <2>9 DEF ApproveAssociate, RefuseAssociate, VerdictOK,
         Approving
    <3> QED
      BY <3>1 DEF AdmissionKept
  <2>10. CASE Edit(t)
    BY <2>10 DEF Edit, AdmissionKept
  <2>11. CASE SideStep(t) \/ Promote(t)
    <3>1. status' = status
      BY <2>11 DEF SideStep, Promote, MailPassword, MailOnboarding,
         CreateAdmin, Draws, Draw, ShowCode, MissCode, StoreDrawnCode, Judge,
         ValidateType, CompleteProfile, Fail, rows
    <3> QED
      BY <3>1 DEF AdmissionKept
  <2> QED
    BY <1>2, <2>1, <2>2, <2>3, <2>4, <2>5, <2>6, <2>7, <2>8, <2>9, <2>10,
       <2>11
    DEF Works, RowStep
<1>3. CASE HandStep
  BY <1>3, HandIs DEF AdmissionKept
<1> QED
  BY <1>1, <1>2, <1>3 DEF MemberStep, Begins, Works

(* The invariant.                                                          *)
LEMMA MembersBegin == Init => MemberIInv
<1> SUFFICES ASSUME Init
             PROVE  MemberIInv
  OBVIOUS
<1> USE ScopesAssumption
<1>0. /\ scope.families \subseteq AllFamilies
      /\ mail \in [People -> Emails \cup {None}]
      /\ scope.admitted \subseteq Residents
      /\ \A p, q \in Residents \cup Guards :
            p # q /\ mail[p] = mail[q] => mail[p] = None
  BY DEF Init
<1>1. \A p \in People :
          /\ status[p] = IF mail[p] = None THEN "NONE"
                         ELSE IF p \in scope.admitted THEN "ACTIVE" ELSE "PENDING"
          /\ login[p] = IF p \in Associates THEN None ELSE mail[p]
          /\ nin[p] = None /\ code[p] = None /\ shown[p] = None
  BY DEF Init
<1>2. \A t \in Threads : pc[t] = "idle" /\ job[t] = NoJob
  BY DEF Init
<1>3. TypeOK
  BY <1>0, NoJobIs DEF Init, TypeOK, Statuses, Positions
<1>4. PersonsOK /\ PersonsApart /\ VerdictsOK /\ LocksOK /\ NinsOK /\ TrustsOK
  BY <1>2, NoJobIs
  DEF PersonsOK, PersonsApart, VerdictsOK, LocksOK, NinsOK, TrustsOK
<1>5. KindsOK
  BY <1>0, <1>1 DEF KindsOK, People
<1>6. MembersHaveLogins
  BY <1>0, <1>1 DEF MembersHaveLogins, People
<1>7. AssociatesHaveLogins
  BY <1>0, <1>1 DEF AssociatesHaveLogins, People
<1>8. RolesAgree /\ PasswordsOpenAccounts
  BY DEF Init, RolesAgree, PasswordsOpenAccounts
<1>9. LoginsAreDistinct
  BY <1>0, <1>1 DEF Init, LoginsAreDistinct, People
<1>10. CodesAreValid /\ ProfilesAreTrue
  BY <1>1 DEF Init, CodesAreValid, ProfilesAreTrue, People
<1> QED
  BY <1>3, <1>4, <1>5, <1>6, <1>7, <1>8, <1>9, <1>10 DEF MemberIInv,
     LoginsAgree

LEMMA MembersGoOn == MemberIInv /\ Next => MemberIInv'
<1> SUFFICES ASSUME MemberIInv, Next
             PROVE  MemberIInv'
  OBVIOUS
<1>1. MemberStep
  BY MemberStepIs DEF MemberIInv
<1>2. TypeOK' /\ PersonsOK' /\ PersonsApart' /\ VerdictsOK'
  BY <1>1, TypesKept, PersonsKept, ApartKept, VerdictsKept DEF MemberIInv
<1>3. KindsOK' /\ LocksOK' /\ NinsOK' /\ TrustsOK'
  BY <1>1, KindsKept, LocksKept, NinsKept, TrustsKept DEF MemberIInv
<1>4. LoginsAgree'
  BY <1>1, MembersKeepLogins, AssociatesKeepLogins, RolesKept,
     LoginsStayDistinct, PasswordsStayTrue DEF MemberIInv, LoginsAgree
<1>5. CodesAreValid' /\ ProfilesAreTrue'
  BY <1>1, CodesStayValid, ProfilesStayTrue DEF MemberIInv
<1> QED
  BY <1>2, <1>3, <1>4, <1>5 DEF MemberIInv

LEMMA MembersStand == MemberIInv /\ UNCHANGED vars => MemberIInv'
<1> SUFFICES ASSUME MemberIInv, UNCHANGED vars
             PROVE  MemberIInv'
  OBVIOUS
<1>1. UNCHANGED <<scope, status, mail, login, unowned, nin, code, agreed,
                  complete, asked, typed, undone, superGuards, superUsers, edited, pc,
                  job, shown, told, overlapped, contested, cut>>
  BY DEF vars, rows, estate, ranks, request
<1>2. TypeOK' /\ KindsOK'
  BY <1>1 DEF MemberIInv, TypeOK, KindsOK
<1>3. PersonsOK' /\ PersonsApart' /\ VerdictsOK'
  BY <1>1 DEF MemberIInv, PersonsOK, PersonsApart, VerdictsOK, PersonOK,
     VerdictOK, Activating, Approving, Completing
<1>4. LocksOK' /\ NinsOK' /\ TrustsOK'
  BY <1>1 DEF MemberIInv, LocksOK, NinsOK, TrustsOK, Lacking, Accounts,
     NinTaken
<1>5. LoginsAgree'
  BY <1>1 DEF MemberIInv, LoginsAgree, MembersHaveLogins,
     AssociatesHaveLogins, RolesAgree, LoginsAreDistinct,
     PasswordsOpenAccounts
<1>6. CodesAreValid' /\ ProfilesAreTrue'
  BY <1>1 DEF MemberIInv, CodesAreValid, ProfilesAreTrue, Lacking
<1> QED
  BY <1>2, <1>3, <1>4, <1>5, <1>6 DEF MemberIInv

HIDE PeopleAssumption
HIDE NoneAssumption

-----------------------------------------------------------------------------
(* The theorems, of every behaviour of the services.                       *)

(* A behaviour that follows monthly keeps to its invariant.                *)
MonthlyPart == service = "monthly" => MonthlyIInv

LEMMA MonthlyPartInit == ServicesInit => MonthlyPart
  BY MonthlyInitIInv DEF ServicesInit, MonthlyPart

LEMMA MonthlyPartStep ==
    ASSUME MonthlyPart, [ServicesNext]_services
    PROVE  /\ MonthlyPart'
           /\ service = "monthly" => [M!Next]_(M!vars)
<1>1. service' = service
  BY DEF ServicesNext, services
<1>2. service = "monthly" => [M!Next]_(M!vars)
  <2>1. CASE ServicesNext
    BY <2>1 DEF ServicesNext
  <2>2. CASE UNCHANGED services
    <3>1. UNCHANGED monthly
      BY <2>2 DEF services
    <3> QED
      BY <3>1 DEF monthly, M!vars, M!tables, M!worker
  <2> QED
    BY <2>1, <2>2
<1> QED
  BY <1>1, <1>2, MonthlyStepIInv DEF MonthlyPart

LEMMA MonthlyPartHolds == ServicesSpec => []MonthlyPart
<1>1. MonthlyPart /\ [ServicesNext]_services => MonthlyPart'
  BY MonthlyPartStep
<1> QED
  BY MonthlyPartInit, <1>1, PTL DEF ServicesSpec

(* Nobody who is due falls through a round of the monthly levy, however    *)
(* registrations, approvals and failures fall between its steps.           *)
THEOREM EveryoneIsAlwaysCharged == ServicesSpec => []EveryoneIsCharged
<1>1. MonthlyPart => EveryoneIsCharged
  BY DEF MonthlyPart, MonthlyIInv, EveryoneIsCharged
<1> QED
  BY <1>1, MonthlyPartHolds, PTL

(* A behaviour that follows setup keeps to its invariant.                  *)
SetupPart == service = "setup" => SetupIInv

LEMMA SetupPartInit == ServicesInit => SetupPart
  BY SetupInitIInv DEF ServicesInit, SetupPart

LEMMA SetupPartStep ==
    ASSUME SetupPart, [ServicesNext]_services
    PROVE  /\ SetupPart'
           /\ service = "setup" => [E!Next]_(E!vars)
<1>1. service' = service
  BY DEF ServicesNext, services
<1>2. service = "setup" => [E!Next]_(E!vars)
  <2>1. CASE ServicesNext
    BY <2>1 DEF ServicesNext
  <2>2. CASE UNCHANGED services
    <3>1. UNCHANGED setup
      BY <2>2 DEF services
    <3> QED
      BY <3>1 DEF setup, E!vars, E!tables
  <2> QED
    BY <2>1, <2>2
<1> QED
  BY <1>1, <1>2, SetupStepIInv DEF SetupPart

LEMMA SetupPartHolds == ServicesSpec => []SetupPart
<1>1. SetupPart /\ [ServicesNext]_services => SetupPart'
  BY SetupPartStep
<1> QED
  BY SetupPartInit, <1>1, PTL DEF ServicesSpec

(* A type in use is kept, a charge follows the prices it was read from,    *)
(* and no two types have names that differ in case only.                   *)
THEOREM SetupAlwaysHolds == ServicesSpec => SetupHolds
<1>1. ASSUME SetupPart, [ServicesNext]_services
      PROVE  [service = "setup" => E!UseIsKept /\ E!ChargesFollowPrices
                                   /\ E!NamesDiffer']_services
  <2>1. service = "setup" => SetupIInv' /\ E!UseIsKept /\ E!ChargesFollowPrices
    BY <1>1, SetupPartStep, SetupStepIInv DEF SetupPart
  <2> QED
    BY <2>1 DEF SetupIInv
<1> QED
  BY <1>1, SetupPartHolds, PTL DEF ServicesSpec, SetupHolds

(* A behaviour that follows credentials keeps to its invariant.            *)
LoginPart == service = "credentials" => LoginIInv

LEMMA LoginPartInit == ServicesInit => LoginPart
  BY LoginInitIInv DEF ServicesInit, LoginPart

LEMMA LoginPartStep ==
    ASSUME LoginPart, [ServicesNext]_services
    PROVE  /\ LoginPart'
           /\ service = "credentials" => [C!Next]_(C!vars)
<1>1. service' = service
  BY DEF ServicesNext, services
<1>2. service = "credentials" => [C!Next]_(C!vars)
  <2>1. CASE ServicesNext
    BY <2>1 DEF ServicesNext
  <2>2. CASE UNCHANGED services
    <3>1. UNCHANGED credentials
      BY <2>2 DEF services
    <3> QED
      BY <3>1 DEF credentials, C!vars, C!rows, C!request, C!history
  <2> QED
    BY <2>1, <2>2
<1> QED
  BY <1>1, <1>2, LoginStepIInv DEF LoginPart

LEMMA LoginPartHolds == ServicesSpec => []LoginPart
<1>1. LoginPart /\ [ServicesNext]_services => LoginPart'
  BY LoginPartStep
<1> QED
  BY LoginPartInit, <1>1, PTL DEF ServicesSpec

(* A code takes few guesses, leaves no more than one code that can be used *)
(* and sets a password at most once, for whom it was mailed to.            *)
THEOREM ResetsAreAlwaysEarned == ServicesSpec => []ResetsAreEarned
<1>1. ASSUME LoginPart
      PROVE  ResetsAreEarned
  <2>1. LoginIInv => C!AttemptsBounded /\ C!OneLiveCode
    BY ResetsFollow DEF C!AttemptsBounded, C!OneLiveCode, C!Cardinality,
       Cardinality
  <2> QED
    BY <1>1, <2>1, ResetsFollow DEF LoginPart, ResetsAreEarned
<1> QED
  BY <1>1, LoginPartHolds, PTL

(* A password or a PIN changes at the hand of who knew it, held a code     *)
(* that was mailed to its owner, or, the PIN alone, of who is logged in.   *)
THEOREM SecretsAreAlwaysReplacedKnowingly ==
    ServicesSpec => SecretsAreReplacedKnowingly
<1>1. ASSUME LoginPart, [ServicesNext]_services
      PROVE  [service = "credentials" => C!ReplacedKnowingly]_services
  BY <1>1, LoginPartStep, LoginStepIInv DEF LoginPart
<1> QED
  BY <1>1, LoginPartHolds, PTL DEF ServicesSpec, SecretsAreReplacedKnowingly

(* A behaviour that follows community keeps to its invariant.              *)
CommunityPart == service = "community" => CommunityIInv

LEMMA CommunityPartInit == ServicesInit => CommunityPart
  BY CommunityInitIInv DEF ServicesInit, CommunityPart

LEMMA CommunityPartStep ==
    ASSUME CommunityPart, [ServicesNext]_services
    PROVE  /\ CommunityPart'
           /\ service = "community" => [Y!Next]_(Y!vars)
<1>1. service' = service
  BY DEF ServicesNext, services
<1>2. service = "community" => [Y!Next]_(Y!vars)
  <2>1. CASE ServicesNext
    BY <2>1 DEF ServicesNext
  <2>2. CASE UNCHANGED services
    <3>1. UNCHANGED community
      BY <2>2 DEF services
    <3> QED
      BY <3>1 DEF community, Y!vars, Y!content, Y!history
  <2> QED
    BY <2>1, <2>2
<1> QED
  BY <1>1, <1>2, CommunityStepIInv DEF CommunityPart

LEMMA CommunityPartHolds == ServicesSpec => []CommunityPart
<1>1. CommunityPart /\ [ServicesNext]_services => CommunityPart'
  BY CommunityPartStep
<1> QED
  BY CommunityPartInit, <1>1, PTL DEF ServicesSpec

(* Votes and messages come from requests judged before the poll or room    *)
(* was closed, votes for cleared residents from who is or was cleared.     *)
THEOREM EntriesAreAlwaysAllowed == ServicesSpec => EntriesAreAllowed
<1>1. ASSUME CommunityPart, [ServicesNext]_services
      PROVE  [service = "community" => Y!EntriesAllowed]_services
  BY <1>1, CommunityPartStep, StepAllows DEF CommunityPart
<1> QED
  BY <1>1, CommunityPartHolds, PTL DEF ServicesSpec, EntriesAreAllowed

(* Counts agree with rows, what exists once exists once, tickets and pins  *)
(* agree with what was done to them, an announcement that was created      *)
(* pinned included.                                                        *)
THEOREM RecordsAlwaysAgree == ServicesSpec => []RecordsAgree
<1>1. ASSUME CommunityPart
      PROVE  RecordsAgree
  BY <1>1, RecordsFollow DEF CommunityPart, RecordsAgree
<1> QED
  BY <1>1, CommunityPartHolds, PTL

(* A behaviour that follows membership keeps to its invariant.             *)
MembershipPart == service = "membership" => MemberIInv

LEMMA MembershipPartInit == ServicesInit => MembershipPart
  BY MembersBegin DEF ServicesInit, MembershipPart

LEMMA MembershipPartStep ==
    ASSUME MembershipPart, [ServicesNext]_services
    PROVE  /\ MembershipPart'
           /\ service = "membership" => [Next]_vars
           /\ service # "membership" => UNCHANGED vars
<1>1. service' = service
  BY DEF ServicesNext, services
<1>2. service = "membership" => [Next]_vars
  BY DEF ServicesNext, services
<1>3. service # "membership" => UNCHANGED vars
  BY DEF ServicesNext, services
<1> QED
  BY <1>1, <1>2, <1>3, MembersGoOn, MembersStand DEF MembershipPart

LEMMA MembershipPartHolds == ServicesSpec => []MembershipPart
<1>1. MembershipPart /\ [ServicesNext]_services => MembershipPart'
  BY MembershipPartStep
<1> QED
  BY MembershipPartInit, <1>1, PTL DEF ServicesSpec

(* Every variable of every service keeps its type; people, their rows and  *)
(* their logins agree, and no login is shared; the code a person was last  *)
(* shown is the one that opens the gate, unless requests overlapped, and   *)
(* no two residents share a code, nor do two co-residents.  Residents      *)
(* share a NIN only if both verified it at a time, a complete profile has  *)
(* its consents unless requests overlapped, and the apartment type the     *)
(* estate asks for unless the type went or was first asked for when the    *)
(* profile had been judged.                                                *)
THEOREM MembersAreAlwaysTrue == ServicesSpec => []MembersAreTrue
<1>1. ASSUME MembershipPart, LoginPart, CommunityPart, SetupPart, MonthlyPart
      PROVE  MembersAreTrue
  <2>1. TypesOK
    BY <1>1 DEF TypesOK, MembershipPart, MemberIInv, LoginPart, LoginIInv,
       CommunityPart, CommunityIInv, SetupPart, SetupIInv, MonthlyPart,
       MonthlyIInv
  <2> QED
    BY <1>1, <2>1 DEF MembersAreTrue, MembershipPart, MemberIInv
<1> QED
  BY <1>1, MembershipPartHolds, LoginPartHolds, CommunityPartHolds,
     SetupPartHolds, MonthlyPartHolds, PTL

(* Whoever is admitted stays so and whoever is rejected stays rejected,    *)
(* until removed or identified, unless requests about them overlapped.     *)
THEOREM AdmissionsAlwaysHold == ServicesSpec => AdmissionsHold
<1>1. ASSUME MembershipPart, [ServicesNext]_services
      PROVE  [\A p \in People \ overlapped : AdmissionKept(p)]_vars
  <2>1. CASE service = "membership" /\ Next
    <3>1. MemberStep
      BY <1>1, <2>1, MemberStepIs DEF MembershipPart, MemberIInv
    <3> QED
      BY <1>1, <2>1, <3>1, AdmissionsStep DEF MembershipPart, MemberIInv
  <2>2. CASE UNCHANGED vars
    BY <2>2
  <2> QED
    BY <1>1, <2>1, <2>2, MembershipPartStep
<1> QED
  BY <1>1, MembershipPartHolds, PTL DEF ServicesSpec, AdmissionsHold,
     AdmissionKept
=============================================================================
