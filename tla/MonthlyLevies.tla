---------------------------- MODULE MonthlyLevies ----------------------------
(***************************************************************************)
(* The levy of every month (src/apis/finance, getOrCreateMonthlyLevy to    *)
(* tryPayOutstandingMonthlyLevies): a cron job on the first of the month   *)
(* gives it to every resident who is approved, one after the other, and    *)
(* requests of a single resident (a review, a verified identity, a         *)
(* payment) give it to that resident.  The assignment is PAID from the     *)
(* start, the wallet is not touched.                                       *)
(*                                                                         *)
(* Each of them is a transaction that looks for the levy and for the       *)
(* assignment and creates what is missing; unique keys stop a second one.  *)
(***************************************************************************)
EXTENDS Integers, Server

CONSTANTS
    Cron,           \* the round of the cron job
    Residents,
    MaxMonth        \* bound on the calendar

Workers == Threads \cup {Cron}
Months  == 0..MaxMonth

VARIABLES
    month,          \* currentMonthlyPeriod
    due,            \* the cron job's time has come
    eligible,       \* residents with status ACTIVE and kycStatus COMPLETED
    levies,         \* months whose Levy row is committed
    charged,        \* LevyAssignment rows, by month and resident
    holder,         \* the transaction that has inserted a month's levy and
                    \* not committed: others that want it wait
    stage, who, period, found, \* a worker: position, resident, month, whether
                               \* it found the assignment
    unvisited,      \* residents the round has still to visit
    listed,         \* history: months and residents a round set out to visit
    abandoned,      \* history: those it did not come to
    revoked         \* history: residents who were eligible and are not always

tables == <<month, due, eligible, levies, charged, holder>>
worker == <<stage, who, period, found, unvisited>>
vars   == <<tables, worker, listed, abandoned, revoked>>

Init ==
    /\ month = 0 /\ due = TRUE
    /\ eligible = {} /\ levies = {} /\ charged = {}
    /\ holder = [m \in Months |-> None]
    /\ stage = [w \in Workers |-> "idle"]
    /\ who = [w \in Workers |-> None]
    /\ period = [w \in Workers |-> 0]
    /\ found = [w \in Workers |-> FALSE]
    /\ unvisited = {}
    /\ listed = {} /\ abandoned = {} /\ revoked = {}

-----------------------------------------------------------------------------
(* The world. *)

(* (A round is over before the month is, and judged before the next one.)  *)
TurnMonth ==
    /\ month < MaxMonth /\ ~due /\ stage[Cron] = "idle"
    /\ month' = month + 1 /\ due' = TRUE
    /\ listed' = {} /\ abandoned' = {} /\ revoked' = {}
    /\ UNCHANGED <<eligible, levies, charged, holder, worker>>

(* reviewResident and verifyNinOnly. *)
Approve(r) ==
    /\ eligible' = eligible \cup {r}
    /\ UNCHANGED <<month, due, levies, charged, holder, worker, listed,
                   abandoned, revoked>>

Reject(r) ==
    /\ r \in eligible
    /\ eligible' = eligible \ {r} /\ revoked' = revoked \cup {r}
    /\ UNCHANGED <<month, due, levies, charged, holder, worker, listed,
                   abandoned>>

-----------------------------------------------------------------------------
(* generateMonthlyResidentLevies. *)

StartRound ==
    /\ due /\ stage[Cron] = "idle"
    /\ due' = FALSE
    /\ unvisited' = eligible
    /\ listed' = listed \cup ({month} \X eligible)
    /\ period' = [period EXCEPT ![Cron] = month]
    /\ stage' = [stage EXCEPT ![Cron] = "loop"]
    /\ UNCHANGED <<month, eligible, levies, charged, holder, who, found,
                   abandoned, revoked>>

(* The process is down at midnight, or the first query fails: nothing      *)
(* comes back to the month.                                                *)
MissRound ==
    /\ due /\ stage[Cron] = "idle"
    /\ due' = FALSE
    /\ UNCHANGED <<month, eligible, levies, charged, holder, worker, listed,
                   abandoned, revoked>>

NextResident ==
    /\ stage[Cron] = "loop" /\ unvisited # {}
    /\ \E r \in unvisited :
          /\ who' = [who EXCEPT ![Cron] = r]
          /\ unvisited' = unvisited \ {r}
    /\ stage' = [stage EXCEPT ![Cron] = "check"]
    /\ UNCHANGED <<tables, period, found, listed, abandoned, revoked>>

EndRound ==
    /\ stage[Cron] = "loop" /\ unvisited = {}
    /\ stage' = [stage EXCEPT ![Cron] = "idle"]
    /\ period' = [period EXCEPT ![Cron] = 0]
    /\ UNCHANGED <<tables, who, found, unvisited, listed, abandoned, revoked>>

-----------------------------------------------------------------------------
(* ensureMonthlyResidentLevyForResident, one transaction. *)

BeginEnsure(t, r) ==
    /\ stage[t] = "idle"
    /\ stage' = [stage EXCEPT ![t] = "check"]
    /\ who' = [who EXCEPT ![t] = r]
    /\ period' = [period EXCEPT ![t] = month]
    /\ UNCHANGED <<tables, found, unvisited, listed, abandoned, revoked>>

(* What a worker does when it is done with a resident. *)
After_Once(w) == "idle"
After(w) == IF w = Cron THEN "loop" ELSE "idle"

Finish(w) ==
    /\ stage' = [stage EXCEPT ![w] = After(w)]
    /\ who' = [who EXCEPT ![w] = None]
    /\ found' = [found EXCEPT ![w] = FALSE]
    /\ period' = IF w = Cron THEN period ELSE [period EXCEPT ![w] = 0]
    /\ UNCHANGED <<unvisited, listed, abandoned, revoked>>

Check(w) ==
    /\ stage[w] = "check"
    /\ IF who[w] \in eligible
       THEN /\ stage' = [stage EXCEPT ![w] = "upsert"]
            /\ UNCHANGED <<who, period, found, unvisited, listed, abandoned,
                           revoked>>
       ELSE Finish(w)
    /\ UNCHANGED tables

(* An insert waits for a transaction that has inserted the same key.       *)
UpsertLevy(w) ==
    LET m == period[w] IN
    /\ stage[w] = "upsert" /\ holder[m] = None
    /\ holder' = [holder EXCEPT ![m] = IF m \in levies THEN None ELSE w]
    /\ stage' = [stage EXCEPT ![w] = "find"]
    /\ UNCHANGED <<month, due, eligible, levies, charged, who, period, found,
                   unvisited, listed, abandoned, revoked>>

FindAssignment(w) ==
    /\ stage[w] = "find"
    /\ found' = [found EXCEPT ![w] = <<period[w], who[w]>> \in charged]
    /\ stage' = [stage EXCEPT ![w] = "write"]
    /\ UNCHANGED <<tables, who, period, unvisited, listed, abandoned, revoked>>

Released(w) == [m \in Months |-> IF holder[m] = w THEN None ELSE holder[m]]

(* The update of the assignment that was found, or the creation of one;    *)
(* with the commit.                                                        *)
WriteAssignment(w) ==
    LET key == <<period[w], who[w]>> IN
    /\ stage[w] = "write"
    /\ found[w] \/ key \notin charged
    /\ charged' = charged \cup {key}
    /\ levies' = levies \cup {period[w]}
    /\ holder' = Released(w)
    /\ Finish(w)
    /\ UNCHANGED <<month, due, eligible>>

(* The key is taken, an await throws or the process dies.  The cron job    *)
(* catches what is thrown outside of its loop: the round is over.          *)
Fail(w) ==
    /\ stage[w] # "idle"
    /\ holder' = Released(w)
    /\ stage' = [stage EXCEPT ![w] = "idle"]
    /\ who' = [who EXCEPT ![w] = None]
    /\ found' = [found EXCEPT ![w] = FALSE]
    /\ period' = [period EXCEPT ![w] = 0]
    /\ IF w = Cron
       THEN /\ unvisited' = {}
            /\ abandoned' = abandoned \cup
                 ({period[w]} \X (unvisited \cup ({who[w]} \ {None})))
       ELSE UNCHANGED <<unvisited, abandoned>>
    /\ UNCHANGED <<month, due, eligible, levies, charged, listed, revoked>>

-----------------------------------------------------------------------------
Work(w) ==
    \/ Check(w) \/ UpsertLevy(w) \/ FindAssignment(w) \/ WriteAssignment(w)
    \/ Fail(w)

Next ==
    \/ TurnMonth
    \/ StartRound \/ MissRound \/ NextResident \/ EndRound
    \/ \E r \in Residents : Approve(r) \/ Reject(r)
    \/ \E t \in Threads, r \in Residents : BeginEnsure(t, r)
    \/ \E w \in Workers : Work(w)

Spec == Init /\ [][Next]_vars

-----------------------------------------------------------------------------
TypeOK ==
    /\ month \in Months /\ due \in BOOLEAN
    /\ eligible \subseteq Residents /\ unvisited \subseteq Residents
    /\ levies \subseteq Months
    /\ charged \subseteq Months \X Residents
    /\ holder \in [Months -> Workers \cup {None}]
    /\ stage \in [Workers ->
                    {"idle", "loop", "check", "upsert", "find", "write"}]
    /\ who \in [Workers -> Residents \cup {None}]
    /\ period \in [Workers -> Months] /\ found \in [Workers -> BOOLEAN]

(* Safety.  Nobody falls through a round: whoever it set out to visit is   *)
(* still to come, has the levy of that month, or the round broke off before*)
(* it got there, whatever requests do for the same resident at that time   *)
(* (generateMonthlyResidentLevies), unless the approval was taken back.    *)
(* And no levy is given without the row all residents share.               *)
ToVisit == IF stage[Cron] = "idle" THEN {}
           ELSE {period[Cron]} \X (unvisited \cup ({who[Cron]} \ {None}))

EveryoneIsCharged ==
    /\ \A entry \in listed \ (charged \cup abandoned \cup ToVisit) :
          entry[2] \in revoked
    /\ \A entry \in charged : entry[1] \in levies
=============================================================================
