------------------------- MODULE EstateWithdrawals -------------------------
(***************************************************************************)
(* Money going out of an estate's wallet:                                  *)
(* finance.service.ts, withdrawFromEstateWallet.                           *)
(*                                                                         *)
(* The amount is reserved in the wallet, with a PENDING row, before        *)
(* Paystack is asked to transfer it; when anything after the reservation   *)
(* throws, the reservation is undone and the row is marked FAILED.  The    *)
(* process may die between any two steps, and nothing resumes what it was  *)
(* doing.                                                                  *)
(***************************************************************************)
EXTENDS Integers, FiniteSets, FiniteSetsExt, Server

CONSTANTS
    Withdrawals,    \* references of withdrawals; every request makes its own
    Amount,         \* [withdrawal -> amount]
    Levies,         \* levy payments that may credit the wallet
    LevyAmount      \* [levy payment -> amount]

ASSUME AmountsAssumption ==
    /\ Amount \in [Withdrawals -> Nat \ {0}]
    /\ LevyAmount \in [Levies -> Nat \ {0}]
    /\ IsFiniteSet(Withdrawals) /\ IsFiniteSet(Levies)
ASSUME ThreadsAssumption == IsFiniteSet(Threads) /\ Threads # {}
ASSUME NoneAssumption == None \notin Withdrawals

VARIABLES
    balance,        \* Wallet.balance of the estate
    collected,      \* levy payments credited to it
    row,            \* WalletTransaction.status of a withdrawal
    sent,           \* Paystack: transfers accepted
    unanswered,     \* history: transfers that threw after Paystack accepted
    abandoned,      \* history: withdrawals whose request ended half way
    pc, withdrawal  \* a request: position and reference

request == <<pc, withdrawal>>
history == <<unanswered, abandoned>>
vars    == <<balance, collected, row, sent, history, request>>

RowStatuses == {"NONE", "PENDING", "SUCCESS", "FAILED"}
Positions   == {"idle", "readLatest", "reserve", "transfer", "confirm",
                "compensate"}

Init ==
    /\ balance = 0
    /\ collected = {}
    /\ row = [w \in Withdrawals |-> "NONE"]
    /\ sent = {}
    /\ unanswered = {}
    /\ abandoned = {}
    /\ pc = [t \in Threads |-> "idle"]
    /\ withdrawal = [t \in Threads |-> None]

GoTo(t, position) ==
    /\ pc' = [pc EXCEPT ![t] = position]
    /\ UNCHANGED withdrawal

Leave(t) ==
    /\ pc' = [pc EXCEPT ![t] = "idle"]
    /\ withdrawal' = [withdrawal EXCEPT ![t] = None]

(* creditEstateWalletForLevyPayment: see CreditEstateWallet of             *)
(* WalletPayments.                                                         *)
CollectLevy(l) ==
    /\ l \notin collected
    /\ collected' = collected \cup {l}
    /\ balance' = balance + LevyAmount[l]
    /\ UNCHANGED <<row, sent, history, request>>

HasFunds(w) == balance >= Amount[w]

(* The wallet is read with its PIN, long before the amount is reserved. *)
ReadWallet(t, w) ==
    /\ pc[t] = "idle"
    /\ row[w] = "NONE" /\ \A u \in Threads : withdrawal[u] # w
    /\ HasFunds(w)
    /\ pc' = [pc EXCEPT ![t] = "readLatest"]
    /\ withdrawal' = [withdrawal EXCEPT ![t] = w]
    /\ UNCHANGED <<balance, collected, row, sent, history>>

(* The transaction reads the balance again ... *)
ReadLatest(t) ==
    /\ pc[t] = "readLatest"
    /\ IF HasFunds(withdrawal[t]) THEN GoTo(t, "reserve") ELSE Leave(t)
    /\ UNCHANGED <<balance, collected, row, sent, history>>

(* ... and decrements it by the amount. *)
Reserve(t) ==
    LET w == withdrawal[t] IN
    /\ pc[t] = "reserve"
    /\ balance' = balance - Amount[w]
    /\ row' = [row EXCEPT ![w] = "PENDING"]
    /\ GoTo(t, "transfer")
    /\ UNCHANGED <<collected, sent, history>>

TransferThrew_Uncaught(t) == Leave(t)
TransferThrew_Confirmed(t) == GoTo(t, "confirm")
TransferThrew(t) == GoTo(t, "compensate")

(* Paystack refuses, or accepts; an answer that is lost is taken for a     *)
(* refusal.                                                                *)
Transfer(t) ==
    LET w == withdrawal[t] IN
    /\ pc[t] = "transfer"
    /\ \/ TransferThrew(t) /\ UNCHANGED <<sent, unanswered>>
       \/ /\ sent' = sent \cup {w}
          /\ \/ GoTo(t, "confirm") /\ UNCHANGED unanswered
             \/ TransferThrew(t) /\ unanswered' = unanswered \cup {w}
    /\ UNCHANGED <<balance, collected, row, abandoned>>

(* The row update is inside the same try: when it throws, the reservation  *)
(* is undone although the money has left.                                  *)
Confirm(t) ==
    LET w == withdrawal[t] IN
    /\ pc[t] = "confirm"
    /\ \/ /\ row' = [row EXCEPT ![w] = "SUCCESS"]
          /\ Leave(t)
          /\ UNCHANGED unanswered
       \/ /\ GoTo(t, "compensate")
          /\ unanswered' = unanswered \cup {w}
          /\ UNCHANGED row
    /\ UNCHANGED <<balance, collected, sent, abandoned>>

CompensatedBalance_Skipped(w) == balance
CompensatedBalance(w) == balance + Amount[w]

FailedRow == "FAILED"

Compensate(t) ==
    LET w == withdrawal[t] IN
    /\ pc[t] = "compensate"
    /\ balance' = CompensatedBalance(w)
    /\ row' = [row EXCEPT ![w] = FailedRow]
    /\ Leave(t)
    /\ UNCHANGED <<collected, sent, history>>

(* Before the reservation an exception leaves nothing behind; after it,    *)
(* only the death of the process or a failing compensation ends a request. *)
Fail(t) ==
    LET w == withdrawal[t] IN
    /\ pc[t] # "idle"
    /\ Leave(t)
    /\ abandoned' = abandoned \cup {w}
    /\ UNCHANGED <<balance, collected, row, sent, unanswered>>

Continue(t) == \/ ReadLatest(t) \/ Reserve(t) \/ Transfer(t)
               \/ Confirm(t) \/ Compensate(t) \/ Fail(t)

Next ==
    \/ \E l \in Levies : CollectLevy(l)
    \/ \E t \in Threads, w \in Withdrawals : ReadWallet(t, w)
    \/ \E t \in Threads : Continue(t)

Spec == Init /\ [][Next]_vars

(* A request under way goes on, or ends. *)
Fairness == \A t \in Threads : WF_vars(Continue(t))

FairSpec == Spec /\ Fairness

-----------------------------------------------------------------------------
(* Properties. *)

TypeOK ==
    /\ balance \in Int
    /\ collected \subseteq Levies
    /\ row \in [Withdrawals -> RowStatuses]
    /\ sent \subseteq Withdrawals
    /\ unanswered \subseteq Withdrawals
    /\ abandoned \subseteq Withdrawals
    /\ pc \in [Threads -> Positions]
    /\ withdrawal \in [Threads -> Withdrawals \cup {None}]

(* Nothing leaves the estate's account at Paystack that was not taken out  *)
(* of its wallet first, a row says SUCCESS only for money that left, and   *)
(* money that left is given back to the wallet only when the request never *)
(* learnt that it had.                                                     *)
TransfersAreReserved == \A w \in Withdrawals :
    /\ w \in sent => row[w] # "NONE"
    /\ row[w] = "SUCCESS" => w \in sent
    /\ w \in sent /\ row[w] = "FAILED" => w \in unanswered

(* The wallet's statement explains its balance: levies collected, less the *)
(* withdrawals that are PENDING or SUCCESS.                                *)
Out(w) == IF row[w] \in {"PENDING", "SUCCESS"} THEN Amount[w] ELSE 0

StatementExplainsBalance ==
    balance = SumFunctionOnSet(LevyAmount, collected)
                - SumFunctionOnSet([w \in Withdrawals |-> Out(w)], Withdrawals)

(* The balance is compared, then decremented: the wallet is overdrawn by   *)
(* at most one withdrawal for every other request in flight.               *)
Reserving == {t \in Threads : pc[t] = "reserve"}
Reserved ==
    SumFunctionOnSet([t \in Reserving |-> Amount[withdrawal[t]]], Reserving)
LargestAmount == Max({Amount[w] : w \in Withdrawals} \cup {0})

OverdraftBounded ==
    balance - Reserved >= -(Cardinality(Threads) - 1) * LargestAmount

(* The statement explains what the wallet holds, which is at worst a       *)
(* bounded debt.                                                           *)
BalanceIsExplained == StatementExplainsBalance /\ OverdraftBounded

(* A reservation ends in SUCCESS or FAILED unless its request was cut off: *)
(* the code has no second path that resolves a PENDING row.                *)
ReservationsEnd == \A w \in Withdrawals :
    row[w] = "PENDING" ~> row[w] \in {"SUCCESS", "FAILED"} \/ w \in abandoned
=============================================================================
