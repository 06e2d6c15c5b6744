--------------------------- MODULE ResidentWallet ----------------------------
(***************************************************************************)
(* The wallet of a resident: what comes in (WalletPayments) and what goes  *)
(* out (ResidentWithdrawals) are requests of one server about one row,     *)
(* Wallet.balance.                                                         *)
(***************************************************************************)
EXTENDS ResidentWithdrawals

CONSTANTS
    FundingRefs, LevyRefs, TransferRefs, Bills, Payer, BillOf, Debtor,
    BillAmount, MaxAmount,      \* see WalletPayments
    Scopes           \* references, withdrawals and bills a behaviour is about

VARIABLES
    scope,
    txn, amount, linked, paid, billStatus, walletRows, estateRows, charged,
    acked, payPc, ref, bill, seen, credits

P == INSTANCE WalletPayments WITH status <- billStatus, pc <- payPc

(* See WalletPayments.                                                     *)
ASSUME PaymentsAssumption ==
    /\ FundingRefs \cap LevyRefs = {}
    /\ P!RowRefs \cap TransferRefs = {}
    /\ Payer \in [P!Refs -> Residents]
    /\ BillOf \in [LevyRefs -> Bills]
    /\ Debtor \in [Bills -> Residents]
    /\ BillAmount \in [Bills -> Nat \ {0}]
    /\ IsFiniteSet(P!Refs) /\ IsFiniteSet(Bills)
    /\ MaxAmount \in Nat
    /\ None \notin P!Refs \cup Bills

withdrawals == <<status, row, refunds, transfer, overlapped, request>>
payments == <<txn, amount, linked, paid, billStatus, walletRows, estateRows,
              charged, acked, payPc, ref, bill, seen, credits>>
wallet   == <<scope, balance, withdrawals, payments>>

WalletInit ==
    /\ scope \in Scopes
    /\ Init
    /\ txn = [r \in P!Refs |-> "NONE"]
    /\ amount = [r \in P!Refs |-> 0]
    /\ linked = {}
    /\ paid = [b \in Bills |-> 0]
    /\ billStatus = [b \in Bills |-> "PENDING"]
    /\ walletRows = [b \in Bills |-> 0]
    /\ estateRows = [b \in Bills |-> 0]
    /\ charged = [r \in P!Refs |-> 0]
    /\ acked = {}
    /\ payPc = [t \in Threads |-> "idle"]
    /\ ref = [t \in Threads |-> None]
    /\ bill = [t \in Threads |-> None]
    /\ seen = [t \in Threads |-> 0]
    /\ credits = [r \in P!Refs |-> 0]

(* A request is about a payment or about a withdrawal.                     *)
OneRequest(t) == pc'[t] = "idle" \/ payPc'[t] = "idle"

(* What the behaviour is not about is left alone.                          *)
InScope ==
    /\ \A r \in P!Refs \ scope : txn'[r] = "NONE" /\ charged'[r] = 0
    /\ \A t \in Threads : /\ withdrawal'[t] \notin Withdrawals \ scope
                           /\ bill'[t] \notin Bills \ scope

WalletNext ==
    /\ \/ Next /\ UNCHANGED payments
       \/ P!Next /\ UNCHANGED withdrawals
    /\ \A t \in Threads : OneRequest(t)
    /\ InScope
    /\ UNCHANGED scope

WalletSpec == WalletInit /\ [][WalletNext]_wallet

-----------------------------------------------------------------------------
(* What a withdrawal has taken out of the wallet and not been refunded.    *)
Withdrawn(w) == (IF row[w] = "NONE" THEN 0 ELSE Amount[w])
                    - refunds[w] * Amount[w]

WithdrawalsOf(p) == {w \in Withdrawals : Owner[w] = p}
Taken(p) ==
    SumFunctionOnSet([w \in Withdrawals |-> Withdrawn(w)], WithdrawalsOf(p))

(* What the wallet was funded with, its statement's credits and debits and *)
(* the withdrawals explain what it holds: never less than they say, and    *)
(* exactly that unless a reference was credited twice.                     *)
Explained(p) == Opening[p] + P!Statement(p) - Taken(p)

StatementsExplainBalance == \A p \in Residents :
    /\ balance[p] >= Explained(p)
    /\ (\A r \in P!CreditRows(p) : credits[r] = 1) => balance[p] = Explained(p)

(* requestWithdrawal and payLevyFromWallet both compare the balance, then  *)
(* decrement it: a wallet is overdrawn by at most one withdrawal or bill   *)
(* for every other request in flight.                                      *)
Reserving(p) == {t \in Threads : pc[t] = "reserve" /\ Owner[withdrawal[t]] = p}
Reserved(p) ==
    SumFunctionOnSet([t \in Reserving(p) |-> Amount[withdrawal[t]]], Reserving(p))
LargestDebit == Max({Amount[w] : w \in Withdrawals} \cup {P!LargestBill})

DebtBounded == \A p \in Residents :
    balance[p] - Reserved(p) - P!Reserved(p)
        >= -(Cardinality(Threads) - 1) * LargestDebit

(* Credits, debits and refunds of one wallet may overlap: the statements   *)
(* explain the balance, and a debit that was judged by an older balance    *)
(* leaves a bounded debt.                                                  *)
WalletIsExplained == StatementsExplainBalance /\ DebtBounded
=============================================================================
