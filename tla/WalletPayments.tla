--------------------------- MODULE WalletPayments ---------------------------
(***************************************************************************)
(* Money coming in: src/apis/finance/finance.service.ts.                   *)
(*                                                                         *)
(* Residents fund their wallet or pay a levy bill through Paystack, send a *)
(* bank transfer to the virtual account of their wallet, or pay a levy     *)
(* bill out of the wallet.  Paystack reports every charge by webhook, at   *)
(* least once, and several deliveries may be handled at the same time.     *)
(* The handlers are asynchronous and the database runs READ COMMITTED      *)
(* without row locks on reads, so each handler is split at the reads whose *)
(* result it uses later; a transaction's writes are one step, its commit.  *)
(***************************************************************************)
EXTENDS Integers, FiniteSets, FiniteSetsExt, Server

CONSTANTS
    Residents,      \* each has one wallet
    FundingRefs,    \* references of initializeWalletFunding
    LevyRefs,       \* references of initializeLevyPayment
    TransferRefs,   \* references Paystack gives to virtual-account transfers
    Bills,          \* levy assignments of levies the estate administration made
    Payer,          \* [reference -> resident whose wallet its row belongs to]
    BillOf,         \* [levy reference -> levy assignment it pays]
    Debtor,         \* [levy assignment -> resident]
    BillAmount,     \* [levy assignment -> amount]
    MaxAmount       \* bound on one funding or transfer

RowRefs == FundingRefs \cup LevyRefs
Refs    == RowRefs \cup TransferRefs
Amounts == 1..MaxAmount

ASSUME KindsAssumption ==
    /\ FundingRefs \cap LevyRefs = {}
    /\ RowRefs \cap TransferRefs = {}
ASSUME OwnersAssumption ==
    /\ Payer \in [Refs -> Residents]
    /\ BillOf \in [LevyRefs -> Bills]
    /\ Debtor \in [Bills -> Residents]
    /\ BillAmount \in [Bills -> Nat \ {0}]
ASSUME ThreadsAssumption == IsFiniteSet(Threads) /\ Threads # {}
ASSUME RowsAssumption == IsFiniteSet(Refs) /\ IsFiniteSet(Bills)
ASSUME MaxAmountAssumption == MaxAmount \in Nat
ASSUME NoneAssumption == None \notin Refs \cup Bills

VARIABLES
    txn,            \* WalletTransaction.status by unique reference
    amount,         \* WalletTransaction.amount by reference
    balance,        \* Wallet.balance of each resident
    linked,         \* residents whose wallet row holds the virtual account
    paid,           \* LevyAssignment.paidAmount
    status,         \* LevyAssignment.status
    walletRows,     \* sum of SUCCESS wallet-debit rows of each levy assignment
    estateRows,     \* sum of estate-wallet rows of each levy assignment
    charged,        \* Paystack: what the payer was charged under a reference
    acked,          \* Paystack: references whose webhook was answered 2xx
    pc, ref, bill, seen,  \* a request: position, arguments, paidAmount it read
    credits         \* history: how often a reference was credited

rows    == <<txn, amount>>
bills   == <<paid, status, walletRows, estateRows>>
bank    == <<charged, acked>>
request == <<pc, ref, bill, seen>>
vars    == <<rows, balance, linked, bills, bank, request, credits>>

RowStatuses  == {"NONE", "PENDING", "SUCCESS"}
LevyStatuses == {"PENDING", "PARTIALLY_PAID", "PAID"}
Positions    == {"idle", "lookup", "settle", "levyTx", "findExisting",
                 "creditTransfer", "followUp", "payWallet", "payCommit"}

Outstanding(b, alreadyPaid) == BillAmount[b] - alreadyPaid

Init ==
    /\ txn = [r \in Refs |-> "NONE"]
    /\ amount = [r \in Refs |-> 0]
    /\ balance = [p \in Residents |-> 0]
    /\ linked = {}
    /\ paid = [b \in Bills |-> 0]
    /\ status = [b \in Bills |-> "PENDING"]
    /\ walletRows = [b \in Bills |-> 0]
    /\ estateRows = [b \in Bills |-> 0]
    /\ charged = [r \in Refs |-> 0]
    /\ acked = {}
    /\ pc = [t \in Threads |-> "idle"]
    /\ ref = [t \in Threads |-> None]
    /\ bill = [t \in Threads |-> None]
    /\ seen = [t \in Threads |-> 0]
    /\ credits = [r \in Refs |-> 0]

-----------------------------------------------------------------------------
(* Opening a payment: the PENDING row is written before Paystack is asked. *)

InitializeWalletFunding(r) ==
    /\ txn[r] = "NONE"
    /\ txn' = [txn EXCEPT ![r] = "PENDING"]
    /\ \E n \in Amounts : amount' = [amount EXCEPT ![r] = n]
    /\ UNCHANGED <<balance, linked, bills, bank, request, credits>>

InitializeLevyPayment(r) ==
    LET b == BillOf[r] IN
    /\ txn[r] = "NONE"
    /\ Outstanding(b, paid[b]) > 0
    /\ status[b] # "PAID"
    /\ txn' = [txn EXCEPT ![r] = "PENDING"]
    /\ amount' = [amount EXCEPT ![r] = Outstanding(b, paid[b])]
    /\ UNCHANGED <<balance, linked, bills, bank, request, credits>>

(* KYC completion stores the dedicated account Paystack created. *)
LinkVirtualAccount(p) ==
    /\ p \notin linked
    /\ linked' = linked \cup {p}
    /\ UNCHANGED <<rows, balance, bills, bank, request, credits>>

(* Paystack: the customer pays an open checkout, whole or in part ...      *)
PayCheckout(r) ==
    /\ txn[r] = "PENDING"
    /\ charged[r] = 0
    /\ \E n \in 1..amount[r] : charged' = [charged EXCEPT ![r] = n]
    /\ UNCHANGED <<rows, balance, linked, bills, acked, request, credits>>

(* ... or transfers money to the virtual account of the wallet.            *)
PayTransfer(r) ==
    /\ charged[r] = 0
    /\ \E n \in Amounts : charged' = [charged EXCEPT ![r] = n]
    /\ UNCHANGED <<rows, balance, linked, bills, acked, request, credits>>

-----------------------------------------------------------------------------
(* Requests. *)

GoTo(t, position) ==
    /\ pc' = [pc EXCEPT ![t] = position]
    /\ UNCHANGED <<ref, bill, seen>>

(* The request has ended: its local variables are gone. *)
Leave(t) ==
    /\ pc' = [pc EXCEPT ![t] = "idle"]
    /\ ref' = [ref EXCEPT ![t] = None]
    /\ bill' = [bill EXCEPT ![t] = None]
    /\ seen' = [seen EXCEPT ![t] = 0]

(* A webhook answered 2xx. *)
Acknowledge(t) ==
    /\ Leave(t)
    /\ acked' = acked \cup {ref[t]}

(* Any await may throw, any transaction may be aborted, and the process    *)
(* may die: the request ends without a 2xx answer, what it committed stays.*)
Fail(t) ==
    /\ pc[t] # "idle"
    /\ Leave(t)
    /\ UNCHANGED <<rows, balance, linked, bills, bank, credits>>

-----------------------------------------------------------------------------
(* The webhook. *)

(* A charge.success delivery; Paystack may repeat it whether or not it was *)
(* answered.  verifyTransaction is awaited before the row is looked up.    *)
Deliver(t, r) ==
    /\ pc[t] = "idle"
    /\ charged[r] > 0
    /\ pc' = [pc EXCEPT ![t] = "lookup"]
    /\ ref' = [ref EXCEPT ![t] = r]
    /\ UNCHANGED <<rows, balance, linked, bills, bank, bill, seen, credits>>

AlreadyProcessed_Unchecked(r) == FALSE
AlreadyProcessed(r) == txn[r] = "SUCCESS"

(* The row is read outside the transaction that settles it. *)
Lookup(t) ==
    /\ pc[t] = "lookup"
    /\ \/ txn[ref[t]] = "NONE" /\ GoTo(t, "findExisting") /\ UNCHANGED acked
       \/ /\ txn[ref[t]] # "NONE"
          /\ ~AlreadyProcessed(ref[t])
          /\ GoTo(t, "settle")
          /\ UNCHANGED acked
       \/ AlreadyProcessed(ref[t]) /\ Acknowledge(t)
    /\ UNCHANGED <<rows, balance, linked, bills, charged, credits>>

ConfirmedAmount_AsRequested(r) == amount[r]
ConfirmedAmount(r) == charged[r]

MarkSuccess(r) ==
    /\ txn' = [txn EXCEPT ![r] = "SUCCESS"]
    /\ amount' = [amount EXCEPT ![r] = ConfirmedAmount(r)]
    /\ credits' = [credits EXCEPT ![r] = @ + 1]

SettleFunding(t) == \E r \in FundingRefs :
    /\ pc[t] = "settle"
    /\ ref[t] = r
    /\ MarkSuccess(r)
    /\ balance' = [balance EXCEPT ![Payer[r]] = @ + charged[r]]
    /\ GoTo(t, "followUp")
    /\ UNCHANGED <<linked, bills, bank>>

(* creditEstateWalletForLevyPayment: the increment and its row; every bill *)
(* here is of an administration's levy, so shouldCreditEstateWallet holds. *)
CreditEstateWallet_Skipped(b, n) == UNCHANGED estateRows
CreditEstateWallet(b, n) ==
    estateRows' = [estateRows EXCEPT ![b] = @ + n]

PaidSoFar(b) == paid[b]

CoversBill(b, n) == n >= BillAmount[b]

(* The transaction's first statement locks the row of the reference, so    *)
(* two settlements of one reference read the assignment one after the      *)
(* other; settlements of different references do not exclude each other.   *)
RowLocked(r) == \E t \in Threads : pc[t] = "levyTx" /\ ref[t] = r

BeginSettleLevy(t) ==
    LET r == ref[t] IN
    /\ pc[t] = "settle"
    /\ r \in LevyRefs
    /\ ~RowLocked(r)
    /\ pc' = [pc EXCEPT ![t] = "levyTx"]
    /\ seen' = [seen EXCEPT ![t] = PaidSoFar(BillOf[r])]
    /\ UNCHANGED <<rows, balance, linked, bills, bank, ref, bill, credits>>

CommitSettleLevy(t) ==
    LET r == ref[t]
        b == BillOf[r]
        next == seen[t] + charged[r]
    IN
    /\ pc[t] = "levyTx"
    /\ MarkSuccess(r)
    /\ paid' = [paid EXCEPT ![b] = next]
    /\ status' = [status EXCEPT ![b] =
                    IF CoversBill(b, next) THEN "PAID" ELSE "PARTIALLY_PAID"]
    /\ CreditEstateWallet(b, charged[r])
    /\ Acknowledge(t)
    /\ UNCHANGED <<balance, linked, walletRows, charged>>

NoWalletMatched_Accepted(t) == Acknowledge(t)
NoWalletMatched(t) == Leave(t) /\ UNCHANGED acked   \* answered 404

(* A reference without a row is a transfer to a virtual account. *)
FindExistingTransfer(t) ==
    LET r == ref[t] IN
    /\ pc[t] = "findExisting"
    /\ \/ txn[r] # "NONE" /\ Acknowledge(t)
       \/ /\ txn[r] = "NONE"
          /\ Payer[r] \in linked
          /\ GoTo(t, "creditTransfer")
          /\ UNCHANGED acked
       \/ /\ txn[r] = "NONE"
          /\ Payer[r] \notin linked
          /\ NoWalletMatched(t)
    /\ UNCHANGED <<rows, balance, linked, bills, charged, credits>>

ReferenceIsFree_NotUnique(r) == TRUE
ReferenceIsFree(r) == txn[r] = "NONE"

(* The row is created in the transaction that credits the wallet; its      *)
(* reference is unique, so a second creation aborts the whole transaction, *)
(* which is Fail.                                                          *)
CreditTransfer(t) ==
    LET r == ref[t] IN
    /\ pc[t] = "creditTransfer"
    /\ ReferenceIsFree(r)
    /\ MarkSuccess(r)
    /\ balance' = [balance EXCEPT ![Payer[r]] = @ + charged[r]]
    /\ GoTo(t, "followUp")
    /\ UNCHANGED <<linked, bills, bank>>

(* tryPayOutstandingMonthlyLevies, then the answer to Paystack.  It marks  *)
(* the monthly levy PAID, touches neither wallets nor these bills, and may *)
(* throw, which is Fail.                                                   *)
FollowUp(t) ==
    /\ pc[t] = "followUp"
    /\ Acknowledge(t)
    /\ UNCHANGED <<rows, balance, linked, bills, charged, credits>>

-----------------------------------------------------------------------------
(* Paying a bill from the wallet: one transaction, two reads, then writes. *)

ReadBill(t, b) ==
    /\ pc[t] = "idle"
    /\ Outstanding(b, paid[b]) > 0
    /\ status[b] # "PAID"
    /\ pc' = [pc EXCEPT ![t] = "payWallet"]
    /\ bill' = [bill EXCEPT ![t] = b]
    /\ seen' = [seen EXCEPT ![t] = PaidSoFar(b)]
    /\ UNCHANGED <<rows, balance, linked, bills, bank, ref, credits>>

Charge(t) == Outstanding(bill[t], seen[t])

HasFunds_Unchecked(t) == TRUE
HasFunds(t) == balance[Debtor[bill[t]]] >= Charge(t)

ReadWallet(t) ==
    /\ pc[t] = "payWallet"
    /\ IF HasFunds(t) THEN GoTo(t, "payCommit") ELSE Leave(t)
    /\ UNCHANGED <<rows, balance, linked, bills, bank, credits>>

CommitPayLevy(t) ==
    LET b == bill[t] IN
    /\ pc[t] = "payCommit"
    /\ balance' = [balance EXCEPT ![Debtor[b]] = @ - Charge(t)]
    /\ walletRows' = [walletRows EXCEPT ![b] = @ + Charge(t)]
    /\ CreditEstateWallet(b, Charge(t))
    /\ paid' = [paid EXCEPT ![b] = seen[t] + Charge(t)]
    /\ status' = [status EXCEPT ![b] = "PAID"]
    /\ Leave(t)
    /\ UNCHANGED <<rows, linked, bank, credits>>

-----------------------------------------------------------------------------

Settle(t) == SettleFunding(t) \/ CommitSettleLevy(t) \/ CreditTransfer(t)

Webhook(t) == \/ Lookup(t) \/ Settle(t) \/ BeginSettleLevy(t)
              \/ FindExistingTransfer(t) \/ FollowUp(t)

PayFromWallet(t) == \/ \E b \in Bills : ReadBill(t, b)
                    \/ ReadWallet(t)
                    \/ CommitPayLevy(t)

Next ==
    \/ \E r \in FundingRefs : InitializeWalletFunding(r)
    \/ \E r \in LevyRefs : InitializeLevyPayment(r)
    \/ \E p \in Residents : LinkVirtualAccount(p)
    \/ \E r \in RowRefs : PayCheckout(r)
    \/ \E r \in TransferRefs : PayTransfer(r)
    \/ \E t \in Threads, r \in Refs : Deliver(t, r)
    \/ \E t \in Threads : Webhook(t) \/ PayFromWallet(t) \/ Fail(t)

Spec == Init /\ [][Next]_vars

(* Every request runs to its end or fails; Paystack repeats a webhook      *)
(* until it is answered 2xx; and a delivery that is repeated for ever does *)
(* not fail for ever at the same point.                                    *)
Continue(t) == Webhook(t) \/ ReadWallet(t) \/ CommitPayLevy(t) \/ Fail(t)

Redeliver(r) == r \notin acked /\ \E t \in Threads : Deliver(t, r)

Handle(r, Step(_)) == \E t \in Threads : ref[t] = r /\ Step(t)

Fairness ==
    /\ \A t \in Threads : WF_vars(Continue(t))
    /\ \A r \in Refs : SF_vars(Redeliver(r)) /\ SF_vars(Handle(r, Lookup))
                       /\ SF_vars(Handle(r, Settle))
    /\ \A r \in LevyRefs : SF_vars(Handle(r, BeginSettleLevy))
    /\ \A r \in TransferRefs : SF_vars(Handle(r, FindExistingTransfer))

FairSpec == Spec /\ Fairness

-----------------------------------------------------------------------------
(* Properties. *)

TypeOK ==
    /\ txn \in [Refs -> RowStatuses]
    /\ amount \in [Refs -> Nat]
    /\ balance \in [Residents -> Int]
    /\ linked \subseteq Residents
    /\ paid \in [Bills -> Nat]
    /\ status \in [Bills -> LevyStatuses]
    /\ walletRows \in [Bills -> Nat]
    /\ estateRows \in [Bills -> Nat]
    /\ charged \in [Refs -> Nat]
    /\ acked \subseteq Refs
    /\ pc \in [Threads -> Positions]
    /\ ref \in [Threads -> Refs \cup {None}]
    /\ bill \in [Threads -> Bills \cup {None}]
    /\ seen \in [Threads -> Nat]
    /\ credits \in [Refs -> Nat]

(* finance.service.ts:1410 "Payment already processed": a reference is not *)
(* credited again once a delivery finds its row SUCCESS.  The row is read  *)
(* outside the transaction, so every delivery that read PENDING before the *)
(* first commit still credits: the number of credits is bounded by the     *)
(* requests in flight, and is one when requests are handled one at a time. *)
Holding(r) == {t \in Threads : pc[t] \in {"settle", "levyTx"} /\ ref[t] = r}

CreditsBounded == \A r \in RowRefs :
    credits[r] > 0 =>
        credits[r] + Cardinality(Holding(r)) <= Cardinality(Threads)

(* A bank transfer is credited exactly once, and its row exists exactly    *)
(* when it is: whatever Paystack repeats and however deliveries interleave,*)
(* because row and credit are one transaction on a unique reference.       *)
TransfersCreditedOnce == \A r \in TransferRefs :
    /\ credits[r] <= 1
    /\ credits[r] = 1 <=> txn[r] = "SUCCESS"

(* The wallet statement explains the balance: nobody ever holds less than  *)
(* the SUCCESS rows say, and exactly that unless a reference was credited  *)
(* twice.                                                                  *)
CreditRows(p) == {r \in FundingRefs \cup TransferRefs :
                    Payer[r] = p /\ txn[r] = "SUCCESS"}
DebitRows(p)  == {b \in Bills : Debtor[b] = p}
Statement(p)  == SumFunctionOnSet(amount, CreditRows(p))
                   - SumFunctionOnSet(walletRows, DebitRows(p))

LedgerExplainsBalance == \A p \in Residents :
    /\ balance[p] >= Statement(p)
    /\ (\A r \in CreditRows(p) : credits[r] = 1) => balance[p] = Statement(p)

(* A bill never shows more paid than the estate wallet received for it:    *)
(* the handlers write paidAmount from a value they read earlier, so        *)
(* concurrent payments can be lost from the bill but never invented, and   *)
(* none is lost when requests are handled one at a time.                   *)
PaidIsInEstateLedger == \A b \in Bills :
    /\ paid[b] <= estateRows[b]
    /\ Cardinality(Threads) = 1 => paid[b] = estateRows[b]

(* payLevyFromWallet compares balance and charge, then debits: a wallet    *)
(* can be overdrawn, but by at most one bill for every other request in    *)
(* flight, so never when requests are handled one at a time.               *)
Debiting(p) == {t \in Threads : pc[t] = "payCommit" /\ Debtor[bill[t]] = p}
Reserved(p) ==
    SumFunctionOnSet([t \in Debiting(p) |-> Charge(t)], Debiting(p))
LargestBill == Max({BillAmount[b] : b \in Bills} \cup {0})

OverdraftBounded == \A p \in Residents :
    balance[p] - Reserved(p) >= -(Cardinality(Threads) - 1) * LargestBill

(* The statement explains what a wallet holds, which is at worst a bounded *)
(* debt.                                                                   *)
BalanceIsExplained == LedgerExplainsBalance /\ OverdraftBounded

(* Money Paystack has taken reaches its row, and for a transfer its wallet *)
(* once the virtual account is known: a delivery that could not be settled *)
(* is not answered 2xx, so Paystack repeats it.                            *)
Settleable(r) == charged[r] > 0 /\ (r \in TransferRefs => Payer[r] \in linked)

ChargesAreSettled == \A r \in Refs : Settleable(r) ~> txn[r] = "SUCCESS"

(* finance.service.ts:1408 "Payment already processed": however often and  *)
(* however concurrently a payment is reported, it is credited once.        *)
CheckoutsCreditedOnce == \A r \in RowRefs : credits[r] <= 1

(* Transfers to virtual accounts implement the exactly-once promise under  *)
(* any concurrency.                                                        *)
Transfers == INSTANCE ExactlyOnceCredit
    WITH References <- TransferRefs, Sums <- Amounts,
         charged <- [r \in TransferRefs |-> charged[r]],
         credited <- [r \in TransferRefs |-> credits[r] * amount[r]]

TransfersExactlyOnce == Transfers!Spec
=============================================================================
