------------------------ MODULE ResidentWithdrawals ------------------------
(***************************************************************************)
(* Money going out of resident wallets: finance.service.ts.                *)
(*                                                                         *)
(* A request takes its amount out of the wallet at once.  An administrator *)
(* then approves it, with a bank code by an immediate Paystack transfer or *)
(* without one for a transfer made by hand, or rejects it, which refunds   *)
(* the wallet.  The decision reads the request outside any transaction and *)
(* an approval writes request and wallet row separately, so decisions of   *)
(* the same request interleave and may stop half way.                      *)
(***************************************************************************)
EXTENDS Integers, FiniteSets, FiniteSetsExt, Server

CONSTANTS
    Residents,
    Withdrawals,    \* withdrawal requests that may be made
    Owner,          \* [withdrawal -> resident]
    Amount,         \* [withdrawal -> amount taken out of the wallet]
    Opening,        \* [resident -> balance the wallet was funded with]
    MaxTransfers    \* bound on the transfers made for one withdrawal

ASSUME OwnersAssumption ==
    /\ Owner \in [Withdrawals -> Residents]
    /\ Amount \in [Withdrawals -> Nat \ {0}]
    /\ Opening \in [Residents -> Nat]
ASSUME ThreadsAssumption == IsFiniteSet(Threads) /\ Threads # {}
ASSUME WithdrawalsAssumption == IsFiniteSet(Withdrawals)
ASSUME MaxTransfersAssumption == MaxTransfers \in Nat
ASSUME NoneAssumption == None \notin Withdrawals

VARIABLES
    balance,        \* Wallet.balance
    status,         \* WithdrawalRequest.status
    row,            \* status of the WalletTransaction withdrawal:<id>
    refunds,        \* REFUND rows written for a withdrawal
    sent,           \* Paystack: transfers accepted for a withdrawal
    unanswered,     \* history: those whose approval never learnt of them
    overlapped,     \* history: withdrawals two requests were about at once
    pc, withdrawal  \* a request: position and argument

request  == <<pc, withdrawal>>
transfer == <<sent, unanswered>>
vars     == <<balance, status, row, refunds, transfer, overlapped, request>>

Statuses    == {"NONE", "PENDING", "APPROVED", "REJECTED", "PAID"}
RowStatuses == {"NONE", "PENDING", "SUCCESS", "FAILED"}
Positions   == {"idle", "reserve", "transfer", "markPaid", "rowPaid",
                "markApproved", "rowApproved", "refund"}

Init ==
    /\ balance = Opening
    /\ status = [w \in Withdrawals |-> "NONE"]
    /\ row = [w \in Withdrawals |-> "NONE"]
    /\ refunds = [w \in Withdrawals |-> 0]
    /\ sent = [w \in Withdrawals |-> 0]
    /\ unanswered = [w \in Withdrawals |-> 0]
    /\ overlapped = {}
    /\ pc = [t \in Threads |-> "idle"]
    /\ withdrawal = [t \in Threads |-> None]

GoTo(t, position) ==
    /\ pc' = [pc EXCEPT ![t] = position]
    /\ UNCHANGED <<withdrawal, overlapped>>

Start(t, w, position) ==
    /\ pc[t] = "idle"
    /\ pc' = [pc EXCEPT ![t] = position]
    /\ withdrawal' = [withdrawal EXCEPT ![t] = w]
    /\ overlapped' = IF \E u \in Threads : withdrawal[u] = w
                     THEN overlapped \cup {w} ELSE overlapped

Leave(t) ==
    /\ pc' = [pc EXCEPT ![t] = "idle"]
    /\ withdrawal' = [withdrawal EXCEPT ![t] = None]
    /\ UNCHANGED overlapped

(* Any await may throw, any transaction may be aborted, and the process    *)
(* may die: the request ends, what it committed stays.                     *)
Fail(t) ==
    /\ pc[t] # "idle"
    /\ Leave(t)
    /\ unanswered' = IF pc[t] = "markPaid"
                     THEN [unanswered EXCEPT ![withdrawal[t]] = @ + 1]
                     ELSE unanswered
    /\ UNCHANGED <<balance, status, row, refunds, sent>>

-----------------------------------------------------------------------------
(* The resident asks. *)

HasFunds(w) == balance[Owner[w]] >= Amount[w]

ReadWallet(t, w) ==
    /\ status[w] = "NONE"
    /\ \A u \in Threads : withdrawal[u] # w   \* its id is made by this request
    /\ HasFunds(w)
    /\ Start(t, w, "reserve")
    /\ UNCHANGED <<balance, status, row, refunds, transfer>>

(* The debit, the request and its row are one transaction. *)
CommitRequest(t) ==
    LET w == withdrawal[t] IN
    /\ pc[t] = "reserve"
    /\ balance' = [balance EXCEPT ![Owner[w]] = @ - Amount[w]]
    /\ status' = [status EXCEPT ![w] = "PENDING"]
    /\ row' = [row EXCEPT ![w] = "PENDING"]
    /\ Leave(t)
    /\ UNCHANGED <<refunds, transfer>>

-----------------------------------------------------------------------------
(* An administrator approves. *)

Decidable_Anytime(w) == status[w] # "NONE"
Decidable(w) == status[w] = "PENDING"

BeginApproval(t, w) ==
    /\ Decidable(w)
    /\ \/ Start(t, w, "transfer")        \* with a bank code
       \/ Start(t, w, "markApproved")    \* without
    /\ UNCHANGED <<balance, status, row, refunds, transfer>>

TransferRefused_Recorded(t) == GoTo(t, "markPaid")
TransferRefused(t) == Leave(t)

(* Every attempt has a fresh reference: Paystack sees unrelated transfers. *)
(* It refuses, or accepts; an answer that is lost is taken for a refusal.  *)
Transfer(t) ==
    LET w == withdrawal[t] IN
    /\ pc[t] = "transfer"
    /\ \/ /\ TransferRefused(t)
          /\ UNCHANGED <<sent, unanswered>>
       \/ /\ sent[w] < MaxTransfers
          /\ sent' = [sent EXCEPT ![w] = @ + 1]
          /\ \/ GoTo(t, "markPaid") /\ UNCHANGED unanswered
             \/ /\ Leave(t)
                /\ unanswered' = [unanswered EXCEPT ![w] = @ + 1]
    /\ UNCHANGED <<balance, status, row, refunds>>

(* The request and the wallet row are written by separate statements. *)
MarkRequest(t) ==
    LET w == withdrawal[t] IN
    /\ \/ /\ pc[t] = "markPaid"
          /\ status' = [status EXCEPT ![w] = "PAID"]
          /\ GoTo(t, "rowPaid")
       \/ /\ pc[t] = "markApproved"
          /\ status' = [status EXCEPT ![w] = "APPROVED"]
          /\ GoTo(t, "rowApproved")
    /\ UNCHANGED <<balance, row, refunds, transfer>>

PaidRow == "SUCCESS"

MarkRow(t) ==
    LET w == withdrawal[t] IN
    /\ \/ pc[t] = "rowPaid" /\ row' = [row EXCEPT ![w] = PaidRow]
       \/ pc[t] = "rowApproved" /\ row' = [row EXCEPT ![w] = "PENDING"]
    /\ Leave(t)
    /\ UNCHANGED <<balance, status, refunds, transfer>>

-----------------------------------------------------------------------------
(* An administrator rejects. *)

BeginRejection(t, w) ==
    /\ Decidable(w)
    /\ Start(t, w, "refund")
    /\ UNCHANGED <<balance, status, row, refunds, transfer>>

RejectedStatus(w) == [status EXCEPT ![w] = "REJECTED"]

RefundedBalance(w) == [balance EXCEPT ![Owner[w]] = @ + Amount[w]]

CommitRejection(t) ==
    LET w == withdrawal[t] IN
    /\ pc[t] = "refund"
    /\ balance' = RefundedBalance(w)
    /\ row' = [row EXCEPT ![w] = "FAILED"]
    /\ refunds' = [refunds EXCEPT ![w] = @ + 1]
    /\ status' = RejectedStatus(w)
    /\ Leave(t)
    /\ UNCHANGED transfer

-----------------------------------------------------------------------------

Next == \E t \in Threads :
    \/ \E w \in Withdrawals :
          ReadWallet(t, w) \/ BeginApproval(t, w) \/ BeginRejection(t, w)
    \/ CommitRequest(t)
    \/ Transfer(t)
    \/ MarkRequest(t)
    \/ MarkRow(t)
    \/ CommitRejection(t)
    \/ Fail(t)

Spec == Init /\ [][Next]_vars

-----------------------------------------------------------------------------
(* Properties. *)

TypeOK ==
    /\ balance \in [Residents -> Int]
    /\ status \in [Withdrawals -> Statuses]
    /\ row \in [Withdrawals -> RowStatuses]
    /\ refunds \in [Withdrawals -> Nat]
    /\ sent \in [Withdrawals -> Nat]
    /\ unanswered \in [Withdrawals -> Nat]
    /\ overlapped \subseteq Withdrawals
    /\ pc \in [Threads -> Positions]
    /\ withdrawal \in [Threads -> Withdrawals \cup {None}]

(* finance.service.ts:1172, 1277 "Only pending withdrawals can be ...": a  *)
(* withdrawal is refunded or paid out once.  The status is read outside    *)
(* the transaction, so every decision that read PENDING before the first   *)
(* one was written still takes effect: refunds and answered transfers      *)
(* together are bounded by the requests in flight, and are at most one     *)
(* when requests are handled one at a time.                                *)
Deciding(w) == {t \in Threads : pc[t] \in {"transfer", "refund"}
                                /\ withdrawal[t] = w}
Settlements(w) == refunds[w] + sent[w] - unanswered[w]

SettlementsBounded == \A w \in Withdrawals :
    Settlements(w) > 0 =>
        Settlements(w) + Cardinality(Deciding(w)) <= Cardinality(Threads)

(* What the administrators are shown is what happened to the money: PAID   *)
(* only after a transfer was accepted, REJECTED only after a refund, and   *)
(* nothing is refunded or sent that was not taken out of the wallet first. *)
StatusIsTrue == \A w \in Withdrawals :
    /\ status[w] = "PAID" => sent[w] > unanswered[w]
    /\ status[w] = "REJECTED" => refunds[w] > 0
    /\ refunds[w] > 0 => status[w] \in {"REJECTED", "PAID", "APPROVED"}
    /\ sent[w] > 0 => row[w] # "NONE"

(* The wallet statement agrees with the request, wherever decisions stop   *)
(* between their two writes, unless decisions of it overlapped: the row is *)
(* FAILED exactly for refunded requests and SUCCESS only for paid ones.    *)
StatementFollowsRequest == \A w \in Withdrawals \ overlapped :
    /\ row[w] = "FAILED" <=> status[w] = "REJECTED"
    /\ row[w] = "SUCCESS" => status[w] = "PAID"
    /\ row[w] = "NONE" <=> status[w] = "NONE"

(* Both records of a withdrawal, the request and its row in the wallet's   *)
(* statement, show what happened to the money.                             *)
StatementIsTrue == StatusIsTrue /\ StatementFollowsRequest

(* A decision is final: once a request is approved, paid or rejected, its  *)
(* status stays, unless decisions of it overlapped.                        *)
DecidedStaysDecided == [][\A w \in Withdrawals \ overlapped :
    status[w] \in {"APPROVED", "PAID", "REJECTED"} => status'[w] = status[w]]_vars
=============================================================================
