------------------------ MODULE WalletPaymentsProofs ------------------------
(* Theorems about WalletPayments for any number of requests, residents,    *)
(* references and bills.                                                   *)
EXTENDS WalletPayments, SumTheorems

-----------------------------------------------------------------------------
(* The inductive invariant. *)

(* Where a request stands tells what its arguments are. *)
WebhookPositions == {"lookup", "settle", "levyTx", "findExisting",
                     "creditTransfer", "followUp"}
PaymentPositions == {"payWallet", "payCommit"}

ArgumentsOK == \A t \in Threads :
    /\ pc[t] \in WebhookPositions => ref[t] \in Refs /\ charged[ref[t]] > 0
    /\ pc[t] = "settle" => ref[t] \in RowRefs
    /\ pc[t] = "levyTx" => ref[t] \in LevyRefs
    /\ pc[t] \in {"findExisting", "creditTransfer"} => ref[t] \in TransferRefs
    /\ pc[t] \in PaymentPositions => bill[t] \in Bills /\ Charge(t) > 0

(* Only checkouts have a row before the money arrives. *)
RowsOK ==
    /\ \A r \in RowRefs : charged[r] > 0 => txn[r] # "NONE"
    /\ \A r \in TransferRefs : txn[r] # "PENDING"
    /\ \A r \in Refs : credits[r] > 0 <=> txn[r] = "SUCCESS"
    /\ \A r \in TransferRefs : credits[r] <= 1

(* What a reference was credited with is what Paystack charged.            *)
ChargedOK == \A r \in Refs :
    txn[r] = "SUCCESS" => charged[r] > 0 /\ amount[r] = charged[r]

(* The paidAmount a request has read is covered by the estate's rows; when *)
(* requests are handled one at a time it is still the current one.         *)
ReadOK(t, b) ==
    /\ seen[t] <= estateRows[b]
    /\ Cardinality(Threads) = 1 => seen[t] = paid[b]

ReadsOK == \A t \in Threads :
    /\ pc[t] = "levyTx" => ReadOK(t, BillOf[ref[t]])
    /\ pc[t] \in PaymentPositions => ReadOK(t, bill[t])

IInv == TypeOK /\ ArgumentsOK /\ RowsOK /\ ChargedOK /\ ReadsOK
        /\ PaidIsInEstateLedger /\ CreditsBounded /\ LedgerExplainsBalance
        /\ OverdraftBounded

USE KindsAssumption, OwnersAssumption, ThreadsAssumption,
    MaxAmountAssumption, NoneAssumption

-----------------------------------------------------------------------------
(* The type invariant is preserved. *)
LEMMA TypeStep ==
    ASSUME TypeOK, ArgumentsOK, Next
    PROVE  TypeOK'
<1>1. ASSUME NEW r \in FundingRefs, InitializeWalletFunding(r)
      PROVE  TypeOK'
  BY <1>1 DEF TypeOK, InitializeWalletFunding, Refs, RowRefs, RowStatuses,
              Amounts, rows, bills, bank, request
<1>2. ASSUME NEW r \in LevyRefs, InitializeLevyPayment(r)
      PROVE  TypeOK'
  BY <1>2 DEF TypeOK, InitializeLevyPayment, Outstanding, Refs, RowRefs,
              RowStatuses, rows, bills, bank, request
<1>3. ASSUME NEW p \in Residents, LinkVirtualAccount(p)
      PROVE  TypeOK'
  BY <1>3 DEF TypeOK, LinkVirtualAccount, rows, bills, bank, request
<1>4. ASSUME NEW r \in RowRefs, PayCheckout(r)
      PROVE  TypeOK'
  BY <1>4 DEF TypeOK, PayCheckout, Refs, rows, bills, bank, request
<1>5. ASSUME NEW r \in TransferRefs, PayTransfer(r)
      PROVE  TypeOK'
  BY <1>5 DEF TypeOK, PayTransfer, Amounts, Refs, rows, bills, bank, request
<1>6. ASSUME NEW t \in Threads, NEW r \in Refs, Deliver(t, r)
      PROVE  TypeOK'
  BY <1>6 DEF TypeOK, Deliver, Positions, rows, bills, bank, request
<1>7. ASSUME NEW t \in Threads, Webhook(t)
      PROVE  TypeOK'
  <2>1. CASE Lookup(t)
    BY <2>1 DEF TypeOK, ArgumentsOK, WebhookPositions, Lookup, GoTo, Leave,
                Acknowledge, Positions, rows, bills
  <2>2. CASE SettleFunding(t)
    BY <2>2 DEF TypeOK, ArgumentsOK, WebhookPositions, SettleFunding,
                MarkSuccess, ConfirmedAmount, GoTo, Positions, RowStatuses,
                RowRefs, Refs, bills, bank
  <2>3. CASE CommitSettleLevy(t)
    BY <2>3 DEF TypeOK, ArgumentsOK, WebhookPositions, CommitSettleLevy,
                MarkSuccess, ConfirmedAmount, CreditEstateWallet, Leave,
                Acknowledge, Positions, RowStatuses, LevyStatuses, RowRefs,
                Refs
  <2>4. CASE CreditTransfer(t)
    BY <2>4 DEF TypeOK, ArgumentsOK, WebhookPositions, CreditTransfer,
                MarkSuccess, ConfirmedAmount, GoTo, Positions, RowStatuses,
                Refs, bills, bank
  <2>5. CASE BeginSettleLevy(t)
    BY <2>5 DEF TypeOK, BeginSettleLevy, PaidSoFar, Positions, rows, bills,
                bank
  <2>6. CASE FindExistingTransfer(t)
    BY <2>6 DEF TypeOK, ArgumentsOK, WebhookPositions, FindExistingTransfer,
                GoTo, Leave, NoWalletMatched, Acknowledge, Positions, rows,
                bills
  <2>7. CASE FollowUp(t)
    BY <2>7 DEF TypeOK, ArgumentsOK, WebhookPositions, FollowUp, Leave,
                Acknowledge, Positions, rows, bills
  <2> QED BY <1>7, <2>1, <2>2, <2>3, <2>4, <2>5, <2>6, <2>7
          DEF Webhook, Settle
<1>8. ASSUME NEW t \in Threads, PayFromWallet(t)
      PROVE  TypeOK'
  <2>1. ASSUME NEW b \in Bills, ReadBill(t, b)
        PROVE  TypeOK'
    BY <2>1 DEF TypeOK, ReadBill, PaidSoFar, Positions, rows, bills, bank
  <2>2. CASE ReadWallet(t)
    BY <2>2 DEF TypeOK, ReadWallet, GoTo, Leave, Positions, rows, bills, bank
  <2>3. CASE CommitPayLevy(t)
    <3>1. bill[t] \in Bills /\ Charge(t) \in Nat /\ seen[t] + Charge(t) \in Nat
      BY <2>3 DEF TypeOK, ArgumentsOK, PaymentPositions, CommitPayLevy,
                  Charge, Outstanding
    <3> QED
      BY <2>3, <3>1 DEF TypeOK, CommitPayLevy, CreditEstateWallet, Leave,
                        Positions, LevyStatuses, rows, bank
  <2> QED BY <1>8, <2>1, <2>2, <2>3 DEF PayFromWallet
<1>9. ASSUME NEW t \in Threads, Fail(t)
      PROVE  TypeOK'
  BY <1>9 DEF TypeOK, Fail, Leave, Positions, rows, bills, bank
<1> QED BY <1>1, <1>2, <1>3, <1>4, <1>5, <1>6, <1>7, <1>8, <1>9 DEF Next

-----------------------------------------------------------------------------
(* The arguments of a request stay what its position says. *)
LEMMA ArgumentsStep ==
    ASSUME TypeOK, ArgumentsOK, RowsOK, Next
    PROVE  ArgumentsOK'
<1>1. ASSUME NEW r \in FundingRefs, InitializeWalletFunding(r)
      PROVE  ArgumentsOK'
  BY <1>1 DEF ArgumentsOK, InitializeWalletFunding, Charge, Outstanding,
              bills, bank, request
<1>2. ASSUME NEW r \in LevyRefs, InitializeLevyPayment(r)
      PROVE  ArgumentsOK'
  BY <1>2 DEF ArgumentsOK, InitializeLevyPayment, Charge, Outstanding, bills,
     bank, request
<1>3. ASSUME NEW p \in Residents, LinkVirtualAccount(p)
      PROVE  ArgumentsOK'
  BY <1>3 DEF ArgumentsOK, LinkVirtualAccount, Charge, Outstanding, bills,
     bank, request
<1>4. ASSUME NEW r \in RowRefs, PayCheckout(r)
      PROVE  ArgumentsOK'
  BY <1>4 DEF TypeOK, ArgumentsOK, PayCheckout, Charge, Outstanding, bills,
              request, WebhookPositions
<1>5. ASSUME NEW r \in TransferRefs, PayTransfer(r)
      PROVE  ArgumentsOK'
  BY <1>5 DEF TypeOK, ArgumentsOK, PayTransfer, Charge, Outstanding, bills,
              request, Amounts, WebhookPositions
<1>6. ASSUME NEW t \in Threads, NEW r \in Refs, Deliver(t, r)
      PROVE  ArgumentsOK'
  BY <1>6 DEF TypeOK, ArgumentsOK, Deliver, Charge, Outstanding, bills, bank,
              WebhookPositions, PaymentPositions
<1>7. ASSUME NEW t \in Threads, Webhook(t)
      PROVE  ArgumentsOK'
  <2>1. CASE Lookup(t)
    <3>1. ref[t] \in Refs /\ charged[ref[t]] > 0
      BY <2>1 DEF ArgumentsOK, Lookup, WebhookPositions
    <3>2. txn[ref[t]] = "NONE" => ref[t] \in TransferRefs
      BY <3>1 DEF RowsOK, Refs
    <3>3. (txn[ref[t]] # "NONE" /\ ~AlreadyProcessed(ref[t]))
              => ref[t] \in RowRefs
      BY <3>1 DEF TypeOK, RowsOK, Refs, AlreadyProcessed, RowStatuses
    <3> QED
      BY <2>1, <3>1, <3>2, <3>3
      DEF TypeOK, ArgumentsOK, Lookup, GoTo, Leave, Acknowledge, Charge,
          Outstanding, bills, WebhookPositions, PaymentPositions
  <2>2. CASE SettleFunding(t)
    BY <2>2 DEF TypeOK, ArgumentsOK, SettleFunding, GoTo, Charge, Outstanding,
                bills, bank, WebhookPositions, PaymentPositions
  <2>3. CASE CommitSettleLevy(t)
    BY <2>3 DEF TypeOK, ArgumentsOK, CommitSettleLevy, Leave, Acknowledge,
                Charge, Outstanding, WebhookPositions, PaymentPositions
  <2>4. CASE CreditTransfer(t)
    BY <2>4 DEF TypeOK, ArgumentsOK, CreditTransfer, GoTo, Charge,
                Outstanding, bills, bank, WebhookPositions, PaymentPositions
  <2>5. CASE BeginSettleLevy(t)
    BY <2>5 DEF TypeOK, ArgumentsOK, BeginSettleLevy, Charge, Outstanding,
                bills, bank, WebhookPositions, PaymentPositions
  <2>6. CASE FindExistingTransfer(t)
    BY <2>6 DEF TypeOK, ArgumentsOK, FindExistingTransfer, GoTo, Leave,
                NoWalletMatched, Acknowledge, Charge, Outstanding, bills,
                WebhookPositions, PaymentPositions
  <2>7. CASE FollowUp(t)
    BY <2>7 DEF TypeOK, ArgumentsOK, FollowUp, Leave, Acknowledge, Charge,
                Outstanding, bills, WebhookPositions, PaymentPositions
  <2> QED BY <1>7, <2>1, <2>2, <2>3, <2>4, <2>5, <2>6, <2>7
          DEF Webhook, Settle
<1>8. ASSUME NEW t \in Threads, PayFromWallet(t)
      PROVE  ArgumentsOK'
  <2>1. ASSUME NEW b \in Bills, ReadBill(t, b)
        PROVE  ArgumentsOK'
    BY <2>1 DEF TypeOK, ArgumentsOK, ReadBill, PaidSoFar, Charge, Outstanding,
                bills, bank, WebhookPositions, PaymentPositions
  <2>2. CASE ReadWallet(t)
    BY <2>2 DEF TypeOK, ArgumentsOK, ReadWallet, GoTo, Leave, Charge,
                Outstanding, bills, bank, WebhookPositions, PaymentPositions
  <2>3. CASE CommitPayLevy(t)
    BY <2>3 DEF TypeOK, ArgumentsOK, CommitPayLevy, Leave, Charge,
                Outstanding, bank, WebhookPositions, PaymentPositions
  <2> QED BY <1>8, <2>1, <2>2, <2>3 DEF PayFromWallet
<1>9. ASSUME NEW t \in Threads, Fail(t)
      PROVE  ArgumentsOK'
  BY <1>9 DEF TypeOK, ArgumentsOK, Fail, Leave, Charge, Outstanding, bills,
              bank, WebhookPositions, PaymentPositions
<1> QED BY <1>1, <1>2, <1>3, <1>4, <1>5, <1>6, <1>7, <1>8, <1>9 DEF Next

-----------------------------------------------------------------------------
(* A row is SUCCESS exactly when its reference was credited. *)

(* Settling one reference keeps the rule for every other reference. *)
LEMMA MarkSuccessRows ==
    ASSUME TypeOK, RowsOK, NEW r \in Refs, MarkSuccess(r),
           UNCHANGED charged,
           r \in TransferRefs => txn[r] = "NONE"
    PROVE  RowsOK'
BY DEF TypeOK, RowsOK, MarkSuccess, RowRefs, Refs

(* Rows and credits stay in step whatever the handlers do. *)
LEMMA RowsStep ==
    ASSUME TypeOK, ArgumentsOK, RowsOK, Next
    PROVE  RowsOK'
<1>1. ASSUME NEW r \in FundingRefs, InitializeWalletFunding(r)
      PROVE  RowsOK'
  BY <1>1 DEF TypeOK, RowsOK, InitializeWalletFunding, bank, RowRefs, Refs
<1>2. ASSUME NEW r \in LevyRefs, InitializeLevyPayment(r)
      PROVE  RowsOK'
  BY <1>2 DEF TypeOK, RowsOK, InitializeLevyPayment, bank, RowRefs, Refs
<1>3. ASSUME NEW r \in RowRefs, PayCheckout(r)
      PROVE  RowsOK'
  BY <1>3 DEF TypeOK, RowsOK, PayCheckout, rows, RowRefs, Refs
<1>4. ASSUME NEW r \in TransferRefs, PayTransfer(r)
      PROVE  RowsOK'
  BY <1>4 DEF TypeOK, RowsOK, PayTransfer, rows, RowRefs, Refs
<1>5. ASSUME NEW t \in Threads, SettleFunding(t)
      PROVE  RowsOK'
  BY <1>5, MarkSuccessRows DEF SettleFunding, bank, RowRefs, Refs
<1>6. ASSUME NEW t \in Threads, CommitSettleLevy(t)
      PROVE  RowsOK'
  BY <1>6, MarkSuccessRows DEF CommitSettleLevy, ArgumentsOK, RowRefs, Refs,
                               WebhookPositions
<1>7. ASSUME NEW t \in Threads, CreditTransfer(t)
      PROVE  RowsOK'
  BY <1>7, MarkSuccessRows DEF CreditTransfer, ReferenceIsFree, ArgumentsOK,
                               bank, Refs, WebhookPositions
<1>8. CASE UNCHANGED <<txn, charged, credits>>
  BY <1>8 DEF RowsOK
<1> QED
  BY <1>1, <1>2, <1>3, <1>4, <1>5, <1>6, <1>7, <1>8
  DEF Next, Webhook, Settle, PayFromWallet, LinkVirtualAccount, Deliver,
      Lookup, BeginSettleLevy, FindExistingTransfer, FollowUp, ReadBill,
      ReadWallet, CommitPayLevy, Fail, rows, bank

-----------------------------------------------------------------------------
(* A bill shows no more than the estate wallet received for it. *)

(* On a server of one request, any two requests are the same. *)
LEMMA OneThread ==
    ASSUME Cardinality(Threads) = 1, NEW t \in Threads, NEW u \in Threads
    PROVE  t = u
<1>1. PICK x : Threads = {x}
  BY FS_Singleton
<1> QED BY <1>1

(* A payment of n towards bill b, computed from the amount t had read. *)
LEMMA PaymentKeepsBacking ==
    ASSUME TypeOK, ArgumentsOK, ReadsOK, PaidIsInEstateLedger,
           NEW t \in Threads, NEW b \in Bills, NEW n \in Nat,
           ReadOK(t, b),
           pc[t] \in {"levyTx", "payCommit"},
           paid' = [paid EXCEPT ![b] = seen[t] + n],
           CreditEstateWallet(b, n),
           Leave(t)
    PROVE  ReadsOK' /\ PaidIsInEstateLedger'
<1>1. PaidIsInEstateLedger'
  BY DEF TypeOK, PaidIsInEstateLedger, CreditEstateWallet, ReadOK
<1>2. ReadsOK'
  <2> SUFFICES ASSUME NEW u \in Threads, u # t
               PROVE  /\ pc[u] = "levyTx" => ReadOK(u, BillOf[ref[u]])'
                      /\ pc[u] \in PaymentPositions => ReadOK(u, bill[u])'
    BY DEF TypeOK, ReadsOK, Leave, PaymentPositions
  <2>1. Cardinality(Threads) # 1
    BY OneThread
  <2>2. pc[u] = "levyTx" => ref[u] \in Refs /\ BillOf[ref[u]] \in Bills
    BY DEF ArgumentsOK, WebhookPositions
  <2>3. pc[u] \in PaymentPositions => bill[u] \in Bills
    BY DEF ArgumentsOK
  <2> QED
    BY <2>1, <2>2, <2>3
    DEF TypeOK, ReadsOK, ReadOK, CreditEstateWallet, Leave
<1> QED BY <1>1, <1>2

(* No handler shows a payment the estate wallet did not receive. *)
LEMMA BackingStep ==
    ASSUME TypeOK, ArgumentsOK, ReadsOK, PaidIsInEstateLedger, Next
    PROVE  ReadsOK' /\ PaidIsInEstateLedger'
<1>1. ASSUME NEW t \in Threads, CommitSettleLevy(t)
      PROVE  ReadsOK' /\ PaidIsInEstateLedger'
  <2>1. ref[t] \in LevyRefs /\ BillOf[ref[t]] \in Bills
    BY <1>1 DEF ArgumentsOK, CommitSettleLevy
  <2>2. charged[ref[t]] \in Nat /\ ReadOK(t, BillOf[ref[t]])
    BY <1>1, <2>1 DEF TypeOK, ReadsOK, CommitSettleLevy, RowRefs, Refs
  <2> QED
    BY <1>1, <2>1, <2>2, PaymentKeepsBacking
    DEF CommitSettleLevy, Acknowledge
<1>2. ASSUME NEW t \in Threads, CommitPayLevy(t)
      PROVE  ReadsOK' /\ PaidIsInEstateLedger'
  <2>1. bill[t] \in Bills /\ ReadOK(t, bill[t]) /\ Charge(t) > 0
    BY <1>2 DEF ArgumentsOK, ReadsOK, CommitPayLevy, PaymentPositions
  <2>2. Charge(t) \in Nat
    BY <2>1 DEF TypeOK, Charge, Outstanding
  <2> QED
    BY <1>2, <2>1, <2>2, PaymentKeepsBacking DEF CommitPayLevy
<1>3. ASSUME UNCHANGED bills,
             NEW t \in Threads,
             \A u \in Threads \ {t} :
                UNCHANGED <<pc[u], ref[u], bill[u], seen[u]>>,
             pc'[t] = "levyTx" => ReadOK(t, BillOf[ref[t]])',
             pc'[t] \in PaymentPositions => ReadOK(t, bill[t])'
      PROVE  ReadsOK' /\ PaidIsInEstateLedger'
  BY <1>3 DEF ReadsOK, ReadOK, PaidIsInEstateLedger, bills
<1>4. ASSUME NEW t \in Threads, BeginSettleLevy(t)
      PROVE  ReadsOK' /\ PaidIsInEstateLedger'
  <2>1. BillOf[ref[t]] \in Bills
    BY <1>4 DEF BeginSettleLevy
  <2> QED
    BY <1>3, <1>4, <2>1
    DEF TypeOK, BeginSettleLevy, ReadOK, PaidSoFar, PaidIsInEstateLedger,
        PaymentPositions, bills
<1>5. ASSUME NEW t \in Threads, NEW b \in Bills, ReadBill(t, b)
      PROVE  ReadsOK' /\ PaidIsInEstateLedger'
  BY <1>3, <1>5
  DEF TypeOK, ReadBill, ReadOK, PaidSoFar, PaidIsInEstateLedger, bills
<1>6. ASSUME NEW t \in Threads,
             ReadWallet(t) \/ Fail(t) \/ Lookup(t) \/ FindExistingTransfer(t)
               \/ FollowUp(t) \/ SettleFunding(t) \/ CreditTransfer(t)
               \/ (\E r \in Refs : Deliver(t, r))
      PROVE  ReadsOK' /\ PaidIsInEstateLedger'
  BY <1>3, <1>6
  DEF TypeOK, ReadsOK, ReadOK, ReadWallet, Fail, Lookup, FindExistingTransfer,
      FollowUp, SettleFunding, CreditTransfer, Deliver, GoTo, Leave,
      Acknowledge, NoWalletMatched, PaymentPositions, bills
<1>7. CASE UNCHANGED <<bills, request>>
  BY <1>7 DEF ReadsOK, ReadOK, PaidIsInEstateLedger, bills, request
<1> QED
  BY <1>1, <1>2, <1>4, <1>5, <1>6, <1>7
  DEF Next, Webhook, Settle, PayFromWallet, InitializeWalletFunding,
      InitializeLevyPayment, LinkVirtualAccount, PayCheckout, PayTransfer

-----------------------------------------------------------------------------
(* Credits of one reference are bounded by the requests in flight. *)

(* The requests holding a reference are finite in number. *)
LEMMA HoldingFinite ==
    ASSUME NEW r
    PROVE  /\ IsFiniteSet(Holding(r))
           /\ Cardinality(Holding(r)) \in Nat
           /\ Cardinality(Holding(r)) <= Cardinality(Threads)
           /\ Cardinality(Threads) \in Nat
<1>1. Holding(r) \subseteq Threads
  BY DEF Holding
<1> QED BY <1>1, FS_Subset, FS_CardinalityType

(* A step that credits nothing and lets nobody else hold the reference. *)
LEMMA HoldingShrinks ==
    ASSUME TypeOK, CreditsBounded, NEW r \in RowRefs,
           credits'[r] = credits[r],
           Holding(r)' \subseteq Holding(r)
    PROVE  credits'[r] > 0 =>
             credits'[r] + Cardinality(Holding(r)') <= Cardinality(Threads)
<1>1. Cardinality(Holding(r)') <= Cardinality(Holding(r))
  BY HoldingFinite, FS_Subset
<1>2. IsFiniteSet(Holding(r)')
  BY HoldingFinite, FS_Subset
<1>3. /\ Cardinality(Holding(r)) \in Nat
      /\ Cardinality(Holding(r)') \in Nat
      /\ Cardinality(Threads) \in Nat
  BY <1>2, HoldingFinite, FS_CardinalityType
<1>4. credits[r] > 0 =>
        credits[r] + Cardinality(Holding(r)) <= Cardinality(Threads)
  BY DEF CreditsBounded
<1> QED BY <1>1, <1>3, <1>4 DEF TypeOK, Refs

(* A request that credits a reference stops holding it. *)
LEMMA CreditReleases ==
    ASSUME TypeOK, CreditsBounded, NEW t \in Threads, NEW r \in RowRefs,
           t \in Holding(r),
           credits' = [credits EXCEPT ![r] = @ + 1],
           \A q \in RowRefs : Holding(q)' = Holding(q) \ {t}
    PROVE  CreditsBounded'
<1>1. Cardinality(Holding(r)') = Cardinality(Holding(r)) - 1
  BY HoldingFinite, FS_RemoveElement
<1>2. credits'[r] + Cardinality(Holding(r)') <= Cardinality(Threads)
  BY <1>1, HoldingFinite DEF TypeOK, CreditsBounded, Refs
<1>3. ASSUME NEW q \in RowRefs, q # r
      PROVE  credits'[q] > 0 =>
               credits'[q] + Cardinality(Holding(q)') <= Cardinality(Threads)
  <2>1. credits'[q] = credits[q]
    BY <1>3 DEF TypeOK, Refs
  <2>2. Holding(q)' \subseteq Holding(q)
    OBVIOUS
  <2> QED BY <2>1, <2>2, HoldingShrinks
<1> QED BY <1>2, <1>3 DEF CreditsBounded

(* Every handler keeps the bound on credits. *)
LEMMA CreditsStep ==
    ASSUME TypeOK, ArgumentsOK, RowsOK, CreditsBounded, Next
    PROVE  CreditsBounded'
<1>1. ASSUME NEW t \in Threads, SettleFunding(t)
      PROVE  CreditsBounded'
  <2>1. ref[t] \in RowRefs /\ t \in Holding(ref[t])
    BY <1>1 DEF SettleFunding, Holding, RowRefs
  <2>2. \A q \in RowRefs : Holding(q)' = Holding(q) \ {t}
    BY <1>1 DEF TypeOK, SettleFunding, GoTo, Holding
  <2> QED
    BY <1>1, <2>1, <2>2, CreditReleases DEF SettleFunding, MarkSuccess
<1>2. ASSUME NEW t \in Threads, CommitSettleLevy(t)
      PROVE  CreditsBounded'
  <2>1. ref[t] \in RowRefs /\ t \in Holding(ref[t])
    BY <1>2 DEF ArgumentsOK, CommitSettleLevy, Holding, RowRefs
  <2>2. \A q \in RowRefs : Holding(q)' = Holding(q) \ {t}
    BY <1>2 DEF TypeOK, CommitSettleLevy, Acknowledge, Leave, Holding
  <2> QED
    BY <1>2, <2>1, <2>2, CreditReleases DEF CommitSettleLevy, MarkSuccess
<1>3. ASSUME NEW t \in Threads, CreditTransfer(t), NEW r \in RowRefs
      PROVE  credits'[r] = credits[r] /\ Holding(r)' \subseteq Holding(r)
  BY <1>3 DEF TypeOK, ArgumentsOK, CreditTransfer, MarkSuccess, GoTo, Holding,
              RowRefs, Refs
<1>4. ASSUME NEW t \in Threads, Lookup(t), NEW r \in RowRefs, credits[r] > 0
      PROVE  Holding(r)' \subseteq Holding(r)
  BY <1>4 DEF TypeOK, RowsOK, Lookup, AlreadyProcessed, GoTo, Leave,
              Acknowledge, Holding, Refs
<1>5. ASSUME NEW t \in Threads, NEW r \in RowRefs,
             BeginSettleLevy(t) \/ ReadWallet(t) \/ Fail(t)
               \/ FindExistingTransfer(t) \/ FollowUp(t) \/ CommitPayLevy(t)
               \/ (\E q \in Refs : Deliver(t, q))
               \/ (\E b \in Bills : ReadBill(t, b))
      PROVE  Holding(r)' \subseteq Holding(r)
  BY <1>5
  DEF TypeOK, BeginSettleLevy, ReadWallet, Fail, FindExistingTransfer,
      FollowUp, CommitPayLevy, Deliver, ReadBill, GoTo, Leave, Acknowledge,
      NoWalletMatched, Holding
<1>6. CASE UNCHANGED <<request, credits>>
  BY <1>6 DEF CreditsBounded, Holding, request
<1>7. ASSUME UNCHANGED credits,
             \A r \in RowRefs : credits[r] > 0 => Holding(r)' \subseteq Holding(r)
      PROVE  CreditsBounded'
  BY <1>7, HoldingShrinks DEF CreditsBounded
<1>8. ASSUME NEW t \in Threads, CreditTransfer(t)
      PROVE  CreditsBounded'
  BY <1>3, <1>8, HoldingShrinks DEF CreditsBounded
<1> QED
  BY <1>1, <1>2, <1>4, <1>5, <1>6, <1>7, <1>8
  DEF Next, Webhook, Settle, PayFromWallet, InitializeWalletFunding,
      InitializeLevyPayment, LinkVirtualAccount, PayCheckout, PayTransfer,
      Lookup, BeginSettleLevy, ReadWallet, Fail, FindExistingTransfer,
      FollowUp, CommitPayLevy, Deliver, ReadBill

-----------------------------------------------------------------------------
(* The statement explains the balance. *)

(* A row that is SUCCESS is not opened, charged or given another amount.   *)
LEMMA ChargedStep ==
    ASSUME TypeOK, ArgumentsOK, RowsOK, ChargedOK, Next
    PROVE  ChargedOK'
<1>1. ASSUME NEW r \in FundingRefs, InitializeWalletFunding(r)
      PROVE  ChargedOK'
  BY <1>1 DEF TypeOK, ChargedOK, InitializeWalletFunding, bank, RowRefs, Refs
<1>2. ASSUME NEW r \in LevyRefs, InitializeLevyPayment(r)
      PROVE  ChargedOK'
  BY <1>2 DEF TypeOK, ChargedOK, InitializeLevyPayment, bank, RowRefs, Refs
<1>3. ASSUME NEW r \in RowRefs, PayCheckout(r)
      PROVE  ChargedOK'
  BY <1>3 DEF TypeOK, ChargedOK, PayCheckout, rows, RowRefs, Refs
<1>4. ASSUME NEW r \in TransferRefs, PayTransfer(r)
      PROVE  ChargedOK'
  BY <1>4 DEF TypeOK, ChargedOK, PayTransfer, rows, RowRefs, Refs
<1>5. ASSUME NEW t \in Threads, Settle(t)
      PROVE  ChargedOK'
  <2>1. ref[t] \in Refs /\ charged[ref[t]] > 0
    BY <1>5 DEF ArgumentsOK, WebhookPositions, Settle, SettleFunding,
                CommitSettleLevy, CreditTransfer
  <2>2. MarkSuccess(ref[t]) /\ UNCHANGED charged
    BY <1>5 DEF Settle, SettleFunding, CommitSettleLevy, CreditTransfer, bank
  <2> QED
    BY <2>1, <2>2 DEF TypeOK, ChargedOK, MarkSuccess, ConfirmedAmount
<1>6. CASE UNCHANGED <<txn, amount, charged>>
  BY <1>6 DEF ChargedOK
<1>7. ASSUME NEW t \in Threads, Webhook(t)
      PROVE  Settle(t) \/ UNCHANGED <<txn, amount, charged>>
  BY <1>7 DEF Webhook, Lookup, BeginSettleLevy, FindExistingTransfer,
              FollowUp, rows, bank
<1>8. ASSUME NEW t \in Threads, PayFromWallet(t) \/ Fail(t)
      PROVE  UNCHANGED <<txn, amount, charged>>
  BY <1>8 DEF PayFromWallet, ReadBill, ReadWallet, CommitPayLevy, Fail, rows,
              bank
<1>9. ASSUME NEW p \in Residents, LinkVirtualAccount(p)
      PROVE  UNCHANGED <<txn, amount, charged>>
  BY <1>9 DEF LinkVirtualAccount, rows, bank
<1>10. ASSUME NEW t \in Threads, NEW r \in Refs, Deliver(t, r)
      PROVE  UNCHANGED <<txn, amount, charged>>
  BY <1>10 DEF Deliver, rows, bank
<1> QED
  BY <1>1, <1>2, <1>3, <1>4, <1>5, <1>6, <1>7, <1>8, <1>9, <1>10 DEF Next

(* The rows of a statement are finitely many and hold naturals.            *)
LEMMA StatementIsInt ==
    ASSUME TypeOK, NEW p \in Residents
    PROVE  /\ IsFiniteSet(CreditRows(p)) /\ IsFiniteSet(DebitRows(p))
           /\ \A r \in CreditRows(p) : r \in Refs /\ amount[r] \in Int
           /\ \A b \in DebitRows(p) : b \in Bills /\ walletRows[b] \in Int
           /\ SumFunctionOnSet(amount, CreditRows(p)) \in Int
           /\ SumFunctionOnSet(walletRows, DebitRows(p)) \in Int
           /\ Statement(p) \in Int
<1>1. CreditRows(p) \subseteq Refs /\ DebitRows(p) \subseteq Bills
  BY DEF CreditRows, DebitRows, Refs, RowRefs
<1>2. IsFiniteSet(CreditRows(p)) /\ IsFiniteSet(DebitRows(p))
  BY <1>1, RowsAssumption, FS_Subset
<1>3. /\ \A r \in CreditRows(p) : r \in Refs /\ amount[r] \in Int
      /\ \A b \in DebitRows(p) : b \in Bills /\ walletRows[b] \in Int
  BY <1>1 DEF TypeOK
<1>4. /\ SumFunctionOnSet(amount, CreditRows(p)) \in Int
      /\ SumFunctionOnSet(walletRows, DebitRows(p)) \in Int
  BY <1>2, <1>3, SumIsInt
<1> QED
  BY <1>2, <1>3, <1>4 DEF Statement

(* A step that accounts for itself: the balance gains at least what the    *)
(* statement does, and as much while every reference is credited once.     *)
CreditedOnce(p) == \A r \in CreditRows(p) : credits[r] = 1

Accounted(p) ==
    /\ Statement(p)' \in Int
    /\ balance'[p] - balance[p] >= Statement(p)' - Statement(p)
    /\ CreditedOnce(p)' =>
           /\ CreditedOnce(p)
           /\ balance'[p] - balance[p] = Statement(p)' - Statement(p)

(* Steps that leave balances and rows alone, or only write the amount of   *)
(* rows outside the statement.                                             *)
LEMMA UnmovedAccounted ==
    ASSUME TypeOK, TypeOK', NEW p \in Residents,
           UNCHANGED <<balance, walletRows>>,
           CreditRows(p)' = CreditRows(p),
           \A r \in CreditRows(p) : amount'[r] = amount[r]
                                    /\ credits'[r] = credits[r]
    PROVE  Accounted(p)
<1>1. SumFunctionOnSet(amount', CreditRows(p))
          = SumFunctionOnSet(amount, CreditRows(p))
  BY StatementIsInt, SumSame
<1>2. Statement(p)' = Statement(p)
  BY <1>1 DEF Statement, DebitRows
<1>3. CreditedOnce(p)' => CreditedOnce(p)
  BY DEF CreditedOnce
<1> QED
  BY <1>2, <1>3, StatementIsInt DEF Accounted, TypeOK

(* A credit enters the statement the first time; a repeated one raises     *)
(* only the balance.                                                       *)
LEMMA CreditAccounted ==
    ASSUME TypeOK, TypeOK', RowsOK, ChargedOK, NEW p \in Residents,
           NEW r \in FundingRefs \cup TransferRefs, charged[r] > 0,
           MarkSuccess(r), UNCHANGED walletRows,
           balance' = [balance EXCEPT ![Payer[r]] = @ + charged[r]]
    PROVE  Accounted(p)
<1>1. r \in Refs /\ charged[r] \in Nat
  BY DEF TypeOK, Refs, RowRefs
<1>2. /\ amount'[r] = charged[r] /\ credits'[r] = credits[r] + 1
      /\ txn'[r] = "SUCCESS"
      /\ \A q \in Refs \ {r} : /\ amount'[q] = amount[q]
                               /\ credits'[q] = credits[q]
                               /\ txn'[q] = txn[q]
  BY <1>1 DEF TypeOK, MarkSuccess, ConfirmedAmount
<1>3. credits[r] \in Nat /\ (credits[r] > 0 <=> txn[r] = "SUCCESS")
  BY <1>1 DEF TypeOK, RowsOK
<1>4. FundingRefs \cup TransferRefs \subseteq Refs
  BY DEF Refs, RowRefs
<1>5. CASE Payer[r] # p
  <2>1. balance'[p] = balance[p]
    BY <1>1, <1>5 DEF TypeOK
  <2>2. CreditRows(p)' = CreditRows(p) /\ r \notin CreditRows(p)
    BY <1>2, <1>4, <1>5 DEF CreditRows
  <2>3. \A q \in CreditRows(p) : /\ amount'[q] = amount[q]
                                 /\ credits'[q] = credits[q]
    BY <1>2, <2>2, StatementIsInt
  <2>4. SumFunctionOnSet(amount', CreditRows(p))
            = SumFunctionOnSet(amount, CreditRows(p))
    BY <2>3, StatementIsInt, SumSame
  <2>5. Statement(p)' = Statement(p)
    BY <2>2, <2>4 DEF Statement, DebitRows
  <2>6. CreditedOnce(p)' => CreditedOnce(p)
    BY <2>2, <2>3 DEF CreditedOnce
  <2> QED
    BY <2>1, <2>5, <2>6, StatementIsInt DEF Accounted, TypeOK
<1>6. CASE Payer[r] = p /\ txn[r] # "SUCCESS"
  <2>1. balance'[p] = balance[p] + charged[r] /\ balance[p] \in Int
    BY <1>1, <1>6 DEF TypeOK
  <2>2. CreditRows(p)' = CreditRows(p) \cup {r} /\ r \notin CreditRows(p)
    BY <1>2, <1>4, <1>6 DEF CreditRows
  <2>3. \A q \in CreditRows(p) : /\ amount'[q] = amount[q]
                                 /\ credits'[q] = credits[q]
    BY <1>2, <2>2, StatementIsInt
  <2>4. SumFunctionOnSet(amount', CreditRows(p))
            = SumFunctionOnSet(amount, CreditRows(p))
    BY <2>3, StatementIsInt, SumSame
  <2>5. \A q \in CreditRows(p) \cup {r} : amount'[q] \in Int
    BY <1>1, StatementIsInt DEF TypeOK
  <2>6. SumFunctionOnSet(amount', CreditRows(p) \cup {r})
            = amount'[r] + SumFunctionOnSet(amount', CreditRows(p))
    BY <2>2, <2>5, StatementIsInt, SumAdd
  <2>7. Statement(p)' = Statement(p) + charged[r]
    BY <1>1, <1>2, <2>2, <2>4, <2>6, StatementIsInt DEF Statement, DebitRows
  <2>8. CreditedOnce(p)' => CreditedOnce(p)
    BY <2>2, <2>3 DEF CreditedOnce
  <2> QED
    BY <1>1, <2>1, <2>7, <2>8, StatementIsInt DEF Accounted
<1>7. CASE Payer[r] = p /\ txn[r] = "SUCCESS"
  <2>1. balance'[p] = balance[p] + charged[r] /\ balance[p] \in Int
    BY <1>1, <1>7 DEF TypeOK
  <2>2. CreditRows(p)' = CreditRows(p) /\ r \in CreditRows(p)
    BY <1>2, <1>4, <1>7 DEF CreditRows
  <2>3. \A q \in CreditRows(p) : amount'[q] = amount[q]
    BY <1>1, <1>2, <1>7, StatementIsInt DEF ChargedOK
  <2>4. SumFunctionOnSet(amount', CreditRows(p))
            = SumFunctionOnSet(amount, CreditRows(p))
    BY <2>3, StatementIsInt, SumSame
  <2>5. Statement(p)' = Statement(p)
    BY <2>2, <2>4 DEF Statement, DebitRows
  <2>6. ~CreditedOnce(p)'
    BY <1>2, <1>3, <1>7, <2>2 DEF CreditedOnce
  <2> QED
    BY <1>1, <2>1, <2>5, <2>6, StatementIsInt DEF Accounted
<1> QED
  BY <1>5, <1>6, <1>7

(* A bill paid from the wallet leaves both by the same amount.             *)
LEMMA DebitAccounted ==
    ASSUME TypeOK, TypeOK', ArgumentsOK, NEW p \in Residents,
           NEW t \in Threads, CommitPayLevy(t)
    PROVE  Accounted(p)
<1> DEFINE b == bill[t]
           n == Charge(t)
<1>1. b \in Bills /\ n \in Int
  BY DEF CommitPayLevy, TypeOK, ArgumentsOK, PaymentPositions, Charge,
         Outstanding
<1>2. /\ balance' = [balance EXCEPT ![Debtor[b]] = @ - n]
      /\ walletRows' = [walletRows EXCEPT ![b] = @ + n]
      /\ UNCHANGED <<txn, amount, credits>>
  BY DEF CommitPayLevy, rows
<1> HIDE DEF b, n
<1>3. /\ walletRows \in [Bills -> Nat] /\ balance \in [Residents -> Int]
      /\ walletRows' \in [Bills -> Nat]
  BY DEF TypeOK
<1>4. CreditRows(p)' = CreditRows(p) /\ (CreditedOnce(p)' <=> CreditedOnce(p))
  BY <1>2 DEF CreditRows, CreditedOnce
<1>5. CASE Debtor[b] # p
  <2>1. balance'[p] = balance[p] /\ balance[p] \in Int
    BY <1>2, <1>3, <1>5
  <2>2. \A c \in DebitRows(p) : walletRows'[c] = walletRows[c]
    BY <1>1, <1>2, <1>3, <1>5 DEF DebitRows
  <2>3. SumFunctionOnSet(walletRows', DebitRows(p))
            = SumFunctionOnSet(walletRows, DebitRows(p))
    BY <2>2, StatementIsInt, SumSame
  <2>4. Statement(p)' = Statement(p)
    BY <1>2, <1>4, <2>3 DEF Statement, DebitRows
  <2> QED
    BY <1>4, <2>1, <2>4, StatementIsInt DEF Accounted
<1>6. CASE Debtor[b] = p
  <2>1. balance'[p] = balance[p] - n /\ balance[p] \in Int
    BY <1>2, <1>3, <1>6
  <2>2. b \in DebitRows(p)
    BY <1>1, <1>6 DEF DebitRows
  <2>3. /\ walletRows'[b] = walletRows[b] + n
        /\ walletRows[b] \in Int /\ walletRows'[b] \in Int
        /\ \A c \in DebitRows(p) \ {b} : walletRows'[c] = walletRows[c]
    BY <1>1, <1>2, <1>3, StatementIsInt
  <2>4. SumFunctionOnSet(walletRows', DebitRows(p))
            = SumFunctionOnSet(walletRows, DebitRows(p))
                  + (walletRows'[b] - walletRows[b])
    BY <2>2, <2>3, StatementIsInt, SumUpdate
  <2>5. Statement(p)' = Statement(p) - n
    BY <1>1, <1>2, <1>4, <2>3, <2>4, StatementIsInt DEF Statement, DebitRows
  <2> QED
    BY <1>1, <1>4, <2>1, <2>5, StatementIsInt DEF Accounted
<1> QED
  BY <1>5, <1>6

(* Opening a payment writes the amount of a row outside the statement.     *)
LEMMA OpeningAccounted ==
    ASSUME TypeOK, TypeOK', NEW p \in Residents, NEW r \in Refs,
           txn[r] = "NONE", txn' = [txn EXCEPT ![r] = "PENDING"],
           \A q \in Refs \ {r} : amount'[q] = amount[q],
           UNCHANGED <<balance, walletRows, credits>>
    PROVE  Accounted(p)
<1>1. CreditRows(p)' = CreditRows(p) /\ r \notin CreditRows(p)
  BY DEF TypeOK, CreditRows, Refs, RowRefs
<1>2. \A q \in CreditRows(p) : amount'[q] = amount[q]
  BY <1>1, StatementIsInt
<1> QED
  BY <1>1, <1>2, UnmovedAccounted

(* Every step accounts for itself.                                         *)
LEMMA StepAccounted ==
    ASSUME TypeOK, TypeOK', ArgumentsOK, RowsOK, ChargedOK, Next,
           NEW p \in Residents
    PROVE  Accounted(p)
<1>1. ASSUME NEW r \in FundingRefs, InitializeWalletFunding(r)
      PROVE  Accounted(p)
  <2>1. /\ txn[r] = "NONE" /\ txn' = [txn EXCEPT ![r] = "PENDING"]
        /\ \A q \in Refs \ {r} : amount'[q] = amount[q]
        /\ UNCHANGED <<balance, walletRows, credits>>
    BY <1>1 DEF TypeOK, InitializeWalletFunding, bills
  <2> QED
    BY <2>1, OpeningAccounted DEF Refs, RowRefs
<1>2. ASSUME NEW r \in LevyRefs, InitializeLevyPayment(r)
      PROVE  Accounted(p)
  <2>1. /\ txn[r] = "NONE" /\ txn' = [txn EXCEPT ![r] = "PENDING"]
        /\ \A q \in Refs \ {r} : amount'[q] = amount[q]
        /\ UNCHANGED <<balance, walletRows, credits>>
    BY <1>2 DEF TypeOK, InitializeLevyPayment, bills
  <2> QED
    BY <2>1, OpeningAccounted DEF Refs, RowRefs
<1>3. ASSUME NEW t \in Threads, SettleFunding(t)
      PROVE  Accounted(p)
  <2>1. PICK r \in FundingRefs :
           /\ charged[r] > 0 /\ MarkSuccess(r) /\ UNCHANGED walletRows
           /\ balance' = [balance EXCEPT ![Payer[r]] = @ + charged[r]]
    BY <1>3 DEF SettleFunding, ArgumentsOK, WebhookPositions, bills
  <2> QED
    BY <2>1, CreditAccounted
<1>4. ASSUME NEW t \in Threads, CreditTransfer(t)
      PROVE  Accounted(p)
  <2>1. ref[t] \in TransferRefs /\ charged[ref[t]] > 0
    BY <1>4 DEF CreditTransfer, ArgumentsOK, WebhookPositions
  <2>2. /\ MarkSuccess(ref[t]) /\ UNCHANGED walletRows
        /\ balance' = [balance EXCEPT ![Payer[ref[t]]] = @ + charged[ref[t]]]
    BY <1>4 DEF CreditTransfer, bills
  <2> QED
    BY <2>1, <2>2, CreditAccounted
<1>5. ASSUME NEW t \in Threads, CommitSettleLevy(t)
      PROVE  Accounted(p)
  <2>1. ref[t] \in LevyRefs
    BY <1>5 DEF CommitSettleLevy, ArgumentsOK
  <2>2. /\ UNCHANGED <<balance, walletRows>>
        /\ \A q \in Refs \ {ref[t]} : /\ amount'[q] = amount[q]
                                      /\ credits'[q] = credits[q]
                                      /\ txn'[q] = txn[q]
    BY <1>5 DEF TypeOK, CommitSettleLevy, MarkSuccess
  <2>3. CreditRows(p)' = CreditRows(p) /\ CreditRows(p) \subseteq Refs \ {ref[t]}
    BY <2>1, <2>2 DEF CreditRows, Refs, RowRefs
  <2> QED
    BY <2>2, <2>3, UnmovedAccounted
<1>6. ASSUME NEW t \in Threads, CommitPayLevy(t)
      PROVE  Accounted(p)
  BY <1>6, DebitAccounted
<1>7. CASE UNCHANGED <<rows, balance, walletRows, credits>>
  BY <1>7, UnmovedAccounted DEF rows, CreditRows
<1>8. ASSUME NEW t \in Threads, Webhook(t)
      PROVE  \/ SettleFunding(t) \/ CommitSettleLevy(t) \/ CreditTransfer(t)
             \/ UNCHANGED <<rows, balance, walletRows, credits>>
  BY <1>8 DEF Webhook, Settle, Lookup, BeginSettleLevy, FindExistingTransfer,
              FollowUp, bills
<1>9. ASSUME NEW t \in Threads, PayFromWallet(t) \/ Fail(t)
      PROVE  \/ CommitPayLevy(t)
             \/ UNCHANGED <<rows, balance, walletRows, credits>>
  BY <1>9 DEF PayFromWallet, ReadBill, ReadWallet, Fail, bills
<1>10. ASSUME NEW q \in Residents, LinkVirtualAccount(q)
       PROVE  UNCHANGED <<rows, balance, walletRows, credits>>
  BY <1>10 DEF LinkVirtualAccount, bills
<1>11. ASSUME NEW r \in Refs, PayCheckout(r) \/ PayTransfer(r)
       PROVE  UNCHANGED <<rows, balance, walletRows, credits>>
  BY <1>11 DEF PayCheckout, PayTransfer, bills
<1>12. ASSUME NEW t \in Threads, NEW r \in Refs, Deliver(t, r)
       PROVE  UNCHANGED <<rows, balance, walletRows, credits>>
  BY <1>12 DEF Deliver, bills
<1> QED
  BY <1>1, <1>2, <1>3, <1>4, <1>5, <1>6, <1>7, <1>8, <1>9, <1>10, <1>11, <1>12
  DEF Next, Refs, RowRefs

(* The ledger keeps explaining the balance.                                *)
LEMMA LedgerStep ==
    ASSUME TypeOK, TypeOK', ArgumentsOK, RowsOK, ChargedOK,
           LedgerExplainsBalance, Next
    PROVE  LedgerExplainsBalance'
<1> SUFFICES ASSUME NEW p \in Residents
             PROVE  /\ balance'[p] >= Statement(p)'
                    /\ CreditedOnce(p)' => balance'[p] = Statement(p)'
  BY DEF LedgerExplainsBalance, CreditedOnce
<1>1. /\ balance[p] >= Statement(p)
      /\ CreditedOnce(p) => balance[p] = Statement(p)
  BY DEF LedgerExplainsBalance, CreditedOnce
<1>2. Accounted(p)
  BY StepAccounted
<1>3. /\ balance[p] \in Int /\ balance'[p] \in Int
      /\ Statement(p) \in Int
  BY StatementIsInt DEF TypeOK
<1> QED
  BY <1>1, <1>2, <1>3 DEF Accounted

-----------------------------------------------------------------------------
(* A wallet is overdrawn by at most one bill for every other request.      *)

(* No bill is greater than the greatest.                                   *)
LEMMA LargestBillBounds ==
    /\ LargestBill \in Nat
    /\ \A b \in Bills : BillAmount[b] <= LargestBill
<1> DEFINE S == {BillAmount[b] : b \in Bills} \cup {0}
<1>1. S \subseteq Nat /\ S # {} /\ 0 \in S
  OBVIOUS
<1>2. IsFiniteSet({BillAmount[b] : b \in Bills})
  BY RowsAssumption, FiniteImage
<1>3. IsFiniteSet(S)
  BY <1>2, FS_AddElement
<1>4. Max(S) \in S /\ \A m \in S : m <= Max(S)
  BY <1>1, <1>3, GreatestNatural
<1> QED
  BY <1>1, <1>4 DEF LargestBill

(* What requests are about to debit are amounts of bills.                  *)
LEMMA ReservedIsInt ==
    ASSUME TypeOK, ArgumentsOK, NEW p \in Residents
    PROVE  /\ IsFiniteSet(Debiting(p)) /\ Debiting(p) \subseteq Threads
           /\ \A t \in Debiting(p) : /\ Charge(t) \in Nat
                                     /\ Charge(t) <= LargestBill
           /\ Reserved(p) \in Nat
           /\ Reserved(p) <= Cardinality(Debiting(p)) * LargestBill
<1> DEFINE f == [t \in Debiting(p) |-> Charge(t)]
<1>1. Debiting(p) \subseteq Threads
  BY DEF Debiting
<1>2. IsFiniteSet(Debiting(p))
  BY <1>1, ThreadsAssumption, FS_Subset
<1>3. ASSUME NEW t \in Debiting(p)
      PROVE  Charge(t) \in Nat /\ Charge(t) <= LargestBill
  <2>1. t \in Threads /\ bill[t] \in Bills /\ Charge(t) > 0
    BY <1>1, <1>3 DEF Debiting, ArgumentsOK, PaymentPositions
  <2>2. seen[t] \in Nat /\ BillAmount[bill[t]] \in Nat
    BY <2>1 DEF TypeOK
  <2> QED
    BY <2>1, <2>2, LargestBillBounds DEF Charge, Outstanding
<1>4. \A t \in Debiting(p) : f[t] \in Int /\ 0 <= f[t] /\ f[t] <= LargestBill
  BY <1>3
<1>5. /\ 0 <= SumFunctionOnSet(f, Debiting(p))
      /\ SumFunctionOnSet(f, Debiting(p))
            <= Cardinality(Debiting(p)) * LargestBill
      /\ SumFunctionOnSet(f, Debiting(p)) \in Int
  <2> HIDE DEF f
  <2> QED
    BY <1>2, <1>4, LargestBillBounds, SumBound, SumIsInt
<1> QED
  BY <1>1, <1>2, <1>3, <1>5 DEF Reserved

(* A request that is not among those about to debit leaves room for its    *)
(* own bill.                                                               *)
LEMMA OthersReserve ==
    ASSUME TypeOK, ArgumentsOK, NEW p \in Residents, NEW t \in Threads,
           t \notin Debiting(p)
    PROVE  Reserved(p) <= (Cardinality(Threads) - 1) * LargestBill
<1>1. Debiting(p) \subseteq Threads \ {t} /\ IsFiniteSet(Threads \ {t})
  BY ReservedIsInt, ThreadsAssumption, FS_RemoveElement
<1>2. Cardinality(Threads \ {t}) = Cardinality(Threads) - 1
  BY ThreadsAssumption, FS_RemoveElement
<1>3. /\ Cardinality(Debiting(p)) <= Cardinality(Threads \ {t})
      /\ Cardinality(Debiting(p)) \in Nat
      /\ Cardinality(Threads \ {t}) \in Nat
  BY <1>1, FS_Subset, FS_CardinalityType
<1>4. /\ Cardinality(Debiting(p)) * LargestBill
             <= (Cardinality(Threads) - 1) * LargestBill
      /\ Cardinality(Debiting(p)) * LargestBill \in Nat
      /\ (Cardinality(Threads) - 1) * LargestBill \in Nat
  BY <1>2, <1>3, LargestBillBounds, TimesGrows
<1> QED
  BY <1>4, ReservedIsInt

(* What a step does to the balance and the debits to come: it leaves at    *)
(* least as much between them, or a request has found its bill covered.    *)
Keeps(p) ==
    /\ Reserved(p)' \in Int
    /\ balance'[p] - Reserved(p)' >= balance[p] - Reserved(p)

Reserves(t, p) ==
    /\ t \notin Debiting(p)
    /\ pc[t] = "payWallet"
    /\ balance'[p] = balance[p]
    /\ balance[p] >= Charge(t)
    /\ Charge(t) \in Nat
    /\ Reserved(p)' = Reserved(p) + Charge(t)

(* Nobody starts or stops reserving, and no balance falls.                 *)
LEMMA SameReserved ==
    ASSUME TypeOK, TypeOK', ArgumentsOK, NEW p \in Residents,
           Debiting(p)' = Debiting(p),
           \A t \in Debiting(p) : Charge(t)' = Charge(t),
           balance'[p] >= balance[p]
    PROVE  Keeps(p)
<1>1. Reserved(p)' = Reserved(p)
  BY DEF Reserved
<1> QED
  BY <1>1, ReservedIsInt DEF Keeps, TypeOK

(* A request ends without its debit.                                       *)
LEMMA LeaveReserved ==
    ASSUME TypeOK, TypeOK', ArgumentsOK, ArgumentsOK', NEW p \in Residents,
           NEW t \in Threads, t \notin Debiting(p)',
           NEW n \in Int, n >= 0, t \in Debiting(p) => n = Charge(t),
           Debiting(p)' = Debiting(p) \ {t},
           \A u \in Debiting(p) \ {t} : Charge(u)' = Charge(u),
           balance'[p] >= balance[p] - (IF t \in Debiting(p) THEN n ELSE 0)
    PROVE  Keeps(p)
<1> DEFINE f == [u \in Debiting(p) |-> Charge(u)]
           g == [u \in Debiting(p) \ {t} |-> Charge(u)']
           S == Debiting(p)
<1>1. /\ Reserved(p) = SumFunctionOnSet(f, S)
      /\ Reserved(p)' = SumFunctionOnSet(g, S \ {t})
  BY DEF Reserved
<1>2. IsFiniteSet(S) /\ \A u \in S : f[u] \in Int
  BY ReservedIsInt
<1>3. IsFiniteSet(S \ {t}) /\ \A u \in S \ {t} : g[u] = f[u]
  BY <1>2, FS_Subset
<1>4. t \in S => f[t] = n
  OBVIOUS
<1>5. balance[p] \in Int /\ balance'[p] \in Int
  BY DEF TypeOK
<1> HIDE DEF f, g, S
<1>6. SumFunctionOnSet(g, S \ {t}) = SumFunctionOnSet(f, S \ {t})
  BY <1>3, SumSame
<1>7. SumFunctionOnSet(f, S \ {t}) \in Int
  BY <1>2, <1>3, SumIsInt
<1>8. CASE t \in S
  <2>1. SumFunctionOnSet(f, S) = f[t] + SumFunctionOnSet(f, S \ {t})
    BY <1>2, <1>8, SumRemove
  <2>2. balance'[p] >= balance[p] - n
    BY <1>8 DEF S
  <2> QED
    BY <1>1, <1>4, <1>5, <1>6, <1>7, <1>8, <2>1, <2>2 DEF Keeps
<1>9. CASE t \notin S
  <2>1. S \ {t} = S
    BY <1>9
  <2>2. balance'[p] >= balance[p]
    BY <1>5, <1>9 DEF S
  <2> QED
    <3>1. Reserved(p)' = Reserved(p) /\ Reserved(p) \in Int
      BY <1>1, <1>6, <1>7, <2>1
    <3> QED
      BY <1>5, <2>2, <3>1 DEF Keeps
<1> QED
  BY <1>8, <1>9

(* A request reserves what it found covered.                               *)
LEMMA ReadReserves ==
    ASSUME TypeOK, TypeOK', ArgumentsOK, NEW p \in Residents,
           NEW t \in Threads, ReadWallet(t), HasFunds(t),
           Debtor[bill[t]] = p
    PROVE  Reserves(t, p)
<1> DEFINE S == Debiting(p)
           f == [u \in S |-> Charge(u)]
           g == [u \in S \cup {t} |-> Charge(u)]
<1>1. pc[t] = "payWallet" /\ pc' = [pc EXCEPT ![t] = "payCommit"]
      /\ UNCHANGED <<bill, seen, balance>>
  BY DEF ReadWallet, GoTo
<1>2. bill[t] \in Bills /\ Charge(t) > 0 /\ Charge(t) \in Int
  BY <1>1 DEF TypeOK, ArgumentsOK, PaymentPositions, Charge, Outstanding
<1>3. t \notin S /\ Debiting(p)' = S \cup {t}
  BY <1>1 DEF TypeOK, Debiting
<1>4. \A u : Charge(u)' = Charge(u)
  BY <1>1 DEF Charge, Outstanding
<1>5. /\ Reserved(p) = SumFunctionOnSet(f, S)
      /\ Reserved(p)' = SumFunctionOnSet(g, S \cup {t})
  BY <1>3, <1>4 DEF Reserved
<1>6. IsFiniteSet(S) /\ \A u \in S : f[u] \in Int /\ g[u] = f[u]
  BY ReservedIsInt
<1>7. g[t] = Charge(t)
  OBVIOUS
<1>8. balance[p] >= Charge(t)
  BY DEF HasFunds
<1> HIDE DEF f, g, S
<1>9. SumFunctionOnSet(g, S) = SumFunctionOnSet(f, S)
  BY <1>6, SumSame
<1>10. \A u \in S \cup {t} : g[u] \in Int
  BY <1>2, <1>6, <1>7
<1>11. SumFunctionOnSet(g, S \cup {t}) = g[t] + SumFunctionOnSet(g, S)
  BY <1>3, <1>6, <1>10, SumAdd
<1>12. SumFunctionOnSet(f, S) \in Int
  BY <1>6, SumIsInt
<1>13. Reserved(p)' = Reserved(p) + Charge(t)
  BY <1>2, <1>5, <1>7, <1>9, <1>11, <1>12
<1> QED
  BY <1>1, <1>2, <1>3, <1>8, <1>13 DEF Reserves, S

(* Every step of every handler does one or the other.                      *)
LEMMA StepReserves ==
    ASSUME TypeOK, TypeOK', ArgumentsOK, ArgumentsOK', Next,
           NEW p \in Residents
    PROVE  Keeps(p) \/ \E t \in Threads : Reserves(t, p)
<1>1. ASSUME NEW t \in Threads, ReadWallet(t)
      PROVE  Keeps(p) \/ Reserves(t, p)
  <2>1. CASE HasFunds(t) /\ Debtor[bill[t]] = p
    BY <1>1, <2>1, ReadReserves
  <2>2. CASE ~(HasFunds(t) /\ Debtor[bill[t]] = p)
    <3>1. /\ pc[t] = "payWallet" /\ UNCHANGED balance
          /\ \A u \in Threads \ {t} : /\ pc'[u] = pc[u] /\ bill'[u] = bill[u]
                                      /\ seen'[u] = seen[u]
          /\ \/ pc'[t] = "idle"
             \/ pc'[t] = "payCommit" /\ HasFunds(t) /\ bill'[t] = bill[t]
      BY <1>1 DEF TypeOK, ReadWallet, GoTo, Leave
    <3>2. Debiting(p)' = Debiting(p) /\ t \notin Debiting(p)
      BY <2>2, <3>1 DEF Debiting
    <3>3. \A u \in Debiting(p) : Charge(u)' = Charge(u)
      BY <3>1, <3>2, ReservedIsInt DEF Charge, Outstanding
    <3> QED
      BY <3>1, <3>2, <3>3, SameReserved DEF TypeOK
  <2> QED
    BY <2>1, <2>2
<1>2. ASSUME NEW t \in Threads, CommitPayLevy(t)
      PROVE  Keeps(p)
  <2> DEFINE n == Charge(t)
  <2>1. bill[t] \in Bills /\ n \in Int /\ n > 0
    BY <1>2 DEF TypeOK, ArgumentsOK, CommitPayLevy, PaymentPositions, Charge,
                Outstanding
  <2>2. /\ pc[t] = "payCommit" /\ pc'[t] = "idle"
        /\ \A u \in Threads \ {t} : /\ pc'[u] = pc[u] /\ bill'[u] = bill[u]
                                    /\ seen'[u] = seen[u]
        /\ balance' = [balance EXCEPT ![Debtor[bill[t]]] = @ - n]
    BY <1>2 DEF TypeOK, CommitPayLevy, Leave
  <2>3. /\ Debiting(p)' = Debiting(p) \ {t}
        /\ t \in Debiting(p) <=> Debtor[bill[t]] = p
    BY <2>2 DEF Debiting
  <2>4. \A u \in Debiting(p) \ {t} : Charge(u)' = Charge(u)
    BY <2>2, ReservedIsInt DEF Charge, Outstanding
  <2> HIDE DEF n
  <2>5. /\ balance'[p] = IF t \in Debiting(p) THEN balance[p] - n
                         ELSE balance[p]
        /\ balance[p] \in Int
    BY <2>1, <2>2, <2>3 DEF TypeOK
  <2>6. balance'[p] >= balance[p] - (IF t \in Debiting(p) THEN n ELSE 0)
    BY <2>1, <2>5
  <2> QED
    BY <2>1, <2>3, <2>4, <2>6, LeaveReserved DEF n
<1>3. ASSUME NEW t \in Threads, Fail(t)
      PROVE  Keeps(p)
  <2>1. /\ pc'[t] = "idle" /\ UNCHANGED balance
        /\ \A u \in Threads \ {t} : /\ pc'[u] = pc[u] /\ bill'[u] = bill[u]
                                    /\ seen'[u] = seen[u]
    BY <1>3 DEF TypeOK, Fail, Leave
  <2>2. Debiting(p)' = Debiting(p) \ {t}
    BY <2>1 DEF Debiting
  <2>3. \A u \in Debiting(p) \ {t} : Charge(u)' = Charge(u)
    BY <2>1, ReservedIsInt DEF Charge, Outstanding
  <2>4. PICK n \in Int : n >= 0 /\ (t \in Debiting(p) => n = Charge(t))
    BY ReservedIsInt
  <2>5. balance'[p] >= balance[p] - (IF t \in Debiting(p) THEN n ELSE 0)
    BY <2>1, <2>4 DEF TypeOK
  <2> QED
    BY <2>2, <2>3, <2>4, <2>5, LeaveReserved
<1>4. ASSUME NEW t \in Threads, Webhook(t) \/ \E b \in Bills : ReadBill(t, b)
      PROVE  Keeps(p)
  <2>1. pc[t] # "payCommit" /\ pc'[t] # "payCommit"
    BY <1>4
    DEF TypeOK, Webhook, Settle, Lookup, SettleFunding, CommitSettleLevy,
        CreditTransfer, BeginSettleLevy, FindExistingTransfer, FollowUp,
        ReadBill, GoTo, Leave, Acknowledge, NoWalletMatched
  <2>2. \A u \in Threads \ {t} : /\ pc'[u] = pc[u] /\ bill'[u] = bill[u]
                                 /\ seen'[u] = seen[u]
    BY <1>4
    DEF TypeOK, Webhook, Settle, Lookup, SettleFunding, CommitSettleLevy,
        CreditTransfer, BeginSettleLevy, FindExistingTransfer, FollowUp,
        ReadBill, GoTo, Leave, Acknowledge, NoWalletMatched
  <2>3. Debiting(p)' = Debiting(p) /\ t \notin Debiting(p)
    BY <2>1, <2>2 DEF Debiting
  <2>4. \A u \in Debiting(p) : Charge(u)' = Charge(u)
    BY <2>2, <2>3, ReservedIsInt DEF Charge, Outstanding
  <2>5. \/ UNCHANGED balance
        \/ \E r \in Refs :
              balance' = [balance EXCEPT ![Payer[r]] = @ + charged[r]]
    BY <1>4
    DEF Webhook, Settle, Lookup, SettleFunding, CommitSettleLevy,
        CreditTransfer, BeginSettleLevy, FindExistingTransfer, FollowUp,
        ReadBill, ArgumentsOK, WebhookPositions, Refs, RowRefs
  <2>6. balance'[p] >= balance[p]
    BY <2>5 DEF TypeOK
  <2> QED
    BY <2>3, <2>4, <2>6, SameReserved
<1>5. ASSUME NEW t \in Threads, NEW r \in Refs, Deliver(t, r)
      PROVE  Keeps(p)
  <2>1. /\ pc[t] = "idle" /\ pc'[t] = "lookup"
        /\ \A u \in Threads \ {t} : pc'[u] = pc[u]
        /\ UNCHANGED <<bill, seen, balance>>
    BY <1>5 DEF TypeOK, Deliver
  <2>2. Debiting(p)' = Debiting(p)
    BY <2>1 DEF Debiting
  <2> QED
    BY <2>1, <2>2, SameReserved DEF Charge, Outstanding, TypeOK
<1>6. CASE UNCHANGED <<balance, request>>
  BY <1>6, SameReserved DEF request, Debiting, Charge, Outstanding, TypeOK
<1>7. ASSUME NEW q, LinkVirtualAccount(q) \/ PayCheckout(q) \/ PayTransfer(q)
                    \/ InitializeWalletFunding(q) \/ InitializeLevyPayment(q)
      PROVE  UNCHANGED <<balance, request>>
  BY <1>7 DEF LinkVirtualAccount, PayCheckout, PayTransfer,
              InitializeWalletFunding, InitializeLevyPayment, request
<1> QED
  BY <1>1, <1>2, <1>3, <1>4, <1>5, <1>6, <1>7 DEF Next, PayFromWallet

(* The bound on the debt is kept.                                          *)
LEMMA OverdraftStep ==
    ASSUME TypeOK, TypeOK', ArgumentsOK, ArgumentsOK', OverdraftBounded, Next
    PROVE  OverdraftBounded'
<1> SUFFICES ASSUME NEW p \in Residents
             PROVE  balance'[p] - Reserved(p)'
                        >= -(Cardinality(Threads) - 1) * LargestBill
  BY DEF OverdraftBounded, LargestBill
<1> DEFINE D == (Cardinality(Threads) - 1) * LargestBill
<1>1. D \in Int /\ -(Cardinality(Threads) - 1) * LargestBill = -D
  BY ThreadsAssumption, FS_CardinalityType, LargestBillBounds
<1>2. balance[p] \in Int /\ balance'[p] \in Int /\ Reserved(p) \in Nat
  BY ReservedIsInt DEF TypeOK
<1>3. balance[p] - Reserved(p) >= -D
  BY <1>1 DEF OverdraftBounded
<1>4. ASSUME NEW t \in Threads, Reserves(t, p)
      PROVE  balance'[p] - Reserved(p)' >= -D
  <2>1. Reserved(p) <= D
    BY <1>4, OthersReserve DEF Reserves
  <2> HIDE DEF D
  <2> QED
    BY <1>1, <1>2, <1>4, <2>1 DEF Reserves
<1>5. CASE Keeps(p)
  <2> HIDE DEF D
  <2> QED
    BY <1>1, <1>2, <1>3, <1>5 DEF Keeps
<1>6. Keeps(p) \/ \E t \in Threads : Reserves(t, p)
  BY StepReserves
<1> QED
  BY <1>1, <1>4, <1>5, <1>6

-----------------------------------------------------------------------------
(* The theorems. *)

(* The inductive invariant holds at start ... *)
LEMMA InitIInv == Init => IInv
<1> SUFFICES ASSUME Init PROVE IInv
  OBVIOUS
<1>1. TypeOK
  BY DEF Init, TypeOK, RowStatuses, LevyStatuses, Positions
<1>2. ArgumentsOK /\ RowsOK /\ ReadsOK /\ PaidIsInEstateLedger
  BY DEF Init, ArgumentsOK, RowsOK, ReadsOK, PaidIsInEstateLedger,
         WebhookPositions, PaymentPositions, RowRefs, Refs
<1>3. CreditsBounded /\ ChargedOK
  BY DEF Init, CreditsBounded, ChargedOK, Refs, RowRefs
<1>4. ASSUME NEW p \in Residents
      PROVE  /\ balance[p] = Statement(p)
             /\ balance[p] - Reserved(p)
                    >= -(Cardinality(Threads) - 1) * LargestBill
  <2>1. balance[p] = 0 /\ CreditRows(p) = {}
        /\ \A b \in DebitRows(p) : walletRows[b] = 0
    BY DEF Init, CreditRows, DebitRows, Refs, RowRefs
  <2>2. SumFunctionOnSet(walletRows, DebitRows(p)) = 0
    BY <1>1, <2>1, StatementIsInt, SumOfZeros
  <2>3. SumFunctionOnSet(amount, CreditRows(p)) = 0
    BY <2>1, SumEmpty
  <2>4. Statement(p) = 0
    BY <2>2, <2>3 DEF Statement
  <2>5. Debiting(p) = {}
    BY DEF Init, Debiting
  <2>6. Reserved(p) = 0
    BY <2>5, SumEmpty DEF Reserved
  <2>7. Cardinality(Threads) - 1 \in Nat
    BY ThreadsAssumption, FS_CardinalityType, FS_EmptySet
  <2>8. (Cardinality(Threads) - 1) * LargestBill \in Nat
    BY <2>7, LargestBillBounds, TimesGrows
  <2>9. -(Cardinality(Threads) - 1) * LargestBill <= 0
    BY <2>7, <2>8, LargestBillBounds
  <2> QED
    BY <2>1, <2>4, <2>6, <2>9
<1>5. LedgerExplainsBalance /\ OverdraftBounded
  <2>1. \A p \in Residents : balance[p] \in Int
    BY <1>1 DEF TypeOK
  <2> QED
    BY <1>4, <2>1 DEF LedgerExplainsBalance, OverdraftBounded
<1> QED BY <1>1, <1>2, <1>3, <1>5 DEF IInv

(* ... and every step preserves it ... *)
LEMMA StepIInv == IInv /\ [Next]_vars => IInv'
<1> SUFFICES ASSUME IInv, [Next]_vars PROVE IInv'
  OBVIOUS
<1>1. CASE Next
  <2>1. TypeOK' /\ ArgumentsOK' /\ RowsOK' /\ ChargedOK'
    BY <1>1, TypeStep, ArgumentsStep, RowsStep, ChargedStep DEF IInv
  <2>2. ReadsOK' /\ PaidIsInEstateLedger' /\ CreditsBounded'
    BY <1>1, BackingStep, CreditsStep DEF IInv
  <2>3. LedgerExplainsBalance' /\ OverdraftBounded'
    BY <1>1, <2>1, LedgerStep, OverdraftStep DEF IInv
  <2> QED
    BY <2>1, <2>2, <2>3 DEF IInv
<1>2. CASE UNCHANGED vars
  BY <1>2
  DEF vars, rows, bills, bank, request, IInv, TypeOK, ArgumentsOK, RowsOK,
      ChargedOK, ReadsOK, ReadOK, PaidIsInEstateLedger, CreditsBounded,
      Holding, Charge, Outstanding, LedgerExplainsBalance, Statement,
      CreditRows, DebitRows, OverdraftBounded, Reserved, Debiting, LargestBill
<1> QED BY <1>1, <1>2

(* ... so it always holds. *)
LEMMA AlwaysIInv == Spec => []IInv
BY InitIInv, StepIInv, PTL DEF Spec

(* Every variable keeps its type; in particular paidAmount and the sums of *)
(* ledger rows never become negative.                                      *)
THEOREM TypeCorrect == Spec => []TypeOK
BY AlwaysIInv, PTL DEF IInv

(* A checkout is credited at most once for every request that can be in    *)
(* flight with its first credit: once on a server that handles one request *)
(* at a time, whatever is repeated, aborted or retried.                    *)
THEOREM CreditsAreBounded == Spec => []CreditsBounded
BY AlwaysIInv, PTL DEF IInv

(* A transfer to a virtual account is credited exactly when its row exists *)
(* and never twice, for any number of concurrent deliveries.               *)
THEOREM TransfersAreCreditedOnce == Spec => []TransfersCreditedOnce
<1>1. IInv => TransfersCreditedOnce
  BY DEF IInv, TypeOK, RowsOK, TransfersCreditedOnce, Refs
<1> QED BY <1>1, AlwaysIInv, PTL

(* No bill shows money the estate wallet was not credited with, and every  *)
(* payment shows on the bill when requests are handled one at a time.      *)
THEOREM PaidIsAlwaysInEstateLedger == Spec => []PaidIsInEstateLedger
BY AlwaysIInv, PTL DEF IInv

(* A wallet holds what its statement says, and more only after a reference *)
(* was credited twice; and requests that judged an older balance overdraw  *)
(* it by at most one bill each, for any number of them.                    *)
THEOREM BalanceIsAlwaysExplained == Spec => []BalanceIsExplained
<1>1. IInv => BalanceIsExplained
  BY DEF IInv, BalanceIsExplained
<1> QED BY <1>1, AlwaysIInv, PTL

-----------------------------------------------------------------------------
(* Transfers to virtual accounts implement ExactlyOnceCredit. *)

TransferCharged  == [r \in TransferRefs |-> charged[r]]
TransferCredited == [r \in TransferRefs |-> credits[r] * amount[r]]

(* Crediting a transfer is a credit of the abstract specification. *)
LEMMA CreditTransferRefines ==
    ASSUME IInv, NEW t \in Threads, NEW r \in TransferRefs, ref[t] = r,
           CreditTransfer(t)
    PROVE  Transfers!Credit(r)
<1>1. charged[r] \in Nat /\ charged[r] > 0
  BY DEF IInv, TypeOK, ArgumentsOK, CreditTransfer, WebhookPositions, Refs
<1>2. credits[r] = 0
  BY <1>1 DEF IInv, TypeOK, RowsOK, CreditTransfer, ReferenceIsFree, Refs
<1>3. credits'[r] = 1 /\ amount'[r] = charged[r]
  BY <1>1, <1>2
  DEF IInv, TypeOK, CreditTransfer, MarkSuccess, ConfirmedAmount, Refs
<1>4. \A q \in TransferRefs \ {r} :
         credits'[q] = credits[q] /\ amount'[q] = amount[q]
  BY DEF IInv, TypeOK, CreditTransfer, MarkSuccess, Refs
<1>5. TransferCredited' = [TransferCredited EXCEPT ![r] = charged[r]]
  <2>1. credits'[r] * amount'[r] = charged[r]
    BY <1>1, <1>3
  <2>2. \A q \in TransferRefs \ {r} :
           credits'[q] * amount'[q] = credits[q] * amount[q]
    BY <1>4
  <2> QED BY <1>1, <2>1, <2>2, Zenon DEF TransferCredited
<1>6. UNCHANGED TransferCharged
  BY DEF CreditTransfer, bank, TransferCharged
<1>7. TransferCharged[r] > 0 /\ TransferCredited[r] = 0
      /\ TransferCharged[r] = charged[r]
  BY <1>1, <1>2 DEF TransferCharged, TransferCredited, IInv, TypeOK, Refs
<1> QED
  BY <1>5, <1>6, <1>7
  DEF Transfers!Credit, TransferCharged, TransferCredited

(* Every step that neither charges nor credits a transfer is a stutter. *)
LEMMA OtherStepsStutter ==
    ASSUME IInv, Next, ~(\E t \in Threads : CreditTransfer(t))
    PROVE  UNCHANGED TransferCredited
<1>1. ASSUME NEW t \in Threads, SettleFunding(t) \/ CommitSettleLevy(t)
      PROVE  UNCHANGED TransferCredited
  BY <1>1 DEF IInv, TypeOK, ArgumentsOK, SettleFunding, CommitSettleLevy,
     MarkSuccess, TransferCredited, RowRefs, Refs
<1>2. ASSUME NEW r \in RowRefs,
             \E n : amount' = [amount EXCEPT ![r] = n],
             UNCHANGED credits
      PROVE  UNCHANGED TransferCredited
  BY <1>2 DEF IInv, TypeOK, TransferCredited, RowRefs, Refs
<1>3. CASE UNCHANGED <<amount, credits>>
  BY <1>3 DEF TransferCredited
<1> QED
  BY <1>1, <1>2, <1>3
  DEF Next, Webhook, Settle, PayFromWallet, InitializeWalletFunding,
      InitializeLevyPayment, LinkVirtualAccount, PayCheckout, PayTransfer,
      Deliver, Lookup, BeginSettleLevy, FindExistingTransfer, FollowUp,
      ReadBill, ReadWallet, CommitPayLevy, Fail, rows, RowRefs

(* A bank transfer is a charge of the abstract specification. *)
LEMMA PayTransferRefines ==
    ASSUME IInv, NEW r \in TransferRefs, PayTransfer(r)
    PROVE  Transfers!Charge(r)
<1>1. PICK n \in Amounts : charged' = [charged EXCEPT ![r] = n]
  BY DEF PayTransfer
<1>2. TransferCharged' = [TransferCharged EXCEPT ![r] = n]
  BY <1>1 DEF IInv, TypeOK, TransferCharged, Refs
<1>3. UNCHANGED TransferCredited
  BY DEF PayTransfer, TransferCredited, rows
<1>4. TransferCharged[r] = 0
  BY DEF PayTransfer, TransferCharged
<1> QED
  BY <1>2, <1>3, <1>4
  DEF Transfers!Charge, TransferCharged, TransferCredited

(* Whatever is delivered, repeated, interleaved or aborted, the wallets    *)
(* see every bank transfer credited once and in full, or not yet at all.   *)
THEOREM TransfersRefine == Spec => TransfersExactlyOnce
<1>1. Init => Transfers!Init
  <2> SUFFICES ASSUME Init PROVE Transfers!Init
    OBVIOUS
  <2> QED BY DEF Init, Transfers!Init, Refs
<1>2. IInv /\ [Next]_vars
        => [Transfers!Next]_<<TransferCharged, TransferCredited>>
  <2> SUFFICES ASSUME IInv, [Next]_vars
               PROVE  [Transfers!Next]_<<TransferCharged, TransferCredited>>
    OBVIOUS
  <2>1. ASSUME NEW t \in Threads, CreditTransfer(t)
        PROVE  Transfers!Next
    <3>1. PICK r \in TransferRefs : ref[t] = r
      BY <2>1 DEF IInv, ArgumentsOK, CreditTransfer
    <3> QED BY <2>1, <3>1, CreditTransferRefines DEF Transfers!Next
  <2>2. ASSUME NEW r \in TransferRefs, PayTransfer(r)
        PROVE  Transfers!Next
    BY <2>2, PayTransferRefines DEF Transfers!Next
  <2>3. ASSUME NEW r \in RowRefs, PayCheckout(r)
        PROVE  UNCHANGED TransferCharged
    BY <2>3 DEF IInv, TypeOK, PayCheckout, TransferCharged, Refs
  <2>4. ASSUME UNCHANGED charged
        PROVE  UNCHANGED TransferCharged
    BY <2>4 DEF TransferCharged
  <2>5. CASE Next
    <3>1. CASE \E t \in Threads : CreditTransfer(t)
      BY <2>1, <3>1
    <3>2. CASE \E r \in TransferRefs : PayTransfer(r)
      BY <2>2, <3>2
    <3>3. CASE /\ ~(\E t \in Threads : CreditTransfer(t))
               /\ ~(\E r \in TransferRefs : PayTransfer(r))
      <4>1. UNCHANGED TransferCharged
        BY <2>3, <2>4, <2>5, <3>3
        DEF Next, Webhook, Settle, PayFromWallet, InitializeWalletFunding,
            InitializeLevyPayment, LinkVirtualAccount, Deliver, Lookup,
            SettleFunding, CommitSettleLevy, BeginSettleLevy,
            FindExistingTransfer, FollowUp, ReadBill, ReadWallet,
            CommitPayLevy, Fail, bank
      <4> QED BY <2>5, <3>3, <4>1, OtherStepsStutter
    <3> QED BY <3>1, <3>2, <3>3
  <2>6. CASE UNCHANGED vars
    BY <2>6 DEF vars, rows, bank, TransferCharged, TransferCredited
  <2> QED BY <2>5, <2>6
<1>3. Spec => [][Transfers!Next]_<<TransferCharged, TransferCredited>>
  BY <1>2, AlwaysIInv, PTL DEF Spec
<1> QED
  BY <1>1, <1>3, PTL
  DEF Spec, TransfersExactlyOnce, Transfers!Spec, TransferCharged,
      TransferCredited
=============================================================================
