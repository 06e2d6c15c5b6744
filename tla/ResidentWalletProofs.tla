------------------------- MODULE ResidentWalletProofs -------------------------
(* Theorems about ResidentWithdrawals and about ResidentWallet, which      *)
(* composes it with WalletPayments, for any number of requests, residents, *)
(* withdrawals, references and bills, and all amounts.                     *)
EXTENDS ResidentWallet, SumTheorems

-----------------------------------------------------------------------------
(* The inductive invariant. *)

(* A request is about a withdrawal, which exists once it is committed.     *)
PositionsOK == \A t \in Threads : pc[t] # "idle" =>
    /\ withdrawal[t] \in Withdrawals
    /\ pc[t] = "reserve" <=> status[withdrawal[t]] = "NONE"

(* What holds of every withdrawal, whatever overlaps.                      *)
RowsOK == \A w \in Withdrawals :
    /\ status[w] = "NONE" <=> row[w] = "NONE"
    /\ status[w] = "REJECTED" => refunds[w] > 0
    /\ refunds[w] > 0 => status[w] \in {"REJECTED", "PAID", "APPROVED"}
    /\ sent[w] > 0 => row[w] # "NONE"

(* A withdrawal that never had two requests has at most one ...            *)
SoleDecider == \A t, u \in Threads :
    /\ withdrawal[t] \in Withdrawals \ overlapped
       /\ withdrawal[u] = withdrawal[t] => u = t
    /\ pc[t] = "reserve" /\ withdrawal[u] = withdrawal[t] => u = t

(* ... and both its records are as this one has judged or written.         *)
JudgedOK == \A t \in Threads : pc[t] # "idle" /\ withdrawal[t] \notin overlapped =>
    /\ pc[t] \in {"transfer", "markPaid", "markApproved", "refund"} =>
           status[withdrawal[t]] = "PENDING"
    /\ pc[t] = "rowPaid" => status[withdrawal[t]] = "PAID"
    /\ pc[t] = "rowApproved" => status[withdrawal[t]] = "APPROVED"
    /\ pc[t] # "reserve" => row[withdrawal[t]] = "PENDING"

(* Transfers Paystack has answered are those of requests about to record   *)
(* them and those recorded: none before the withdrawal leaves PENDING.     *)
Marking(w) == {t \in Threads : pc[t] = "markPaid" /\ withdrawal[t] = w}
Recorded(w) == sent[w] - unanswered[w] - Cardinality(Marking(w))

CountOK(w) ==
    /\ Recorded(w) >= 0
    /\ status[w] = "PAID" => Recorded(w) >= 1
    /\ status[w] \in {"NONE", "PENDING"} => Recorded(w) = 0 /\ refunds[w] = 0

CountsOK == \A w \in Withdrawals : CountOK(w)

IInv == TypeOK /\ PositionsOK /\ RowsOK /\ SoleDecider /\ JudgedOK /\ CountsOK
        /\ SettlementsBounded /\ StatementFollowsRequest

USE OwnersAssumption, NoneAssumption

-----------------------------------------------------------------------------
(* Every step preserves each part of it. *)

(* Every handler writes what the type allows.                              *)
LEMMA TypeStep ==
    ASSUME TypeOK, PositionsOK, Next
    PROVE  TypeOK'
<1>1. ASSUME NEW t \in Threads, NEW w \in Withdrawals, ReadWallet(t, w)
      PROVE  TypeOK'
  BY <1>1 DEF TypeOK, Statuses, RowStatuses, Positions, ReadWallet, Start,
     HasFunds, transfer
<1>2. ASSUME NEW t \in Threads, CommitRequest(t)
      PROVE  TypeOK'
  BY <1>2 DEF TypeOK, Statuses, RowStatuses, Positions, PositionsOK,
     CommitRequest, Leave, transfer
<1>3. ASSUME NEW t \in Threads, NEW w \in Withdrawals, BeginApproval(t, w)
      PROVE  TypeOK'
  BY <1>3 DEF TypeOK, Statuses, RowStatuses, Positions, BeginApproval, Start,
     Decidable, transfer
<1>4. ASSUME NEW t \in Threads, Transfer(t)
      PROVE  TypeOK'
  BY <1>4 DEF TypeOK, Statuses, RowStatuses, Positions, PositionsOK, Transfer,
     TransferRefused, GoTo, Leave
<1>5. ASSUME NEW t \in Threads, MarkRequest(t)
      PROVE  TypeOK'
  BY <1>5 DEF TypeOK, Statuses, RowStatuses, Positions, PositionsOK,
     MarkRequest, GoTo, transfer
<1>6. ASSUME NEW t \in Threads, MarkRow(t)
      PROVE  TypeOK'
  BY <1>6 DEF TypeOK, Statuses, RowStatuses, Positions, PositionsOK, MarkRow,
     PaidRow, Leave, transfer
<1>7. ASSUME NEW t \in Threads, NEW w \in Withdrawals, BeginRejection(t, w)
      PROVE  TypeOK'
  BY <1>7 DEF TypeOK, Statuses, RowStatuses, Positions, BeginRejection, Start,
     Decidable, transfer
<1>8. ASSUME NEW t \in Threads, CommitRejection(t)
      PROVE  TypeOK'
  BY <1>8 DEF TypeOK, Statuses, RowStatuses, Positions, PositionsOK,
     CommitRejection, RefundedBalance, RejectedStatus, Leave, transfer
<1>9. ASSUME NEW t \in Threads, Fail(t)
      PROVE  TypeOK'
  BY <1>9 DEF TypeOK, Statuses, RowStatuses, Positions, PositionsOK, Fail,
     Leave
<1>10. QED
  BY <1>1, <1>2, <1>3, <1>4, <1>5, <1>6, <1>7, <1>8, <1>9 DEF Next

(* A withdrawal exists from its commit on.                                 *)
LEMMA PositionsStep ==
    ASSUME TypeOK, PositionsOK, SoleDecider, Next
    PROVE  PositionsOK'
<1>1. ASSUME NEW t \in Threads, NEW w \in Withdrawals, ReadWallet(t, w)
      PROVE  PositionsOK'
  BY <1>1 DEF TypeOK, PositionsOK, Statuses, ReadWallet, Start, HasFunds,
     transfer
<1>2. ASSUME NEW t \in Threads, CommitRequest(t)
      PROVE  PositionsOK'
  BY <1>2 DEF TypeOK, PositionsOK, Statuses, SoleDecider, CommitRequest,
     Leave, transfer
<1>3. ASSUME NEW t \in Threads, NEW w \in Withdrawals, BeginApproval(t, w)
      PROVE  PositionsOK'
  BY <1>3 DEF TypeOK, PositionsOK, Statuses, BeginApproval, Start, Decidable,
     transfer
<1>4. ASSUME NEW t \in Threads, Transfer(t)
      PROVE  PositionsOK'
  BY <1>4 DEF TypeOK, PositionsOK, Statuses, Transfer, TransferRefused, GoTo,
     Leave
<1>5. ASSUME NEW t \in Threads, MarkRequest(t)
      PROVE  PositionsOK'
  BY <1>5 DEF TypeOK, PositionsOK, Statuses, MarkRequest, GoTo, transfer
<1>6. ASSUME NEW t \in Threads, MarkRow(t)
      PROVE  PositionsOK'
  BY <1>6 DEF TypeOK, PositionsOK, Statuses, MarkRow, PaidRow, Leave, transfer
<1>7. ASSUME NEW t \in Threads, NEW w \in Withdrawals, BeginRejection(t, w)
      PROVE  PositionsOK'
  BY <1>7 DEF TypeOK, PositionsOK, Statuses, BeginRejection, Start, Decidable,
     transfer
<1>8. ASSUME NEW t \in Threads, CommitRejection(t)
      PROVE  PositionsOK'
  BY <1>8 DEF TypeOK, PositionsOK, Statuses, CommitRejection, RefundedBalance,
     RejectedStatus, Leave, transfer
<1>9. ASSUME NEW t \in Threads, Fail(t)
      PROVE  PositionsOK'
  BY <1>9 DEF TypeOK, PositionsOK, Statuses, Fail, Leave
<1>10. QED
  BY <1>1, <1>2, <1>3, <1>4, <1>5, <1>6, <1>7, <1>8, <1>9 DEF Next

(* Handlers keep what holds of every withdrawal.                           *)
LEMMA RowsStep ==
    ASSUME TypeOK, PositionsOK, RowsOK, Next
    PROVE  RowsOK'
<1>1. ASSUME NEW t \in Threads, CommitRequest(t)
      PROVE  RowsOK'
  BY <1>1 DEF TypeOK, RowsOK, PositionsOK, CommitRequest, Leave, transfer
<1>2. ASSUME NEW t \in Threads, Transfer(t)
      PROVE  RowsOK'
  BY <1>2 DEF TypeOK, RowsOK, PositionsOK, Transfer, TransferRefused, GoTo,
     Leave
<1>3. ASSUME NEW t \in Threads, MarkRequest(t)
      PROVE  RowsOK'
  BY <1>3 DEF TypeOK, RowsOK, PositionsOK, MarkRequest, GoTo, transfer
<1>4. ASSUME NEW t \in Threads, MarkRow(t)
      PROVE  RowsOK'
  BY <1>4 DEF TypeOK, RowsOK, PositionsOK, MarkRow, PaidRow, Leave, transfer
<1>5. ASSUME NEW t \in Threads, CommitRejection(t)
      PROVE  RowsOK'
  BY <1>5 DEF TypeOK, RowsOK, PositionsOK, CommitRejection, RefundedBalance,
     RejectedStatus, Leave, transfer
<1>6. ASSUME NEW t \in Threads, Fail(t)
      PROVE  RowsOK'
  BY <1>6 DEF TypeOK, RowsOK, PositionsOK, Fail, Leave
<1>7. ASSUME \/ \E t \in Threads, w \in Withdrawals : ReadWallet(t, w)
             \/ \E t \in Threads, w \in Withdrawals : BeginApproval(t, w)
             \/ \E t \in Threads, w \in Withdrawals : BeginRejection(t, w)
      PROVE  RowsOK'
  BY <1>7 DEF TypeOK, RowsOK, ReadWallet, Start, HasFunds, transfer,
     BeginApproval, Decidable, BeginRejection
<1>8. QED
  BY <1>1, <1>2, <1>3, <1>4, <1>5, <1>6, <1>7 DEF Next

(* A second request about a withdrawal marks it as overlapped.             *)
LEMMA OneStep ==
    ASSUME TypeOK, PositionsOK, SoleDecider, Next
    PROVE  SoleDecider'
<1>1. ASSUME NEW t \in Threads, NEW w \in Withdrawals, ReadWallet(t, w)
      PROVE  SoleDecider'
  BY <1>1 DEF TypeOK, PositionsOK, SoleDecider, ReadWallet, Start, HasFunds,
     transfer
<1>2. ASSUME NEW t \in Threads, CommitRequest(t)
      PROVE  SoleDecider'
  BY <1>2 DEF TypeOK, PositionsOK, SoleDecider, CommitRequest, Leave, transfer
<1>3. ASSUME NEW t \in Threads, NEW w \in Withdrawals, BeginApproval(t, w)
      PROVE  SoleDecider'
  BY <1>3 DEF TypeOK, PositionsOK, SoleDecider, BeginApproval, Start,
     Decidable, transfer
<1>4. ASSUME NEW t \in Threads, Transfer(t)
      PROVE  SoleDecider'
  BY <1>4 DEF TypeOK, PositionsOK, SoleDecider, Transfer, TransferRefused,
     GoTo, Leave
<1>5. ASSUME NEW t \in Threads, MarkRequest(t)
      PROVE  SoleDecider'
  BY <1>5 DEF TypeOK, PositionsOK, SoleDecider, MarkRequest, GoTo, transfer
<1>6. ASSUME NEW t \in Threads, MarkRow(t)
      PROVE  SoleDecider'
  BY <1>6 DEF TypeOK, PositionsOK, SoleDecider, MarkRow, PaidRow, Leave,
     transfer
<1>7. ASSUME NEW t \in Threads, NEW w \in Withdrawals, BeginRejection(t, w)
      PROVE  SoleDecider'
  BY <1>7 DEF TypeOK, PositionsOK, SoleDecider, BeginRejection, Start,
     Decidable, transfer
<1>8. ASSUME NEW t \in Threads, CommitRejection(t)
      PROVE  SoleDecider'
  BY <1>8 DEF TypeOK, PositionsOK, SoleDecider, CommitRejection,
     RefundedBalance, RejectedStatus, Leave, transfer
<1>9. ASSUME NEW t \in Threads, Fail(t)
      PROVE  SoleDecider'
  BY <1>9 DEF TypeOK, PositionsOK, SoleDecider, Fail, Leave
<1>10. QED
  BY <1>1, <1>2, <1>3, <1>4, <1>5, <1>6, <1>7, <1>8, <1>9 DEF Next

(* Without overlap nobody else writes what a request has judged.           *)
LEMMA JudgedStep ==
    ASSUME TypeOK, PositionsOK, RowsOK, SoleDecider, JudgedOK, StatementFollowsRequest, Next
    PROVE  JudgedOK'
<1>1. ASSUME NEW t \in Threads, NEW w \in Withdrawals, ReadWallet(t, w)
      PROVE  JudgedOK'
  BY <1>1 DEF TypeOK, PositionsOK, JudgedOK, ReadWallet, Start, HasFunds,
     transfer
<1>2. ASSUME NEW t \in Threads, CommitRequest(t)
      PROVE  JudgedOK'
  BY <1>2 DEF TypeOK, PositionsOK, JudgedOK, SoleDecider, CommitRequest,
     Leave, transfer
<1>3. ASSUME NEW t \in Threads, NEW w \in Withdrawals, BeginApproval(t, w)
      PROVE  JudgedOK'
  BY <1>3 DEF TypeOK, PositionsOK, JudgedOK, StatementFollowsRequest,
     RowStatuses, BeginApproval, Start, Decidable, transfer
<1>4. ASSUME NEW t \in Threads, Transfer(t)
      PROVE  JudgedOK'
  BY <1>4 DEF TypeOK, PositionsOK, JudgedOK, SoleDecider, Transfer,
     TransferRefused, GoTo, Leave
<1>5. ASSUME NEW t \in Threads, MarkRequest(t)
      PROVE  JudgedOK'
  BY <1>5 DEF TypeOK, PositionsOK, JudgedOK, SoleDecider, MarkRequest, GoTo,
     transfer
<1>6. ASSUME NEW t \in Threads, MarkRow(t)
      PROVE  JudgedOK'
  BY <1>6 DEF TypeOK, PositionsOK, JudgedOK, SoleDecider, MarkRow, PaidRow,
     Leave, transfer
<1>7. ASSUME NEW t \in Threads, NEW w \in Withdrawals, BeginRejection(t, w)
      PROVE  JudgedOK'
  BY <1>7 DEF TypeOK, PositionsOK, JudgedOK, StatementFollowsRequest,
     RowStatuses, BeginRejection, Start, Decidable, transfer
<1>8. ASSUME NEW t \in Threads, CommitRejection(t)
      PROVE  JudgedOK'
  BY <1>8 DEF TypeOK, PositionsOK, JudgedOK, SoleDecider, CommitRejection,
     RefundedBalance, RejectedStatus, Leave, transfer
<1>9. ASSUME NEW t \in Threads, Fail(t)
      PROVE  JudgedOK'
  BY <1>9 DEF TypeOK, PositionsOK, JudgedOK, SoleDecider, Fail, Leave
<1>10. QED
  BY <1>1, <1>2, <1>3, <1>4, <1>5, <1>6, <1>7, <1>8, <1>9 DEF Next

(* Without overlap the row follows the request, also half way.             *)
LEMMA StatementStep ==
    ASSUME TypeOK, PositionsOK, JudgedOK, StatementFollowsRequest, Next
    PROVE  StatementFollowsRequest'
<1>1. ASSUME NEW t \in Threads, NEW w \in Withdrawals, ReadWallet(t, w)
      PROVE  StatementFollowsRequest'
  BY <1>1 DEF TypeOK, PositionsOK, StatementFollowsRequest, ReadWallet, Start,
     HasFunds, transfer
<1>2. ASSUME NEW t \in Threads, CommitRequest(t)
      PROVE  StatementFollowsRequest'
  BY <1>2 DEF TypeOK, PositionsOK, StatementFollowsRequest, JudgedOK,
     CommitRequest, Leave, transfer
<1>3. ASSUME NEW t \in Threads, NEW w \in Withdrawals, BeginApproval(t, w)
      PROVE  StatementFollowsRequest'
  BY <1>3 DEF TypeOK, PositionsOK, StatementFollowsRequest, BeginApproval,
     Start, Decidable, transfer
<1>4. ASSUME NEW t \in Threads, Transfer(t)
      PROVE  StatementFollowsRequest'
  BY <1>4 DEF TypeOK, PositionsOK, StatementFollowsRequest, JudgedOK,
     Transfer, TransferRefused, GoTo, Leave
<1>5. ASSUME NEW t \in Threads, MarkRequest(t)
      PROVE  StatementFollowsRequest'
  BY <1>5 DEF TypeOK, PositionsOK, StatementFollowsRequest, JudgedOK,
     MarkRequest, GoTo, transfer
<1>6. ASSUME NEW t \in Threads, MarkRow(t)
      PROVE  StatementFollowsRequest'
  BY <1>6 DEF TypeOK, PositionsOK, StatementFollowsRequest, JudgedOK, MarkRow,
     PaidRow, Leave, transfer
<1>7. ASSUME NEW t \in Threads, NEW w \in Withdrawals, BeginRejection(t, w)
      PROVE  StatementFollowsRequest'
  BY <1>7 DEF TypeOK, PositionsOK, StatementFollowsRequest, BeginRejection,
     Start, Decidable, transfer
<1>8. ASSUME NEW t \in Threads, CommitRejection(t)
      PROVE  StatementFollowsRequest'
  BY <1>8 DEF TypeOK, PositionsOK, StatementFollowsRequest, JudgedOK,
     CommitRejection, RefundedBalance, RejectedStatus, Leave, transfer
<1>9. ASSUME NEW t \in Threads, Fail(t)
      PROVE  StatementFollowsRequest'
  BY <1>9 DEF TypeOK, PositionsOK, StatementFollowsRequest, JudgedOK, Fail,
     Leave
<1>10. QED
  BY <1>1, <1>2, <1>3, <1>4, <1>5, <1>6, <1>7, <1>8, <1>9 DEF Next

-----------------------------------------------------------------------------
(* Counting decisions. *)

Bounded(w) == Settlements(w) > 0 =>
    Settlements(w) + Cardinality(Deciding(w)) <= Cardinality(Threads)

CountTypes(w) == sent[w] \in Nat /\ unanswered[w] \in Nat /\ refunds[w] \in Nat

(* Requests that decide or record one withdrawal are finitely many.        *)
LEMMA CountedFinite ==
    ASSUME NEW w
    PROVE  /\ IsFiniteSet(Deciding(w)) /\ IsFiniteSet(Marking(w))
           /\ Cardinality(Deciding(w)) \in Nat /\ Cardinality(Marking(w)) \in Nat
           /\ Cardinality(Deciding(w)) <= Cardinality(Threads)
           /\ Cardinality(Threads) \in Nat
<1>1. Deciding(w) \in SUBSET Threads /\ Marking(w) \in SUBSET Threads
  BY DEF Deciding, Marking
<1>2. QED
  BY <1>1, ThreadsAssumption, FS_Subset, FS_CardinalityType

(* Disjoint sets of requests are together no more than all of them.        *)
LEMMA DisjointBounded ==
    ASSUME NEW S \in SUBSET Threads, NEW T \in SUBSET Threads, S \cap T = {}
    PROVE  Cardinality(S) + Cardinality(T) <= Cardinality(Threads)
<1>1. IsFiniteSet(S) /\ IsFiniteSet(T) /\ S \cup T \in SUBSET Threads
  BY ThreadsAssumption, FS_Subset
<1>2. Cardinality(S \cup T) = Cardinality(S) + Cardinality(T) - Cardinality({})
  BY <1>1, FS_Union
<1>3. Cardinality(S \cup T) <= Cardinality(Threads) /\ Cardinality({}) = 0
  BY <1>1, ThreadsAssumption, FS_Subset, FS_EmptySet
<1>4. Cardinality(S) \in Nat /\ Cardinality(T) \in Nat
  BY <1>1, FS_CardinalityType
<1>5. QED
  BY <1>2, <1>3, <1>4

(* A step that counts nothing of w, and lets nobody else decide it.        *)
LEMMA CountsQuiet ==
    ASSUME NEW w, CountTypes(w), CountOK(w), Bounded(w),
           sent'[w] = sent[w], unanswered'[w] = unanswered[w],
           refunds'[w] = refunds[w],
           \/ status'[w] = status[w]
           \/ status[w] = "NONE" /\ status'[w] = "PENDING"
           \/ status'[w] = "APPROVED",
           Marking(w)' = Marking(w),
           Deciding(w)' \subseteq Deciding(w)
    PROVE  CountOK(w)' /\ Bounded(w)'
<1>1. CountOK(w)'
  BY DEF CountOK, Recorded
<1>2. /\ Cardinality(Deciding(w)') <= Cardinality(Deciding(w))
      /\ IsFiniteSet(Deciding(w)')
  BY CountedFinite, FS_Subset
<1>3. Cardinality(Deciding(w)') \in Nat
  BY <1>2, FS_CardinalityType
<1>4. Settlements(w)' = Settlements(w) /\ Settlements(w) \in Int
  BY DEF Settlements, CountTypes
<1>5. Bounded(w)'
  BY <1>2, <1>3, <1>4, CountedFinite DEF Bounded
<1>6. QED
  BY <1>1, <1>5

(* A decision begins, of a withdrawal that is PENDING: what was answered   *)
(* so far is about to be recorded by others.                               *)
LEMMA DecisionBegins ==
    ASSUME NEW w, NEW t \in Threads, CountTypes(w), CountOK(w),
           status[w] = "PENDING",
           sent'[w] = sent[w], unanswered'[w] = unanswered[w],
           refunds'[w] = refunds[w], status'[w] = status[w],
           Marking(w)' = Marking(w)
    PROVE  CountOK(w)' /\ Bounded(w)'
<1>1. CountOK(w)'
  BY DEF CountOK, Recorded
<1>2. /\ Deciding(w)' \in SUBSET Threads /\ Marking(w)' \in SUBSET Threads
      /\ Deciding(w)' \cap Marking(w)' = {}
  BY DEF Deciding, Marking
<1>3. Cardinality(Deciding(w)') + Cardinality(Marking(w)') <= Cardinality(Threads)
  BY <1>2, DisjointBounded
<1>4. Settlements(w)' = Cardinality(Marking(w)')
  BY CountedFinite DEF CountOK, Recorded, Settlements, CountTypes
<1>5. /\ Cardinality(Deciding(w)') \in Nat /\ Cardinality(Marking(w)') \in Nat
  BY <1>2, ThreadsAssumption, FS_Subset, FS_CardinalityType
<1>6. Bounded(w)'
  BY <1>3, <1>4, <1>5 DEF Bounded
<1>7. QED
  BY <1>1, <1>6

(* Paystack accepts, and says so: one deciding request more settles.       *)
LEMMA TransferAnswered ==
    ASSUME NEW w, NEW t \in Threads, CountTypes(w), CountOK(w), Bounded(w),
           sent'[w] = sent[w] + 1, unanswered'[w] = unanswered[w],
           refunds'[w] = refunds[w], status'[w] = status[w],
           t \in Deciding(w), Deciding(w)' = Deciding(w) \ {t},
           t \notin Marking(w), Marking(w)' = Marking(w) \cup {t}
    PROVE  CountOK(w)' /\ Bounded(w)'
<1>0. IsFiniteSet(Deciding(w)) /\ IsFiniteSet(Marking(w))
  BY CountedFinite
<1>a. Cardinality(Deciding(w) \ {t}) = Cardinality(Deciding(w)) - 1
  BY <1>0, FS_RemoveElement
<1>b. Cardinality(Marking(w) \cup {t}) = Cardinality(Marking(w)) + 1
  BY <1>0, FS_AddElement
<1>1. /\ Cardinality(Deciding(w)') = Cardinality(Deciding(w)) - 1
      /\ Cardinality(Marking(w)') = Cardinality(Marking(w)) + 1
  BY <1>a, <1>b
<1>2. Recorded(w)' = Recorded(w)
  BY <1>1, CountedFinite DEF Recorded, CountTypes
<1>3. Settlements(w)' = Settlements(w) + 1 /\ Settlements(w) \in Int
  BY DEF Settlements, CountTypes
<1>4. Settlements(w) >= 0
  BY CountedFinite DEF CountOK, Recorded, Settlements, CountTypes
<1>5. QED
  BY <1>1, <1>2, <1>3, <1>4, CountedFinite DEF CountOK, Bounded

(* Paystack accepts, and the answer is lost.                               *)
LEMMA TransferLost ==
    ASSUME NEW w, NEW t \in Threads, CountTypes(w), CountOK(w), Bounded(w),
           sent'[w] = sent[w] + 1, unanswered'[w] = unanswered[w] + 1,
           refunds'[w] = refunds[w], status'[w] = status[w],
           t \in Deciding(w), Deciding(w)' = Deciding(w) \ {t},
           Marking(w)' = Marking(w)
    PROVE  CountOK(w)' /\ Bounded(w)'
<1>1. Cardinality(Deciding(w)') = Cardinality(Deciding(w)) - 1
  BY CountedFinite, FS_RemoveElement
<1>2. Recorded(w)' = Recorded(w)
  BY CountedFinite DEF Recorded, CountTypes
<1>3. Settlements(w)' = Settlements(w) /\ Settlements(w) \in Int
  BY DEF Settlements, CountTypes
<1>4. QED
  BY <1>1, <1>2, <1>3, CountedFinite DEF CountOK, Bounded

(* An answered transfer is recorded, or the request ends before it is.     *)
LEMMA MarkEnds ==
    ASSUME NEW w, NEW t \in Threads, CountTypes(w), CountOK(w), Bounded(w),
           sent'[w] = sent[w], refunds'[w] = refunds[w],
           \/ unanswered'[w] = unanswered[w] /\ status'[w] = "PAID"
           \/ unanswered'[w] = unanswered[w] + 1 /\ status'[w] = status[w],
           t \in Marking(w), Marking(w)' = Marking(w) \ {t},
           Deciding(w)' = Deciding(w)
    PROVE  CountOK(w)' /\ Bounded(w)'
<1>1. Cardinality(Marking(w)') = Cardinality(Marking(w)) - 1
  BY CountedFinite, FS_RemoveElement
<1>2. /\ Recorded(w) \in Int
      /\ \/ Recorded(w)' = Recorded(w) + 1 /\ status'[w] = "PAID"
         \/ Recorded(w)' = Recorded(w) /\ status'[w] = status[w]
  BY <1>1, CountedFinite DEF Recorded, CountTypes
<1>3. CountOK(w)'
  BY <1>2 DEF CountOK
<1>4. Settlements(w)' <= Settlements(w) /\ Settlements(w)' \in Int
      /\ Settlements(w) \in Int
  BY DEF Settlements, CountTypes
<1>5. QED
  BY <1>3, <1>4, CountedFinite DEF Bounded

(* A refund: one deciding request more settles.                            *)
LEMMA RefundSettles ==
    ASSUME NEW w, NEW t \in Threads, CountTypes(w), CountOK(w), Bounded(w),
           sent'[w] = sent[w], unanswered'[w] = unanswered[w],
           refunds'[w] = refunds[w] + 1, status'[w] = "REJECTED",
           t \in Deciding(w), Deciding(w)' = Deciding(w) \ {t},
           Marking(w)' = Marking(w)
    PROVE  CountOK(w)' /\ Bounded(w)'
<1>1. Cardinality(Deciding(w)') = Cardinality(Deciding(w)) - 1
  BY CountedFinite, FS_RemoveElement
<1>2. Recorded(w)' = Recorded(w)
  BY DEF Recorded
<1>3. Settlements(w)' = Settlements(w) + 1 /\ Settlements(w) \in Int
  BY DEF Settlements, CountTypes
<1>4. Settlements(w) >= 0
  BY CountedFinite DEF CountOK, Recorded, Settlements, CountTypes
<1>5. QED
  BY <1>1, <1>2, <1>3, <1>4, CountedFinite DEF CountOK, Bounded

(* Every step keeps the counts of every withdrawal.                        *)
LEMMA CountsStep ==
    ASSUME TypeOK, PositionsOK, CountsOK, SettlementsBounded, Next,
           NEW w \in Withdrawals
    PROVE  CountOK(w)' /\ Bounded(w)'
<1> DEFINE Goal == CountOK(w)' /\ Bounded(w)'
<1>1. CountTypes(w) /\ CountOK(w) /\ Bounded(w)
  BY DEF TypeOK, CountTypes, CountsOK, SettlementsBounded, Bounded
<1>2. ASSUME NEW t \in Threads, NEW x \in Withdrawals, ReadWallet(t, x)
      PROVE  Goal
  <2>1. /\ UNCHANGED <<sent, unanswered, refunds, status>>
        /\ Marking(w)' = Marking(w) /\ Deciding(w)' \subseteq Deciding(w)
    BY <1>2 DEF ReadWallet, Start, transfer, Marking, Deciding, TypeOK
  <2>2. QED
    BY <1>1, <2>1, CountsQuiet
<1>3. ASSUME NEW t \in Threads, CommitRequest(t)
      PROVE  Goal
  <2>1. /\ UNCHANGED <<sent, unanswered, refunds>>
        /\ \/ status'[w] = status[w]
           \/ status[w] = "NONE" /\ status'[w] = "PENDING"
        /\ Marking(w)' = Marking(w) /\ Deciding(w)' \subseteq Deciding(w)
    BY <1>3 DEF CommitRequest, Leave, transfer, Marking, Deciding, TypeOK,
       PositionsOK
  <2>2. QED
    BY <1>1, <2>1, CountsQuiet
<1>4. ASSUME NEW t \in Threads, NEW x \in Withdrawals,
             BeginApproval(t, x) \/ BeginRejection(t, x)
      PROVE  Goal
  <2>1. /\ UNCHANGED <<sent, unanswered, refunds, status>>
        /\ Marking(w)' = Marking(w)
    BY <1>4 DEF BeginApproval, BeginRejection, Start, transfer, Marking,
       TypeOK
  <2>2. CASE x = w
    <3>1. status[w] = "PENDING"
      BY <1>4, <2>2 DEF BeginApproval, BeginRejection, Decidable
    <3>2. QED
      BY <1>1, <2>1, <3>1, DecisionBegins
  <2>3. CASE x # w
    <3>1. Deciding(w)' \subseteq Deciding(w)
      BY <1>4, <2>3 DEF BeginApproval, BeginRejection, Start, Deciding, TypeOK
    <3>2. QED
      BY <1>1, <2>1, <3>1, CountsQuiet
  <2>4. QED
    BY <2>2, <2>3
<1>5. ASSUME NEW t \in Threads, Transfer(t)
      PROVE  Goal
  <2>1. UNCHANGED <<refunds, status>>
    BY <1>5 DEF Transfer
  <2>2. CASE withdrawal[t] # w
    <3>1. /\ sent'[w] = sent[w] /\ unanswered'[w] = unanswered[w]
          /\ Marking(w)' = Marking(w) /\ Deciding(w)' \subseteq Deciding(w)
      BY <1>5, <2>2 DEF Transfer, TransferRefused, GoTo, Leave, Marking,
         Deciding, TypeOK
    <3>2. QED
      BY <1>1, <2>1, <3>1, CountsQuiet
  <2>3. CASE withdrawal[t] = w
    <3>1. t \in Deciding(w) /\ t \notin Marking(w)
      BY <1>5, <2>3 DEF Transfer, Deciding, Marking
    <3>2. CASE TransferRefused(t) /\ UNCHANGED <<sent, unanswered>>
      <4>1. Marking(w)' = Marking(w) /\ Deciding(w)' \subseteq Deciding(w)
        BY <1>5, <3>2 DEF Transfer, TransferRefused, Leave, Marking, Deciding,
           TypeOK
      <4>2. QED
        BY <1>1, <2>1, <3>2, <4>1, CountsQuiet
    <3>3. CASE /\ sent' = [sent EXCEPT ![w] = @ + 1]
               /\ GoTo(t, "markPaid") /\ UNCHANGED unanswered
      <4>1. /\ sent'[w] = sent[w] + 1
            /\ Deciding(w)' = Deciding(w) \ {t}
            /\ Marking(w)' = Marking(w) \cup {t}
        BY <2>3, <3>3 DEF GoTo, Marking, Deciding, TypeOK
      <4>2. QED
        BY <1>1, <2>1, <3>1, <3>3, <4>1, TransferAnswered
    <3>4. CASE /\ sent' = [sent EXCEPT ![w] = @ + 1]
               /\ Leave(t)
               /\ unanswered' = [unanswered EXCEPT ![w] = @ + 1]
      <4>1. /\ sent'[w] = sent[w] + 1 /\ unanswered'[w] = unanswered[w] + 1
            /\ Deciding(w)' = Deciding(w) \ {t}
            /\ Marking(w)' = Marking(w)
        BY <1>5, <2>3, <3>4 DEF Transfer, Leave, Marking, Deciding, TypeOK
      <4>2. QED
        BY <1>1, <2>1, <3>1, <4>1, TransferLost
    <3>5. QED
      BY <1>5, <2>3, <3>2, <3>3, <3>4 DEF Transfer
  <2>4. QED
    BY <2>2, <2>3
<1>6. ASSUME NEW t \in Threads, MarkRequest(t)
      PROVE  Goal
  <2>1. UNCHANGED <<sent, unanswered, refunds>> /\ Deciding(w)' = Deciding(w)
    BY <1>6 DEF MarkRequest, GoTo, transfer, Deciding, TypeOK
  <2>2. CASE pc[t] = "markPaid" /\ withdrawal[t] = w
    <3>1. /\ status'[w] = "PAID" /\ t \in Marking(w)
          /\ Marking(w)' = Marking(w) \ {t}
      BY <1>6, <2>2 DEF MarkRequest, GoTo, Marking, TypeOK
    <3>2. QED
      BY <1>1, <2>1, <3>1, MarkEnds
  <2>3. CASE ~(pc[t] = "markPaid" /\ withdrawal[t] = w)
    <3>1. /\ status'[w] = status[w] \/ status'[w] = "APPROVED"
          /\ Marking(w)' = Marking(w)
      BY <1>6, <2>3 DEF MarkRequest, GoTo, Marking, TypeOK
    <3>2. QED
      BY <1>1, <2>1, <3>1, CountsQuiet
  <2>4. QED
    BY <2>2, <2>3
<1>7. ASSUME NEW t \in Threads, MarkRow(t)
      PROVE  Goal
  <2>1. /\ UNCHANGED <<sent, unanswered, refunds, status>>
        /\ Marking(w)' = Marking(w) /\ Deciding(w)' \subseteq Deciding(w)
    BY <1>7 DEF MarkRow, Leave, transfer, Marking, Deciding, TypeOK
  <2>2. QED
    BY <1>1, <2>1, CountsQuiet
<1>8. ASSUME NEW t \in Threads, CommitRejection(t)
      PROVE  Goal
  <2>1. /\ UNCHANGED <<sent, unanswered>> /\ Marking(w)' = Marking(w)
        /\ Deciding(w)' = Deciding(w) \ {t}
    BY <1>8 DEF CommitRejection, Leave, transfer, Marking, Deciding, TypeOK
  <2>2. CASE withdrawal[t] = w
    <3>1. /\ refunds'[w] = refunds[w] + 1 /\ status'[w] = "REJECTED"
          /\ t \in Deciding(w)
      BY <1>8, <2>2 DEF CommitRejection, RejectedStatus, Deciding, TypeOK
    <3>2. QED
      BY <1>1, <2>1, <3>1, RefundSettles
  <2>3. CASE withdrawal[t] # w
    <3>1. refunds'[w] = refunds[w] /\ status'[w] = status[w]
      BY <1>8, <2>3 DEF CommitRejection, RejectedStatus, TypeOK
    <3>2. QED
      BY <1>1, <2>1, <3>1, CountsQuiet
  <2>4. QED
    BY <2>2, <2>3
<1>9. ASSUME NEW t \in Threads, Fail(t)
      PROVE  Goal
  <2>1. UNCHANGED <<sent, refunds, status>>
    BY <1>9 DEF Fail
  <2>2. CASE pc[t] = "markPaid" /\ withdrawal[t] = w
    <3>1. /\ unanswered'[w] = unanswered[w] + 1
          /\ t \in Marking(w) /\ Marking(w)' = Marking(w) \ {t}
          /\ Deciding(w)' = Deciding(w)
      BY <1>9, <2>2 DEF Fail, Leave, Marking, Deciding, TypeOK
    <3>2. QED
      BY <1>1, <2>1, <3>1, MarkEnds
  <2>3. CASE ~(pc[t] = "markPaid" /\ withdrawal[t] = w)
    <3>1. /\ unanswered'[w] = unanswered[w]
          /\ Marking(w)' = Marking(w) /\ Deciding(w)' \subseteq Deciding(w)
      BY <1>9, <2>3 DEF Fail, Leave, Marking, Deciding, TypeOK
    <3>2. QED
      BY <1>1, <2>1, <3>1, CountsQuiet
  <2>4. QED
    BY <2>2, <2>3
<1>10. QED
  BY <1>2, <1>3, <1>4, <1>5, <1>6, <1>7, <1>8, <1>9 DEF Next

-----------------------------------------------------------------------------
(* What was decided. *)

DecisionKept == \A w \in Withdrawals \ overlapped :
    status[w] \in {"APPROVED", "PAID", "REJECTED"} => status'[w] = status[w]

(* Only an overlapping request changes what was decided.                   *)
LEMMA DecisionStep ==
    ASSUME TypeOK, PositionsOK, JudgedOK, Next
    PROVE  DecisionKept
<1>1. ASSUME NEW t \in Threads, CommitRequest(t)
      PROVE  DecisionKept
  BY <1>1 DEF TypeOK, PositionsOK, JudgedOK, DecisionKept, CommitRequest,
     Leave, transfer
<1>2. ASSUME NEW t \in Threads, MarkRequest(t)
      PROVE  DecisionKept
  BY <1>2 DEF TypeOK, PositionsOK, JudgedOK, DecisionKept, MarkRequest, GoTo,
     transfer
<1>3. ASSUME NEW t \in Threads, CommitRejection(t)
      PROVE  DecisionKept
  BY <1>3 DEF TypeOK, PositionsOK, JudgedOK, DecisionKept, CommitRejection,
     RefundedBalance, RejectedStatus, Leave, transfer
<1>4. ASSUME \/ \E t \in Threads, w \in Withdrawals : ReadWallet(t, w)
             \/ \E t \in Threads, w \in Withdrawals : BeginApproval(t, w)
             \/ \E t \in Threads : Transfer(t)
             \/ \E t \in Threads : MarkRow(t)
             \/ \E t \in Threads, w \in Withdrawals : BeginRejection(t, w)
             \/ \E t \in Threads : Fail(t)
      PROVE  DecisionKept
  BY <1>4 DEF TypeOK, PositionsOK, JudgedOK, DecisionKept, ReadWallet, Start,
     HasFunds, transfer, BeginApproval, Decidable, Transfer, TransferRefused,
     GoTo, Leave, MarkRow, PaidRow, BeginRejection, Fail
<1>5. QED
  BY <1>1, <1>2, <1>3, <1>4 DEF Next

-----------------------------------------------------------------------------
(* The theorems. *)

(* The invariant holds at start ...                                        *)
LEMMA InitIInv == Init => IInv
<1> SUFFICES ASSUME Init
             PROVE  IInv
  OBVIOUS
<1>1. TypeOK /\ PositionsOK /\ RowsOK /\ SoleDecider /\ JudgedOK
  BY DEF Init, TypeOK, Statuses, RowStatuses, Positions, PositionsOK, RowsOK,
     SoleDecider, JudgedOK
<1>2. ASSUME NEW w \in Withdrawals
      PROVE  CountOK(w) /\ Bounded(w)
  <2>1. /\ sent[w] = 0 /\ unanswered[w] = 0 /\ refunds[w] = 0
        /\ status[w] = "NONE" /\ Marking(w) = {}
    BY <1>2 DEF Init, Marking
  <2>2. QED
    BY <2>1, FS_EmptySet DEF CountOK, Recorded, Bounded, Settlements
<1>3. StatementFollowsRequest
  BY DEF Init, StatementFollowsRequest
<1>4. QED
  BY <1>1, <1>2, <1>3 DEF IInv, CountsOK, SettlementsBounded, Bounded

(* ... every step of a request about a withdrawal preserves it ...         *)
LEMMA StepIInv == IInv /\ [Next]_vars => IInv'
<1> SUFFICES ASSUME IInv, [Next]_vars
             PROVE  IInv'
  OBVIOUS
<1>1. CASE Next
  <2>1. CountsOK' /\ SettlementsBounded'
    BY <1>1, CountsStep DEF IInv, CountsOK, SettlementsBounded, Bounded
  <2>2. QED
    BY <1>1, <2>1, TypeStep, PositionsStep, RowsStep, OneStep, JudgedStep,
       StatementStep DEF IInv
<1>2. CASE UNCHANGED vars
  BY <1>2 DEF IInv, TypeOK, PositionsOK, RowsOK, SoleDecider, JudgedOK,
     CountsOK, CountOK, Recorded, Marking, SettlementsBounded, Settlements,
     Deciding, StatementFollowsRequest, vars, transfer, request
<1>3. QED
  BY <1>1, <1>2

(* ... and it always holds.                                                *)
LEMMA AlwaysIInv == Spec => []IInv
  BY InitIInv, StepIInv, PTL DEF Spec

(* A recorded transfer was accepted, so the records show what happened.    *)
LEMMA IInvIsTrue == IInv => StatementIsTrue
<1>1. ASSUME IInv, NEW w \in Withdrawals, status[w] = "PAID"
      PROVE  sent[w] > unanswered[w]
  <2>1. /\ sent[w] \in Nat /\ unanswered[w] \in Nat
        /\ sent[w] - unanswered[w] - Cardinality(Marking(w)) >= 1
    BY <1>1 DEF IInv, TypeOK, CountsOK, CountOK, Recorded
  <2>2. QED
    BY <2>1, CountedFinite
<1>2. QED
  BY <1>1 DEF IInv, RowsOK, StatementIsTrue, StatusIsTrue

(* Every variable keeps its type. *)
THEOREM TypeCorrect == Spec => []TypeOK
<1>1. IInv => TypeOK
  BY DEF IInv
<1>2. QED
  BY <1>1, AlwaysIInv, PTL

(* finance.service.ts reads a withdrawal's status outside the transaction  *)
(* that decides it: refunds and answered transfers of one withdrawal are   *)
(* together at most as many as requests are handled at once.               *)
THEOREM SettlementsAreBounded == Spec => []SettlementsBounded
<1>1. IInv => SettlementsBounded
  BY DEF IInv
<1>2. QED
  BY <1>1, AlwaysIInv, PTL

(* The request shows what happened to the money, for any interleaving of   *)
(* decisions, and the wallet's row follows it unless decisions overlap.    *)
THEOREM StatementIsAlwaysTrue == Spec => []StatementIsTrue
<1>1. IInv => StatementIsTrue
  BY IInvIsTrue
<1>2. QED
  BY <1>1, AlwaysIInv, PTL

(* A decision stands, unless two of the same withdrawal overlap. *)
THEOREM DecisionsStand == Spec => DecidedStaysDecided
<1>1. IInv /\ [Next]_vars => [DecisionKept]_vars
  BY DecisionStep DEF IInv
<1>2. QED
  BY <1>1, AlwaysIInv, PTL DEF Spec, DecidedStaysDecided, DecisionKept
-----------------------------------------------------------------------------
(* The composition: the payments, with what is proved about them.          *)
PP == INSTANCE WalletPaymentsProofs WITH status <- billStatus, pc <- payPc

(* P and PP are the same specification.                                    *)
LEMMA SameSteps == P!Next => PP!Next
  BY
  DEF P!Outstanding, PP!Outstanding, P!InitializeWalletFunding,
      PP!InitializeWalletFunding, P!InitializeLevyPayment,
      PP!InitializeLevyPayment, P!LinkVirtualAccount, PP!LinkVirtualAccount,
      P!PayCheckout, PP!PayCheckout, P!PayTransfer, PP!PayTransfer, P!GoTo,
      PP!GoTo, P!Leave, PP!Leave, P!Acknowledge, PP!Acknowledge, P!Fail,
      PP!Fail, P!Deliver, PP!Deliver, P!AlreadyProcessed, PP!AlreadyProcessed,
      P!Lookup, PP!Lookup, P!ConfirmedAmount, PP!ConfirmedAmount,
      P!MarkSuccess, PP!MarkSuccess, P!SettleFunding, PP!SettleFunding,
      P!CreditEstateWallet, PP!CreditEstateWallet, P!PaidSoFar, PP!PaidSoFar,
      P!CoversBill, PP!CoversBill, P!RowLocked, PP!RowLocked,
      P!BeginSettleLevy, PP!BeginSettleLevy, P!CommitSettleLevy,
      PP!CommitSettleLevy, P!NoWalletMatched, PP!NoWalletMatched,
      P!FindExistingTransfer, PP!FindExistingTransfer, P!ReferenceIsFree,
      PP!ReferenceIsFree, P!CreditTransfer, PP!CreditTransfer, P!FollowUp,
      PP!FollowUp, P!ReadBill, PP!ReadBill, P!Charge, PP!Charge, P!HasFunds,
      PP!HasFunds, P!ReadWallet, PP!ReadWallet, P!CommitPayLevy,
      PP!CommitPayLevy, P!Settle, PP!Settle, P!Webhook, PP!Webhook,
      P!PayFromWallet, PP!PayFromWallet, P!Next, PP!Next, P!rows, PP!rows,
      P!bills, PP!bills, P!bank, PP!bank, P!request, PP!request, P!Refs,
      PP!Refs, P!RowRefs, PP!RowRefs, P!Amounts, PP!Amounts

(* Sums are the same, whichever instance of the library adds them up.      *)
LEMMA SameSums ==
    ASSUME NEW f, NEW S
    PROVE  /\ P!SumFunctionOnSet(f, S) = PP!SumFunctionOnSet(f, S)
           /\ P!SumFunctionOnSet(f, S) = SumFunctionOnSet(f, S)
  BY DEF P!SumFunctionOnSet, PP!SumFunctionOnSet, SumFunctionOnSet,
         P!FoldFunctionOnSet, PP!FoldFunctionOnSet, FoldFunctionOnSet,
         P!MapThenFoldSet, PP!MapThenFoldSet, MapThenFoldSet

(* Statements are the same ...                                             *)
LEMMA SameStatement ==
    ASSUME NEW p
    PROVE  /\ P!CreditRows(p) = PP!CreditRows(p)
           /\ P!CreditRows(p)' = PP!CreditRows(p)'
           /\ P!Statement(p) = PP!Statement(p)
           /\ P!Statement(p)' = PP!Statement(p)'
  BY SameSums DEF P!Statement, PP!Statement, P!CreditRows, PP!CreditRows,
                  P!DebitRows, PP!DebitRows

(* ... so are the debits to come ...                                       *)
LEMMA SameReserved ==
    ASSUME NEW p
    PROVE  /\ P!Reserved(p) = PP!Reserved(p)
           /\ P!Reserved(p)' = PP!Reserved(p)'
           /\ P!Debiting(p) = PP!Debiting(p)
           /\ P!LargestBill = PP!LargestBill
  BY SameSums DEF P!Reserved, PP!Reserved, P!Debiting, PP!Debiting, P!Charge,
                  PP!Charge, P!Outstanding, PP!Outstanding, P!LargestBill,
                  PP!LargestBill, P!Max, PP!Max

(* ... and the size of a set ...                                           *)
LEMMA SameCardinality ==
    ASSUME NEW S
    PROVE  PP!Cardinality(S) = Cardinality(S)
  BY DEF PP!Cardinality, Cardinality

(* ... if it is finite.                                                    *)
LEMMA SameFinite ==
    ASSUME NEW S
    PROVE  PP!IsFiniteSet(S) <=> IsFiniteSet(S)
  BY DEF PP!IsFiniteSet, IsFiniteSet

(* ResidentWallet assumes what WalletPayments does.                        *)
LEMMA PaymentsAssumed ==
    /\ FundingRefs \cap LevyRefs = {}
    /\ PP!RowRefs \cap TransferRefs = {}
    /\ Payer \in [PP!Refs -> Residents]
    /\ BillOf \in [LevyRefs -> Bills]
    /\ Debtor \in [Bills -> Residents]
    /\ BillAmount \in [Bills -> Nat \ {0}]
    /\ PP!IsFiniteSet(Threads) /\ Threads # {}
    /\ PP!IsFiniteSet(PP!Refs) /\ PP!IsFiniteSet(Bills)
    /\ MaxAmount \in Nat
    /\ None \notin PP!Refs \cup Bills
  BY PaymentsAssumption, ThreadsAssumption, SameFinite
  DEF P!Refs, PP!Refs, P!RowRefs, PP!RowRefs

PaymentsOK == PP!TypeOK /\ PP!ArgumentsOK /\ PP!RowsOK /\ PP!ChargedOK

(* Payments keep what is known of them.                                    *)
LEMMA PaymentsStep ==
    ASSUME PaymentsOK, P!Next
    PROVE  PaymentsOK'
<1>1. PP!TypeOK'
  BY SameSteps, PP!TypeStep, PaymentsAssumed DEF PaymentsOK
<1>2. PP!ArgumentsOK'
  BY SameSteps, PP!ArgumentsStep, PaymentsAssumed DEF PaymentsOK
<1>3. PP!RowsOK'
  BY SameSteps, PP!RowsStep, PaymentsAssumed DEF PaymentsOK
<1>4. PP!ChargedOK'
  BY SameSteps, PP!ChargedStep, PaymentsAssumed DEF PaymentsOK
<1> QED
  BY <1>1, <1>2, <1>3, <1>4 DEF PaymentsOK

(* Requests about withdrawals leave the payments alone ...                 *)
LEMMA PaymentsKept ==
    ASSUME PaymentsOK, TypeOK', UNCHANGED payments
    PROVE  PaymentsOK'
<1>1. PP!TypeOK'
  BY DEF PaymentsOK, TypeOK, payments, PP!TypeOK
<1>2. PP!ArgumentsOK'
  BY DEF PaymentsOK, payments, PP!ArgumentsOK, PP!Charge, PP!Outstanding
<1>3. PP!RowsOK' /\ PP!ChargedOK'
  BY DEF PaymentsOK, payments, PP!RowsOK, PP!ChargedOK
<1> QED
  BY <1>1, <1>2, <1>3 DEF PaymentsOK

(* ... and payments the withdrawals.                                       *)
LEMMA WithdrawalsKept ==
    ASSUME IInv, PaymentsOK', UNCHANGED withdrawals
    PROVE  IInv'
<1>1. balance' \in [Residents -> Int]
  BY DEF PaymentsOK, PP!TypeOK
<1>2. TypeOK'
  BY <1>1 DEF IInv, TypeOK, withdrawals, transfer, request
<1>3. /\ PositionsOK' /\ RowsOK' /\ SoleDecider' /\ JudgedOK'
      /\ StatementFollowsRequest'
  BY DEF IInv, withdrawals, transfer, request, PositionsOK, RowsOK,
         SoleDecider, JudgedOK, StatementFollowsRequest
<1>4. CountsOK' /\ SettlementsBounded'
  BY DEF IInv, withdrawals, transfer, request, CountsOK, CountOK, Recorded,
         Marking, SettlementsBounded, Settlements, Deciding
<1> QED
  BY <1>2, <1>3, <1>4 DEF IInv

(* One request is about a payment or about a withdrawal.                   *)
OneAtATime == \A t \in Threads : pc[t] = "idle" \/ payPc[t] = "idle"

-----------------------------------------------------------------------------
(* The statements explain the balance. *)

(* What withdrawals have taken is an integer.                              *)
LEMMA TakenIsInt ==
    ASSUME TypeOK, NEW p
    PROVE  /\ IsFiniteSet(WithdrawalsOf(p))
           /\ \A w \in Withdrawals : Withdrawn(w) \in Int
           /\ Taken(p) \in Int
<1> DEFINE f == [w \in Withdrawals |-> Withdrawn(w)]
<1>1. WithdrawalsOf(p) \subseteq Withdrawals
  BY DEF WithdrawalsOf
<1>2. IsFiniteSet(WithdrawalsOf(p))
  BY <1>1, WithdrawalsAssumption, FS_Subset
<1>3. \A w \in Withdrawals : Withdrawn(w) \in Int
  BY DEF TypeOK, Withdrawn
<1>4. \A w \in WithdrawalsOf(p) : f[w] \in Int
  BY <1>1, <1>3
<1> HIDE DEF f
<1>5. SumFunctionOnSet(f, WithdrawalsOf(p)) \in Int
  BY <1>2, <1>4, SumIsInt
<1> QED
  BY <1>2, <1>3, <1>5 DEF Taken, f

(* What one withdrawal takes changes what the withdrawals of its owner do. *)
LEMMA TakenMoves ==
    ASSUME TypeOK, TypeOK', NEW w \in Withdrawals, NEW p,
           \A v \in Withdrawals \ {w} : row'[v] = row[v] /\ refunds'[v] = refunds[v]
    PROVE  /\ Taken(p)' \in Int
           /\ Withdrawn(w)' \in Int
           /\ Taken(p)' = Taken(p) + (IF Owner[w] = p
                                      THEN Withdrawn(w)' - Withdrawn(w) ELSE 0)
<1> DEFINE f == [v \in Withdrawals |-> Withdrawn(v)]
           g == [v \in Withdrawals |-> Withdrawn(v)']
           S == WithdrawalsOf(p)
<1>1. /\ Taken(p) = SumFunctionOnSet(f, S)
      /\ Taken(p)' = SumFunctionOnSet(g, S)
  BY DEF Taken, WithdrawalsOf
<1>2. \A v \in Withdrawals : f[v] \in Int /\ g[v] \in Int
  BY DEF TypeOK, Withdrawn
<1>3. \A v \in Withdrawals \ {w} : g[v] = f[v]
  BY DEF Withdrawn
<1>4. f[w] = Withdrawn(w) /\ g[w] = Withdrawn(w)'
  OBVIOUS
<1>5. IsFiniteSet(S) /\ S \subseteq Withdrawals /\ (w \in S <=> Owner[w] = p)
  BY TakenIsInt DEF WithdrawalsOf
<1> HIDE DEF f, g, S
<1>6. SumFunctionOnSet(g, S) \in Int /\ SumFunctionOnSet(f, S) \in Int
  BY <1>2, <1>5, SumIsInt
<1>7. CASE w \in S
  <2>1. SumFunctionOnSet(g, S) = SumFunctionOnSet(f, S) + (g[w] - f[w])
    BY <1>2, <1>3, <1>5, <1>7, SumUpdate
  <2> QED
    BY <1>1, <1>2, <1>4, <1>5, <1>6, <1>7, <2>1
<1>8. CASE w \notin S
  <2>1. SumFunctionOnSet(g, S) = SumFunctionOnSet(f, S)
    BY <1>3, <1>5, <1>8, SumSame
  <2> QED
    BY <1>1, <1>2, <1>4, <1>5, <1>6, <1>8, <2>1
<1> QED
  BY <1>7, <1>8

(* One refund more takes one amount less.                                  *)
LEMMA RefundGivesBack ==
    \A n, m \in Nat : (n + 1) * m = n * m + m /\ n * m \in Int
OBVIOUS

(* Balance and withdrawals move together.                                  *)
LEMMA StepTaken ==
    ASSUME TypeOK, TypeOK', PositionsOK, RowsOK, Next, NEW p \in Residents
    PROVE  /\ Taken(p)' \in Int
           /\ balance'[p] - balance[p] = Taken(p) - Taken(p)'
<1>1. Taken(p) \in Int /\ balance[p] \in Int /\ balance'[p] \in Int
  BY TakenIsInt DEF TypeOK
<1>2. ASSUME NEW t \in Threads, CommitRequest(t)
      PROVE  /\ Taken(p)' \in Int
             /\ balance'[p] - balance[p] = Taken(p) - Taken(p)'
  <2>1. PICK w \in Withdrawals : w = withdrawal[t] /\ row[w] = "NONE"
    BY <1>2 DEF PositionsOK, RowsOK, CommitRequest
  <2>2. /\ balance' = [balance EXCEPT ![Owner[w]] = @ - Amount[w]]
        /\ row' = [row EXCEPT ![w] = "PENDING"] /\ refunds' = refunds
    BY <1>2, <2>1 DEF CommitRequest
  <2>3. Taken(p)' = Taken(p) + (IF Owner[w] = p
                                THEN Withdrawn(w)' - Withdrawn(w) ELSE 0)
        /\ Taken(p)' \in Int
    BY <2>2, TakenMoves DEF TypeOK
  <2>4. Withdrawn(w)' - Withdrawn(w) = Amount[w]
    <3>1. Amount[w] \in Nat /\ refunds[w] * Amount[w] \in Int
      BY RefundGivesBack DEF TypeOK
    <3> QED
      BY <2>1, <2>2, <3>1 DEF Withdrawn, TypeOK
  <2>5. balance'[p] = IF Owner[w] = p THEN balance[p] - Amount[w]
                      ELSE balance[p]
    BY <2>2 DEF TypeOK
  <2> QED
    BY <1>1, <2>3, <2>4, <2>5
<1>3. ASSUME NEW t \in Threads, CommitRejection(t)
      PROVE  /\ Taken(p)' \in Int
             /\ balance'[p] - balance[p] = Taken(p) - Taken(p)'
  <2>1. PICK w \in Withdrawals : w = withdrawal[t] /\ row[w] # "NONE"
    BY <1>3 DEF PositionsOK, RowsOK, CommitRejection
  <2>2. /\ balance' = [balance EXCEPT ![Owner[w]] = @ + Amount[w]]
        /\ row' = [row EXCEPT ![w] = "FAILED"]
        /\ refunds' = [refunds EXCEPT ![w] = @ + 1]
    BY <1>3, <2>1 DEF CommitRejection, RefundedBalance
  <2>3. Taken(p)' = Taken(p) + (IF Owner[w] = p
                                THEN Withdrawn(w)' - Withdrawn(w) ELSE 0)
        /\ Taken(p)' \in Int
    BY <2>2, TakenMoves DEF TypeOK
  <2>4. Withdrawn(w)' - Withdrawn(w) = -Amount[w]
    <3>1. /\ Amount[w] \in Nat /\ refunds[w] * Amount[w] \in Int
          /\ (refunds[w] + 1) * Amount[w] = refunds[w] * Amount[w] + Amount[w]
      BY RefundGivesBack DEF TypeOK
    <3> QED
      BY <2>1, <2>2, <3>1 DEF Withdrawn, TypeOK
  <2>5. balance'[p] = IF Owner[w] = p THEN balance[p] + Amount[w]
                      ELSE balance[p]
    BY <2>2 DEF TypeOK
  <2> QED
    BY <1>1, <2>3, <2>4, <2>5
<1>4. ASSUME NEW t \in Threads, MarkRow(t)
      PROVE  /\ Taken(p)' \in Int
             /\ balance'[p] - balance[p] = Taken(p) - Taken(p)'
  <2>1. PICK w \in Withdrawals : w = withdrawal[t] /\ row[w] # "NONE"
    BY <1>4 DEF PositionsOK, RowsOK, MarkRow
  <2>2. /\ UNCHANGED <<balance, refunds>>
        /\ \E s : s # "NONE" /\ row' = [row EXCEPT ![w] = s]
    BY <1>4, <2>1 DEF MarkRow, PaidRow
  <2>3. Taken(p)' = Taken(p) + (IF Owner[w] = p
                                THEN Withdrawn(w)' - Withdrawn(w) ELSE 0)
        /\ Taken(p)' \in Int
    BY <2>2, TakenMoves DEF TypeOK
  <2>4. Withdrawn(w)' = Withdrawn(w) /\ Withdrawn(w) \in Int
    BY <2>1, <2>2, TakenIsInt DEF Withdrawn, TypeOK
  <2> QED
    BY <1>1, <2>2, <2>3, <2>4
<1>5. CASE UNCHANGED <<balance, row, refunds>>
  <2>1. Taken(p)' = Taken(p)
    BY <1>5 DEF Taken, Withdrawn, WithdrawalsOf
  <2> QED
    BY <1>1, <1>5, <2>1
<1>6. ASSUME NEW t \in Threads, Transfer(t) \/ MarkRequest(t) \/ Fail(t)
      PROVE  UNCHANGED <<balance, row, refunds>>
  BY <1>6 DEF Transfer, MarkRequest, Fail
<1>7. ASSUME NEW t \in Threads, NEW w \in Withdrawals,
             ReadWallet(t, w) \/ BeginApproval(t, w) \/ BeginRejection(t, w)
      PROVE  UNCHANGED <<balance, row, refunds>>
  BY <1>7 DEF ReadWallet, BeginApproval, BeginRejection
<1> QED
  BY <1>2, <1>3, <1>4, <1>5, <1>6, <1>7 DEF Next

CreditedOnce(p) == \A r \in P!CreditRows(p) : credits[r] = 1

(* The payments' part of a statement is an integer.                        *)
LEMMA StatementIsInt ==
    ASSUME PaymentsOK, NEW p \in Residents
    PROVE  P!Statement(p) \in Int
  BY SameStatement, PP!StatementIsInt, PaymentsAssumed DEF PaymentsOK

(* A step of either kind keeps the statements true.                        *)
LEMMA ExplainedStep ==
    ASSUME IInv, IInv', PaymentsOK, PaymentsOK', StatementsExplainBalance,
           \/ Next /\ UNCHANGED payments
           \/ P!Next /\ UNCHANGED withdrawals
    PROVE  StatementsExplainBalance'
<1> SUFFICES ASSUME NEW p \in Residents
             PROVE  /\ balance'[p] >= Explained(p)'
                    /\ CreditedOnce(p)' => balance'[p] = Explained(p)'
  BY DEF StatementsExplainBalance, CreditedOnce
<1>1. /\ balance[p] >= Explained(p)
      /\ CreditedOnce(p) => balance[p] = Explained(p)
  BY DEF StatementsExplainBalance, CreditedOnce
<1>2. /\ balance[p] \in Int /\ balance'[p] \in Int /\ Opening[p] \in Int
      /\ P!Statement(p) \in Int /\ Taken(p) \in Int
  BY StatementIsInt, TakenIsInt DEF IInv, TypeOK
<1>3. Explained(p)' = Opening[p] + P!Statement(p)' - Taken(p)'
  BY DEF Explained
<1>4. CASE Next /\ UNCHANGED payments
  <2>1. /\ P!Statement(p)' = P!Statement(p)
        /\ CreditedOnce(p)' = CreditedOnce(p)
    BY <1>4 DEF payments, P!Statement, P!CreditRows, P!DebitRows, CreditedOnce
  <2>2. /\ Taken(p)' \in Int
        /\ balance'[p] - balance[p] = Taken(p) - Taken(p)'
    BY <1>4, StepTaken DEF IInv
  <2> QED
    BY <1>1, <1>2, <1>3, <2>1, <2>2 DEF Explained
<1>5. CASE P!Next /\ UNCHANGED withdrawals
  <2>1. Taken(p)' = Taken(p)
    BY <1>5 DEF withdrawals, Taken, Withdrawn, WithdrawalsOf
  <2>2. PP!Accounted(p)
    BY <1>5, SameSteps, PP!StepAccounted, PaymentsAssumed DEF PaymentsOK
  <2>3. /\ P!Statement(p)' \in Int
        /\ balance'[p] - balance[p] >= P!Statement(p)' - P!Statement(p)
        /\ CreditedOnce(p)' =>
               /\ CreditedOnce(p)
               /\ balance'[p] - balance[p] = P!Statement(p)' - P!Statement(p)
    BY <2>2, SameStatement DEF PP!Accounted, PP!CreditedOnce, CreditedOnce
  <2> QED
    BY <1>1, <1>2, <1>3, <2>1, <2>3 DEF Explained
<1> QED
  BY <1>4, <1>5

-----------------------------------------------------------------------------
(* A wallet is overdrawn by at most one debit for every other request.     *)

(* No withdrawal and no bill is greater than the greatest of both.         *)
LEMMA LargestDebitBounds ==
    /\ LargestDebit \in Nat
    /\ P!LargestBill \in Nat /\ P!LargestBill <= LargestDebit
    /\ \A w \in Withdrawals : Amount[w] <= LargestDebit
<1> DEFINE S == {Amount[w] : w \in Withdrawals} \cup {P!LargestBill}
<1>1. P!LargestBill \in Nat
  BY SameReserved, PP!LargestBillBounds, PaymentsAssumed
<1>2. S \subseteq Nat /\ S # {} /\ P!LargestBill \in S
  BY <1>1
<1>3. IsFiniteSet({Amount[w] : w \in Withdrawals})
  BY WithdrawalsAssumption, FiniteImage
<1>4. IsFiniteSet(S)
  BY <1>3, FS_AddElement
<1>5. Max(S) \in S /\ \A m \in S : m <= Max(S)
  BY <1>2, <1>4, GreatestNatural
<1> QED
  BY <1>1, <1>2, <1>5 DEF LargestDebit

(* What requests are about to take are amounts of withdrawals.             *)
LEMMA ReservedIsInt ==
    ASSUME TypeOK, PositionsOK, NEW p
    PROVE  /\ IsFiniteSet(Reserving(p)) /\ Reserving(p) \subseteq Threads
           /\ \A t \in Reserving(p) : /\ withdrawal[t] \in Withdrawals
                                      /\ Amount[withdrawal[t]] \in Nat
           /\ Reserved(p) \in Int
           /\ Reserved(p) <= Cardinality(Reserving(p)) * LargestDebit
<1> DEFINE f == [t \in Reserving(p) |-> Amount[withdrawal[t]]]
<1>1. Reserving(p) \subseteq Threads
  BY DEF Reserving
<1>2. IsFiniteSet(Reserving(p))
  BY <1>1, ThreadsAssumption, FS_Subset
<1>3. \A t \in Reserving(p) : withdrawal[t] \in Withdrawals
  BY <1>1 DEF Reserving, PositionsOK
<1>4. \A t \in Reserving(p) : f[t] \in Int /\ 0 <= f[t] /\ f[t] <= LargestDebit
  BY <1>3, LargestDebitBounds
<1>5. /\ SumFunctionOnSet(f, Reserving(p)) \in Int
      /\ SumFunctionOnSet(f, Reserving(p))
            <= Cardinality(Reserving(p)) * LargestDebit
  <2> HIDE DEF f
  <2> QED
    BY <1>2, <1>4, LargestDebitBounds, SumBound, SumIsInt
<1> QED
  BY <1>1, <1>2, <1>3, <1>5 DEF Reserved

(* The debits of one wallet to come, of either kind.                       *)
Due(p) == Reserved(p) + P!Reserved(p)

(* So many requests of each kind leave room for one more debit.            *)
LEMMA RoomForOne ==
    ASSUME NEW m \in Nat, NEW n \in Nat, NEW k \in Nat, m + n <= k,
           NEW L \in Nat, NEW M \in Nat, M <= L
    PROVE  m * L + n * M <= k * L /\ m * L \in Int /\ n * M \in Int /\ k * L \in Int
<1>1. (m + n) * L <= k * L /\ k * L \in Int
  BY TimesGrows
<1>2. (m + n) * L = m * L + n * L /\ m * L \in Int /\ n * L \in Int
  OBVIOUS
<1>3. M * n \in Nat /\ L * n \in Nat /\ M * n <= L * n
  BY TimesGrows
<1>4. M * n = n * M /\ L * n = n * L
  OBVIOUS
<1> QED
  BY <1>1, <1>2, <1>3, <1>4

(* A request that has no debit to come leaves room for one.                *)
LEMMA OthersReserve ==
    ASSUME IInv, PaymentsOK, OneAtATime, NEW p \in Residents,
           NEW t \in Threads, t \notin Reserving(p), t \notin P!Debiting(p)
    PROVE  Due(p) <= (Cardinality(Threads) - 1) * LargestDebit
<1> DEFINE S == Reserving(p)
           T == P!Debiting(p)
           Rest == Threads \ {t}
<1>1. /\ PP!Reserved(p) \in Nat
      /\ PP!Reserved(p) <= PP!Cardinality(PP!Debiting(p)) * PP!LargestBill
  BY PP!ReservedIsInt, PaymentsAssumed DEF PaymentsOK
<1>2. P!Reserved(p) \in Int /\ P!Reserved(p) <= Cardinality(T) * P!LargestBill
  BY <1>1, SameReserved, SameCardinality
<1>3. Reserved(p) \in Int /\ Reserved(p) <= Cardinality(S) * LargestDebit
  BY ReservedIsInt DEF IInv
<1>4. IsFiniteSet(Rest) /\ Cardinality(Rest) = Cardinality(Threads) - 1
      /\ Cardinality(Rest) \in Nat
  BY ThreadsAssumption, FS_RemoveElement, FS_CardinalityType
<1>5. S \subseteq Rest /\ T \subseteq Rest /\ S \cap T = {}
  BY DEF Reserving, P!Debiting, OneAtATime
<1>6. /\ IsFiniteSet(S) /\ IsFiniteSet(T)
      /\ Cardinality(S) \in Nat /\ Cardinality(T) \in Nat
      /\ S \cup T \subseteq Rest
  BY <1>4, <1>5, FS_Subset, FS_CardinalityType
<1>7. Cardinality(S \cup T) = Cardinality(S) + Cardinality(T) - Cardinality({})
  BY <1>5, <1>6, FS_Union
<1>8. Cardinality(S \cup T) <= Cardinality(Rest) /\ Cardinality({}) = 0
  BY <1>4, <1>6, FS_Subset, FS_EmptySet
<1>9. Cardinality(S) + Cardinality(T) <= Cardinality(Rest)
  BY <1>6, <1>7, <1>8
<1> HIDE DEF S, T, Rest
<1>10. /\ Cardinality(S) * LargestDebit + Cardinality(T) * P!LargestBill
             <= Cardinality(Rest) * LargestDebit
       /\ Cardinality(S) * LargestDebit \in Int
       /\ Cardinality(T) * P!LargestBill \in Int
       /\ Cardinality(Rest) * LargestDebit \in Int
  BY <1>4, <1>6, <1>9, RoomForOne, LargestDebitBounds
<1> QED
  BY <1>2, <1>3, <1>4, <1>10 DEF Due

(* What a step does to the balance and the debits to come: it leaves at    *)
(* least as much between them, or a request has found its debit covered.   *)
Keeps(p) ==
    /\ Reserved(p)' \in Int /\ P!Reserved(p)' \in Int
    /\ balance'[p] - Due(p)' >= balance[p] - Due(p)

Reserves(t, p) ==
    /\ t \notin Reserving(p) /\ t \notin P!Debiting(p)
    /\ Reserved(p)' \in Int /\ P!Reserved(p)' \in Int
    /\ balance'[p] = balance[p]
    /\ \E n \in Nat : balance[p] >= n /\ Due(p)' = Due(p) + n

(* The debits to come are integers.                                        *)
LEMMA DueIsInt ==
    ASSUME IInv, PaymentsOK, NEW p \in Residents
    PROVE  /\ P!Reserved(p) \in Int /\ Reserved(p) \in Int /\ Due(p) \in Int
           /\ balance[p] \in Int
<1>1. P!Reserved(p) \in Int
  BY SameReserved, PP!ReservedIsInt, PaymentsAssumed DEF PaymentsOK
<1> QED
  BY <1>1, ReservedIsInt DEF IInv, TypeOK, Due

(* Payments keep what withdrawals are due.                                 *)
LEMMA PaymentReserves ==
    ASSUME IInv, IInv', PaymentsOK, PaymentsOK', OneAtATime, P!Next,
           UNCHANGED withdrawals, NEW p \in Residents
    PROVE  Keeps(p) \/ \E t \in Threads : Reserves(t, p)
<1>1. PP!Keeps(p) \/ \E t \in Threads : PP!Reserves(t, p)
  BY SameSteps, PP!StepReserves, PaymentsAssumed DEF PaymentsOK
<1>2. Reserved(p)' = Reserved(p)
  BY DEF withdrawals, request, Reserved, Reserving
<1>3. /\ P!Reserved(p) \in Int /\ Reserved(p) \in Int
      /\ balance[p] \in Int /\ balance'[p] \in Int
  BY DueIsInt DEF IInv, TypeOK
<1>4. CASE PP!Keeps(p)
  <2>1. P!Reserved(p)' \in Int
        /\ balance'[p] - P!Reserved(p)' >= balance[p] - P!Reserved(p)
    BY <1>4, SameReserved DEF PP!Keeps
  <2>2. Due(p)' = Reserved(p) + P!Reserved(p)'
    BY <1>2 DEF Due
  <2> QED
    BY <1>2, <1>3, <2>1, <2>2 DEF Keeps, Due
<1>5. ASSUME NEW t \in Threads, PP!Reserves(t, p)
      PROVE  Reserves(t, p)
  <2>1. /\ t \notin P!Debiting(p) /\ payPc[t] = "payWallet"
        /\ balance'[p] = balance[p]
        /\ balance[p] >= PP!Charge(t) /\ PP!Charge(t) \in Nat
        /\ P!Reserved(p)' = P!Reserved(p) + PP!Charge(t)
    BY <1>5, SameReserved DEF PP!Reserves
  <2>2. t \notin Reserving(p)
    BY <2>1 DEF OneAtATime, Reserving
  <2>3. Due(p)' = Due(p) + PP!Charge(t)
    BY <1>2, <1>3, <2>1 DEF Due
  <2> QED
    BY <1>2, <1>3, <2>1, <2>2, <2>3 DEF Reserves
<1> QED
  BY <1>1, <1>4, <1>5

(* A request leaves its debit to come, having made it or given it up.      *)
LEMMA LeaveReserved ==
    ASSUME TypeOK, PositionsOK, NEW p, NEW t \in Threads,
           Reserving(p)' = Reserving(p) \ {t},
           \A u \in Threads \ {t} : withdrawal'[u] = withdrawal[u]
    PROVE  /\ Reserved(p)' \in Int
           /\ Reserved(p)' = Reserved(p) - (IF t \in Reserving(p)
                                            THEN Amount[withdrawal[t]] ELSE 0)
<1> DEFINE S == Reserving(p)
           f == [u \in S |-> Amount[withdrawal[u]]]
           g == [u \in S \ {t} |-> Amount[withdrawal'[u]]]
<1>1. /\ Reserved(p) = SumFunctionOnSet(f, S)
      /\ Reserved(p)' = SumFunctionOnSet(g, S \ {t})
  BY DEF Reserved
<1>2. IsFiniteSet(S) /\ S \subseteq Threads /\ \A u \in S : f[u] \in Int
  BY ReservedIsInt
<1>3. IsFiniteSet(S \ {t}) /\ \A u \in S \ {t} : g[u] = f[u]
  BY <1>2, FS_Subset
<1>4. t \in S => f[t] = Amount[withdrawal[t]]
  OBVIOUS
<1> HIDE DEF f, g, S
<1>5. SumFunctionOnSet(g, S \ {t}) = SumFunctionOnSet(f, S \ {t})
  BY <1>3, SumSame
<1>6. SumFunctionOnSet(f, S \ {t}) \in Int
  BY <1>2, <1>3, SumIsInt
<1>7. CASE t \in S
  <2>1. SumFunctionOnSet(f, S) = f[t] + SumFunctionOnSet(f, S \ {t})
    BY <1>2, <1>7, SumRemove
  <2> QED
    BY <1>1, <1>2, <1>4, <1>5, <1>6, <1>7, <2>1 DEF S
<1>8. CASE t \notin S
  <2>1. S \ {t} = S
    BY <1>8
  <2> QED
    BY <1>1, <1>5, <1>6, <1>8, <2>1 DEF S
<1> QED
  BY <1>7, <1>8

(* A request starts with the debit it found covered.                       *)
LEMMA EnterReserved ==
    ASSUME TypeOK, PositionsOK, NEW p, NEW t \in Threads, NEW w \in Withdrawals,
           t \notin Reserving(p), Reserving(p)' = Reserving(p) \cup {t},
           withdrawal' = [withdrawal EXCEPT ![t] = w]
    PROVE  Reserved(p)' = Reserved(p) + Amount[w]
<1> DEFINE S == Reserving(p)
           f == [u \in S |-> Amount[withdrawal[u]]]
           g == [u \in S \cup {t} |-> Amount[withdrawal'[u]]]
<1>1. /\ Reserved(p) = SumFunctionOnSet(f, S)
      /\ Reserved(p)' = SumFunctionOnSet(g, S \cup {t})
  BY DEF Reserved
<1>2. IsFiniteSet(S) /\ S \subseteq Threads /\ \A u \in S : f[u] \in Int
  BY ReservedIsInt
<1>3. g[t] = Amount[w] /\ g[t] \in Int
  BY DEF TypeOK
<1>4. t \notin S /\ \A u \in S : g[u] = f[u]
  BY <1>2 DEF TypeOK
<1> HIDE DEF f, g, S
<1>5. SumFunctionOnSet(g, S \cup {t}) = SumFunctionOnSet(f, S) + g[t]
  BY <1>2, <1>3, <1>4, SumGains
<1> QED
  BY <1>1, <1>3, <1>5

(* Requests about withdrawals keep what payments are due.                  *)
LEMMA WithdrawalReserves ==
    ASSUME IInv, IInv', PaymentsOK, Next, UNCHANGED payments,
           \A t \in Threads : OneRequest(t), NEW p \in Residents
    PROVE  Keeps(p) \/ \E t \in Threads : Reserves(t, p)
<1>1. /\ P!Reserved(p)' = P!Reserved(p)
      /\ Due(p)' = Reserved(p)' + P!Reserved(p)
  BY DEF payments, P!Reserved, P!Debiting, P!Charge, P!Outstanding, Due
<1>2. /\ P!Reserved(p) \in Int /\ Reserved(p) \in Int
      /\ balance[p] \in Int /\ balance'[p] \in Int
  BY DueIsInt DEF IInv, TypeOK
<1>3. ASSUME NEW t \in Threads, NEW w \in Withdrawals, ReadWallet(t, w),
             Owner[w] = p
      PROVE  Reserves(t, p)
  <2>1. /\ pc[t] = "idle" /\ pc' = [pc EXCEPT ![t] = "reserve"]
        /\ withdrawal' = [withdrawal EXCEPT ![t] = w]
        /\ balance' = balance /\ balance[p] >= Amount[w]
    BY <1>3 DEF ReadWallet, Start, HasFunds
  <2>2. payPc[t] = "idle"
    BY <2>1 DEF OneRequest, payments, IInv, TypeOK
  <2>3. /\ t \notin Reserving(p) /\ t \notin P!Debiting(p)
        /\ Reserving(p)' = Reserving(p) \cup {t}
    BY <1>3, <2>1, <2>2 DEF Reserving, P!Debiting, IInv, TypeOK, PositionsOK
  <2>4. Reserved(p)' = Reserved(p) + Amount[w]
    BY <2>1, <2>3, EnterReserved DEF IInv
  <2>5. Due(p)' = Due(p) + Amount[w] /\ Reserved(p)' \in Int
    BY <1>1, <1>2, <2>4 DEF Due
  <2> QED
    BY <1>1, <1>2, <2>1, <2>3, <2>5 DEF Reserves
<1>4. ASSUME NEW t \in Threads, Reserving(p)' = Reserving(p) \ {t},
             \A u \in Threads \ {t} : withdrawal'[u] = withdrawal[u],
             balance'[p] >= balance[p] - (IF t \in Reserving(p)
                                          THEN Amount[withdrawal[t]] ELSE 0)
      PROVE  Keeps(p)
  <2>1. /\ Reserved(p)' \in Int
        /\ Reserved(p)' = Reserved(p) - (IF t \in Reserving(p)
                                         THEN Amount[withdrawal[t]] ELSE 0)
    BY <1>4, LeaveReserved DEF IInv
  <2>2. PICK n \in Int : n = IF t \in Reserving(p)
                             THEN Amount[withdrawal[t]] ELSE 0
    BY ReservedIsInt DEF IInv
  <2>3. Reserved(p)' = Reserved(p) - n /\ balance'[p] >= balance[p] - n
    BY <1>4, <2>1, <2>2
  <2> QED
    BY <1>1, <1>2, <2>1, <2>3 DEF Keeps, Due
<1>5. ASSUME NEW t \in Threads, NEW w \in Withdrawals,
             \/ ReadWallet(t, w) /\ Owner[w] # p
             \/ BeginApproval(t, w) \/ BeginRejection(t, w)
      PROVE  Keeps(p)
  <2>1. /\ pc[t] = "idle" /\ balance' = balance
        /\ \A u \in Threads \ {t} : /\ pc'[u] = pc[u]
                                    /\ withdrawal'[u] = withdrawal[u]
        /\ pc'[t] = "reserve" => withdrawal'[t] = w /\ Owner[w] # p
    BY <1>5 DEF ReadWallet, BeginApproval, BeginRejection, Start, IInv, TypeOK
  <2>2. t \notin Reserving(p) /\ Reserving(p)' = Reserving(p) \ {t}
    BY <2>1 DEF Reserving
  <2> QED
    BY <1>2, <1>4, <2>1, <2>2
<1>6. ASSUME NEW t \in Threads, CommitRequest(t)
      PROVE  Keeps(p)
  <2>1. PICK w \in Withdrawals : w = withdrawal[t]
    BY <1>6 DEF IInv, PositionsOK, CommitRequest
  <2>2. /\ pc[t] = "reserve" /\ pc' = [pc EXCEPT ![t] = "idle"]
        /\ balance' = [balance EXCEPT ![Owner[w]] = @ - Amount[w]]
        /\ withdrawal' = [withdrawal EXCEPT ![t] = None]
    BY <1>6, <2>1 DEF CommitRequest, Leave
  <2>3. /\ Reserving(p)' = Reserving(p) \ {t}
        /\ t \in Reserving(p) <=> Owner[w] = p
        /\ \A u \in Threads \ {t} : withdrawal'[u] = withdrawal[u]
    BY <2>1, <2>2 DEF Reserving, IInv, TypeOK
  <2>4. balance'[p] = IF Owner[w] = p THEN balance[p] - Amount[w]
                      ELSE balance[p]
    BY <2>2 DEF IInv, TypeOK
  <2>5. balance'[p] >= balance[p] - (IF t \in Reserving(p)
                                     THEN Amount[withdrawal[t]] ELSE 0)
    BY <1>2, <2>1, <2>3, <2>4
  <2> QED
    BY <1>4, <2>3, <2>5
<1>7. ASSUME NEW t \in Threads, Fail(t)
      PROVE  Keeps(p)
  <2>1. /\ pc' = [pc EXCEPT ![t] = "idle"] /\ balance' = balance
        /\ withdrawal' = [withdrawal EXCEPT ![t] = None]
    BY <1>7 DEF Fail, Leave
  <2>2. /\ Reserving(p)' = Reserving(p) \ {t}
        /\ \A u \in Threads \ {t} : withdrawal'[u] = withdrawal[u]
    BY <2>1 DEF Reserving, IInv, TypeOK
  <2>3. balance'[p] >= balance[p] - (IF t \in Reserving(p)
                                     THEN Amount[withdrawal[t]] ELSE 0)
    BY <1>2, <2>1, ReservedIsInt DEF IInv
  <2> QED
    BY <1>4, <2>2, <2>3
<1>8. ASSUME NEW t \in Threads,
             Transfer(t) \/ MarkRequest(t) \/ MarkRow(t) \/ CommitRejection(t)
      PROVE  Keeps(p)
  <2>1. /\ pc[t] # "reserve" /\ pc'[t] # "reserve"
        /\ \A u \in Threads \ {t} : /\ pc'[u] = pc[u]
                                    /\ withdrawal'[u] = withdrawal[u]
    BY <1>8 DEF Transfer, TransferRefused, MarkRequest, MarkRow,
       CommitRejection, GoTo, Leave, IInv, TypeOK
  <2>2. t \notin Reserving(p) /\ Reserving(p)' = Reserving(p) \ {t}
    BY <2>1 DEF Reserving
  <2>3. \/ balance' = balance
        \/ \E w \in Withdrawals :
              balance' = [balance EXCEPT ![Owner[w]] = @ + Amount[w]]
    BY <1>8 DEF Transfer, MarkRequest, MarkRow, CommitRejection,
                RefundedBalance, IInv, PositionsOK
  <2>4. balance'[p] >= balance[p]
    BY <1>2, <2>3 DEF IInv, TypeOK
  <2> QED
    BY <1>2, <1>4, <2>1, <2>2, <2>4
<1> QED
  BY <1>3, <1>5, <1>6, <1>7, <1>8 DEF Next

(* The bound on the debt is kept.                                          *)
LEMMA DebtStep ==
    ASSUME IInv, IInv', PaymentsOK, PaymentsOK', OneAtATime, DebtBounded,
           \A t \in Threads : OneRequest(t),
           \/ Next /\ UNCHANGED payments
           \/ P!Next /\ UNCHANGED withdrawals
    PROVE  DebtBounded'
<1> DEFINE D == (Cardinality(Threads) - 1) * LargestDebit
<1>1. D \in Int /\ -(Cardinality(Threads) - 1) * LargestDebit = -D
  BY ThreadsAssumption, FS_CardinalityType, LargestDebitBounds
<1>2. LargestDebit' = LargestDebit
  BY DEF LargestDebit, P!LargestBill
<1> SUFFICES ASSUME NEW p \in Residents
             PROVE  balance'[p] - Reserved(p)' - P!Reserved(p)' >= -D
  BY <1>1, <1>2 DEF DebtBounded
<1>3. /\ balance[p] \in Int /\ balance'[p] \in Int
      /\ Reserved(p) \in Int /\ P!Reserved(p) \in Int /\ Due(p) \in Int
  BY DueIsInt DEF IInv, TypeOK
<1>4. Due(p)' = Reserved(p)' + P!Reserved(p)'
  BY DEF Due
<1>5. balance[p] - Due(p) >= -D
  BY <1>1, <1>3 DEF DebtBounded, Due
<1>6. CASE Keeps(p)
  <2> HIDE DEF D
  <2>1. balance'[p] - Due(p)' >= -D
    BY <1>1, <1>3, <1>4, <1>5, <1>6 DEF Keeps
  <2> QED
    BY <1>3, <1>4, <1>6, <2>1 DEF Keeps
<1>7. ASSUME NEW t \in Threads, Reserves(t, p)
      PROVE  balance'[p] - Reserved(p)' - P!Reserved(p)' >= -D
  <2>1. Due(p) <= D
    BY <1>7, OthersReserve DEF Reserves
  <2>2. PICK n \in Nat : balance[p] >= n /\ Due(p)' = Due(p) + n
    BY <1>7 DEF Reserves
  <2>3. /\ balance'[p] = balance[p]
        /\ Reserved(p)' \in Int /\ P!Reserved(p)' \in Int
    BY <1>7 DEF Reserves
  <2> HIDE DEF D
  <2> QED
    BY <1>1, <1>3, <1>4, <2>1, <2>2, <2>3
<1> QED
  BY <1>6, <1>7, PaymentReserves, WithdrawalReserves

-----------------------------------------------------------------------------
(* The theorems about the composition. *)

WInv == IInv /\ PaymentsOK /\ OneAtATime /\ WalletIsExplained

(* The invariant of the composition holds at start ...                     *)
LEMMA InitWInv == WalletInit => WInv
<1> SUFFICES ASSUME WalletInit
             PROVE  WInv
  OBVIOUS
<1>1. IInv
  BY InitIInv DEF WalletInit
<1>2. PaymentsOK
  <2>1. PP!TypeOK
    BY <1>1 DEF WalletInit, IInv, TypeOK, PP!TypeOK, PP!RowStatuses,
                PP!LevyStatuses, PP!Positions, P!Refs, PP!Refs, P!RowRefs,
                PP!RowRefs
  <2>2. PP!ArgumentsOK /\ PP!RowsOK /\ PP!ChargedOK
    BY DEF WalletInit, PP!ArgumentsOK, PP!RowsOK, PP!ChargedOK,
           PP!WebhookPositions, PP!PaymentPositions, P!Refs, PP!Refs,
           P!RowRefs, PP!RowRefs
  <2> QED
    BY <2>1, <2>2 DEF PaymentsOK
<1>3. OneAtATime
  BY DEF WalletInit, OneAtATime
<1>4. ASSUME NEW p \in Residents
      PROVE  /\ balance[p] = Explained(p)
             /\ balance[p] - Reserved(p) - P!Reserved(p)
                    >= -(Cardinality(Threads) - 1) * LargestDebit
  <2>1. P!CreditRows(p) = {} /\ \A b \in P!DebitRows(p) : walletRows[b] = 0
    BY DEF WalletInit, P!CreditRows, P!DebitRows, P!Refs, P!RowRefs
  <2>2. P!DebitRows(p) \subseteq Bills /\ IsFiniteSet(Bills)
    BY PaymentsAssumption DEF P!DebitRows
  <2>3. IsFiniteSet(P!DebitRows(p))
    BY <2>2, FS_Subset
  <2>4. P!Statement(p) = 0
    <3>1. SumFunctionOnSet(amount, P!CreditRows(p)) = 0
      BY <2>1, SumEmpty
    <3>2. SumFunctionOnSet(walletRows, P!DebitRows(p)) = 0
      BY <2>1, <2>3, SumOfZeros
    <3> QED
      BY <3>1, <3>2, SameSums DEF P!Statement
  <2>5. Taken(p) = 0
    <3> DEFINE f == [w \in Withdrawals |-> Withdrawn(w)]
    <3>1. \A w \in WithdrawalsOf(p) : f[w] = 0
      BY <1>1 DEF WalletInit, Init, Withdrawn, WithdrawalsOf, IInv, TypeOK
    <3> HIDE DEF f
    <3>2. SumFunctionOnSet(f, WithdrawalsOf(p)) = 0
      BY <1>1, <3>1, TakenIsInt, SumOfZeros DEF IInv
    <3> QED
      BY <3>2 DEF Taken, f
  <2>6. balance[p] = Opening[p] /\ Opening[p] \in Nat
    BY DEF WalletInit, Init
  <2>7. Reserving(p) = {} /\ P!Debiting(p) = {}
    BY DEF WalletInit, Init, Reserving, P!Debiting
  <2>8. Reserved(p) = 0 /\ P!Reserved(p) = 0
    BY <2>7, SumEmpty, SameSums DEF Reserved, P!Reserved
  <2>9. Cardinality(Threads) - 1 \in Nat
    BY ThreadsAssumption, FS_CardinalityType, FS_EmptySet
  <2>10. (Cardinality(Threads) - 1) * LargestDebit \in Nat
    BY <2>9, LargestDebitBounds, TimesGrows
  <2>11. -(Cardinality(Threads) - 1) * LargestDebit \in Int
         /\ -(Cardinality(Threads) - 1) * LargestDebit <= 0
    BY <2>9, <2>10, LargestDebitBounds
  <2>12. \A n, d \in Int : n \in Nat /\ d <= 0 => n - 0 - 0 >= d
    OBVIOUS
  <2>13. balance[p] = Explained(p)
    BY <2>4, <2>5, <2>6 DEF Explained
  <2> QED
    BY <2>6, <2>8, <2>11, <2>12, <2>13
<1>5. WalletIsExplained
  <2>1. \A p \in Residents : balance[p] \in Int
    BY <1>1 DEF IInv, TypeOK
  <2> QED
    BY <1>4, <2>1 DEF WalletIsExplained, StatementsExplainBalance, DebtBounded
<1> QED
  BY <1>1, <1>2, <1>3, <1>5 DEF WInv

(* ... every step of either kind preserves it ...                          *)
LEMMA StepWInv == WInv /\ [WalletNext]_wallet => WInv'
<1> SUFFICES ASSUME WInv, [WalletNext]_wallet
             PROVE  WInv'
  OBVIOUS
<1>1. CASE WalletNext
  <2>1. OneAtATime' /\ \A t \in Threads : OneRequest(t)
    BY <1>1 DEF WalletNext, OneRequest, OneAtATime
  <2>2. IInv' /\ PaymentsOK'
    <3>1. CASE Next /\ UNCHANGED payments
      <4>1. IInv'
        BY <3>1, StepIInv DEF WInv
      <4>2. PaymentsOK'
        BY <3>1, <4>1, PaymentsKept DEF WInv, IInv
      <4> QED
        BY <4>1, <4>2
    <3>2. CASE P!Next /\ UNCHANGED withdrawals
      BY <3>2, PaymentsStep, WithdrawalsKept DEF WInv
    <3> QED
      BY <1>1, <3>1, <3>2 DEF WalletNext
  <2>3. StatementsExplainBalance' /\ DebtBounded'
    BY <1>1, <2>1, <2>2, ExplainedStep, DebtStep
    DEF WalletNext, WInv, WalletIsExplained
  <2> QED
    BY <2>1, <2>2, <2>3 DEF WInv, WalletIsExplained
<1>2. CASE UNCHANGED wallet
  <2>1. UNCHANGED <<vars, payments, withdrawals>>
    BY <1>2 DEF wallet, withdrawals, vars
  <2>2. IInv' /\ PaymentsOK'
    BY <2>1, StepIInv, PaymentsKept DEF WInv, IInv
  <2>3. OneAtATime'
    BY <2>1 DEF WInv, OneAtATime, vars, request, payments
  <2>4. StatementsExplainBalance'
    BY <1>2 DEF WInv, WalletIsExplained, StatementsExplainBalance, Explained,
                Taken, Withdrawn, WithdrawalsOf, P!Statement, P!CreditRows,
                P!DebitRows, wallet, withdrawals, payments
  <2>5. DebtBounded'
    BY <1>2 DEF WInv, WalletIsExplained, DebtBounded, Reserved, Reserving,
                LargestDebit, P!Reserved, P!Debiting, P!Charge, P!Outstanding,
                P!LargestBill, wallet, withdrawals, payments, request
  <2> QED
    BY <2>2, <2>3, <2>4, <2>5 DEF WInv, WalletIsExplained
<1> QED
  BY <1>1, <1>2

(* ... and it always holds.                                                *)
LEMMA AlwaysWInv == WalletSpec => []WInv
  BY InitWInv, StepWInv, PTL DEF WalletSpec

(* finance.service.ts: however webhooks, payments out of the wallet,       *)
(* withdrawals, refunds and failures interleave, what a wallet holds is    *)
(* explained by its rows, and its debt is at most one debit for every      *)
(* other request in flight.                                                *)
THEOREM WalletIsAlwaysExplained == WalletSpec => []WalletIsExplained
<1>1. WInv => WalletIsExplained
  BY DEF WInv
<1>2. QED
  BY <1>1, AlwaysWInv, PTL

(* What money comes in meanwhile changes nothing about withdrawals: they   *)
(* are settled within the bound and shown as what happened to the money.   *)
THEOREM WalletSettlementsAreBounded ==
    WalletSpec => [](SettlementsBounded /\ StatementIsTrue)
<1>1. WInv => SettlementsBounded /\ StatementIsTrue
  BY IInvIsTrue DEF WInv, IInv
<1>2. QED
  BY <1>1, AlwaysWInv, PTL

(* ... and what was decided about one stands.                              *)
THEOREM WalletDecisionsStand == WalletSpec => DecidedStaysDecided
<1>1. WInv /\ [WalletNext]_wallet => [DecisionKept]_vars
  <2> SUFFICES ASSUME WInv, [WalletNext]_wallet
               PROVE  [DecisionKept]_vars
    OBVIOUS
  <2>1. CASE Next
    BY <2>1, DecisionStep DEF WInv, IInv
  <2>2. CASE UNCHANGED withdrawals
    BY <2>2 DEF withdrawals, DecisionKept
  <2> QED
    BY <2>1, <2>2 DEF WalletNext, wallet
<1>2. QED
  BY <1>1, AlwaysWInv, PTL DEF WalletSpec, DecidedStaysDecided, DecisionKept
=============================================================================
