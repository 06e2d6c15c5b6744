------------------------ MODULE EstateWithdrawalsProofs ------------------------
(* Theorems about EstateWithdrawals for any number of requests and         *)
(* withdrawals and any amounts.                                            *)
EXTENDS EstateWithdrawals, SumTheorems

-----------------------------------------------------------------------------
(* The inductive invariant. *)

(* A request is about a withdrawal whose row and transfer are as far as it *)
(* has brought them.                                                       *)
PositionsOK == \A t \in Threads :
    LET w == withdrawal[t] IN
    /\ pc[t] # "idle" => w \in Withdrawals
    /\ pc[t] \in {"readLatest", "reserve"} => row[w] = "NONE"
    /\ pc[t] \in {"transfer", "confirm", "compensate"} => row[w] = "PENDING"
    /\ pc[t] = "transfer" => w \notin sent
    /\ pc[t] = "confirm" => w \in sent
    /\ pc[t] = "compensate" => (w \in sent => w \in unanswered)

(* Every request makes a reference of its own.                             *)
OneRequest == \A t, u \in Threads :
    withdrawal[t] \in Withdrawals /\ withdrawal[u] = withdrawal[t] => u = t

IInv == TypeOK /\ PositionsOK /\ OneRequest /\ TransfersAreReserved
        /\ StatementExplainsBalance /\ OverdraftBounded

USE AmountsAssumption, NoneAssumption

-----------------------------------------------------------------------------
(* Every step preserves each part of it. *)

(* Every step writes what the type allows.                                 *)
LEMMA TypeStep ==
    ASSUME TypeOK, PositionsOK, Next
    PROVE  TypeOK'
<1>1. ASSUME NEW l \in Levies, CollectLevy(l)
      PROVE  TypeOK'
  BY <1>1 DEF TypeOK, RowStatuses, Positions, CollectLevy, history, request
<1>2. ASSUME NEW t \in Threads, NEW w \in Withdrawals, ReadWallet(t, w)
      PROVE  TypeOK'
  BY <1>2 DEF TypeOK, RowStatuses, Positions, ReadWallet, HasFunds, history
<1>3. ASSUME NEW t \in Threads, ReadLatest(t)
      PROVE  TypeOK'
  BY <1>3 DEF TypeOK, RowStatuses, Positions, PositionsOK, ReadLatest,
     HasFunds, GoTo, Leave, history
<1>4. ASSUME NEW t \in Threads, Reserve(t)
      PROVE  TypeOK'
  BY <1>4 DEF TypeOK, RowStatuses, Positions, PositionsOK, Reserve, GoTo,
     history
<1>5. ASSUME NEW t \in Threads, Transfer(t)
      PROVE  TypeOK'
  BY <1>5 DEF TypeOK, RowStatuses, Positions, PositionsOK, Transfer,
     TransferThrew, GoTo
<1>6. ASSUME NEW t \in Threads, Confirm(t)
      PROVE  TypeOK'
  BY <1>6 DEF TypeOK, RowStatuses, Positions, PositionsOK, Confirm, Leave,
     GoTo
<1>7. ASSUME NEW t \in Threads, Compensate(t)
      PROVE  TypeOK'
  BY <1>7 DEF TypeOK, RowStatuses, Positions, PositionsOK, Compensate,
     CompensatedBalance, FailedRow, Leave, history
<1>8. ASSUME NEW t \in Threads, Fail(t)
      PROVE  TypeOK'
  BY <1>8 DEF TypeOK, RowStatuses, Positions, PositionsOK, Fail, Leave
<1>9. QED
  BY <1>1, <1>2, <1>3, <1>4, <1>5, <1>6, <1>7, <1>8 DEF Next, Continue

(* No other request touches the row or the transfer of a reference.        *)
LEMMA PositionsStep ==
    ASSUME TypeOK, PositionsOK, OneRequest, TransfersAreReserved, Next
    PROVE  PositionsOK'
<1>1. ASSUME NEW l \in Levies, CollectLevy(l)
      PROVE  PositionsOK'
  BY <1>1 DEF TypeOK, PositionsOK, CollectLevy, history, request
<1>2. ASSUME NEW t \in Threads, NEW w \in Withdrawals, ReadWallet(t, w)
      PROVE  PositionsOK'
  BY <1>2 DEF TypeOK, PositionsOK, OneRequest, TransfersAreReserved,
     ReadWallet, HasFunds, history
<1>3. ASSUME NEW t \in Threads, ReadLatest(t)
      PROVE  PositionsOK'
  BY <1>3 DEF TypeOK, PositionsOK, OneRequest, TransfersAreReserved,
     ReadLatest, HasFunds, GoTo, Leave, history
<1>4. ASSUME NEW t \in Threads, Reserve(t)
      PROVE  PositionsOK'
  BY <1>4 DEF TypeOK, PositionsOK, OneRequest, TransfersAreReserved, Reserve,
     GoTo, history
<1>5. ASSUME NEW t \in Threads, Transfer(t)
      PROVE  PositionsOK'
  BY <1>5 DEF TypeOK, PositionsOK, OneRequest, TransfersAreReserved, Transfer,
     TransferThrew, GoTo
<1>6. ASSUME NEW t \in Threads, Confirm(t)
      PROVE  PositionsOK'
  BY <1>6 DEF TypeOK, PositionsOK, OneRequest, TransfersAreReserved, Confirm,
     Leave, GoTo
<1>7. ASSUME NEW t \in Threads, Compensate(t)
      PROVE  PositionsOK'
  BY <1>7 DEF TypeOK, PositionsOK, OneRequest, TransfersAreReserved,
     Compensate, CompensatedBalance, FailedRow, Leave, history
<1>8. ASSUME NEW t \in Threads, Fail(t)
      PROVE  PositionsOK'
  BY <1>8 DEF TypeOK, PositionsOK, Fail, Leave
<1>9. QED
  BY <1>1, <1>2, <1>3, <1>4, <1>5, <1>6, <1>7, <1>8 DEF Next, Continue

(* A new request takes a reference nobody has.                             *)
LEMMA OneStep ==
    ASSUME TypeOK, PositionsOK, OneRequest, Next
    PROVE  OneRequest'
<1>1. ASSUME NEW t \in Threads, NEW w \in Withdrawals, ReadWallet(t, w)
      PROVE  OneRequest'
  BY <1>1 DEF TypeOK, OneRequest, ReadWallet, HasFunds, history
<1>2. ASSUME NEW t \in Threads, ReadLatest(t)
      PROVE  OneRequest'
  BY <1>2 DEF TypeOK, OneRequest, ReadLatest, HasFunds, GoTo, Leave, history
<1>3. ASSUME NEW t \in Threads, Confirm(t)
      PROVE  OneRequest'
  BY <1>3 DEF TypeOK, OneRequest, Confirm, Leave, GoTo
<1>4. ASSUME NEW t \in Threads, Compensate(t)
      PROVE  OneRequest'
  BY <1>4 DEF TypeOK, OneRequest, Compensate, CompensatedBalance, FailedRow,
     Leave, history
<1>5. ASSUME NEW t \in Threads, Fail(t)
      PROVE  OneRequest'
  BY <1>5 DEF TypeOK, OneRequest, Fail, Leave
<1>6. ASSUME \/ \E l \in Levies : CollectLevy(l)
             \/ \E t \in Threads : Reserve(t)
             \/ \E t \in Threads : Transfer(t)
      PROVE  OneRequest'
  BY <1>6 DEF TypeOK, OneRequest, CollectLevy, history, request, Reserve,
     GoTo, Transfer, TransferThrew
<1>7. QED
  BY <1>1, <1>2, <1>3, <1>4, <1>5, <1>6 DEF Next, Continue

(* Each step moves row and transfer together, or marks what it missed.     *)
LEMMA ReservedStep ==
    ASSUME TypeOK, PositionsOK, TransfersAreReserved, Next
    PROVE  TransfersAreReserved'
<1>1. ASSUME NEW l \in Levies, CollectLevy(l)
      PROVE  TransfersAreReserved'
  BY <1>1 DEF TypeOK, PositionsOK, TransfersAreReserved, CollectLevy, history,
     request
<1>2. ASSUME NEW t \in Threads, NEW w \in Withdrawals, ReadWallet(t, w)
      PROVE  TransfersAreReserved'
  BY <1>2 DEF TypeOK, PositionsOK, TransfersAreReserved, ReadWallet, HasFunds,
     history
<1>3. ASSUME NEW t \in Threads, ReadLatest(t)
      PROVE  TransfersAreReserved'
  BY <1>3 DEF TypeOK, PositionsOK, TransfersAreReserved, ReadLatest, HasFunds,
     GoTo, Leave, history
<1>4. ASSUME NEW t \in Threads, Reserve(t)
      PROVE  TransfersAreReserved'
  BY <1>4 DEF TypeOK, PositionsOK, TransfersAreReserved, Reserve, GoTo,
     history
<1>5. ASSUME NEW t \in Threads, Transfer(t)
      PROVE  TransfersAreReserved'
  BY <1>5 DEF TypeOK, PositionsOK, TransfersAreReserved, Transfer,
     TransferThrew, GoTo
<1>6. ASSUME NEW t \in Threads, Confirm(t)
      PROVE  TransfersAreReserved'
  BY <1>6 DEF TypeOK, PositionsOK, TransfersAreReserved, Confirm, Leave, GoTo
<1>7. ASSUME NEW t \in Threads, Compensate(t)
      PROVE  TransfersAreReserved'
  BY <1>7 DEF TypeOK, PositionsOK, TransfersAreReserved, Compensate,
     CompensatedBalance, FailedRow, Leave, history
<1>8. ASSUME NEW t \in Threads, Fail(t)
      PROVE  TransfersAreReserved'
  BY <1>8 DEF TypeOK, PositionsOK, TransfersAreReserved, Fail, Leave
<1>9. QED
  BY <1>1, <1>2, <1>3, <1>4, <1>5, <1>6, <1>7, <1>8 DEF Next, Continue

-----------------------------------------------------------------------------
(* The statement explains the balance. *)

(* The levies are added in one step with the balance, a withdrawal is      *)
(* taken out of both when it is reserved and put back when it is undone.   *)
OutSum == SumFunctionOnSet([w \in Withdrawals |-> Out(w)], Withdrawals)

(* One row changes, and with it the sum of the rows.                       *)
LEMMA OutMoves ==
    ASSUME TypeOK, NEW w \in Withdrawals, NEW s \in RowStatuses,
           row' = [row EXCEPT ![w] = s]
    PROVE  /\ OutSum \in Int /\ Out(w) \in Int /\ Out(w)' \in Int
           /\ OutSum' = OutSum + (Out(w)' - Out(w))
<1> DEFINE f == [v \in Withdrawals |-> Out(v)]
           g == [v \in Withdrawals |-> Out(v)']
<1>1. \A v \in Withdrawals : f[v] \in Int /\ g[v] \in Int
  BY DEF Out
<1>2. \A v \in Withdrawals \ {w} : g[v] = f[v]
  BY DEF Out, TypeOK
<1>3. OutSum = SumFunctionOnSet(f, Withdrawals)
      /\ OutSum' = SumFunctionOnSet(g, Withdrawals)
  BY DEF OutSum
<1>4. f[w] = Out(w) /\ g[w] = Out(w)'
  OBVIOUS
<1> HIDE DEF f, g
<1>5. SumFunctionOnSet(g, Withdrawals)
          = SumFunctionOnSet(f, Withdrawals) + (g[w] - f[w])
  BY <1>1, <1>2, AmountsAssumption, SumUpdate
<1>6. SumFunctionOnSet(f, Withdrawals) \in Int
  BY <1>1, AmountsAssumption, SumIsInt
<1> QED
  BY <1>1, <1>3, <1>4, <1>5, <1>6

(* Balance and statement move together.                                    *)
LEMMA StatementStep ==
    ASSUME TypeOK, PositionsOK, StatementExplainsBalance, Next
    PROVE  StatementExplainsBalance'
<1> DEFINE In == SumFunctionOnSet(LevyAmount, collected)
<1>1. IsFiniteSet(collected) /\ \A l \in Levies : LevyAmount[l] \in Int
  BY AmountsAssumption, FS_Subset DEF TypeOK
<1>2. In \in Int
  BY <1>1, SumIsInt DEF TypeOK
<1>3. balance = In - OutSum /\ balance \in Int
  BY DEF StatementExplainsBalance, OutSum, TypeOK
<1>4. OutSum \in Int
  <2> DEFINE f == [v \in Withdrawals |-> Out(v)]
  <2>1. \A v \in Withdrawals : f[v] \in Int
    BY DEF Out
  <2> HIDE DEF f
  <2>2. SumFunctionOnSet(f, Withdrawals) \in Int
    BY <2>1, AmountsAssumption, SumIsInt
  <2> QED
    BY <2>2 DEF OutSum, f
<1>5. SUFFICES balance' = SumFunctionOnSet(LevyAmount, collected') - OutSum'
  BY DEF StatementExplainsBalance, OutSum
<1>6. ASSUME NEW l \in Levies, CollectLevy(l)
      PROVE  balance' = SumFunctionOnSet(LevyAmount, collected') - OutSum'
  <2>1. /\ l \notin collected /\ collected' = collected \cup {l}
        /\ balance' = balance + LevyAmount[l] /\ OutSum' = OutSum
    BY <1>6 DEF CollectLevy, OutSum, Out
  <2>2. \A k \in collected \cup {l} : LevyAmount[k] \in Int
    BY <1>1 DEF TypeOK
  <2>3. SumFunctionOnSet(LevyAmount, collected') = LevyAmount[l] + In
    BY <1>1, <2>1, <2>2, SumAdd
  <2> HIDE DEF In
  <2> QED
    BY <1>1, <1>2, <1>3, <1>4, <2>1, <2>3
<1>7. ASSUME NEW t \in Threads, Reserve(t)
      PROVE  balance' = SumFunctionOnSet(LevyAmount, collected') - OutSum'
  <2>1. PICK w \in Withdrawals : w = withdrawal[t] /\ row[w] = "NONE"
    BY <1>7 DEF PositionsOK, Reserve
  <2>2. /\ balance' = balance - Amount[w] /\ collected' = collected
        /\ row' = [row EXCEPT ![w] = "PENDING"]
    BY <1>7, <2>1 DEF Reserve
  <2>3. OutSum' = OutSum + (Out(w)' - Out(w))
    BY <2>1, <2>2, OutMoves DEF RowStatuses
  <2>4. Out(w) = 0 /\ Out(w)' = Amount[w] /\ Amount[w] \in Int
    BY <2>1, <2>2 DEF Out, TypeOK
  <2> HIDE DEF In
  <2> QED
    BY <1>2, <1>3, <1>4, <2>2, <2>3, <2>4 DEF In
<1>8. ASSUME NEW t \in Threads, Compensate(t)
      PROVE  balance' = SumFunctionOnSet(LevyAmount, collected') - OutSum'
  <2>1. PICK w \in Withdrawals : w = withdrawal[t] /\ row[w] = "PENDING"
    BY <1>8 DEF PositionsOK, Compensate
  <2>2. /\ balance' = balance + Amount[w] /\ collected' = collected
        /\ row' = [row EXCEPT ![w] = "FAILED"]
    BY <1>8, <2>1 DEF Compensate, CompensatedBalance, FailedRow
  <2>3. OutSum' = OutSum + (Out(w)' - Out(w))
    BY <2>1, <2>2, OutMoves DEF RowStatuses
  <2>4. Out(w) = Amount[w] /\ Out(w)' = 0 /\ Amount[w] \in Int
    BY <2>1, <2>2 DEF Out, TypeOK
  <2> HIDE DEF In
  <2> QED
    BY <1>2, <1>3, <1>4, <2>2, <2>3, <2>4 DEF In
<1>9. ASSUME NEW t \in Threads, Confirm(t)
      PROVE  balance' = SumFunctionOnSet(LevyAmount, collected') - OutSum'
  <2>1. PICK w \in Withdrawals : w = withdrawal[t] /\ row[w] = "PENDING"
    BY <1>9 DEF PositionsOK, Confirm
  <2>2. /\ UNCHANGED <<balance, collected>>
        /\ row' = row \/ row' = [row EXCEPT ![w] = "SUCCESS"]
    BY <1>9, <2>1 DEF Confirm
  <2>3. CASE row' = [row EXCEPT ![w] = "SUCCESS"]
    <3>1. OutSum' = OutSum + (Out(w)' - Out(w))
      BY <2>1, <2>3, OutMoves DEF RowStatuses
    <3>2. Out(w) = Amount[w] /\ Out(w)' = Amount[w] /\ Amount[w] \in Int
      BY <2>1, <2>3 DEF Out, TypeOK
    <3> HIDE DEF In
    <3> QED
      BY <1>2, <1>3, <1>4, <2>2, <3>1, <3>2 DEF In
  <2>4. CASE row' = row
    BY <1>3, <2>2, <2>4 DEF OutSum, Out
  <2> QED
    BY <2>2, <2>3, <2>4
<1>10. CASE UNCHANGED <<balance, collected, row>>
  BY <1>3, <1>10 DEF OutSum, Out
<1>11. ASSUME NEW t \in Threads, NEW w \in Withdrawals, ReadWallet(t, w)
       PROVE  UNCHANGED <<balance, collected, row>>
  BY <1>11 DEF ReadWallet
<1>12. ASSUME NEW t \in Threads, ReadLatest(t) \/ Transfer(t) \/ Fail(t)
       PROVE  UNCHANGED <<balance, collected, row>>
  BY <1>12 DEF ReadLatest, Transfer, Fail
<1> QED
  BY <1>6, <1>7, <1>8, <1>9, <1>10, <1>11, <1>12 DEF Next, Continue

-----------------------------------------------------------------------------
(* The wallet is overdrawn by at most one withdrawal per other request.    *)

(* No withdrawal is greater than the greatest.                             *)
LEMMA LargestAmountBounds ==
    /\ LargestAmount \in Nat
    /\ \A w \in Withdrawals : Amount[w] <= LargestAmount
<1> DEFINE S == {Amount[w] : w \in Withdrawals} \cup {0}
<1>1. S \subseteq Nat /\ S # {} /\ 0 \in S
  OBVIOUS
<1>2. IsFiniteSet({Amount[w] : w \in Withdrawals})
  BY AmountsAssumption, FiniteImage
<1>3. IsFiniteSet(S)
  BY <1>2, FS_AddElement
<1>4. Max(S) \in S /\ \A m \in S : m <= Max(S)
  BY <1>1, <1>3, GreatestNatural
<1> QED
  BY <1>1, <1>4 DEF LargestAmount

(* What requests are about to reserve are amounts of withdrawals.          *)
LEMMA ReservedIsInt ==
    ASSUME TypeOK, PositionsOK
    PROVE  /\ IsFiniteSet(Reserving) /\ Reserving \subseteq Threads
           /\ \A t \in Reserving : /\ withdrawal[t] \in Withdrawals
                                   /\ Amount[withdrawal[t]] \in Nat
           /\ Reserved \in Int
           /\ Reserved <= Cardinality(Reserving) * LargestAmount
<1> DEFINE f == [t \in Reserving |-> Amount[withdrawal[t]]]
<1>1. Reserving \subseteq Threads /\ IsFiniteSet(Reserving)
  BY ThreadsAssumption, FS_Subset DEF Reserving
<1>2. \A t \in Reserving : /\ withdrawal[t] \in Withdrawals
                           /\ Amount[withdrawal[t]] \in Nat
  BY DEF Reserving, PositionsOK
<1>3. \A t \in Reserving : f[t] \in Int /\ 0 <= f[t] /\ f[t] <= LargestAmount
  BY <1>2, LargestAmountBounds
<1>4. /\ SumFunctionOnSet(f, Reserving) <= Cardinality(Reserving) * LargestAmount
      /\ SumFunctionOnSet(f, Reserving) \in Int
  <2> HIDE DEF f
  <2> QED
    BY <1>1, <1>3, LargestAmountBounds, SumBound, SumIsInt
<1> QED
  BY <1>1, <1>2, <1>4 DEF Reserved

(* A request that ends or reserves leaves the sum, and the balance loses   *)
(* no more than that.                                                      *)
LEMMA LeaveReserving ==
    ASSUME TypeOK, TypeOK', PositionsOK, NEW t \in Threads,
           Reserving' = Reserving \ {t},
           \A u \in Threads \ {t} : withdrawal'[u] = withdrawal[u],
           \/ balance' >= balance
           \/ t \in Reserving /\ balance' = balance - Amount[withdrawal[t]]
    PROVE  Reserved' \in Int /\ balance' - Reserved' >= balance - Reserved
<1> DEFINE f == [u \in Reserving |-> Amount[withdrawal[u]]]
           g == [u \in Reserving \ {t} |-> Amount[withdrawal'[u]]]
<1>1. Reserved = SumFunctionOnSet(f, Reserving)
      /\ Reserved' = SumFunctionOnSet(g, Reserving \ {t})
  BY DEF Reserved
<1>2. /\ \A u \in Reserving : f[u] \in Int /\ f[u] >= 0
      /\ \A u \in Reserving \ {t} : g[u] = f[u]
  BY ReservedIsInt
<1>3. t \in Reserving => f[t] = Amount[withdrawal[t]]
  OBVIOUS
<1>4. balance \in Int /\ balance' \in Int
  BY DEF TypeOK
<1>5. IsFiniteSet(Reserving) /\ Reserved \in Int
  BY ReservedIsInt
<1> HIDE DEF f, g
<1>6. CASE t \in Reserving
  <2>1. SumFunctionOnSet(g, Reserving \ {t})
            = SumFunctionOnSet(f, Reserving) - f[t]
    <3>1. SumFunctionOnSet(f, Reserving)
              = f[t] + SumFunctionOnSet(f, Reserving \ {t})
      BY <1>2, <1>5, <1>6, SumRemove
    <3>2. IsFiniteSet(Reserving \ {t})
      BY <1>5, FS_Subset
    <3>3. SumFunctionOnSet(g, Reserving \ {t})
              = SumFunctionOnSet(f, Reserving \ {t})
      BY <1>2, <3>2, SumSame
    <3>4. SumFunctionOnSet(f, Reserving \ {t}) \in Int
      BY <1>2, <3>2, SumIsInt
    <3> QED
      BY <1>2, <1>6, <3>1, <3>3, <3>4
  <2> QED
    BY <1>1, <1>2, <1>3, <1>4, <1>5, <1>6, <2>1
<1>7. CASE t \notin Reserving
  <2>1. Reserving \ {t} = Reserving
    BY <1>7
  <2>2. Reserved' = Reserved
    BY <1>1, <1>2, <1>5, <2>1, SumSame
  <2>3. balance' >= balance
    BY <1>4, <1>7
  <2> QED
    BY <1>4, <1>5, <2>2, <2>3, TakenFromBoth
<1> QED
  BY <1>6, <1>7

(* A request that has found its amount covered reserves it, and the others *)
(* reserve at most one withdrawal each.                                    *)
LEMMA ReadReserves ==
    ASSUME TypeOK, PositionsOK, NEW t \in Threads, ReadLatest(t),
           HasFunds(withdrawal[t])
    PROVE  balance' - Reserved'
              >= -(Cardinality(Threads) - 1) * LargestAmount
<1> DEFINE n == Amount[withdrawal[t]]
           f == [u \in Reserving |-> Amount[withdrawal[u]]]
           g == [u \in Reserving \cup {t} |-> Amount[withdrawal[u]]]
           c == Cardinality(Reserving)
           k == Cardinality(Threads) - 1
<1>1. /\ pc[t] = "readLatest" /\ pc' = [pc EXCEPT ![t] = "reserve"]
      /\ UNCHANGED <<withdrawal, balance>> /\ balance >= n
  BY DEF ReadLatest, GoTo, HasFunds
<1>2. withdrawal[t] \in Withdrawals /\ n \in Int
  BY <1>1 DEF PositionsOK
<1>3. t \notin Reserving /\ Reserving' = Reserving \cup {t}
  BY <1>1 DEF TypeOK, Reserving
<1>4. Reserved = SumFunctionOnSet(f, Reserving)
      /\ Reserved' = SumFunctionOnSet(g, Reserving \cup {t})
  BY <1>1, <1>3 DEF Reserved
<1>5. g[t] = n /\ \A u \in Reserving : f[u] \in Int /\ g[u] = f[u]
  BY ReservedIsInt
<1> HIDE DEF f, g, n
<1>6. Reserved' = Reserved + n
  BY <1>2, <1>3, <1>4, <1>5, ReservedIsInt, SumGains
<1>7. /\ Reserving \subseteq Threads \ {t} /\ IsFiniteSet(Threads \ {t})
      /\ Cardinality(Threads \ {t}) = k
  BY <1>3, ReservedIsInt, ThreadsAssumption, FS_RemoveElement
<1>8. c \in Nat /\ k \in Nat /\ c <= k
  BY <1>7, ReservedIsInt, FS_Subset, FS_CardinalityType
<1>9. c * LargestAmount <= k * LargestAmount /\ k * LargestAmount \in Nat
      /\ c * LargestAmount \in Nat
  BY <1>8, LargestAmountBounds, TimesGrows
<1>10. Reserved <= k * LargestAmount /\ Reserved \in Int
  <2>1. Reserved <= c * LargestAmount /\ Reserved \in Int
    BY ReservedIsInt
  <2> HIDE DEF c, k
  <2> QED
    BY <1>9, <2>1
<1>11. -(Cardinality(Threads) - 1) * LargestAmount = -(k * LargestAmount)
  BY <1>8, LargestAmountBounds
<1>12. balance \in Int
  BY DEF TypeOK
<1> HIDE DEF k
<1> QED
  BY <1>1, <1>2, <1>6, <1>9, <1>10, <1>11, <1>12

(* The bound on the debt is kept.                                          *)
LEMMA OverdraftStep ==
    ASSUME TypeOK, TypeOK', PositionsOK, OverdraftBounded, Next
    PROVE  OverdraftBounded'
<1> DEFINE D == -(Cardinality(Threads) - 1) * LargestAmount
<1>1. D \in Int
  BY ThreadsAssumption, FS_CardinalityType, LargestAmountBounds
<1>2. balance - Reserved >= D /\ balance \in Int /\ Reserved \in Int
  BY ReservedIsInt DEF OverdraftBounded, TypeOK
<1>3. SUFFICES balance' - Reserved' >= D
  BY DEF OverdraftBounded, LargestAmount
<1>4. ASSUME NEW t \in Threads, ReadLatest(t), HasFunds(withdrawal[t])
      PROVE  balance' - Reserved' >= D
  BY <1>4, ReadReserves
<1> HIDE DEF D
<1>5. ASSUME Reserved' \in Int, balance' - Reserved' >= balance - Reserved
      PROVE  balance' - Reserved' >= D
  <2>1. balance - Reserved \in Int /\ balance' - Reserved' \in Int
    BY <1>2, <1>5 DEF TypeOK
  <2> QED
    BY <1>1, <1>2, <1>5, <2>1, StaysAbove
<1>6. ASSUME NEW t \in Threads, ReadLatest(t), ~HasFunds(withdrawal[t])
      PROVE  balance' - Reserved' >= D
  <2>1. /\ Reserving' = Reserving \ {t} /\ balance' = balance
        /\ \A u \in Threads \ {t} : withdrawal'[u] = withdrawal[u]
    BY <1>6 DEF TypeOK, ReadLatest, Leave, Reserving
  <2>2. Reserved' \in Int /\ balance' - Reserved' >= balance - Reserved
    BY <1>2, <2>1, LeaveReserving
  <2> QED
    BY <1>5, <2>2
<1>7. ASSUME NEW t \in Threads,
             Reserve(t) \/ Transfer(t) \/ Confirm(t) \/ Compensate(t) \/ Fail(t)
      PROVE  balance' - Reserved' >= D
  <2>1. /\ pc'[t] # "reserve"
        /\ \A u \in Threads \ {t} : /\ withdrawal'[u] = withdrawal[u]
                                    /\ pc'[u] = pc[u]
    BY <1>7 DEF TypeOK, Reserve, Transfer, TransferThrew, Confirm, Compensate,
                Fail, GoTo, Leave
  <2>2. Reserving' = Reserving \ {t}
    BY <2>1 DEF Reserving
  <2>3. \/ balance' >= balance
        \/ t \in Reserving /\ balance' = balance - Amount[withdrawal[t]]
    BY <1>2, <1>7 DEF Reserve, Transfer, Confirm, Compensate, Fail, Reserving,
       CompensatedBalance, PositionsOK
  <2>4. Reserved' \in Int /\ balance' - Reserved' >= balance - Reserved
    BY <2>1, <2>2, <2>3, LeaveReserving
  <2> QED
    BY <1>5, <2>4
<1>8. ASSUME NEW t \in Threads, NEW w \in Withdrawals, ReadWallet(t, w)
      PROVE  balance' - Reserved' >= D
  <2>1. /\ Reserving' = Reserving \ {t} /\ balance' = balance
        /\ \A u \in Threads \ {t} : withdrawal'[u] = withdrawal[u]
    BY <1>8 DEF TypeOK, ReadWallet, Reserving
  <2>2. Reserved' \in Int /\ balance' - Reserved' >= balance - Reserved
    BY <1>2, <2>1, LeaveReserving
  <2> QED
    BY <1>5, <2>2
<1>9. ASSUME NEW l \in Levies, CollectLevy(l)
      PROVE  balance' - Reserved' >= D
  <2>1. balance' = balance + LevyAmount[l] /\ Reserved' = Reserved
    BY <1>9 DEF CollectLevy, request, Reserved, Reserving
  <2>2. Reserved' \in Int /\ balance' - Reserved' >= balance - Reserved
    BY <1>2, <2>1
  <2> QED
    BY <1>5, <2>2
<1> QED
  BY <1>4, <1>6, <1>7, <1>8, <1>9 DEF Next, Continue

-----------------------------------------------------------------------------
(* The theorems. *)

(* The invariant holds at start ...                                        *)
LEMMA InitIInv == Init => IInv
<1> SUFFICES ASSUME Init PROVE IInv
  OBVIOUS
<1>1. TypeOK /\ PositionsOK /\ OneRequest /\ TransfersAreReserved
  BY DEF Init, TypeOK, RowStatuses, Positions, PositionsOK, OneRequest,
     TransfersAreReserved
<1>2. StatementExplainsBalance
  <2> DEFINE f == [w \in Withdrawals |-> Out(w)]
  <2>1. \A w \in Withdrawals : f[w] \in Int /\ 0 <= f[w] /\ f[w] <= 0
    BY DEF Init, Out
  <2> HIDE DEF f
  <2>2. /\ 0 <= SumFunctionOnSet(f, Withdrawals)
        /\ SumFunctionOnSet(f, Withdrawals) <= Cardinality(Withdrawals) * 0
        /\ SumFunctionOnSet(f, Withdrawals) \in Int
    BY <2>1, AmountsAssumption, SumBound, SumIsInt
  <2>3. Cardinality(Withdrawals) * 0 = 0
    BY AmountsAssumption, FS_CardinalityType
  <2>4. SumFunctionOnSet(LevyAmount, collected) = 0 /\ balance = 0
    BY SumEmpty DEF Init
  <2> QED
    BY <2>2, <2>3, <2>4 DEF StatementExplainsBalance, f
<1>3. OverdraftBounded
  <2>1. Reserving = {} /\ balance = 0
    BY DEF Init, Reserving
  <2>2. Reserved = 0
    BY <2>1, SumEmpty DEF Reserved
  <2>3. Cardinality(Threads) - 1 \in Nat
    BY ThreadsAssumption, FS_CardinalityType, FS_EmptySet
  <2>4. -(Cardinality(Threads) - 1) * LargestAmount <= 0
    BY <2>3, LargestAmountBounds, TimesGrows
  <2> QED
    BY <2>1, <2>2, <2>4 DEF OverdraftBounded
<1> QED
  BY <1>1, <1>2, <1>3 DEF IInv

(* ... every step preserves it ...                                         *)
LEMMA StepIInv == IInv /\ [Next]_vars => IInv'
<1> SUFFICES ASSUME IInv, [Next]_vars
             PROVE  IInv'
  OBVIOUS
<1>1. CASE Next
  <2>1. TypeOK' /\ PositionsOK' /\ OneRequest' /\ TransfersAreReserved'
    BY <1>1, TypeStep, PositionsStep, OneStep, ReservedStep DEF IInv
  <2>2. StatementExplainsBalance' /\ OverdraftBounded'
    BY <1>1, <2>1, StatementStep, OverdraftStep DEF IInv
  <2> QED
    BY <2>1, <2>2 DEF IInv
<1>2. CASE UNCHANGED vars
  BY <1>2 DEF IInv, TypeOK, PositionsOK, OneRequest, TransfersAreReserved,
     StatementExplainsBalance, Out, OverdraftBounded, Reserved, Reserving,
     LargestAmount, vars, request, history
<1>3. QED
  BY <1>1, <1>2

(* ... and it always holds.                                                *)
LEMMA AlwaysIInv == Spec => []IInv
  BY InitIInv, StepIInv, PTL DEF Spec

(* Every variable keeps its type. *)
THEOREM TypeCorrect == Spec => []TypeOK
<1>1. IInv => TypeOK
  BY DEF IInv
<1>2. QED
  BY <1>1, AlwaysIInv, PTL

(* withdrawFromEstateWallet reserves before it asks Paystack, confirms     *)
(* only what Paystack has accepted and compensates only what it has not    *)
(* learnt to be accepted, for any number of requests, wherever one ends.   *)
THEOREM TransfersAreAlwaysReserved == Spec => []TransfersAreReserved
<1>1. IInv => TransfersAreReserved
  BY DEF IInv
<1>2. QED
  BY <1>1, AlwaysIInv, PTL

(* The estate's statement explains its balance to the naira, and requests  *)
(* that compared an older balance overdraw it by at most one withdrawal    *)
(* for every other request, for any number of them.                        *)
THEOREM BalanceIsAlwaysExplained == Spec => []BalanceIsExplained
<1>1. IInv => BalanceIsExplained
  BY DEF IInv, BalanceIsExplained
<1>2. QED
  BY <1>1, AlwaysIInv, PTL
=============================================================================
