---------------------------- MODULE SumTheorems -----------------------------
(***************************************************************************)
(* Facts about SumFunctionOnSet and about finite sets, for the proofs that *)
(* compare a balance with the rows that explain it.  Induction is done on  *)
(* sets: a property that fails somewhere fails at a least place.           *)
(***************************************************************************)
EXTENDS Integers, FiniteSets, FiniteSetsExt, FiniteSetTheorems,
        WellFoundedInduction, TLAPS

(* A set of naturals that is not empty has a least element.                *)
LEMMA LeastNatural ==
    ASSUME NEW S, S \subseteq Nat, S # {}
    PROVE  \E n \in S : \A m \in S : n <= m
<1> DEFINE Less == {ss \in Nat \X Nat : ss[1] < ss[2]}
<1>1. IsWellFoundedOn(Less, Nat)
  BY NatLessThanWellFounded DEF OpToRel
<1>2. \A n, m \in Nat : <<m, n>> \in Less <=> m < n
  OBVIOUS
<1> HIDE DEF Less
<1>3. \E n \in S : \A m \in S : ~(<<m, n>> \in Less)
  BY <1>1, WFMin
<1>4. PICK n \in S : \A m \in S : ~(<<m, n>> \in Less)
  BY <1>3
<1>5. \A m \in S : ~(m < n)
  BY <1>2, <1>4
<1> QED
  BY <1>5

(* Among finite sets there is one none of whose elements can be removed:   *)
(* induction over finite sets, without a predicate as a parameter.         *)
LEMMA SmallestSet ==
    ASSUME NEW X, X # {}, \A T \in X : IsFiniteSet(T)
    PROVE  \E T \in X : \A x \in T : T \ {x} \notin X
<1> DEFINE Sizes == {Cardinality(T) : T \in X}
<1>1. Sizes \subseteq Nat /\ Sizes # {}
  BY FS_CardinalityType
<1>2. PICK n \in Sizes : \A m \in Sizes : n <= m
  BY <1>1, LeastNatural
<1>3. PICK T \in X : Cardinality(T) = n
  BY <1>2
<1>4. ASSUME NEW x \in T, T \ {x} \in X
      PROVE  FALSE
  <2>1. Cardinality(T \ {x}) = Cardinality(T) - 1
    BY <1>3, FS_RemoveElement
  <2>2. Cardinality(T) <= Cardinality(T \ {x})
    BY <1>2, <1>3, <1>4
  <2>3. Cardinality(T) \in Nat
    BY <1>3, FS_CardinalityType
  <2> QED
    BY <2>1, <2>2, <2>3
<1> QED
  BY <1>3, <1>4

(* The values of a function on a finite set are finitely many.             *)
LEMMA FiniteImage ==
    ASSUME NEW f, NEW S, IsFiniteSet(S)
    PROVE  IsFiniteSet({f[x] : x \in S})
<1> DEFINE T == {f[x] : x \in S}
           g == [x \in S |-> f[x]]
<1>1. g \in Surjection(S, T)
  BY DEF Surjection
<1> HIDE DEF T, g
<1>2. IsFiniteSet(T)
  BY <1>1, FS_Surjection
<1> QED
  BY <1>2 DEF T

-----------------------------------------------------------------------------
(* The recursive function that SumFunctionOnSet evaluates.                 *)
Pick(s) == CHOOSE x \in s : TRUE

IsSum(g, f, S) ==
    g = [s \in SUBSET S |->
            IF s = {} THEN 0 ELSE f[Pick(s)] + g[s \ {Pick(s)}]]

(* SumFunctionOnSet is that function's value.                              *)
LEMMA SumIsChosen ==
    ASSUME NEW f, NEW S
    PROVE  SumFunctionOnSet(f, S) = (CHOOSE g : IsSum(g, f, S))[S]
  BY DEF SumFunctionOnSet, FoldFunctionOnSet, MapThenFoldSet, IsSum, Pick

(* The function is determined by its equation.                             *)
LEMMA SumIsUnique ==
    ASSUME NEW f, NEW S, NEW T, NEW U, IsFiniteSet(U), U \subseteq S \cap T,
           NEW g, IsSum(g, f, S), NEW h, IsSum(h, f, T)
    PROVE  g[U] = h[U]
<1> DEFINE X == {s \in SUBSET U : g[s] # h[s]}
<1>1. SUFFICES ASSUME X # {} PROVE FALSE
  OBVIOUS
<1>2. \A s \in X : IsFiniteSet(s)
  BY FS_Subset
<1> HIDE DEF X
<1>3. PICK s \in X : \A x \in s : s \ {x} \notin X
  BY <1>1, <1>2, SmallestSet
<1> USE DEF X
<1>4. s \subseteq U /\ g[s] # h[s]
  BY <1>3
<1>5. g[s] = (IF s = {} THEN 0 ELSE f[Pick(s)] + g[s \ {Pick(s)}])
  BY <1>4 DEF IsSum
<1>6. h[s] = (IF s = {} THEN 0 ELSE f[Pick(s)] + h[s \ {Pick(s)}])
  BY <1>4 DEF IsSum
<1>7. s # {} => Pick(s) \in s
  BY DEF Pick
<1>8. s # {} => g[s \ {Pick(s)}] = h[s \ {Pick(s)}]
  BY <1>3, <1>4, <1>7
<1> QED
  BY <1>4, <1>5, <1>6, <1>8

(* A function for a set serves each of its subsets.                        *)
LEMMA SumOfSubset ==
    ASSUME NEW f, NEW S, NEW T, T \subseteq S, NEW g, IsSum(g, f, S)
    PROVE  IsSum([s \in SUBSET T |-> g[s]], f, T)
<1> DEFINE h == [s \in SUBSET T |-> g[s]]
<1>1. ASSUME NEW s \in SUBSET T
      PROVE  h[s] = (IF s = {} THEN 0 ELSE f[Pick(s)] + h[s \ {Pick(s)}])
  <2>1. g[s] = (IF s = {} THEN 0 ELSE f[Pick(s)] + g[s \ {Pick(s)}])
    BY DEF IsSum
  <2>2. h[s] = g[s] /\ h[s \ {Pick(s)}] = g[s \ {Pick(s)}]
    OBVIOUS
  <2> QED
    BY <2>1, <2>2
<1> QED
  BY <1>1 DEF IsSum

(* There is one for every finite set.                                      *)
LEMMA SumExists ==
    ASSUME NEW f, NEW S, IsFiniteSet(S)
    PROVE  \E g : IsSum(g, f, S)
<1> DEFINE X == {T \in SUBSET S : ~ \E g : IsSum(g, f, T)}
<1>1. SUFFICES ASSUME X # {} PROVE FALSE
  OBVIOUS
<1>2. \A T \in X : IsFiniteSet(T)
  BY FS_Subset
<1> HIDE DEF X
<1>3. PICK T \in X : \A x \in T : T \ {x} \notin X
  BY <1>1, <1>2, SmallestSet
<1> USE DEF X
<1>4. T \subseteq S /\ IsFiniteSet(T) /\ ~ \E g : IsSum(g, f, T)
  BY <1>2, <1>3
<1>5. ASSUME NEW s \in SUBSET T, s # T
      PROVE  \E g : IsSum(g, f, s)
  <2>1. PICK x \in T : x \notin s
    BY <1>5
  <2>2. PICK g : IsSum(g, f, T \ {x})
    BY <1>3, <1>4
  <2>3. s \subseteq T \ {x}
    BY <2>1
  <2> QED
    BY <2>2, <2>3, SumOfSubset
<1> DEFINE lower(s) == CHOOSE g : IsSum(g, f, s)
           value(s) == lower(s)[s]
           h == [s \in SUBSET T |->
                    IF s = {} THEN 0
                    ELSE f[Pick(s)] + value(s \ {Pick(s)})]
<1>6. ASSUME NEW s \in SUBSET T, s # T
      PROVE  IsSum(lower(s), f, s)
  <2>1. \E g : IsSum(g, f, s)
    BY <1>5, <1>6
  <2> HIDE DEF h, value, X
  <2> QED
    BY <2>1, Zenon
<1> HIDE DEF lower
<1>7. ASSUME NEW s \in SUBSET T, s # {}
      PROVE  h[s \ {Pick(s)}] = value(s \ {Pick(s)})
  <2> DEFINE u == s \ {Pick(s)}
  <2>1. Pick(s) \in s
    BY <1>7 DEF Pick
  <2>2. u \in SUBSET T /\ u # T
    BY <2>1
  <2>3. IsSum(lower(u), f, u)
    BY <1>6, <2>2
  <2>4. value(u) = (IF u = {} THEN 0
                    ELSE f[Pick(u)] + lower(u)[u \ {Pick(u)}])
    BY <2>3 DEF IsSum
  <2>5. CASE u = {}
    BY <2>2, <2>4, <2>5
  <2>6. CASE u # {}
    <3> DEFINE v == u \ {Pick(u)}
    <3>1. Pick(u) \in u
      BY <2>6 DEF Pick
    <3>2. v \in SUBSET T /\ v # T /\ v \subseteq u \cap v
      BY <2>2, <3>1
    <3>3. IsSum(lower(v), f, v) /\ IsFiniteSet(v)
      BY <1>4, <1>6, <3>2, FS_Subset
    <3>4. lower(u)[v] = lower(v)[v]
      BY <2>3, <3>2, <3>3, SumIsUnique
    <3> QED
      BY <2>2, <2>4, <2>6, <3>4
  <2> QED
    BY <2>5, <2>6
<1>8. IsSum(h, f, T)
  <2>1. ASSUME NEW s \in SUBSET T
        PROVE  h[s] = (IF s = {} THEN 0 ELSE f[Pick(s)] + h[s \ {Pick(s)}])
    BY <1>7
  <2> QED
    BY <2>1 DEF IsSum
<1> QED
  BY <1>4, <1>8

-----------------------------------------------------------------------------
(* What the proofs use. *)

(* Nothing sums up to 0.                                                   *)
LEMMA SumEmpty ==
    ASSUME NEW f
    PROVE  SumFunctionOnSet(f, {}) = 0
<1> DEFINE g == CHOOSE h : IsSum(h, f, {})
<1>1. IsSum(g, f, {})
  BY SumExists, FS_EmptySet
<1> HIDE DEF g
<1>2. g[{}] = 0
  BY <1>1 DEF IsSum
<1> QED
  BY <1>2, SumIsChosen DEF g

(* One step of the recursion.                                              *)
LEMMA SumStep ==
    ASSUME NEW f, NEW S, IsFiniteSet(S), S # {}
    PROVE  SumFunctionOnSet(f, S) =
              f[Pick(S)] + SumFunctionOnSet(f, S \ {Pick(S)})
<1> DEFINE T == S \ {Pick(S)}
           g == CHOOSE k : IsSum(k, f, S)
           h == CHOOSE k : IsSum(k, f, T)
<1>1. IsFiniteSet(T)
  BY FS_Subset
<1>2. IsSum(g, f, S) /\ IsSum(h, f, T)
  BY <1>1, SumExists
<1>3. SumFunctionOnSet(f, S) = g[S] /\ SumFunctionOnSet(f, T) = h[T]
  BY SumIsChosen
<1> HIDE DEF g, h
<1>4. g[S] = f[Pick(S)] + g[T]
  BY <1>2 DEF IsSum
<1>5. g[T] = h[T]
  BY <1>1, <1>2, SumIsUnique
<1> QED
  BY <1>3, <1>4, <1>5

(* Integers add up to an integer.                                          *)
LEMMA SumIsInt ==
    ASSUME NEW f, NEW S, IsFiniteSet(S), \A x \in S : f[x] \in Int
    PROVE  SumFunctionOnSet(f, S) \in Int
<1> DEFINE X == {T \in SUBSET S : SumFunctionOnSet(f, T) \notin Int}
<1>1. SUFFICES ASSUME X # {} PROVE FALSE
  OBVIOUS
<1>2. \A T \in X : IsFiniteSet(T)
  BY FS_Subset
<1> HIDE DEF X
<1>3. PICK T \in X : \A x \in T : T \ {x} \notin X
  BY <1>1, <1>2, SmallestSet
<1>4. IsFiniteSet(T)
  BY <1>2
<1> USE DEF X
<1>5. T # {}
  BY SumEmpty
<1>6. Pick(T) \in T
  BY <1>5 DEF Pick
<1>7. SumFunctionOnSet(f, T \ {Pick(T)}) \in Int
  BY <1>3, <1>6
<1>8. SumFunctionOnSet(f, T) \in Int
  BY <1>4, <1>5, <1>6, <1>7, SumStep
<1> QED
  BY <1>8

(* Any element can be taken out of a sum.                                  *)
LEMMA SumRemove ==
    ASSUME NEW f, NEW S, IsFiniteSet(S), \A x \in S : f[x] \in Int,
           NEW a \in S
    PROVE  SumFunctionOnSet(f, S) = f[a] + SumFunctionOnSet(f, S \ {a})
<1> DEFINE X == {T \in SUBSET S :
                    \E x \in T : SumFunctionOnSet(f, T)
                                    # f[x] + SumFunctionOnSet(f, T \ {x})}
<1>1. SUFFICES ASSUME X # {} PROVE FALSE
  OBVIOUS
<1>2. \A T \in X : IsFiniteSet(T)
  BY FS_Subset
<1> HIDE DEF X
<1>3. PICK T \in X : \A x \in T : T \ {x} \notin X
  BY <1>1, <1>2, SmallestSet
<1>4. IsFiniteSet(T)
  BY <1>2
<1> USE DEF X
<1>5. PICK x \in T : SumFunctionOnSet(f, T)
                        # f[x] + SumFunctionOnSet(f, T \ {x})
  BY <1>3
<1> DEFINE y == Pick(T)
<1>6. y \in T
  BY <1>5 DEF Pick
<1>7. SumFunctionOnSet(f, T) = f[y] + SumFunctionOnSet(f, T \ {y})
  BY <1>4, <1>5, SumStep
<1> HIDE DEF y
<1>8. x # y
  BY <1>5, <1>7
<1>9. T \ {y} \notin X /\ T \ {x} \notin X
  BY <1>3, <1>6
<1>10. SumFunctionOnSet(f, T \ {y})
          = f[x] + SumFunctionOnSet(f, (T \ {y}) \ {x})
  BY <1>8, <1>9
<1>11. SumFunctionOnSet(f, T \ {x})
          = f[y] + SumFunctionOnSet(f, (T \ {x}) \ {y})
  BY <1>6, <1>8, <1>9
<1>12. (T \ {y}) \ {x} = (T \ {x}) \ {y}
  OBVIOUS
<1>13. SumFunctionOnSet(f, (T \ {x}) \ {y}) \in Int
  BY <1>4, FS_Subset, SumIsInt
<1>14. f[x] \in Int /\ f[y] \in Int
  BY <1>6
<1> DEFINE s1 == SumFunctionOnSet(f, T)
           s2 == SumFunctionOnSet(f, T \ {y})
           s3 == SumFunctionOnSet(f, T \ {x})
           s4 == SumFunctionOnSet(f, (T \ {x}) \ {y})
<1>15. s1 = f[y] + s2 /\ s2 = f[x] + s4 /\ s3 = f[y] + s4
  BY <1>7, <1>10, <1>11, <1>12
<1>16. s4 \in Int
  BY <1>13
<1> HIDE DEF X, s1, s2, s3, s4
<1>17. s1 = f[x] + s3
  BY <1>14, <1>15, <1>16
<1>18. SumFunctionOnSet(f, T) = f[x] + SumFunctionOnSet(f, T \ {x})
  BY <1>17 DEF s1, s3
<1> QED
  BY <1>5, <1>18

(* ... or added to it.                                                     *)
LEMMA SumAdd ==
    ASSUME NEW f, NEW S, IsFiniteSet(S), NEW a, a \notin S,
           \A x \in S \cup {a} : f[x] \in Int
    PROVE  SumFunctionOnSet(f, S \cup {a}) = f[a] + SumFunctionOnSet(f, S)
<1>1. IsFiniteSet(S \cup {a}) /\ (S \cup {a}) \ {a} = S
  BY FS_AddElement
<1> QED
  BY <1>1, SumRemove

(* Functions that agree on a set have the same sum over it.                *)
LEMMA SumSame ==
    ASSUME NEW f, NEW g, NEW S, IsFiniteSet(S), \A x \in S : f[x] = g[x]
    PROVE  SumFunctionOnSet(f, S) = SumFunctionOnSet(g, S)
<1> DEFINE X == {T \in SUBSET S :
                    SumFunctionOnSet(f, T) # SumFunctionOnSet(g, T)}
<1>1. SUFFICES ASSUME X # {} PROVE FALSE
  OBVIOUS
<1>2. \A T \in X : IsFiniteSet(T)
  BY FS_Subset
<1> HIDE DEF X
<1>3. PICK T \in X : \A x \in T : T \ {x} \notin X
  BY <1>1, <1>2, SmallestSet
<1>4. IsFiniteSet(T)
  BY <1>2
<1> USE DEF X
<1>5. T # {}
  BY SumEmpty
<1>6. Pick(T) \in T
  BY <1>5 DEF Pick
<1>7. SumFunctionOnSet(f, T \ {Pick(T)}) = SumFunctionOnSet(g, T \ {Pick(T)})
  BY <1>3, <1>6
<1>8. SumFunctionOnSet(f, T) = SumFunctionOnSet(g, T)
  BY <1>4, <1>5, <1>6, <1>7, SumStep
<1> QED
  BY <1>8

(* A function that changes at one point changes the sum by as much.        *)
LEMMA SumUpdate ==
    ASSUME NEW f, NEW g, NEW S, IsFiniteSet(S), NEW a \in S,
           \A x \in S : f[x] \in Int, g[a] \in Int,
           \A x \in S \ {a} : g[x] = f[x]
    PROVE  SumFunctionOnSet(g, S) = SumFunctionOnSet(f, S) + (g[a] - f[a])
<1>1. IsFiniteSet(S \ {a})
  BY FS_Subset
<1>2. SumFunctionOnSet(g, S \ {a}) = SumFunctionOnSet(f, S \ {a})
  BY <1>1, SumSame
<1>3. SumFunctionOnSet(f, S \ {a}) \in Int
  BY <1>1, SumIsInt
<1>4. SumFunctionOnSet(f, S) = f[a] + SumFunctionOnSet(f, S \ {a})
  BY SumRemove
<1>5. \A x \in S : g[x] \in Int
  OBVIOUS
<1>6. SumFunctionOnSet(g, S) = g[a] + SumFunctionOnSet(g, S \ {a})
  BY <1>5, SumRemove
<1> QED
  BY <1>2, <1>3, <1>4, <1>6

(* The sum of a function that gains a point ...                            *)
LEMMA SumGains ==
    ASSUME NEW f, NEW g, NEW S, IsFiniteSet(S), NEW a, a \notin S,
           \A x \in S : f[x] \in Int /\ g[x] = f[x], g[a] \in Int
    PROVE  SumFunctionOnSet(g, S \cup {a}) = SumFunctionOnSet(f, S) + g[a]
<1>1. SumFunctionOnSet(g, S) = SumFunctionOnSet(f, S)
  BY SumSame
<1>2. SumFunctionOnSet(g, S \cup {a}) = g[a] + SumFunctionOnSet(g, S)
  BY SumAdd
<1>3. SumFunctionOnSet(f, S) \in Int
  BY SumIsInt
<1> QED
  BY <1>1, <1>2, <1>3

(* ... or loses one.                                                       *)
LEMMA SumLoses ==
    ASSUME NEW f, NEW g, NEW S, IsFiniteSet(S), NEW a \in S,
           \A x \in S : f[x] \in Int, \A x \in S \ {a} : g[x] = f[x]
    PROVE  SumFunctionOnSet(g, S \ {a}) = SumFunctionOnSet(f, S) - f[a]
<1>1. IsFiniteSet(S \ {a})
  BY FS_Subset
<1>2. SumFunctionOnSet(g, S \ {a}) = SumFunctionOnSet(f, S \ {a})
  BY <1>1, SumSame
<1>3. SumFunctionOnSet(f, S) = f[a] + SumFunctionOnSet(f, S \ {a})
  BY SumRemove
<1>4. SumFunctionOnSet(f, S \ {a}) \in Int
  BY <1>1, SumIsInt
<1> QED
  BY <1>2, <1>3, <1>4

(* What has not fallen is still above a bound.                             *)
LEMMA StaysAbove ==
    \A low, old, new \in Int : old >= low /\ new >= old => new >= low
OBVIOUS

(* ... also after the same is taken from both.                             *)
LEMMA TakenFromBoth ==
    \A old, new, n \in Int : new >= old => new - n >= old - n
OBVIOUS

(* As many terms or more, of one size each.                                *)
LEMMA TimesGrows ==
    ASSUME NEW m \in Nat, NEW n \in Nat, m <= n, NEW L \in Nat
    PROVE  m * L \in Nat /\ n * L \in Nat /\ m * L <= n * L
<1>1. PICK k \in Nat : n = m + k
  <2>1. n - m \in Nat /\ n = m + (n - m)
    OBVIOUS
  <2> QED
    BY <2>1
<1>2. n * L = m * L + k * L
  BY <1>1
<1>3. m * L \in Nat /\ k * L \in Nat
  BY <1>1
<1> QED
  BY <1>2, <1>3

(* Terms that are at most L add up to at most L for each of them.          *)
LEMMA SumBound ==
    ASSUME NEW f, NEW S, IsFiniteSet(S), NEW L \in Nat,
           \A x \in S : f[x] \in Int /\ 0 <= f[x] /\ f[x] <= L
    PROVE  /\ 0 <= SumFunctionOnSet(f, S)
           /\ SumFunctionOnSet(f, S) <= Cardinality(S) * L
<1> DEFINE X == {T \in SUBSET S :
                    ~(/\ 0 <= SumFunctionOnSet(f, T)
                      /\ SumFunctionOnSet(f, T) <= Cardinality(T) * L)}
<1>1. SUFFICES ASSUME X # {} PROVE FALSE
  OBVIOUS
<1>2. \A T \in X : IsFiniteSet(T)
  BY FS_Subset
<1> HIDE DEF X
<1>3. PICK T \in X : \A x \in T : T \ {x} \notin X
  BY <1>1, <1>2, SmallestSet
<1>4. IsFiniteSet(T)
  BY <1>2
<1> USE DEF X
<1>5. T # {}
  BY SumEmpty, FS_EmptySet
<1>6. Pick(T) \in T
  BY <1>5 DEF Pick
<1> DEFINE R == T \ {Pick(T)}
           n == Cardinality(R)
           s == SumFunctionOnSet(f, R)
<1>7. 0 <= s /\ s <= n * L
  BY <1>3, <1>6
<1>8. IsFiniteSet(R) /\ n \in Nat /\ Cardinality(T) = n + 1
  <2>1. IsFiniteSet(R) /\ n = Cardinality(T) - 1
    BY <1>4, <1>6, FS_RemoveElement
  <2>2. Cardinality(T) \in Nat /\ n \in Nat
    BY <1>4, <2>1, FS_CardinalityType
  <2> QED
    BY <2>1, <2>2
<1>9. s \in Int
  BY <1>8, SumIsInt
<1>10. SumFunctionOnSet(f, T) = f[Pick(T)] + s
  BY <1>4, <1>5, SumStep
<1>11. /\ f[Pick(T)] \in Int
       /\ 0 <= f[Pick(T)]
       /\ f[Pick(T)] <= L
  BY <1>6
<1> HIDE DEF s, n, X, R
<1>12. (n + 1) * L = n * L + L /\ n * L \in Int
  BY <1>8
<1>13. /\ 0 <= SumFunctionOnSet(f, T)
       /\ SumFunctionOnSet(f, T) <= Cardinality(T) * L
  BY <1>7, <1>8, <1>9, <1>10, <1>11, <1>12
<1> QED
  BY <1>13 DEF X

(* Zeros add up to zero.                                                   *)
LEMMA SumOfZeros ==
    ASSUME NEW f, NEW S, IsFiniteSet(S), \A x \in S : f[x] = 0
    PROVE  SumFunctionOnSet(f, S) = 0
<1>1. SumFunctionOnSet(f, S) \in Int
  BY SumIsInt
<1>2. /\ 0 <= SumFunctionOnSet(f, S)
      /\ SumFunctionOnSet(f, S) <= Cardinality(S) * 0
  BY SumBound
<1>3. Cardinality(S) * 0 = 0
  BY FS_CardinalityType
<1> QED
  BY <1>1, <1>2, <1>3

(* A finite set of naturals that is not empty has a greatest element.      *)
LEMMA GreatestNatural ==
    ASSUME NEW S, IsFiniteSet(S), S \subseteq Nat, S # {}
    PROVE  /\ Max(S) \in S
           /\ \A m \in S : m <= Max(S)
<1> DEFINE X == {T \in SUBSET S :
                    T # {} /\ ~ \E n \in T : \A m \in T : m <= n}
<1>1. X = {}
  <2>1. SUFFICES ASSUME X # {} PROVE FALSE
    OBVIOUS
  <2>2. \A T \in X : IsFiniteSet(T)
    BY FS_Subset
  <2> HIDE DEF X
  <2>3. PICK T \in X : \A x \in T : T \ {x} \notin X
    BY <2>1, <2>2, SmallestSet
  <2> USE DEF X
  <2>4. PICK x \in T : TRUE
    BY <2>3
  <2>5. CASE T \ {x} = {}
    <3>1. \A m \in T : m <= x
      BY <2>3, <2>5
    <3> QED
      BY <2>3, <3>1
  <2>6. CASE T \ {x} # {}
    <3>1. PICK n \in T \ {x} : \A m \in T \ {x} : m <= n
      BY <2>3, <2>6
    <3>2. x \in Nat /\ n \in Nat /\ T \subseteq Nat
      OBVIOUS
    <3>3. \/ \A m \in T : m <= n
          \/ \A m \in T : m <= x
      BY <3>1, <3>2
    <3> QED
      BY <2>3, <3>1, <3>3
  <2> QED
    BY <2>5, <2>6
<1>2. \E n \in S : \A m \in S : m <= n
  BY <1>1
<1>3. \E n \in S : \A m \in S : n >= m
  BY <1>2
<1>4. Max(S) \in S /\ \A m \in S : Max(S) >= m
  BY <1>3 DEF Max
<1> QED
  BY <1>4
=============================================================================
