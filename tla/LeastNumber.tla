---------------------------- MODULE LeastNumber -----------------------------
(* Every set of natural numbers that is not empty has a least one.  What   *)
(* is shown of the least number that would break a claim is shown of all   *)
(* of them: the proofs take this in place of a rule of induction.  On it   *)
(* rest the quotient that a division has and the powers of two.            *)
EXTENDS Integers, FiniteSetTheorems, FunctionTheorems, WellFoundedInduction, TLAPS

Under(n) == 0..(n - 1)

(* Numbers are ordered as the sets of the numbers under them are.          *)
LEMMA LeastExists ==
  ASSUME NEW X \in SUBSET Nat, X # {}
  PROVE  \E n \in X : \A m \in X : n <= m
<1> DEFINE sets == {Under(n) : n \in X}
           finite == FiniteSubsetsOf(Nat)
           smaller == StrictSubsetOrdering(Nat)
<1>1. sets \subseteq finite
  <2>1. ASSUME NEW n \in X PROVE Under(n) \in finite
    <3>1. IsFiniteSet(Under(n))
      BY FS_Interval DEF Under
    <3>2. Under(n) \subseteq Nat
      BY DEF Under
    <3>3. QED BY <3>1, <3>2 DEF FiniteSubsetsOf
  <2>2. QED BY <2>1
<1>2. IsWellFoundedOn(smaller, finite)
  BY FS_StrictSubsetOrderingWellFounded
<1>3. sets # {}
  OBVIOUS
<1>4. \E x \in sets : \A y \in sets : <<y, x>> \notin smaller
  <2> HIDE DEF sets, finite, smaller
  <2>1. QED BY <1>1, <1>2, <1>3, WFMin
<1>5. PICK n \in X : \A m \in X : <<Under(m), Under(n)>> \notin smaller
  BY <1>4
<1>6. ASSUME NEW m \in X, m < n
      PROVE  <<Under(m), Under(n)>> \in smaller
  <2>1. Under(m) \subseteq Under(n) /\ Under(n) \subseteq Nat /\ Under(m) \subseteq Nat
    BY <1>6 DEF Under
  <2>2. m \in Under(n) /\ m \notin Under(m)
    BY <1>6 DEF Under
  <2>3. QED BY <2>1, <2>2 DEF StrictSubsetOrdering
<1>7. \A m \in X : ~(m < n)
  BY <1>5, <1>6
<1>8. \A m \in X : n <= m
  BY <1>7
<1>9. QED BY <1>8
----------------------------------------------------------------------------
(* Division and powers of two, which the proofs about words share.         *)

(* Integer division leaves a remainder smaller than the divisor, and with  *)
(* it gives the number back.                                               *)
LEMMA DivisionFacts ==
  ASSUME NEW x \in Int, NEW d \in Nat \ {0}
  PROVE  /\ x \div d \in Int /\ x % d \in 0..(d - 1)
         /\ x = d * (x \div d) + (x % d)
OBVIOUS

(* Only one quotient has a remainder smaller than the divisor.             *)
LEMMA DivisionUnique ==
  ASSUME NEW d \in Nat \ {0}, NEW q \in Int, NEW r \in 0..(d - 1)
  PROVE  (d * q + r) \div d = q /\ (d * q + r) % d = r
OBVIOUS

(* A power of two is positive and half of the next one: a set with one     *)
(* more element has twice as many subsets.                                 *)
LEMMA PowerStep ==
  ASSUME NEW n \in Nat
  PROVE  2^n \in Nat \ {0} /\ 2^(n + 1) = 2 * 2^n
<1> DEFINE S == 1..n
           T == 1..(n + 1)
           With == {X \cup {n + 1} : X \in SUBSET S}
<1>1. IsFiniteSet(S) /\ Cardinality(S) = n /\ IsFiniteSet(T) /\ Cardinality(T) = n + 1
  BY FS_Interval
<1>2. IsFiniteSet(SUBSET S) /\ Cardinality(SUBSET S) = 2^n
  BY <1>1, FS_SUBSET
<1>3. Cardinality(SUBSET T) = 2^(n + 1)
  BY <1>1, FS_SUBSET
<1>4. SUBSET T = (SUBSET S) \cup With
  <2>1. ASSUME NEW X \in SUBSET T, n + 1 \in X PROVE X \in With
    <3>1. X \ {n + 1} \in SUBSET S
      <4>1. T \ {n + 1} = S
        OBVIOUS
      <4>2. QED BY <4>1
    <3>2. X = (X \ {n + 1}) \cup {n + 1}
      BY <2>1
    <3>3. QED BY <3>1, <3>2
  <2>2. ASSUME NEW X \in SUBSET T, n + 1 \notin X PROVE X \in SUBSET S
    <3>1. T \ {n + 1} = S
      OBVIOUS
    <3>2. QED BY <2>2, <3>1
  <2>3. S \subseteq T /\ n + 1 \in T
    OBVIOUS
  <2>4. \A X \in SUBSET T : X \in (SUBSET S) \cup With
    BY <2>1, <2>2
  <2>5. \A X \in (SUBSET S) \cup With : X \in SUBSET T
    <3>1. ASSUME NEW X \in SUBSET S PROVE X \in SUBSET T /\ X \cup {n + 1} \in SUBSET T
      BY <2>3
    <3> HIDE DEF S, T
    <3>2. QED BY <3>1
  <2> HIDE DEF S, T, With
  <2>6. QED BY <2>4, <2>5
<1>5. (SUBSET S) \cap With = {}
  OBVIOUS
<1>6. IsFiniteSet(With) /\ Cardinality(With) = 2^n
  <2> DEFINE f == [X \in SUBSET S |-> X \cup {n + 1}]
  <2>1. f \in Bijection(SUBSET S, With)
    <3>1. f \in [SUBSET S -> With]
      OBVIOUS
    <3>2. \A Y \in With : \E X \in SUBSET S : f[X] = Y
      OBVIOUS
    <3>3. ASSUME NEW X \in SUBSET S, NEW Y \in SUBSET S, f[X] = f[Y] PROVE X = Y
      <4>1. X \cup {n + 1} = Y \cup {n + 1} /\ n + 1 \notin X /\ n + 1 \notin Y
        BY <3>3
      <4>2. QED BY <4>1
    <3>4. f \in Injection(SUBSET S, With)
      BY <3>1, <3>3, Fun_IsInj
    <3>5. f \in Surjection(SUBSET S, With)
      BY <3>1, <3>2, Fun_IsSurj
    <3>6. QED BY <3>4, <3>5 DEF Bijection
  <2>2. ExistsBijection(SUBSET S, With)
    BY <2>1 DEF ExistsBijection
  <2>3. QED BY <1>2, <2>2, FS_Bijection
<1>7. Cardinality(SUBSET T) = 2^n + 2^n - Cardinality({})
  BY <1>2, <1>4, <1>5, <1>6, FS_Union
<1>8. Cardinality({}) = 0 /\ Cardinality(SUBSET S) \in Nat
  BY <1>2, FS_EmptySet, FS_CardinalityType
<1>9. 2^n # 0
  <2>1. {} \in SUBSET S
    OBVIOUS
  <2>2. QED BY <1>2, <2>1, FS_EmptySet
<1> QED BY <1>2, <1>3, <1>7, <1>8, <1>9

(* Powers of two multiply by adding their exponents.                       *)
LEMMA PowerSum ==
  ASSUME NEW m \in Nat, NEW n \in Nat
  PROVE  2^(m + n) = 2^m * 2^n
<1> DEFINE X == {k \in Nat : 2^(m + k) # 2^m * 2^k}
<1>1. SUFFICES ASSUME X # {} PROVE FALSE
  OBVIOUS
<1>2. PICK k \in X : \A j \in X : k <= j
  BY <1>1, LeastExists
<1>3. CASE k = 0
  <2>1. 2^0 = 1 /\ m + 0 = m /\ 2^m \in Nat
    BY PowerStep
  <2>2. 2^m * 1 = 2^m
    BY <2>1
  <2>3. QED BY <1>3, <2>1, <2>2
<1>4. CASE k # 0
  <2>1. k - 1 \in Nat /\ (k - 1) + 1 = k /\ k - 1 \notin X
    BY <1>2, <1>4
  <2>2. 2^(m + (k - 1)) = 2^m * 2^(k - 1)
    BY <2>1
  <2>3. 2^k = 2 * 2^(k - 1) /\ 2^(k - 1) \in Nat /\ 2^m \in Nat
    BY <2>1, PowerStep
  <2>4. (m + (k - 1)) + 1 = m + k /\ m + (k - 1) \in Nat
    BY <2>1
  <2>5. 2^(m + k) = 2 * 2^(m + (k - 1))
    BY <2>4, PowerStep
  <2>6. 2 * (2^m * 2^(k - 1)) = 2^m * (2 * 2^(k - 1))
    BY <2>3
  <2>7. QED BY <1>2, <2>2, <2>3, <2>5, <2>6
<1>5. QED BY <1>3, <1>4

(* The two smallest powers of two.                                         *)
LEMMA SmallPowers == 2^0 = 1 /\ 2^1 = 2
<1>1. 0 + 1 = 1
  OBVIOUS
<1>2. QED BY <1>1, PowerStep
============================================================================
