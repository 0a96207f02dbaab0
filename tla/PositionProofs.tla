--------------------------- MODULE PositionProofs ---------------------------
(***************************************************************************)
(* Positions in a list: a set of them has a last one, and can be put in    *)
(* order.  The theorems about recursion and induction take operators as    *)
(* parameters; here a minimal counterexample does their work.              *)
(***************************************************************************)
EXTENDS Positions, Sequences, FiniteSetTheorems, TLAPS

LEMMA FinitePositions ==
  ASSUME NEW n \in Nat, NEW S \in SUBSET (1..n)
  PROVE  IsFiniteSet(S)
<1>1. 1 \in Int /\ n \in Int
  OBVIOUS
<1>2. IsFiniteSet(1..n)
  BY <1>1, FS_Interval
<1>3. QED BY <1>2, FS_Subset

LEMMA HasLast ==
  ASSUME NEW n \in Nat, NEW S \in SUBSET (1..n), S # {}
  PROVE  \E i \in S : \A j \in S : j <= i
<1> DEFINE After(i) == {j \in S : j > i}
           T == {After(i) : i \in S}
<1>1. IsFiniteSet(S)
  BY FinitePositions
<1>2. T \subseteq FiniteSubsetsOf(S) /\ T # {}
  <2>1. \A i \in S : After(i) \in SUBSET S
    OBVIOUS
  <2>2. \A i \in S : After(i) \in FiniteSubsetsOf(S)
    <3> HIDE DEF After
    <3>1. QED BY <1>1, <2>1, FS_Subset DEF FiniteSubsetsOf
  <2>3. QED BY <2>2
<1>3. PICK m \in T : \A k \in T : ~(<<k, m>> \in StrictSubsetOrdering(S))
  <2> HIDE DEF T
  <2>1. QED BY <1>2, FS_StrictSubsetOrderingWellFounded, WFMin
<1>4. PICK i \in S : m = After(i)
  BY <1>3
<1>5. ASSUME NEW j \in S, j > i PROVE FALSE
  <2> HIDE DEF T
  <2>1. \A k \in S : k > j => k > i
    BY <1>5
  <2>2. After(j) \subseteq After(i) /\ After(i) \subseteq S
    BY <2>1
  <2>3. j \in After(i) /\ j \notin After(j)
    BY <1>5
  <2> HIDE DEF After
  <2>4. <<After(j), After(i)>> \in StrictSubsetOrdering(S)
    BY <2>2, <2>3 DEF StrictSubsetOrdering
  <2>5. QED BY <1>3, <1>4, <2>4 DEF T
<1>6. QED BY <1>4, <1>5

LEMMA LastIsLast ==
  ASSUME NEW n \in Nat, NEW S \in SUBSET (1..n), S # {}
  PROVE  /\ LastOf(S) \in S /\ \A j \in S : j <= LastOf(S)
         /\ \A i \in S : (\A j \in S : j <= i) => LastOf(S) = i
<1>1. LastOf(S) \in S /\ \A j \in S : j <= LastOf(S)
  BY HasLast DEF LastOf
<1>2. \A j \in S : j \in Int
  OBVIOUS
<1>3. ASSUME NEW i \in S, \A j \in S : j <= i PROVE LastOf(S) = i
  <2> DEFINE l == LastOf(S)
  <2>1. l \in Int /\ i \in Int
    BY <1>1, <1>2
  <2>2. l <= i /\ i <= l
    BY <1>1, <1>3
  <2> HIDE DEF l
  <2>3. l = i
    BY <2>1, <2>2
  <2>4. QED BY <2>3 DEF l
<1>4. QED BY <1>1, <1>3

LEMMA IncreasingExists ==
  ASSUME NEW n \in Nat, NEW S \in SUBSET (1..n)
  PROVE  IncreasingOn(S) # {}
<1> DEFINE Bad == {R \in SUBSET S : IncreasingOn(R) = {}}
<1>1. Bad \subseteq FiniteSubsetsOf(S)
  <2>1. \A R \in SUBSET S : IsFiniteSet(R)
    BY FinitePositions
  <2>2. QED BY <2>1 DEF FiniteSubsetsOf
<1> SUFFICES ASSUME Bad # {} PROVE FALSE
  OBVIOUS
<1>2. PICK R \in Bad : \A Q \in Bad : ~(<<Q, R>> \in StrictSubsetOrdering(S))
  <2> HIDE DEF Bad
  <2>1. QED BY <1>1, FS_StrictSubsetOrderingWellFounded, WFMin
<1>3. R \in SUBSET (1..n) /\ IsFiniteSet(R) /\ R \in SUBSET S
  BY <1>2, FinitePositions
<1>4. R # {}
  <2>1. Cardinality({}) = 0 /\ 1..0 = {}
    BY FS_EmptySet
  <2>2. [i \in {} |-> i] \in IncreasingOn({})
    BY <2>1 DEF IncreasingOn
  <2>3. QED BY <1>2, <2>2
<1> DEFINE m == LastOf(R)
           Q == R \ {m}
           k == Cardinality(Q)
<1>5. m \in R /\ \A j \in R : j <= m
  BY <1>3, <1>4, LastIsLast
<1> HIDE DEF m
<1>6. IsFiniteSet(Q) /\ k \in Nat /\ Cardinality(R) = k + 1 /\ Q \cup {m} = R
  <2>1. IsFiniteSet(Q) /\ Cardinality(Q) = Cardinality(R) - 1
    BY <1>3, <1>5, FS_RemoveElement
  <2>2. Cardinality(R) \in Nat /\ Cardinality(Q) \in Nat
    BY <1>3, <2>1, FS_CardinalityType
  <2>3. Q \cup {m} = R
    BY <1>5
  <2> HIDE DEF Q
  <2>4. QED BY <2>1, <2>2, <2>3
<1>7. Q \notin Bad
  <2>1. <<Q, R>> \in StrictSubsetOrdering(S)
    BY <1>3, <1>5 DEF StrictSubsetOrdering
  <2>2. QED BY <1>2, <2>1
<1>8. PICK s : s \in IncreasingOn(Q)
  <2>1. Q \in SUBSET S
    BY <1>3
  <2>2. QED BY <1>7, <2>1
<1> HIDE DEF Q, k
<1> DEFINE r == [i \in 1..k + 1 |-> IF i = k + 1 THEN m ELSE s[i]]
<1>9. r \in IncreasingOn(R)
  <2>1. s \in [1..k -> Q] /\ \A i, j \in 1..k : i < j => s[i] < s[j]
    BY <1>8 DEF IncreasingOn, k
  <2>2. \A i \in 1..k + 1 : i = k + 1 \/ i \in 1..k
    BY <1>6
  <2>3. r \in [1..k + 1 -> R]
    BY <1>5, <1>6, <2>1, <2>2 DEF Q
  <2>4. ASSUME NEW i \in 1..k + 1, NEW j \in 1..k + 1, i < j PROVE r[i] < r[j]
    <3>1. i \in 1..k /\ r[i] = s[i] /\ s[i] \in Q
      BY <1>6, <2>1, <2>2, <2>4
    <3>2. CASE j = k + 1
      <4>1. s[i] \in R /\ s[i] # m /\ r[j] = m
        BY <1>6, <3>1, <3>2 DEF Q
      <4>2. s[i] \in Int /\ m \in Int
        <5>1. R \subseteq Int
          BY <1>3
        <5>2. QED BY <1>5, <4>1, <5>1
      <4>3. QED BY <1>5, <3>1, <4>1, <4>2
    <3>3. CASE j \in 1..k
      BY <1>6, <2>1, <2>4, <3>1, <3>3
    <3>4. QED BY <2>2, <3>2, <3>3
  <2> HIDE DEF r
  <2>5. QED BY <1>6, <2>3, <2>4 DEF IncreasingOn
<1>10. QED BY <1>2, <1>9

\* A set of positions in its order: a sequence without repetition of just them.
LEMMA InOrderLists ==
  ASSUME NEW n \in Nat, NEW S \in SUBSET (1..n)
  PROVE  /\ InOrder(S) \in Seq(S)
         /\ IsInjective(InOrder(S))
         /\ Range(InOrder(S)) = S
<1> DEFINE s == InOrder(S)
           k == Cardinality(S)
<1>1. IsFiniteSet(S) /\ k \in Nat
  BY FinitePositions, FS_CardinalityType
<1>2. s \in IncreasingOn(S)
  BY IncreasingExists DEF InOrder
<1>3. s \in [1..k -> S] /\ \A i, j \in 1..k : i < j => s[i] < s[j]
  BY <1>2 DEF IncreasingOn
<1> HIDE DEF s, k
<1>4. \A i, j \in 1..k : s[i] = s[j] => i = j
  <2>1. S \subseteq Int
    OBVIOUS
  <2>2. \A i \in 1..k : s[i] \in Int /\ i \in Int
    <3> HIDE DEF s
    <3> SUFFICES ASSUME NEW i \in 1..k PROVE s[i] \in Int /\ i \in Int
      OBVIOUS
    <3>1. s[i] \in S
      BY <1>3
    <3>2. s[i] \in Int
      BY <2>1, <3>1, Zenon
    <3>3. QED BY <1>1, <3>2
  <2>3. \A i, j \in 1..k : i < j \/ j < i \/ i = j
    BY <2>2
  <2>4. \A i, j \in 1..k : s[i] < s[j] => s[i] # s[j]
    BY <2>2
  <2>5. QED BY <1>3, <2>3, <2>4
<1>5. IsInjective(s)
  BY <1>3, <1>4 DEF IsInjective
<1>6. Range(s) = S
  <2>1. s \in Injection(1..k, S)
    BY <1>3, <1>5 DEF Injection
  <2>2. Cardinality(1..k) = k
    BY <1>1, FS_Interval
  <2>3. s \in Surjection(1..k, S)
    BY <1>1, <2>1, <2>2, FS_Injection DEF k
  <2>4. QED BY <1>3, <2>3 DEF Surjection, Range
<1>7. s \in Seq(S)
  BY <1>1, <1>3
<1>8. QED BY <1>5, <1>6, <1>7 DEF s
=============================================================================
