----------------------------- MODULE OrderTheory -----------------------------
(***************************************************************************)
(* Induction over the naturals, and the extremal elements of a set: what   *)
(* the proofs about the model's operators rest on (Max and Min of the      *)
(* constraint times, the element of a given rank, the scheduler's choice). *)
(***************************************************************************)
EXTENDS SequencesExt, FiniteSetTheorems, NaturalsInduction, WellFoundedInduction, TLAPS

\* A set of naturals has a least element.
THEOREM Least ==
  ASSUME NEW S \in SUBSET Nat, S # {}
  PROVE  \E n \in S : \A m \in S : n <= m
<1>1. PICK n \in S : \A m \in S : ~ (<<m, n>> \in OpToRel(<, Nat))
  BY NatLessThanWellFounded, WFMin
<1>2. \A m \in S : ~ (m < n)
  BY <1>1 DEF OpToRel
<1> QED BY <1>2

\* Induction up to n, on membership of a set.
THEOREM UpTo ==
  ASSUME NEW n \in Nat, NEW S, 0 \in S, \A k \in 0 .. n - 1 : k \in S => k + 1 \in S
  PROVE  \A k \in 0 .. n : k \in S
<1> DEFINE Missed == {k \in 0 .. n : k \notin S}
<1>1. SUFFICES ASSUME Missed # {} PROVE FALSE
  OBVIOUS
<1>2. PICK k \in Missed : \A m \in Missed : k <= m
  <2>1. Missed \in SUBSET Nat
    OBVIOUS
  <2> HIDE DEF Missed
  <2> QED BY <1>1, <2>1, Least
<1>3. k # 0 /\ k - 1 \in 0 .. n - 1
  OBVIOUS
<1>4. k - 1 \notin Missed
  BY <1>2
<1>5. (k - 1) + 1 = k
  OBVIOUS
<1> QED BY <1>3, <1>4, <1>5

\* A finite set of integers has a maximum, which is what Max chooses.
THEOREM MaxOf ==
  ASSUME NEW S \in SUBSET Int, IsFiniteSet(S), S # {}
  PROVE  Max(S) \in S /\ \A x \in S : Max(S) >= x
<1> DEFINE Bounded(T) == T # {} => \E x \in T : \A y \in T : x >= y
           Sizes == {k \in Nat : \A T \in SUBSET S : Cardinality(T) = k => Bounded(T)}
           n == Cardinality(S)
<1>1. n \in Nat
  BY FS_CardinalityType
<1>2. 0 \in Sizes
  <2> SUFFICES ASSUME NEW T \in SUBSET S, Cardinality(T) = 0 PROVE T = {}
    OBVIOUS
  <2>1. IsFiniteSet(T)
    BY FS_Subset
  <2> QED BY <2>1, FS_EmptySet
<1>3. ASSUME NEW k \in 0 .. n - 1, k \in Sizes PROVE k + 1 \in Sizes
  <2> SUFFICES ASSUME NEW T \in SUBSET S, Cardinality(T) = k + 1, T # {} PROVE Bounded(T)
    BY <1>1
  <2>1. PICK x \in T : TRUE
    OBVIOUS
  <2> DEFINE U == T \ {x}
  <2>2. IsFiniteSet(T)
    BY FS_Subset
  <2>3. Cardinality(U) = k
    <3>1. Cardinality(U) = Cardinality(T) - 1
      BY <2>2, FS_RemoveElement
    <3> QED BY <3>1
  <2>4. Bounded(U)
    BY <1>3, <2>3
  <2>5. CASE U = {}
    <3>1. T = {x} /\ x \in Int
      BY <2>5
    <3>2. x >= x
      BY <3>1
    <3> QED BY <3>1, <3>2
  <2>6. CASE U # {}
    <3>1. PICK y \in U : \A z \in U : y >= z
      BY <2>4, <2>6
    <3>2. x \in Int /\ y \in Int /\ \A z \in T : z \in Int /\ (z = x \/ z \in U)
      OBVIOUS
    <3>3. CASE x >= y
      <4>1. ASSUME NEW z \in T PROVE x >= z
        BY <3>1, <3>2, <3>3
      <4> QED BY <4>1
    <3>4. CASE y >= x
      <4>1. ASSUME NEW z \in T PROVE y >= z
        BY <3>1, <3>2, <3>4
      <4> QED BY <4>1
    <3> QED BY <3>2, <3>3, <3>4
  <2> QED BY <2>5, <2>6
<1> HIDE DEF Sizes
<1>4. n \in Sizes
  <2> HIDE DEF n
  <2>1. \A k \in 0 .. n : k \in Sizes
    BY <1>1, <1>2, <1>3, UpTo
  <2> QED BY <1>1, <2>1
<1>5. \E x \in S : \A y \in S : x >= y
  BY <1>4 DEF Sizes
<1> QED BY <1>5 DEF Max

\* So has a bounded set of integers.
THEOREM MaxBelow ==
  ASSUME NEW S \in SUBSET Int, S # {}, NEW bound \in Int, \A x \in S : x <= bound
  PROVE  Max(S) \in S /\ \A x \in S : Max(S) >= x
<1> DEFINE Gaps == {bound - x : x \in S}
<1>1. Gaps \in SUBSET Nat /\ Gaps # {}
  <2>1. ASSUME NEW x \in S PROVE bound - x \in Nat
    <3>1. x \in Int /\ x <= bound
      OBVIOUS
    <3> QED BY <3>1
  <2> QED BY <2>1
<1>2. PICK g \in Gaps : \A h \in Gaps : g <= h
  <2> HIDE DEF Gaps
  <2> QED BY <1>1, Least
<1>3. PICK x \in S : g = bound - x
  OBVIOUS
<1>4. ASSUME NEW y \in S PROVE x >= y
  <2>1. bound - y \in Gaps
    OBVIOUS
  <2>2. g <= bound - y
    BY <1>2, <2>1
  <2> QED BY <1>3, <2>2
<1> QED BY <1>4 DEF Max

\* A finite set of integers has an element of every rank, and only one.
THEOREM RankExists ==
  ASSUME NEW S \in SUBSET Int, IsFiniteSet(S), NEW k \in 1 .. Cardinality(S)
  PROVE  \E x \in S : Cardinality({y \in S : y <= x}) = k
<1> DEFINE Ranked(T, j) == \E x \in T : Cardinality({y \in T : y <= x}) = j
           Sizes == {m \in Nat : \A T \in SUBSET S : Cardinality(T) = m => \A j \in 1 .. m : Ranked(T, j)}
           n == Cardinality(S)
<1>1. n \in Nat
  BY FS_CardinalityType
<1>2. 0 \in Sizes
  OBVIOUS
<1>3. ASSUME NEW m \in 0 .. n - 1, m \in Sizes PROVE m + 1 \in Sizes
  <2>a. m + 1 \in Nat
    BY <1>1
  <2>b. SUFFICES ASSUME NEW T \in SUBSET S, Cardinality(T) = m + 1, NEW j \in 1 .. m + 1
                 PROVE  Ranked(T, j)
    <3> HIDE DEF Ranked, n
    <3> QED BY <2>a, Zenon
  <2>1. IsFiniteSet(T) /\ T \in SUBSET Int
    BY FS_Subset
  <2>2. T # {}
    BY <1>1, <2>b, FS_EmptySet
  <2>3. Max(T) \in T /\ \A x \in T : Max(T) >= x
    BY <2>1, <2>2, MaxOf
  <2> DEFINE top == Max(T)
             U == T \ {top}
  <2> HIDE DEF top
  <2>4. top \in T /\ top \in Int /\ \A x \in T : top >= x
    BY <2>1, <2>3 DEF top
  <2>5. Cardinality(U) = m
    <3>1. Cardinality(U) = Cardinality(T) - 1
      BY <2>1, <2>4, FS_RemoveElement
    <3> QED BY <2>b, <3>1
  <2>6. CASE j = m + 1
    <3>1. {y \in T : y <= top} = T
      BY <2>1, <2>4
    <3> QED BY <2>b, <2>4, <2>6, <3>1
  <2>7. CASE j # m + 1
    <3>1. j \in 1 .. m
      BY <2>b, <2>7
    <3>2. PICK x \in U : Cardinality({y \in U : y <= x}) = j
      BY <1>3, <2>5, <3>1
    <3>3. {y \in T : y <= x} = {y \in U : y <= x}
      <4>1. x \in Int /\ ~ (top <= x)
        BY <2>1, <2>4
      <4> QED BY <4>1
    <3> QED BY <3>2, <3>3
  <2> QED BY <2>6, <2>7
<1> HIDE DEF Sizes
<1>4. n \in Sizes
  <2> HIDE DEF n
  <2>1. \A m \in 0 .. n : m \in Sizes
    BY <1>1, <1>2, <1>3, UpTo
  <2> QED BY <1>1, <2>1
<1> QED BY <1>4 DEF Sizes

THEOREM RankUnique ==
  ASSUME NEW S \in SUBSET Int, IsFiniteSet(S), NEW x \in S, NEW z \in S,
         Cardinality({y \in S : y <= x}) = Cardinality({y \in S : y <= z})
  PROVE  x = z
<1>1. ASSUME NEW a \in S, NEW b \in S, a < b,
             Cardinality({y \in S : y <= a}) = Cardinality({y \in S : y <= b})
      PROVE  FALSE
  <2> DEFINE A == {y \in S : y <= a}
             B == {y \in S : y <= b}
  <2>1. A \in SUBSET B /\ b \in B /\ b \notin A
    <3>1. a \in Int /\ b \in Int /\ \A y \in S : y \in Int
      OBVIOUS
    <3>2. ASSUME NEW y \in A PROVE y \in B
      BY <1>1, <3>1
    <3>3. b \in B /\ ~ (b <= a)
      BY <1>1, <3>1
    <3> QED BY <3>2, <3>3
  <2>2. IsFiniteSet(B)
    BY FS_Subset
  <2>3. Cardinality(A) = Cardinality(B)
    BY <1>1
  <2> HIDE DEF A, B
  <2> QED BY <2>1, <2>2, <2>3, FS_Subset
<1>2. x \in Int /\ z \in Int
  OBVIOUS
<1> QED BY <1>1, <1>2

\* A total and transitive relation has a least element in every finite set.
THEOREM LeastOf ==
  ASSUME NEW S, IsFiniteSet(S), S # {}, NEW R,
         \A x, y \in S : x # y => <<x, y>> \in R \/ <<y, x>> \in R,
         \A x, y, z \in S : <<x, y>> \in R /\ <<y, z>> \in R => <<x, z>> \in R
  PROVE  \E x \in S : \A y \in S \ {x} : <<x, y>> \in R
<1> DEFINE First(T) == T # {} => \E x \in T : \A y \in T \ {x} : <<x, y>> \in R
           Sizes == {k \in Nat : \A T \in SUBSET S : Cardinality(T) = k => First(T)}
           n == Cardinality(S)
<1>1. n \in Nat
  BY FS_CardinalityType
<1>2. 0 \in Sizes
  <2> SUFFICES ASSUME NEW T \in SUBSET S, Cardinality(T) = 0 PROVE T = {}
    OBVIOUS
  <2>1. IsFiniteSet(T)
    BY FS_Subset
  <2> QED BY <2>1, FS_EmptySet
<1>3. ASSUME NEW k \in 0 .. n - 1, k \in Sizes PROVE k + 1 \in Sizes
  <2> SUFFICES ASSUME NEW T \in SUBSET S, Cardinality(T) = k + 1, T # {} PROVE First(T)
    BY <1>1
  <2>1. PICK x \in T : TRUE
    OBVIOUS
  <2> DEFINE U == T \ {x}
  <2>2. IsFiniteSet(T)
    BY FS_Subset
  <2>3. Cardinality(U) = k
    <3>1. Cardinality(U) = Cardinality(T) - 1
      BY <2>2, FS_RemoveElement
    <3> QED BY <3>1
  <2>4. First(U)
    BY <1>3, <2>3
  <2>5. CASE U = {}
    BY <2>1, <2>5
  <2>6. CASE U # {}
    <3>1. PICK y \in U : \A z \in U \ {y} : <<y, z>> \in R
      BY <2>4, <2>6
    <3>2. x \in S /\ y \in S /\ x # y
      OBVIOUS
    <3>3. CASE <<y, x>> \in R
      <4>1. ASSUME NEW z \in T \ {y} PROVE <<y, z>> \in R
        BY <3>1, <3>3
      <4> QED BY <4>1
    <3>4. CASE <<x, y>> \in R
      <4>1. ASSUME NEW z \in T \ {x} PROVE <<x, z>> \in R
        <5>1. CASE z = y
          BY <3>4, <5>1
        <5>2. CASE z # y
          <6>1. <<y, z>> \in R /\ z \in S
            BY <3>1, <5>2
          <6> QED BY <3>2, <3>4, <6>1
        <5> QED BY <5>1, <5>2
      <4> QED BY <4>1
    <3> QED BY <3>2, <3>3, <3>4
  <2> QED BY <2>5, <2>6
<1> HIDE DEF Sizes
<1>4. n \in Sizes
  <2> HIDE DEF n
  <2>1. \A k \in 0 .. n : k \in Sizes
    BY <1>1, <1>2, <1>3, UpTo
  <2> QED BY <1>1, <2>1
<1>5. First(S)
  BY <1>4 DEF Sizes
<1> QED BY <1>5
=============================================================================
