----------------------------- MODULE LoopTheory -----------------------------
(***************************************************************************)
(* What a fold over a sequence computes, step by step.  FoldLeft is a      *)
(* recursion over the sets of positions of the sequence; its value is the  *)
(* last state of a run that starts in the base and applies Op to the       *)
(* elements in order, so that an invariant of the loop is proved by        *)
(* induction on the step (OrderTheory!UpTo).  A proof about one loop of    *)
(* the model instantiates this module with the loop's body for Op.         *)
(***************************************************************************)
EXTENDS OrderTheory

CONSTANT Op(_, _)      \* the body: the state before it and an element

\* FoldLeft(Op, base, seq), with the community modules' definitions expanded.
Looped(base, seq) ==
    LET iter[s \in SUBSET DOMAIN seq] ==
            IF s = {} THEN base
            ELSE LET x == CHOOSE x \in s : \A y \in s : x >= y IN Op(iter[s \ {x}], seq[x])
    IN  iter[DOMAIN seq]

\* The loop has a run, and ends in its last state.
THEOREM LoopRuns ==
  ASSUME NEW X, NEW base, NEW seq \in Seq(X)
  PROVE  \E run : /\ run[0] = base
                  /\ \A k \in 1 .. Len(seq) : run[k] = Op(run[k - 1], seq[k])
                  /\ run[Len(seq)] = Looped(base, seq)
<1> DEFINE n == Len(seq)
           Top(s) == CHOOSE x \in s : \A y \in s : x >= y
           Step(f, s) == IF s = {} THEN base ELSE Op(f[s \ {Top(s)}], seq[Top(s)])
           Small(k) == {s \in SUBSET (1 .. n) : Cardinality(s) <= k}
           Solves(f, k) == f = [s \in Small(k) |-> Step(f, s)]
           Sizes == {k \in Nat : \E f : Solves(f, k)}
<1>1. n \in Nat /\ DOMAIN seq = 1 .. n
  OBVIOUS
<1> HIDE DEF n
<1>2. ASSUME NEW s \in SUBSET (1 .. n)
      PROVE  IsFiniteSet(s) /\ Cardinality(s) \in Nat /\ Cardinality(s) <= n
             /\ (s # {} => /\ Top(s) \in s /\ s \ {Top(s)} \in SUBSET (1 .. n)
                           /\ \A y \in s : Top(s) >= y
                           /\ Cardinality(s \ {Top(s)}) = Cardinality(s) - 1)
             /\ (Cardinality(s) = 0 => s = {})
  <2>1. IsFiniteSet(1 .. n) /\ Cardinality(1 .. n) = n
    BY <1>1, FS_Interval
  <2>2. IsFiniteSet(s) /\ Cardinality(s) <= n
    BY <2>1, FS_Subset
  <2>3. Cardinality(s) \in Nat
    BY <2>2, FS_CardinalityType
  <2>4. ASSUME s # {} PROVE /\ Top(s) \in s /\ s \ {Top(s)} \in SUBSET (1 .. n)
                            /\ \A y \in s : Top(s) >= y
                            /\ Cardinality(s \ {Top(s)}) = Cardinality(s) - 1
    <3>1. s \in SUBSET Int
      OBVIOUS
    <3>2. Max(s) \in s /\ \A y \in s : Max(s) >= y
      BY <2>2, <2>4, <3>1, MaxOf
    <3>3. Top(s) \in s /\ \A y \in s : Top(s) >= y
      BY <3>2 DEF Max
    <3>4. Cardinality(s \ {Top(s)}) = Cardinality(s) - 1
      BY <2>2, <3>3, FS_RemoveElement
    <3> QED BY <3>3, <3>4
  <2>5. Cardinality(s) = 0 => s = {}
    BY <2>2, FS_EmptySet
  <2> QED BY <2>2, <2>3, <2>4, <2>5
<1> HIDE DEF Top
<1>3. 0 \in Sizes
  <2> DEFINE f == [s \in Small(0) |-> base]
  <2>1. \A s \in Small(0) : Step(f, s) = base
    BY <1>2
  <2>2. Solves(f, 0)
    BY <2>1
  <2> QED BY <2>2
<1>4. ASSUME NEW k \in 0 .. n - 1, k \in Sizes PROVE k + 1 \in Sizes
  <2>1. PICK f : Solves(f, k)
    BY <1>4
  <2> DEFINE g == [s \in Small(k + 1) |-> Step(f, s)]
  <2>2. ASSUME NEW s \in Small(k + 1) PROVE Step(f, s) = Step(g, s)
    <3>1. CASE s = {}
      BY <3>1
    <3>2. CASE s # {}
      <4> DEFINE t == s \ {Top(s)}
      <4>1. t \in SUBSET (1 .. n) /\ Cardinality(t) <= k
        BY <1>1, <1>2, <3>2
      <4>2. t \in Small(k) /\ t \in Small(k + 1)
        BY <1>1, <1>2, <4>1
      <4>3. f[t] = Step(f, t)
        BY <2>1, <4>2
      <4>4. g[t] = Step(f, t)
        BY <4>2
      <4> QED BY <3>2, <4>3, <4>4
    <3> QED BY <3>1, <3>2
  <2>3. Solves(g, k + 1)
    BY <2>2
  <2>4. k + 1 \in Nat
    BY <1>1
  <2> QED BY <2>3, <2>4
<1>5. n \in Sizes
  <2> HIDE DEF Sizes
  <2>1. \A k \in 0 .. n : k \in Sizes
    BY <1>1, <1>3, <1>4, UpTo
  <2> QED BY <1>1, <2>1
<1>6. PICK f : f = [s \in SUBSET (1 .. n) |-> Step(f, s)]
  <2>1. Small(n) = SUBSET (1 .. n)
    BY <1>2
  <2>2. PICK f : Solves(f, n)
    BY <1>5
  <2> QED BY <2>1, <2>2
<1> DEFINE iter == CHOOSE h : h = [s \in SUBSET (1 .. n) |-> Step(h, s)]
<1>7. iter = [s \in SUBSET (1 .. n) |-> Step(iter, s)]
  <2> HIDE DEF Step
  <2> QED BY <1>6
<1>8. Looped(base, seq) = iter[1 .. n]
  BY <1>1 DEF Looped, Top
<1> HIDE DEF iter
<1> DEFINE run == [k \in 0 .. n |-> iter[1 .. k]]
<1>9. run[0] = base
  <2>1. 1 .. 0 = {} /\ 0 \in 0 .. n
    BY <1>1
  <2>2. iter[{}] = base
    BY <1>7
  <2> QED BY <2>1, <2>2
<1>10. ASSUME NEW k \in 1 .. n PROVE run[k] = Op(run[k - 1], seq[k])
  <2>1. 1 .. k \in SUBSET (1 .. n) /\ k \in 1 .. k /\ k \in 0 .. n /\ k - 1 \in 0 .. n
    BY <1>1
  <2>2. Top(1 .. k) = k
    <3>1. 1 .. k # {}
      BY <2>1
    <3>2. Top(1 .. k) \in 1 .. k /\ Top(1 .. k) >= k
      BY <1>2, <2>1, <3>1
    <3> QED BY <1>1, <3>2
  <2>3. (1 .. k) \ {k} = 1 .. k - 1
    BY <1>1
  <2>4. iter[1 .. k] = Step(iter, 1 .. k)
    BY <1>7, <2>1
  <2>5. Step(iter, 1 .. k) = Op(iter[1 .. k - 1], seq[k])
    <3>1. 1 .. k # {}
      BY <2>1
    <3> QED BY <2>2, <2>3, <3>1
  <2> QED BY <2>1, <2>4, <2>5
<1>11. run[n] = Looped(base, seq)
  BY <1>1, <1>8
<1> HIDE DEF run
<1> QED BY <1>9, <1>10, <1>11 DEF n
=============================================================================
