------------------------------ MODULE Inductions ------------------------------
(* Induction without operators as parameters: least numbers, numbers reached    *)
(* one by one, and folds, whose step is given as a function.                    *)
EXTENDS Integers, Sequences, FiniteSetsExt, FiniteSetTheorems, WellFoundedInduction, TLAPS

\* A set of naturals that holds any holds a least one.
LEMMA LeastNumber ==
  ASSUME NEW T \in SUBSET Nat, T # {}
  PROVE  \E n \in T : \A m \in T : n <= m
<1>1. IsWellFoundedOn(OpToRel(<, Nat), Nat)
  BY NatLessThanWellFounded
<1>2. PICK n \in T : \A m \in T : ~(<<m, n>> \in OpToRel(<, Nat))
  BY <1>1, WFMin
<1>3. \A m \in T : ~(m < n)
  BY <1>2 DEF OpToRel
<1> QED
  BY <1>3

\* A set of numbers that holds 0 and, with each number below n, the next one, holds 0 .. n.
LEMMA UpTo ==
  ASSUME NEW n \in Nat, NEW Q, 0 \in Q, \A k \in 0 .. n - 1 : k \in Q => k + 1 \in Q
  PROVE  0 .. n \subseteq Q
<1> SUFFICES ASSUME NEW j \in 0 .. n, j \notin Q PROVE FALSE
  OBVIOUS
<1> DEFINE T == {k \in 0 .. n : k \notin Q}
<1>1. T # {} /\ T \in SUBSET Nat
  OBVIOUS
<1>2. PICK m \in T : \A k \in T : m <= k
  <2> HIDE DEF T
  <2> QED
    BY <1>1, LeastNumber
<1>3. m # 0 /\ m - 1 \in 0 .. n - 1
  BY <1>2
<1>4. m - 1 \in Q
  BY <1>2, <1>3
<1> QED
  BY <1>2, <1>3, <1>4

-----------------------------------------------------------------------------
(* Folds.                                                                   *)

LEMMA MaxIsIn ==
  ASSUME NEW n \in Nat, NEW s \in SUBSET (1 .. n), s # {}
  PROVE  Max(s) \in s
<1> DEFINE T == {n - i : i \in s}
<1>1. T # {} /\ T \in SUBSET Nat
  <2>1. \A i \in s : n - i \in Nat
    OBVIOUS
  <2>2. PICK i \in s : TRUE
    OBVIOUS
  <2> QED
    BY <2>1, <2>2
<1>2. PICK k \in T : \A m \in T : k <= m
  <2> HIDE DEF T
  <2> QED
    BY <1>1, LeastNumber
<1>3. PICK i \in s : k = n - i
  BY <1>2
<1>4. \A j \in s : i >= j
  <2> SUFFICES ASSUME NEW j \in s PROVE i >= j
    OBVIOUS
  <2>1. k <= n - j
    BY <1>2
  <2> QED
    BY <1>3, <2>1
<1> QED
  BY <1>4 DEF Max

LEMMA LastOfFirst ==
  ASSUME NEW k \in Nat \ {0}
  PROVE  Max(1 .. k) = k /\ (1 .. k) \ {Max(1 .. k)} = 1 .. k - 1 /\ 1 .. k # {}
<1>1. 1 .. k # {} /\ k \in 1 .. k
  OBVIOUS
<1>2. Max(1 .. k) \in 1 .. k /\ \A j \in 1 .. k : Max(1 .. k) >= j
  <2>1. \E i \in 1 .. k : \A j \in 1 .. k : i >= j
    BY <1>1
  <2> QED
    BY <2>1 DEF Max
<1>3. Max(1 .. k) = k
  BY <1>1, <1>2
<1> QED
  BY <1>1, <1>3

\* One step of the recursion FoldLeft is made of.
FoldStep(g, step, base, ws, n) ==
  [s \in SUBSET (1 .. n) |-> IF s = {} THEN base ELSE step[<<g[s \ {Max(s)}], ws[Max(s)]>>]]

\* A step from A and B to A folds a sequence over B, and g is what it makes of each
\* set of positions.
Foldable(A, B, step, base, ws) == step \in [A \X B -> A] /\ base \in A /\ ws \in Seq(B)
FoldsTo(g, A, step, base, ws) ==
  /\ g = FoldStep(g, step, base, ws, Len(ws))
  /\ \A s \in SUBSET (1 .. Len(ws)) : g[s] \in A

LEMMA FoldsExist ==
  ASSUME NEW A, NEW B, NEW step, NEW base, NEW ws, Foldable(A, B, step, base, ws)
  PROVE  \E g : FoldsTo(g, A, step, base, ws)
<1> DEFINE n == Len(ws)
           Next(g) == FoldStep(g, step, base, ws, n)
           Upto(g, m) == \A s \in SUBSET (1 .. n) : Cardinality(s) <= m => g[s] = Next(g)[s] /\ g[s] \in A
           Reached == {m \in 0 .. n : \E g : Upto(g, m)}
<1>0. n \in Nat /\ (\A i \in 1 .. n : ws[i] \in B) /\ base \in A /\ step \in [A \X B -> A]
  BY DEF Foldable
<1> HIDE DEF n
<1>1. ASSUME NEW s \in SUBSET (1 .. n)
      PROVE  IsFiniteSet(s) /\ Cardinality(s) \in Nat /\ Cardinality(s) <= n
  <2>1. IsFiniteSet(1 .. n) /\ Cardinality(1 .. n) = n
    <3>1. 1 \in Int /\ n \in Int
      BY <1>0
    <3>2. IsFiniteSet(1 .. n) /\ Cardinality(1 .. n) = IF 1 > n THEN 0 ELSE n - 1 + 1
      BY <3>1, FS_Interval
    <3> QED
      BY <1>0, <3>2
  <2>2. IsFiniteSet(s) /\ Cardinality(s) <= Cardinality(1 .. n)
    BY <2>1, FS_Subset
  <2> QED
    BY <2>1, <2>2, FS_CardinalityType
<1>2. 0 \in Reached
  <2>1. \A s \in SUBSET (1 .. n) : Cardinality(s) <= 0 => s = {}
    BY <1>1, FS_EmptySet
  <2> DEFINE g == [s \in SUBSET (1 .. n) |-> base]
  <2>2. Upto(g, 0)
    BY <1>0, <2>1 DEF FoldStep
  <2>3. 0 \in 0 .. n
    BY <1>0
  <2> HIDE DEF g, Upto
  <2> QED
    BY <2>2, <2>3
<1>3. ASSUME NEW m \in 0 .. n - 1, m \in Reached
      PROVE  m + 1 \in Reached
  <2>1. PICK g : Upto(g, m)
    BY <1>3
  <2> DEFINE h == Next(g)
  <2>2. ASSUME NEW s \in SUBSET (1 .. n), Cardinality(s) <= m + 1
        PROVE  h[s] = Next(h)[s] /\ h[s] \in A
    <3>1. CASE s = {}
      BY <1>0, <3>1 DEF FoldStep
    <3>2. CASE s # {}
      <4> DEFINE t == s \ {Max(s)}
      <4>1. Max(s) \in s /\ ws[Max(s)] \in B
        BY <1>0, <3>2, MaxIsIn
      <4>2. t \in SUBSET (1 .. n) /\ Cardinality(t) = Cardinality(s) - 1
        BY <1>1, <4>1, FS_RemoveElement
      <4>3. Cardinality(t) <= m
        BY <1>0, <1>1, <2>2, <4>2
      <4>4. g[t] = h[t] /\ g[t] \in A
        BY <2>1, <4>2, <4>3
      <4>5. h[s] = step[<<g[t], ws[Max(s)]>>] /\ Next(h)[s] = step[<<h[t], ws[Max(s)]>>]
        BY <3>2 DEF FoldStep
      <4>6. step[<<g[t], ws[Max(s)]>>] \in A
        BY <1>0, <4>1, <4>4
      <4> QED
        BY <4>4, <4>5, <4>6
    <3> QED
      BY <3>1, <3>2
  <2>3. Upto(h, m + 1)
    BY <2>2
  <2>4. m + 1 \in 0 .. n
    BY <1>0
  <2> HIDE DEF h, Upto
  <2> QED
    BY <2>3, <2>4
<1> HIDE DEF Reached
<1>4. n \in Reached
  <2>1. 0 .. n \subseteq Reached
    BY <1>0, <1>2, <1>3, UpTo
  <2> QED
    BY <1>0, <2>1
<1>5. PICK g : Upto(g, n)
  BY <1>4 DEF Reached
<1> DEFINE h == Next(g)
<1>6. \A s \in SUBSET (1 .. n) : g[s] = h[s] /\ g[s] \in A
  BY <1>1, <1>5
<1>7. h = Next(h)
  <2>1. ASSUME NEW s \in SUBSET (1 .. n) PROVE h[s] = Next(h)[s]
    <3>1. CASE s = {}
      BY <3>1 DEF FoldStep
    <3>2. CASE s # {}
      <4> DEFINE t == s \ {Max(s)}
      <4>1. t \in SUBSET (1 .. n)
        OBVIOUS
      <4>2. g[t] = h[t]
        BY <1>6, <4>1
      <4>3. h[s] = step[<<g[t], ws[Max(s)]>>] /\ Next(h)[s] = step[<<h[t], ws[Max(s)]>>]
        BY <3>2 DEF FoldStep
      <4> QED
        BY <4>2, <4>3
    <3> QED
      BY <3>1, <3>2
  <2> QED
    BY <2>1 DEF FoldStep
<1> HIDE DEF h
<1>8. \A s \in SUBSET (1 .. n) : h[s] \in A
  BY <1>6
<1> QED
  BY <1>7, <1>8 DEF n, FoldsTo
=============================================================================
