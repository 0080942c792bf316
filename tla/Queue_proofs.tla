---------------------------- MODULE Queue_proofs ----------------------------
(* Theorems about Queue: a pass over the marked sessions misses no pair that a   *)
(* pass over all would make, for any persons, servers, filters, ladder and       *)
(* delays.                                                                       *)
EXTENDS Queue, Inductions, SequenceTheorems, TLAPS

-----------------------------------------------------------------------------
(* Types.                                                                   *)

Queues == {q \in Seq(Person) : IsInjective(q)}
RelaxingEntry == [since : 0 .. Horizon, step : Held .. MaxStep, low : BOOLEAN]
QueueStore == [waiting : Queues, since : [Person -> 0 .. Horizon], filters : [Person -> Filters],
               rooms : SUBSET Pair, blocks : [Pair -> 0 .. Horizon + BlockTicks]]
QueueMemory == [dirty : SUBSET Person, relaxing : [Person -> RelaxingEntry],
                wakeAt : [Person -> 1 .. NoLapse], recheckCursor : 0 .. 2 * Cardinality(Person)]

\* The types; nobody is in the queue twice, and nobody waits since a later moment.
QueueTyped ==
  /\ store \in QueueStore /\ memory \in [Server -> QueueMemory]
  /\ low \subseteq Person /\ unmarked \subseteq ToSet(store.waiting)
  /\ open \in BOOLEAN /\ now \in 0 .. Horizon
  /\ \A p \in Person : store.since[p] <= now

LEMMA QueueConstants ==
  /\ RelaxTopics \in Nat /\ RelaxLanguage \in Nat /\ LowDelay \in Nat /\ BlockTicks \in Nat
  /\ Budget \in Nat /\ Horizon \in Nat
  /\ NoLapse = Horizon + BlockTicks + 1 /\ NoLapse \in Nat \ {0} /\ Held = -1 /\ MaxStep = 2
  /\ Cardinality(Person) \in Nat
BY QueueAssumption, FS_CardinalityType DEF NoLapse, Held, MaxStep

LEMMA UnknownType == Unknown \in RelaxingEntry
BY QueueConstants DEF Unknown, RelaxingEntry

LEMMA PairType ==
  ASSUME NEW a \in Person, NEW b \in Person, a # b
  PROVE  {a, b} \in Pair
<1>1. IsFiniteSet({a}) /\ Cardinality({a}) = 1
  BY FS_Singleton
<1>2. Cardinality({a} \cup {b}) = 2
  BY <1>1, FS_AddElement
<1>3. {a} \cup {b} = {a, b}
  OBVIOUS
<1> QED
  BY <1>2, <1>3 DEF Pair

LEMMA StepType ==
  ASSUME NEW w \in Int, NEW l \in BOOLEAN
  PROVE  RelaxStep(w, l) \in Held .. MaxStep
BY QueueConstants DEF RelaxStep

\* A ladder is climbed, never descended.
LEMMA StepGrows ==
  ASSUME NEW v \in Int, NEW w \in Int, NEW l \in BOOLEAN, v <= w
  PROVE  RelaxStep(v, l) <= RelaxStep(w, l)
BY QueueConstants DEF RelaxStep

LEMMA StepStarts ==
  ASSUME NEW w \in Nat
  PROVE  RelaxStep(w, FALSE) >= 0
BY QueueConstants DEF RelaxStep

LEMMA MinIsLeast ==
  ASSUME NEW S \in SUBSET Nat, S # {}
  PROVE  Min(S) \in S /\ \A x \in S : Min(S) <= x
<1>1. PICK n \in S : \A m \in S : n <= m
  BY LeastNumber
<1> QED
  BY <1>1 DEF Min

\* A queue holds nobody twice, so it is no longer than there are persons.
LEMMA QueueLength ==
  ASSUME NEW q \in Queues
  PROVE  Len(q) <= Cardinality(Person) /\ q \in SeqOf(Person, Cardinality(Person))
<1> DEFINE n == Len(q)
<1>1. n \in Nat /\ q \in [1 .. n -> Person] /\ \A i, j \in 1 .. n : q[i] = q[j] => i = j
  BY DEF Queues, IsInjective
<1>2. IsFiniteSet(1 .. n) /\ Cardinality(1 .. n) = n
  BY <1>1, FS_Interval
<1>3. q \in Injection(1 .. n, Person)
  BY <1>1 DEF Injection, IsInjective
<1>4. Cardinality(1 .. n) <= Cardinality(Person)
  BY <1>3, QueueAssumption, FS_Injection
<1>5. n <= Cardinality(Person)
  BY <1>2, <1>4
<1>6. n \in 0 .. Cardinality(Person)
  BY <1>1, <1>5, QueueConstants
<1> QED
  BY <1>1, <1>5, <1>6 DEF SeqOf

-----------------------------------------------------------------------------
(* A queue without some of its sessions.                                    *)

LEMMA WithoutFold ==
  ASSUME NEW q \in Seq(Person), NEW T
  PROVE  \E g : /\ g[1 .. 0] = <<>> /\ Without(q, T) = g[1 .. Len(q)]
                /\ \A k \in 1 .. Len(q) :
                     g[1 .. k] = IF q[k] \in T THEN g[1 .. k - 1] ELSE Append(g[1 .. k - 1], q[k])
<1> DEFINE n == Len(q)
           step == [x \in Seq(Person) \X Person |-> IF x[2] \in T THEN x[1] ELSE Append(x[1], x[2])]
           Op(f) == [s \in SUBSET (1 .. n) |->
                       IF s = {} THEN <<>>
                       ELSE IF q[Max(s)] \in T THEN f[s \ {Max(s)}] ELSE Append(f[s \ {Max(s)}], q[Max(s)])]
           it == CHOOSE f : f = Op(f)
<1>1. n \in Nat /\ DOMAIN q = 1 .. n
  OBVIOUS
<1>2. step \in [Seq(Person) \X Person -> Seq(Person)] /\ <<>> \in Seq(Person)
  OBVIOUS
<1>3. PICK f : f = FoldStep(f, step, <<>>, q, Len(q)) /\ \A s \in SUBSET (1 .. Len(q)) : f[s] \in Seq(Person)
  <2>1. Foldable(Seq(Person), Person, step, <<>>, q)
    BY <1>2 DEF Foldable
  <2>2. \E f : FoldsTo(f, Seq(Person), step, <<>>, q)
    BY <2>1, FoldsExist
  <2> QED
    BY <2>2 DEF FoldsTo
<1>4. f = Op(f)
  <2>1. ASSUME NEW s \in SUBSET (1 .. n), s # {}
        PROVE  step[<<f[s \ {Max(s)}], q[Max(s)]>>] =
                 IF q[Max(s)] \in T THEN f[s \ {Max(s)}] ELSE Append(f[s \ {Max(s)}], q[Max(s)])
    <3>1. Max(s) \in 1 .. n
      BY <1>1, <2>1, MaxIsIn
    <3>2. q[Max(s)] \in Person /\ f[s \ {Max(s)}] \in Seq(Person)
      BY <1>3, <3>1
    <3> QED
      BY <3>2
  <2> HIDE DEF step
  <2> QED
    BY <1>3, <2>1 DEF FoldStep
<1>5. it = Op(it)
  BY <1>4
<1>6. Without(q, T) = it[1 .. n]
  BY <1>1 DEF Without, FoldLeft, MapThenFoldSet
<1> HIDE DEF it
<1>7. it[1 .. 0] = <<>>
  <2>1. 1 .. 0 = {}
    OBVIOUS
  <2> QED
    BY <1>5, <2>1
<1>8. ASSUME NEW k \in 1 .. n
      PROVE  it[1 .. k] = IF q[k] \in T THEN it[1 .. k - 1] ELSE Append(it[1 .. k - 1], q[k])
  <2>1. k \in Nat \ {0} /\ 1 .. k \in SUBSET (1 .. n)
    BY <1>1
  <2>2. Max(1 .. k) = k /\ (1 .. k) \ {Max(1 .. k)} = 1 .. k - 1 /\ 1 .. k # {}
    BY <2>1, LastOfFirst
  <2> QED
    BY <1>5, <2>1, <2>2
<1> QED
  BY <1>6, <1>7, <1>8

\* What is left of the first k of a queue without T.
RestOf(q, T, k, rest) ==
  /\ rest \in Seq(Person)
  /\ ToSet(rest) = {q[i] : i \in 1 .. k} \ T
  /\ IsInjective(q) => IsInjective(rest)

LEMMA AppendSet ==
  ASSUME NEW q \in Seq(Person), NEW p \in Person
  PROVE  /\ Append(q, p) \in Seq(Person) /\ ToSet(Append(q, p)) = ToSet(q) \cup {p}
         /\ IsInjective(q) /\ p \notin ToSet(q) => IsInjective(Append(q, p))
<1> DEFINE n == Len(q)
           r == Append(q, p)
<1>1. n \in Nat /\ DOMAIN q = 1 .. n
  OBVIOUS
<1>2. /\ r \in Seq(Person) /\ DOMAIN r = (1 .. n) \cup {n + 1}
      /\ r[n + 1] = p /\ \A i \in 1 .. n : r[i] = q[i]
  OBVIOUS
<1>3. ToSet(r) = ToSet(q) \cup {p}
  <2> HIDE DEF n, r
  <2> QED
    BY <1>1, <1>2 DEF ToSet
<1>4. IsInjective(q) /\ p \notin ToSet(q) => IsInjective(r)
  <2> HIDE DEF n, r
  <2> QED
    BY <1>1, <1>2 DEF ToSet, IsInjective
<1> QED
  BY <1>2, <1>3, <1>4

LEMMA ConcatSet ==
  ASSUME NEW q \in Seq(Person), NEW o \in Seq(Person)
  PROVE  /\ q \o o \in Seq(Person) /\ ToSet(q \o o) = ToSet(q) \cup ToSet(o)
         /\ IsInjective(q) /\ IsInjective(o) /\ ToSet(q) \cap ToSet(o) = {} => IsInjective(q \o o)
<1> DEFINE n == Len(q)
           l == Len(o)
           r == q \o o
<1>1. n \in Nat /\ DOMAIN q = 1 .. n /\ l \in Nat /\ DOMAIN o = 1 .. l
  OBVIOUS
<1>2. /\ r \in Seq(Person) /\ DOMAIN r = 1 .. n + l
      /\ \A i \in 1 .. n : r[i] = q[i]
      /\ \A i \in n + 1 .. n + l : r[i] = o[i - n]
  OBVIOUS
<1> HIDE DEF n, l, r
<1>3. ToSet(r) = ToSet(q) \cup ToSet(o)
  <2>1. ASSUME NEW x \in ToSet(r) PROVE x \in ToSet(q) \cup ToSet(o)
    <3>1. PICK i \in 1 .. n + l : x = r[i]
      BY <1>2, <2>1 DEF ToSet
    <3>2. i \in 1 .. n \/ (i \in n + 1 .. n + l /\ i - n \in 1 .. l)
      BY <1>1
    <3> QED
      BY <1>1, <1>2, <3>1, <3>2 DEF ToSet
  <2>2. ASSUME NEW x \in ToSet(q) PROVE x \in ToSet(r)
    <3>1. PICK i \in 1 .. n : x = q[i]
      BY <1>1, <2>2 DEF ToSet
    <3>2. i \in 1 .. n + l
      BY <1>1
    <3> QED
      BY <1>2, <3>1, <3>2 DEF ToSet
  <2>3. ASSUME NEW x \in ToSet(o) PROVE x \in ToSet(r)
    <3>1. PICK i \in 1 .. l : x = o[i]
      BY <1>1, <2>3 DEF ToSet
    <3> DEFINE k == n + i
    <3>2. k \in n + 1 .. n + l /\ k - n = i /\ k \in 1 .. n + l
      BY <1>1
    <3> HIDE DEF k
    <3>3. r[k] = x
      BY <1>2, <3>1, <3>2
    <3> QED
      BY <1>2, <3>2, <3>3 DEF ToSet
  <2> QED
    BY <2>1, <2>2, <2>3
<1>4. ASSUME IsInjective(q), IsInjective(o), ToSet(q) \cap ToSet(o) = {} PROVE IsInjective(r)
  <2>1. ASSUME NEW i \in 1 .. n + l, NEW j \in 1 .. n + l, r[i] = r[j] PROVE i = j
    <3>1. \A k \in 1 .. n + l : \/ k \in 1 .. n /\ r[k] = q[k] /\ r[k] \in ToSet(q)
                                \/ k - n \in 1 .. l /\ r[k] = o[k - n] /\ r[k] \in ToSet(o)
      <4>1. ASSUME NEW k \in 1 .. n + l
            PROVE  k \in 1 .. n \/ (k \in n + 1 .. n + l /\ k - n \in 1 .. l)
        BY <1>1
      <4> QED
        BY <1>1, <1>2, <4>1 DEF ToSet
    <3>2. \/ i \in 1 .. n /\ j \in 1 .. n /\ q[i] = q[j]
          \/ i - n \in 1 .. l /\ j - n \in 1 .. l /\ o[i - n] = o[j - n]
      BY <1>4, <2>1, <3>1
    <3>3. CASE i \in 1 .. n /\ j \in 1 .. n /\ q[i] = q[j]
      BY <1>1, <1>4, <3>3 DEF IsInjective
    <3>4. CASE i - n \in 1 .. l /\ j - n \in 1 .. l /\ o[i - n] = o[j - n]
      <4>1. i - n = j - n
        BY <1>1, <1>4, <3>4 DEF IsInjective
      <4> QED
        BY <1>1, <4>1
    <3> QED
      BY <3>2, <3>3, <3>4
  <2> QED
    BY <1>2, <2>1 DEF IsInjective
<1> QED
  BY <1>2, <1>3, <1>4 DEF r

LEMMA WithoutIs ==
  ASSUME NEW q \in Seq(Person), NEW T
  PROVE  /\ Without(q, T) \in Seq(Person) /\ ToSet(Without(q, T)) = ToSet(q) \ T
         /\ IsInjective(q) => IsInjective(Without(q, T))
<1> DEFINE n == Len(q)
<1>1. PICK g : /\ g[1 .. 0] = <<>> /\ Without(q, T) = g[1 .. Len(q)]
               /\ \A k \in 1 .. Len(q) :
                    g[1 .. k] = IF q[k] \in T THEN g[1 .. k - 1] ELSE Append(g[1 .. k - 1], q[k])
  BY WithoutFold
<1> DEFINE Reached == {k \in 0 .. n : RestOf(q, T, k, g[1 .. k])}
<1>2. n \in Nat /\ DOMAIN q = 1 .. n
  OBVIOUS
<1>3. 0 \in Reached
  <2>1. 1 .. 0 = {} /\ <<>> \in Seq(Person) /\ ToSet(<<>>) = {} /\ IsInjective(<<>>)
    BY DEF ToSet, IsInjective
  <2>2. RestOf(q, T, 0, <<>>)
    BY <2>1 DEF RestOf
  <2> QED
    BY <1>1, <1>2, <2>2
<1>4. ASSUME NEW k \in 0 .. n - 1, k \in Reached
      PROVE  k + 1 \in Reached
  <2> DEFINE h == g[1 .. k]
  <2>1. RestOf(q, T, k, h)
    BY <1>4
  <2>2. k + 1 \in 1 .. n /\ k + 1 - 1 = k /\ 1 .. k + 1 = (1 .. k) \cup {k + 1} /\ k + 1 \notin 1 .. k
    BY <1>2
  <2>3. g[1 .. k + 1] = IF q[k + 1] \in T THEN h ELSE Append(h, q[k + 1])
    BY <1>1, <2>2
  <2> HIDE DEF h
  <2>4. {q[i] : i \in 1 .. k + 1} = {q[i] : i \in 1 .. k} \cup {q[k + 1]}
    BY <2>2
  <2>5. RestOf(q, T, k + 1, g[1 .. k + 1])
    <3>1. CASE q[k + 1] \in T
      BY <2>1, <2>3, <2>4, <3>1 DEF RestOf
    <3>2. CASE q[k + 1] \notin T
      <4>1. q[k + 1] \in Person /\ h \in Seq(Person)
        BY <2>1, <2>2 DEF RestOf
      <4>2. Append(h, q[k + 1]) \in Seq(Person) /\ ToSet(Append(h, q[k + 1])) = ToSet(h) \cup {q[k + 1]}
        BY <4>1, AppendSet
      <4>3. ASSUME IsInjective(q) PROVE IsInjective(Append(h, q[k + 1]))
        <5>1. q[k + 1] \notin {q[i] : i \in 1 .. k}
          BY <1>2, <2>2, <4>3 DEF IsInjective
        <5>2. IsInjective(h) /\ q[k + 1] \notin ToSet(h)
          BY <2>1, <4>3, <5>1 DEF RestOf
        <5> QED
          BY <4>1, <5>2, AppendSet
      <4> QED
        BY <2>1, <2>3, <2>4, <3>2, <4>2, <4>3 DEF RestOf
    <3> QED
      BY <3>1, <3>2
  <2> QED
    BY <2>2, <2>5
<1>5. 0 .. n \subseteq Reached
  <2> HIDE DEF Reached, n
  <2> QED
    BY <1>2, <1>3, <1>4, UpTo
<1>6. RestOf(q, T, n, Without(q, T))
  BY <1>1, <1>2, <1>5
<1> QED
  BY <1>2, <1>6 DEF RestOf, ToSet

LEMMA WithoutQueue ==
  ASSUME NEW q \in Queues, NEW T
  PROVE  Without(q, T) \in Queues /\ ToSet(Without(q, T)) = ToSet(q) \ T
BY WithoutIs DEF Queues

-----------------------------------------------------------------------------
(* The pass.                                                                *)

PlansOver(s) == [rooms : SUBSET Pair, taken : SUBSET ToSet(s.waiting), wake : [Person -> 1 .. NoLapse]]

\* Two who could meet but for a block, and are both still free.
Misses(s, focus, plan, a, b) ==
  /\ {a, b} \cap plan.taken = {} /\ {a, b} \cap focus # {} /\ Suits(s, a, b)

\* The first k of the queue have looked behind them: who is still free waits for a
\* block to lapse, and will be woken by then.
Sought(s, focus, wake, k, plan) ==
  /\ plan \in PlansOver(s)
  /\ \A p \in Person : plan.wake[p] <= wake[p]
  /\ \A i \in 1 .. k : \A j \in i + 1 .. Len(s.waiting) :
       LET a == s.waiting[i]
           b == s.waiting[j]
       IN  Misses(s, focus, plan, a, b) => s.blocks[{a, b}] > now /\ plan.wake[a] <= s.blocks[{a, b}]

LEMMA SuitsStep ==
  ASSUME NEW s, NEW a, NEW b, Suits(s, a, b)
  PROVE  a # b /\ StepOf(s, a) # Held
BY DEF Suits, IsCompatible, MeetsPreferences, PairStep, Held, MaxStep

LEMMA SuitsIsSymmetric ==
  ASSUME NEW s, NEW a, NEW b, Suits(s, a, b)
  PROVE  Suits(s, b, a)
<1>1. PairStep(StepOf(s, a), StepOf(s, b)) = PairStep(StepOf(s, b), StepOf(s, a))
  <2>1. {StepOf(s, a), StepOf(s, b)} = {StepOf(s, b), StepOf(s, a)}
    OBVIOUS
  <2> QED
    BY <2>1 DEF PairStep
<1>2. IsCompatible(s, b, a)
  BY DEF Suits, IsCompatible
<1>3. \A step : MeetsPreferences(s, a, b, step) => MeetsPreferences(s, b, a, step)
  BY DEF MeetsPreferences
<1>4. MeetsPreferences(s, b, a, PairStep(StepOf(s, a), StepOf(s, b)))
  BY <1>3 DEF Suits
<1> QED
  BY <1>1, <1>2, <1>4 DEF Suits

LEMMA SeekIs ==
  ASSUME NEW s \in QueueStore, NEW focus, NEW k \in 1 .. Len(s.waiting), NEW plan \in PlansOver(s),
         now \in 0 .. Horizon
  PROVE  LET a == s.waiting[k]
             b(j) == s.waiting[j]
             to == Seek(s, focus, plan, k)
             sees(j) == b(j) \notin plan.taken /\ {a, b(j)} \cap focus # {} /\ Suits(s, a, b(j))
         IN  /\ to \in PlansOver(s) /\ plan.taken \subseteq to.taken
             /\ \A p \in Person : to.wake[p] <= plan.wake[p]
             /\ \A j \in k + 1 .. Len(s.waiting) :
                  a \notin to.taken /\ sees(j) => s.blocks[{a, b(j)}] > now /\ to.wake[a] <= s.blocks[{a, b(j)}]
<1> DEFINE n == Len(s.waiting)
           a == s.waiting[k]
           at(j) == s.waiting[j]
           block(j) == s.blocks[{a, at(j)}]
           behind == {j \in k + 1 .. n : at(j) \notin plan.taken /\ {a, at(j)} \cap focus # {} /\ Suits(s, a, at(j))}
           found == {j \in behind : block(j) <= now}
           met == {j \in behind \ found : \A i \in found : j < i}
           partner == {at(j) : j \in {i \in found : i = Min(found)}}
           to == Seek(s, focus, plan, k)
<1>1. n \in Nat /\ \A j \in 1 .. n : at(j) \in Person /\ at(j) \in ToSet(s.waiting)
  BY DEF QueueStore, Queues, ToSet
<1>2. to = IF a \in plan.taken \/ StepOf(s, a) = Held THEN plan
           ELSE [rooms |-> plan.rooms \cup {{a, b} : b \in partner},
                 taken |-> plan.taken \cup partner \cup (IF partner = {} THEN {} ELSE {a}),
                 wake |-> [plan.wake EXCEPT ![a] = Min({@} \cup {block(j) : j \in met})]]
  BY DEF Seek
<1>3. behind \subseteq 1 .. n /\ a \in Person /\ a \in ToSet(s.waiting)
  BY <1>1
<1>4. ASSUME NEW j \in behind
      PROVE  /\ at(j) \in Person /\ at(j) \in ToSet(s.waiting) /\ a # at(j) /\ StepOf(s, a) # Held
             /\ {a, at(j)} \in Pair /\ block(j) \in 0 .. Horizon + BlockTicks
  <2>1. at(j) \in Person /\ at(j) \in ToSet(s.waiting) /\ a # at(j) /\ StepOf(s, a) # Held
    BY <1>1, <1>3, <1>4, SuitsStep
  <2>2. {a, at(j)} \in Pair
    BY <1>3, <2>1, PairType
  <2> QED
    BY <2>1, <2>2 DEF QueueStore
<1>5. \A j \in met : block(j) \in 1 .. NoLapse
  <2>1. ASSUME NEW j \in met PROVE block(j) \in 1 .. NoLapse
    <3>1. j \in behind /\ ~(block(j) <= now)
      OBVIOUS
    <3>2. block(j) \in 0 .. Horizon + BlockTicks
      BY <1>4, <3>1
    <3> HIDE DEF block
    <3> QED
      BY <3>1, <3>2, QueueConstants
  <2> QED
    BY <2>1
<1>6. partner \subseteq ToSet(s.waiting) /\ {{a, b} : b \in partner} \subseteq Pair
  <2>1. \A b \in partner : b \in ToSet(s.waiting) /\ {a, b} \in Pair
    BY <1>4
  <2> HIDE DEF partner
  <2> QED
    BY <2>1
<1>7. found # {} => partner # {}
  <2> SUFFICES ASSUME found # {} PROVE partner # {}
    OBVIOUS
  <2>1. found \in SUBSET Nat
    BY <1>1, <1>3
  <2>2. Min(found) \in found
    <3> HIDE DEF found
    <3> QED
      BY <2>1, MinIsLeast
  <2> QED
    BY <2>2
<1> DEFINE seen == {plan.wake[a]} \cup {block(j) : j \in met}
<1>8. /\ plan.rooms \subseteq Pair /\ plan.taken \subseteq ToSet(s.waiting)
      /\ plan.wake \in [Person -> 1 .. NoLapse] /\ plan.wake[a] \in 1 .. NoLapse
  BY <1>3 DEF PlansOver
<1>9. seen \subseteq 1 .. NoLapse
  <2> HIDE DEF met, block
  <2> QED
    BY <1>5, <1>8
<1>10. Min(seen) \in seen /\ \A x \in seen : Min(seen) <= x
  <2>1. seen \in SUBSET Nat /\ seen # {}
    <3> HIDE DEF seen
    <3>1. seen \in SUBSET Nat
      BY <1>9, QueueConstants
    <3> QED
      BY <3>1 DEF seen
  <2> HIDE DEF seen
  <2> QED
    BY <2>1, MinIsLeast
<1>11. Min(seen) \in 1 .. NoLapse /\ Min(seen) <= plan.wake[a] /\ \A j \in met : Min(seen) <= block(j)
  <2>1. plan.wake[a] \in seen /\ \A j \in met : block(j) \in seen
    OBVIOUS
  <2> HIDE DEF seen, met, block
  <2> QED
    BY <1>9, <1>10, <2>1
<1>12. \A p \in Person : plan.wake[p] <= plan.wake[p]
  BY <1>8, QueueConstants
<1> HIDE DEF to, partner, found, met, seen
<1>13. CASE a \in plan.taken \/ StepOf(s, a) = Held
  <2>1. to = plan
    BY <1>2, <1>13
  <2>2. \A j \in k + 1 .. n : ~(a \notin plan.taken /\ j \in behind)
    BY <1>4, <1>13
  <2> QED
    BY <1>12, <2>1, <2>2 DEF to
<1>14. CASE ~(a \in plan.taken \/ StepOf(s, a) = Held)
  <2>1. /\ to.rooms = plan.rooms \cup {{a, b} : b \in partner}
        /\ to.taken = plan.taken \cup partner \cup (IF partner = {} THEN {} ELSE {a})
        /\ to.wake = [plan.wake EXCEPT ![a] = Min(seen)]
        /\ to = [rooms |-> to.rooms, taken |-> to.taken, wake |-> to.wake]
    BY <1>2, <1>14 DEF seen
  <2>2. to.wake \in [Person -> 1 .. NoLapse]
    BY <1>3, <1>8, <1>11, <2>1
  <2>3. to \in PlansOver(s)
    BY <1>3, <1>6, <1>8, <2>1, <2>2 DEF PlansOver
  <2>4. \A p \in Person : to.wake[p] <= plan.wake[p]
    BY <1>3, <1>8, <1>11, <1>12, <2>1
  <2>5. ASSUME NEW j \in behind, a \notin to.taken
        PROVE  block(j) > now /\ to.wake[a] <= block(j)
    <3>1. found = {}
      BY <1>7, <2>1, <2>5
    <3>2. j \in met /\ ~(block(j) <= now)
      BY <2>5, <3>1 DEF found, met
    <3>3. to.wake[a] = Min(seen)
      BY <1>3, <1>8, <2>1
    <3>4. block(j) \in 0 .. Horizon + BlockTicks
      BY <1>4, <2>5
    <3>5. to.wake[a] <= block(j)
      <4> HIDE DEF block
      <4> QED
        BY <1>11, <3>2, <3>3
    <3>6. block(j) > now
      <4> DEFINE u == block(j)
      <4>1. u \in 0 .. Horizon + BlockTicks /\ ~(u <= now)
        BY <3>2, <3>4
      <4> HIDE DEF u
      <4>2. u > now
        BY <4>1, QueueConstants
      <4> QED
        BY <4>2 DEF u
    <3> QED
      BY <3>5, <3>6
  <2> QED
    BY <2>1, <2>3, <2>4, <2>5 DEF to
<1> QED
  BY <1>13, <1>14

LEMMA SeekKeeps ==
  ASSUME NEW s \in QueueStore, NEW focus, NEW wake \in [Person -> 1 .. NoLapse], NEW k \in 1 .. Len(s.waiting),
         NEW plan, Sought(s, focus, wake, k - 1, plan), now \in 0 .. Horizon
  PROVE  Sought(s, focus, wake, k, Seek(s, focus, plan, k))
<1> DEFINE n == Len(s.waiting)
           q(i) == s.waiting[i]
           to == Seek(s, focus, plan, k)
           Asked(p, i, j) == /\ Misses(s, focus, p, q(i), q(j))
                             /\ ~(s.blocks[{q(i), q(j)}] > now /\ p.wake[q(i)] <= s.blocks[{q(i), q(j)}])
<1>1. n \in Nat /\ \A i \in 1 .. n : q(i) \in Person
  BY DEF QueueStore, Queues
<1>2. plan \in PlansOver(s) /\ (\A p \in Person : plan.wake[p] <= wake[p])
      /\ \A i \in 1 .. k - 1 : \A j \in i + 1 .. n : ~Asked(plan, i, j)
  BY DEF Sought
<1>3. /\ to \in PlansOver(s) /\ plan.taken \subseteq to.taken
      /\ \A p \in Person : to.wake[p] <= plan.wake[p]
      /\ \A j \in k + 1 .. n :
           q(k) \notin to.taken /\ q(j) \notin plan.taken /\ {q(k), q(j)} \cap focus # {} /\ Suits(s, q(k), q(j))
             => s.blocks[{q(k), q(j)}] > now /\ to.wake[q(k)] <= s.blocks[{q(k), q(j)}]
  BY <1>2, SeekIs
<1>4. \A p \in Person : to.wake[p] \in Int /\ plan.wake[p] \in Int /\ wake[p] \in Int
  BY <1>2, <1>3, QueueConstants DEF PlansOver
<1> HIDE DEF to
<1>5. \A p \in Person : to.wake[p] <= wake[p]
  BY <1>2, <1>3, <1>4
<1>6. ASSUME NEW i \in 1 .. k, NEW j \in i + 1 .. n, Asked(to, i, j)
      PROVE  FALSE
  <2>1. /\ {q(i), q(j)} \cap to.taken = {} /\ {q(i), q(j)} \cap focus # {} /\ Suits(s, q(i), q(j))
        /\ {q(i), q(j)} \cap plan.taken = {}
    BY <1>3, <1>6 DEF Misses
  <2>2. CASE i = k
    BY <1>3, <1>6, <2>1, <2>2
  <2>3. CASE i # k
    <3>1. i \in 1 .. k - 1 /\ q(i) \in Person /\ q(j) \in Person
      BY <1>1, <2>3
    <3>2. q(i) # q(j)
      BY <2>1, SuitsStep
    <3>3. s.blocks[{q(i), q(j)}] \in Int
      <4>1. s.blocks[{q(i), q(j)}] \in 0 .. Horizon + BlockTicks
        BY <3>1, <3>2, PairType DEF QueueStore
      <4> DEFINE u == s.blocks[{q(i), q(j)}]
      <4> HIDE DEF u
      <4>2. u \in 0 .. Horizon + BlockTicks => u \in Int
        BY QueueConstants
      <4> QED
        BY <4>1, <4>2 DEF u
    <3>4. s.blocks[{q(i), q(j)}] > now /\ plan.wake[q(i)] <= s.blocks[{q(i), q(j)}]
      BY <1>2, <2>1, <3>1 DEF Misses
    <3>5. to.wake[q(i)] <= s.blocks[{q(i), q(j)}]
      <4> DEFINE u == s.blocks[{q(i), q(j)}]
                 v == plan.wake[q(i)]
                 w == to.wake[q(i)]
      <4>1. u \in Int /\ v \in Int /\ w \in Int /\ w <= v /\ v <= u
        BY <1>3, <1>4, <3>1, <3>3, <3>4
      <4> HIDE DEF u, v, w
      <4>2. w <= u
        BY <4>1
      <4> QED
        BY <4>2 DEF u, w
    <3> QED
      BY <1>6, <3>4, <3>5
  <2> QED
    BY <2>2, <2>3
<1>7. \A i \in 1 .. k : \A j \in i + 1 .. n : ~Asked(to, i, j)
  BY <1>6
<1> QED
  BY <1>3, <1>5, <1>7 DEF Sought, to

\* g holds the plan after each number of seekers.
GrowingPlan(s, focus, wake, g) ==
  /\ g[1 .. 0] = {[rooms |-> {}, taken |-> {}, wake |-> wake]}
  /\ Plans(s, focus, wake) = g[1 .. Len(s.waiting)]
  /\ \A k \in 1 .. Len(s.waiting) : g[1 .. k] = {Seek(s, focus, plan, k) : plan \in g[1 .. k - 1]}

LEMMA PlansFold ==
  ASSUME NEW s \in QueueStore, NEW focus, NEW wake, wake \in [Person -> 1 .. NoLapse], now \in 0 .. Horizon
  PROVE  \E g : GrowingPlan(s, focus, wake, g)
<1> DEFINE n == Len(s.waiting)
           ws == [i \in 1 .. n |-> i]
           base == {[rooms |-> {}, taken |-> {}, wake |-> wake]}
           A == SUBSET PlansOver(s)
           Ahead(plans, k) == {Seek(s, focus, plan, k) : plan \in plans}
           step == [x \in A \X (1 .. n) |-> Ahead(x[1], x[2])]
           Op(f) == [t \in SUBSET (1 .. n) |-> IF t = {} THEN base ELSE Ahead(f[t \ {Max(t)}], ws[Max(t)])]
           it == CHOOSE f : f = Op(f)
<1>1. n \in Nat /\ ws \in Seq(1 .. n) /\ Len(ws) = n /\ DOMAIN ws = 1 .. n
  BY DEF QueueStore, Queues
<1>2. Foldable(A, 1 .. n, step, base, ws)
  <2>1. ASSUME NEW plans \in A, NEW k \in 1 .. n PROVE Ahead(plans, k) \in A
    <3>1. \A plan \in plans : Seek(s, focus, plan, k) \in PlansOver(s)
      BY SeekIs
    <3> QED
      BY <3>1
  <2>2. base \in A
    BY DEF PlansOver
  <2> HIDE DEF A, Ahead, n, base, ws
  <2>3. step \in [A \X (1 .. n) -> A]
    BY <2>1
  <2> HIDE DEF step
  <2> QED
    BY <1>1, <2>2, <2>3 DEF Foldable
<1>3. PICK f : FoldsTo(f, A, step, base, ws)
  <2> HIDE DEF A, step, base, ws, n
  <2> QED
    BY <1>2, FoldsExist
<1>4. f = FoldStep(f, step, base, ws, n) /\ \A t \in SUBSET (1 .. n) : f[t] \in A
  BY <1>1, <1>3 DEF FoldsTo
<1>5. f = Op(f)
  <2>1. ASSUME NEW t \in SUBSET (1 .. n), t # {}
        PROVE  step[<<f[t \ {Max(t)}], ws[Max(t)]>>] = Ahead(f[t \ {Max(t)}], ws[Max(t)])
    <3>1. Max(t) \in 1 .. n
      BY <1>1, <2>1, MaxIsIn
    <3>2. ws[Max(t)] \in 1 .. n /\ f[t \ {Max(t)}] \in A
      BY <1>4, <3>1
    <3> HIDE DEF A, ws, Ahead, n
    <3> QED
      BY <3>2
  <2> HIDE DEF step, ws, base, Ahead, n
  <2> QED
    BY <1>4, <2>1 DEF FoldStep
<1>6. it = Op(it)
  <2> HIDE DEF Op
  <2> QED
    BY <1>5
<1>7. Plans(s, focus, wake) = it[1 .. n]
  BY <1>1 DEF Plans, FoldLeft, MapThenFoldSet
<1> HIDE DEF it
<1>8. it[1 .. 0] = base
  <2>1. 1 .. 0 = {}
    OBVIOUS
  <2> HIDE DEF base, Ahead, ws
  <2> QED
    BY <1>6, <2>1
<1>9. ASSUME NEW k \in 1 .. n
      PROVE  it[1 .. k] = Ahead(it[1 .. k - 1], k)
  <2>1. k \in Nat \ {0} /\ 1 .. k \in SUBSET (1 .. n) /\ ws[k] = k
    BY <1>1
  <2>2. Max(1 .. k) = k /\ (1 .. k) \ {Max(1 .. k)} = 1 .. k - 1 /\ 1 .. k # {}
    BY <2>1, LastOfFirst
  <2>3. it[1 .. k] = IF 1 .. k = {} THEN base ELSE Ahead(it[(1 .. k) \ {Max(1 .. k)}], ws[Max(1 .. k)])
    <3> HIDE DEF base, Ahead, ws
    <3> QED
      BY <1>6, <2>1
  <2> HIDE DEF Ahead, ws
  <2> QED
    BY <2>1, <2>2, <2>3
<1> QED
  BY <1>7, <1>8, <1>9 DEF GrowingPlan

\* What a pass plans.
LEMMA PassIs ==
  ASSUME NEW s \in QueueStore, NEW focus, NEW wake \in [Person -> 1 .. NoLapse], now \in 0 .. Horizon,
         NEW plan \in Plans(s, focus, wake)
  PROVE  Sought(s, focus, wake, Len(s.waiting), plan)
<1> DEFINE n == Len(s.waiting)
           first == [rooms |-> {}, taken |-> {}, wake |-> wake]
<1>1. n \in Nat
  BY DEF QueueStore, Queues
<1>2. PICK g : /\ g[1 .. 0] = {first} /\ Plans(s, focus, wake) = g[1 .. n]
               /\ \A k \in 1 .. n : g[1 .. k] = {Seek(s, focus, p, k) : p \in g[1 .. k - 1]}
  <2>1. \E g : GrowingPlan(s, focus, wake, g)
    BY PlansFold
  <2> QED
    BY <2>1 DEF GrowingPlan
<1> DEFINE Reached == {k \in 0 .. n : \A p \in g[1 .. k] : Sought(s, focus, wake, k, p)}
<1>3. 0 \in Reached
  <2>1. first \in PlansOver(s) /\ \A p \in Person : first.wake[p] <= wake[p]
    BY QueueConstants DEF PlansOver
  <2>2. Sought(s, focus, wake, 0, first)
    BY <2>1 DEF Sought
  <2>3. 0 \in 0 .. n
    BY <1>1
  <2> HIDE DEF first
  <2> QED
    BY <1>2, <2>2, <2>3
<1>4. ASSUME NEW k \in 0 .. n - 1, k \in Reached PROVE k + 1 \in Reached
  <2>1. k + 1 \in 1 .. n /\ k + 1 - 1 = k
    BY <1>1
  <2>2. \A p \in g[1 .. k] : Sought(s, focus, wake, k + 1, Seek(s, focus, p, k + 1))
    <3> SUFFICES ASSUME NEW p \in g[1 .. k] PROVE Sought(s, focus, wake, k + 1, Seek(s, focus, p, k + 1))
      OBVIOUS
    <3>1. Sought(s, focus, wake, k + 1 - 1, p)
      BY <1>4, <2>1
    <3> QED
      BY <2>1, <3>1, SeekKeeps
  <2>3. g[1 .. k + 1] = {Seek(s, focus, p, k + 1) : p \in g[1 .. k]}
    BY <1>2, <2>1
  <2> QED
    BY <2>1, <2>2, <2>3
<1> HIDE DEF Reached
<1>5. n \in Reached
  <2> HIDE DEF n
  <2>1. 0 .. n \subseteq Reached
    BY <1>1, <1>3, <1>4, UpTo
  <2> QED
    BY <1>1, <2>1
<1> QED
  BY <1>2, <1>5 DEF Reached

-----------------------------------------------------------------------------
(* What the sections make of the store and of a memory.                     *)

LEMMA EnqueueIs ==
  ASSUME NEW s \in QueueStore, NEW order \in Queues, now \in 0 .. Horizon
  PROVE  LET e == Enqueue(s, order)
         IN  /\ e \in QueueStore /\ ToSet(e.waiting) = ToSet(s.waiting) \cup ToSet(order)
             /\ e.filters = s.filters /\ e.blocks = s.blocks /\ e.rooms = s.rooms
             /\ \A p \in Person : e.since[p] = IF p \in ToSet(order) /\ ~Waiting(s, p) THEN now ELSE s.since[p]
<1> DEFINE e == Enqueue(s, order)
           new == Without(order, ToSet(s.waiting))
           since == [p \in Person |-> IF p \in ToSet(order) /\ ~Waiting(s, p) THEN now ELSE s.since[p]]
<1>1. /\ s.waiting \in Queues /\ s.since \in [Person -> 0 .. Horizon] /\ s.filters \in [Person -> Filters]
      /\ s.rooms \subseteq Pair /\ s.blocks \in [Pair -> 0 .. Horizon + BlockTicks]
  BY DEF QueueStore
<1>2. s = [waiting |-> s.waiting, since |-> s.since, filters |-> s.filters, rooms |-> s.rooms, blocks |-> s.blocks]
  BY DEF QueueStore
<1>3. new \in Queues /\ ToSet(new) = ToSet(order) \ ToSet(s.waiting)
  BY WithoutQueue
<1>4. s.waiting \o new \in Queues /\ ToSet(s.waiting \o new) = ToSet(s.waiting) \cup ToSet(order)
  <2>1. s.waiting \in Seq(Person) /\ IsInjective(s.waiting) /\ new \in Seq(Person) /\ IsInjective(new)
    BY <1>1, <1>3 DEF Queues
  <2> HIDE DEF new
  <2>2. ToSet(s.waiting) \cap ToSet(new) = {}
    BY <1>3
  <2>3. /\ s.waiting \o new \in Seq(Person) /\ ToSet(s.waiting \o new) = ToSet(s.waiting) \cup ToSet(new)
        /\ IsInjective(s.waiting \o new)
    BY <2>1, <2>2, ConcatSet
  <2> QED
    BY <1>3, <2>3 DEF Queues
<1>5. since \in [Person -> 0 .. Horizon]
  BY <1>1
<1>6. e = [waiting |-> s.waiting \o new, since |-> since, filters |-> s.filters, rooms |-> s.rooms,
           blocks |-> s.blocks]
  <2> HIDE DEF new
  <2>1. e = [s EXCEPT !.waiting = @ \o new, !.since = since]
    <3>1. [p \in Person |-> IF p \in ToSet(order) /\ ~Waiting(s, p) THEN now ELSE s.since[p]] = since
      OBVIOUS
    <3> HIDE DEF since
    <3> QED
      BY <3>1 DEF Enqueue, new
  <2> HIDE DEF since, e
  <2> QED
    BY <1>2, <2>1
<1> HIDE DEF e, new
<1>7. e \in QueueStore
  <2> HIDE DEF since
  <2> QED
    BY <1>1, <1>4, <1>5, <1>6 DEF QueueStore
<1>8. \A p \in Person : e.since[p] = IF p \in ToSet(order) /\ ~Waiting(s, p) THEN now ELSE s.since[p]
  BY <1>6
<1> QED
  BY <1>4, <1>6, <1>7, <1>8 DEF e

LEMMA MemoryIs ==
  ASSUME NEW m \in QueueMemory
  PROVE  /\ m = [dirty |-> m.dirty, relaxing |-> m.relaxing, wakeAt |-> m.wakeAt, recheckCursor |-> m.recheckCursor]
         /\ m.dirty \subseteq Person /\ m.relaxing \in [Person -> RelaxingEntry]
         /\ m.wakeAt \in [Person -> 1 .. NoLapse] /\ m.recheckCursor \in 0 .. 2 * Cardinality(Person)
BY DEF QueueMemory

LEMMA MarkIs ==
  ASSUME NEW s \in QueueStore, NEW m \in QueueMemory, NEW T \in SUBSET Person, low \subseteq Person
  PROVE  LET k == Mark(s, m, T)
         IN  /\ k \in QueueMemory /\ k.dirty = m.dirty \cup T /\ k.wakeAt = m.wakeAt
             /\ \A p \in Person : k.relaxing[p] =
                  IF p \in T THEN [since |-> s.since[p], step |-> IF p \in low THEN Held ELSE 0, low |-> p \in low]
                  ELSE m.relaxing[p]
<1> DEFINE k == Mark(s, m, T)
           entry(p) == [since |-> s.since[p], step |-> IF p \in low THEN Held ELSE 0, low |-> p \in low]
           relaxing == [p \in Person |-> IF p \in T THEN entry(p) ELSE m.relaxing[p]]
<1>1. k = [dirty |-> m.dirty \cup T, relaxing |-> relaxing, wakeAt |-> m.wakeAt, recheckCursor |-> m.recheckCursor]
  <2>1. k = [m EXCEPT !.dirty = @ \cup T, !.relaxing = relaxing]
    BY DEF Mark
  <2>2. m = [dirty |-> m.dirty, relaxing |-> m.relaxing, wakeAt |-> m.wakeAt, recheckCursor |-> m.recheckCursor]
    BY MemoryIs
  <2> HIDE DEF k, relaxing
  <2> QED
    BY <2>1, <2>2
<1>2. \A p \in Person : entry(p) \in RelaxingEntry
  BY QueueConstants DEF RelaxingEntry, QueueStore
<1>3. relaxing \in [Person -> RelaxingEntry]
  <2> HIDE DEF entry
  <2> QED
    BY <1>2, MemoryIs
<1>4. k \in QueueMemory
  <2> HIDE DEF k, relaxing
  <2> QED
    BY <1>1, <1>3, MemoryIs DEF QueueMemory
<1> HIDE DEF k
<1> QED
  BY <1>1, <1>4 DEF k

LEMMA RelaxTickIs ==
  ASSUME NEW m \in QueueMemory, store \in QueueStore, now \in 0 .. Horizon
  PROVE  LET k == RelaxTick(m)
             step(p) == RelaxStep(now - m.relaxing[p].since, m.relaxing[p].low)
             known(p) == Waiting(store, p) /\ store.since[p] = m.relaxing[p].since
         IN  /\ k \in QueueMemory /\ k.wakeAt = m.wakeAt /\ k.recheckCursor = m.recheckCursor
             /\ k.dirty = m.dirty \cup {p \in Person : step(p) > m.relaxing[p].step /\ known(p)}
             /\ \A p \in Person :
                  k.relaxing[p] = IF ~(step(p) > m.relaxing[p].step) THEN m.relaxing[p]
                                  ELSE IF ~known(p) \/ step(p) = MaxStep THEN Unknown
                                  ELSE [m.relaxing[p] EXCEPT !.step = step(p)]
<1> DEFINE step(p) == RelaxStep(now - m.relaxing[p].since, m.relaxing[p].low)
           changed == {p \in Person : step(p) > m.relaxing[p].step}
           known(p) == Waiting(store, p) /\ store.since[p] = m.relaxing[p].since
           risen(p) == [m.relaxing[p] EXCEPT !.step = step(p)]
           relaxing == [p \in Person |->
                          IF p \notin changed THEN m.relaxing[p]
                          ELSE IF ~known(p) \/ step(p) = MaxStep THEN Unknown ELSE risen(p)]
           dirty == m.dirty \cup {p \in changed : known(p)}
           k == RelaxTick(m)
<1>1. k = [dirty |-> dirty, relaxing |-> relaxing, wakeAt |-> m.wakeAt, recheckCursor |-> m.recheckCursor]
  <2>1. k = [m EXCEPT !.dirty = dirty, !.relaxing = relaxing]
    BY DEF RelaxTick
  <2>2. m = [dirty |-> m.dirty, relaxing |-> m.relaxing, wakeAt |-> m.wakeAt, recheckCursor |-> m.recheckCursor]
    BY MemoryIs
  <2> HIDE DEF k, dirty, relaxing
  <2> QED
    BY <2>1, <2>2
<1>2. ASSUME NEW p \in Person PROVE m.relaxing[p] \in RelaxingEntry /\ risen(p) \in RelaxingEntry
  <2>1. m.relaxing[p] \in RelaxingEntry
    BY MemoryIs
  <2>2. now - m.relaxing[p].since \in Int /\ m.relaxing[p].low \in BOOLEAN
    BY <2>1, QueueConstants DEF RelaxingEntry
  <2>3. step(p) \in Held .. MaxStep
    BY <2>2, StepType
  <2> HIDE DEF step
  <2> QED
    BY <2>1, <2>3 DEF RelaxingEntry
<1>3. relaxing \in [Person -> RelaxingEntry]
  <2> HIDE DEF risen, step, known, changed
  <2> QED
    BY <1>2, UnknownType
<1>4. k \in QueueMemory
  <2>1. dirty \subseteq Person
    BY MemoryIs
  <2> HIDE DEF k, relaxing, dirty
  <2> QED
    BY <1>1, <1>3, <2>1, MemoryIs DEF QueueMemory
<1>5. /\ k.wakeAt = m.wakeAt /\ k.recheckCursor = m.recheckCursor
      /\ k.dirty = m.dirty \cup {p \in changed : known(p)}
      /\ \A p \in Person : k.relaxing[p] = IF p \notin changed THEN m.relaxing[p]
                                           ELSE IF ~known(p) \/ step(p) = MaxStep THEN Unknown ELSE risen(p)
  <2> HIDE DEF k, step, known, risen
  <2> QED
    BY <1>1
<1> HIDE DEF k
<1> QED
  BY <1>4, <1>5 DEF k

LEMMA WakeIs ==
  ASSUME NEW m \in QueueMemory, now \in 0 .. Horizon
  PROVE  LET k == Wake(m)
         IN  /\ k \in QueueMemory /\ k.relaxing = m.relaxing
             /\ k.dirty = m.dirty \cup {p \in Person : m.wakeAt[p] <= now}
             /\ \A p \in Person : k.wakeAt[p] = IF m.wakeAt[p] <= now THEN NoLapse ELSE m.wakeAt[p]
<1> DEFINE k == Wake(m)
           wakeAt == [p \in Person |-> IF m.wakeAt[p] <= now THEN NoLapse ELSE m.wakeAt[p]]
           dirty == m.dirty \cup {p \in Person : m.wakeAt[p] <= now}
<1>1. k = [dirty |-> dirty, relaxing |-> m.relaxing, wakeAt |-> wakeAt, recheckCursor |-> m.recheckCursor]
  <2>1. k = [m EXCEPT !.dirty = dirty, !.wakeAt = wakeAt]
    BY DEF Wake
  <2>2. m = [dirty |-> m.dirty, relaxing |-> m.relaxing, wakeAt |-> m.wakeAt, recheckCursor |-> m.recheckCursor]
    BY MemoryIs
  <2> HIDE DEF k, dirty, wakeAt
  <2> QED
    BY <2>1, <2>2
<1>2. wakeAt \in [Person -> 1 .. NoLapse] /\ dirty \subseteq Person
  BY MemoryIs, QueueConstants
<1>3. k \in QueueMemory
  <2> HIDE DEF k, wakeAt, dirty
  <2> QED
    BY <1>1, <1>2, MemoryIs DEF QueueMemory
<1> HIDE DEF k
<1> QED
  BY <1>1, <1>3 DEF k

LEMMA ForgetIs ==
  ASSUME NEW m \in QueueMemory, NEW recheck
  PROVE  LET k == Forget(m, recheck)
         IN  /\ k \in QueueMemory /\ k.relaxing = m.relaxing /\ k.dirty = m.dirty
             /\ \A p \in ToSet(store.waiting) \cap Person : k.wakeAt[p] = m.wakeAt[p]
<1> DEFINE k == Forget(m, recheck)
           wakeAt == [p \in Person |-> IF recheck /\ open /\ Len(store.waiting) > 1 /\ ~Waiting(store, p)
                                       THEN NoLapse ELSE m.wakeAt[p]]
<1>1. k = [dirty |-> m.dirty, relaxing |-> m.relaxing, wakeAt |-> wakeAt, recheckCursor |-> m.recheckCursor]
  <2>1. k = [m EXCEPT !.wakeAt = wakeAt]
    BY DEF Forget
  <2>2. m = [dirty |-> m.dirty, relaxing |-> m.relaxing, wakeAt |-> m.wakeAt, recheckCursor |-> m.recheckCursor]
    BY MemoryIs
  <2> HIDE DEF k, wakeAt
  <2> QED
    BY <2>1, <2>2
<1>2. wakeAt \in [Person -> 1 .. NoLapse]
  BY MemoryIs, QueueConstants
<1>3. k \in QueueMemory
  <2> HIDE DEF k, wakeAt
  <2> QED
    BY <1>1, <1>2, MemoryIs DEF QueueMemory
<1> HIDE DEF k
<1> QED
  BY <1>1, <1>3 DEF k, Waiting

LEMMA MaxOfTwo ==
  ASSUME NEW x \in Int, NEW y \in Int
  PROVE  Max({x, y}) \in {x, y} /\ Max({x, y}) >= x /\ Max({x, y}) >= y
<1>1. \E z \in {x, y} : \A u \in {x, y} : z >= u
  OBVIOUS
<1> QED
  BY <1>1 DEF Max

\* The cursor may pass the end of the queue; addRecheckSlice takes it round the next time.
LEMMA CursorType ==
  ASSUME NEW m \in QueueMemory, NEW n \in 2 .. Cardinality(Person)
  PROVE  NextCursor(m, n) \in 0 .. 2 * Cardinality(Person)
<1>1. n \in Nat \ {0} /\ n <= Cardinality(Person) /\ m.recheckCursor \in Int
  BY QueueConstants DEF QueueMemory
<1>2. m.recheckCursor % n \in 0 .. n - 1
  BY <1>1
<1>3. SliceSize(n) \in Int /\ SliceSize(n) >= 1
  <2>1. Budget \div n \in Int
    BY <1>1, QueueConstants
  <2> DEFINE x == Budget \div n
  <2> HIDE DEF x
  <2>2. Max({1, x}) \in {1, x} /\ Max({1, x}) >= 1
    BY <2>1, MaxOfTwo DEF x
  <2> QED
    BY <2>1, <2>2 DEF SliceSize, x
<1> DEFINE c == m.recheckCursor % n
           z == SliceSize(n)
<1>4. NextCursor(m, n) = IF z >= n THEN 0 ELSE c + z
  BY DEF NextCursor
<1> HIDE DEF c, z
<1>5. c \in 0 .. n - 1 /\ z \in Int /\ z >= 1
  BY <1>2, <1>3 DEF c, z
<1> QED
  BY <1>1, <1>4, <1>5, QueueConstants

\* A pass of r over s with the marks m takes those of plan, and leaves r with m1.
Passed(r, s, m, focus, plan, m1) ==
  /\ m.dirty \subseteq focus /\ Sought(s, focus, m.wakeAt, Len(s.waiting), plan)
  /\ store' \in QueueStore /\ ToSet(store'.waiting) = ToSet(s.waiting) \ plan.taken
  /\ store'.since = s.since /\ store'.filters = s.filters /\ store'.blocks = s.blocks
  /\ m1 \in QueueMemory /\ memory' = [memory EXCEPT ![r] = m1]
  /\ m1.dirty = {} /\ m1.wakeAt = plan.wake
  /\ \A p \in Person : p \notin plan.taken => m1.relaxing[p] = m.relaxing[p]
  /\ unmarked' = (unmarked \cap ToSet(s.waiting)) \ plan.taken

LEMMA SectionIs ==
  ASSUME QueueTyped, NEW r \in Server, NEW s \in QueueStore, NEW m \in QueueMemory, NEW recheck \in BOOLEAN,
         EndSection(r, s, m, recheck)
  PROVE  \/ store' = s /\ memory' = [memory EXCEPT ![r] = m] /\ unmarked' = unmarked \cap ToSet(s.waiting)
         \/ \E focus, plan, m1 : Passed(r, s, m, focus, plan, m1)
<1> DEFINE n == Len(s.waiting)
           slice == IF recheck /\ n > 1 THEN RecheckSlice(m, s.waiting) ELSE {}
           rest(plan) == [s EXCEPT !.waiting = Without(@, plan.taken), !.rooms = @ \cup plan.rooms]
           kept(plan) == [p \in Person |-> IF p \in plan.taken THEN Unknown ELSE m.relaxing[p]]
           cursor == IF recheck /\ n > 1 THEN NextCursor(m, n) ELSE m.recheckCursor
           after(plan) == [m EXCEPT !.dirty = {}, !.wakeAt = plan.wake, !.recheckCursor = cursor,
                                    !.relaxing = kept(plan)]
<1>1. CASE /\ ~open /\ store' = s /\ memory' = [memory EXCEPT ![r] = m]
           /\ unmarked' = unmarked \cap ToSet(s.waiting)
  BY <1>1
<1>2. CASE /\ open
           /\ \E focus \in {m.dirty \cup slice} : \E plan \in Plans(s, focus, m.wakeAt) :
                /\ store' = rest(plan) /\ memory' = [memory EXCEPT ![r] = after(plan)]
                /\ unmarked' = (unmarked \cap ToSet(s.waiting)) \ plan.taken
  <2> DEFINE focus == m.dirty \cup slice
  <2>1. PICK plan \in Plans(s, focus, m.wakeAt) :
           /\ store' = rest(plan) /\ memory' = [memory EXCEPT ![r] = after(plan)]
           /\ unmarked' = (unmarked \cap ToSet(s.waiting)) \ plan.taken
    BY <1>2
  <2> HIDE DEF slice
  <2>2. m.dirty \subseteq focus
    OBVIOUS
  <2> HIDE DEF focus
  <2>3. Sought(s, focus, m.wakeAt, n, plan)
    <3>1. now \in 0 .. Horizon /\ m.wakeAt \in [Person -> 1 .. NoLapse]
      BY MemoryIs DEF QueueTyped
    <3> QED
      BY <3>1, PassIs
  <2>4. plan.rooms \subseteq Pair /\ plan.wake \in [Person -> 1 .. NoLapse]
    BY <2>3 DEF Sought, PlansOver
  <2> DEFINE waiting == Without(s.waiting, plan.taken)
  <2>5. waiting \in Queues /\ ToSet(waiting) = ToSet(s.waiting) \ plan.taken /\ n \in Nat /\ n <= Cardinality(Person)
    <3>1. s.waiting \in Queues
      BY DEF QueueStore
    <3> QED
      BY <3>1, WithoutQueue, QueueLength DEF Queues
  <2>6. rest(plan) = [waiting |-> waiting, since |-> s.since, filters |-> s.filters,
                      rooms |-> s.rooms \cup plan.rooms, blocks |-> s.blocks]
    <3>1. s = [waiting |-> s.waiting, since |-> s.since, filters |-> s.filters, rooms |-> s.rooms, blocks |-> s.blocks]
      BY DEF QueueStore
    <3> DEFINE to == rest(plan)
    <3>2. to = [s EXCEPT !.waiting = waiting, !.rooms = @ \cup plan.rooms]
      OBVIOUS
    <3> HIDE DEF to, waiting
    <3>3. to = [waiting |-> waiting, since |-> s.since, filters |-> s.filters,
                rooms |-> s.rooms \cup plan.rooms, blocks |-> s.blocks]
      BY <3>1, <3>2
    <3> QED
      BY <3>3 DEF to
  <2>7. /\ rest(plan) \in QueueStore /\ ToSet(rest(plan).waiting) = ToSet(s.waiting) \ plan.taken
        /\ rest(plan).since = s.since /\ rest(plan).filters = s.filters /\ rest(plan).blocks = s.blocks
    <3> HIDE DEF waiting, rest
    <3>1. s.rooms \cup plan.rooms \subseteq Pair
      BY <2>4 DEF QueueStore
    <3> QED
      BY <2>5, <2>6, <3>1 DEF QueueStore
  <2> DEFINE m1 == after(plan)
  <2>8. cursor \in 0 .. 2 * Cardinality(Person)
    <3>1. CASE recheck /\ n > 1
      <4>1. n \in 2 .. Cardinality(Person)
        BY <2>5, <3>1, QueueConstants
      <4> HIDE DEF n
      <4> QED
        BY <3>1, <4>1, CursorType
    <3>2. CASE ~(recheck /\ n > 1)
      BY <3>2, MemoryIs
    <3> QED
      BY <3>1, <3>2
  <2>9. kept(plan) \in [Person -> RelaxingEntry]
    BY UnknownType, MemoryIs
  <2>10. m1 = [dirty |-> {}, relaxing |-> kept(plan), wakeAt |-> plan.wake, recheckCursor |-> cursor]
    <3> HIDE DEF kept, cursor
    <3>1. m = [dirty |-> m.dirty, relaxing |-> m.relaxing, wakeAt |-> m.wakeAt, recheckCursor |-> m.recheckCursor]
      BY MemoryIs
    <3>2. m1 = [m EXCEPT !.dirty = {}, !.wakeAt = plan.wake, !.recheckCursor = cursor, !.relaxing = kept(plan)]
      OBVIOUS
    <3> HIDE DEF m1
    <3> QED
      BY <3>1, <3>2
  <2> HIDE DEF rest, after, cursor
  <2>11. m1 \in QueueMemory
    <3> HIDE DEF m1, kept
    <3> QED
      BY <2>4, <2>8, <2>9, <2>10 DEF QueueMemory
  <2>12. /\ m1.dirty = {} /\ m1.wakeAt = plan.wake
         /\ \A p \in Person : p \notin plan.taken => m1.relaxing[p] = m.relaxing[p]
    <3> HIDE DEF m1
    <3> QED
      BY <2>10
  <2> HIDE DEF m1
  <2>13. Passed(r, s, m, focus, plan, m1)
    <3>1. memory' = [memory EXCEPT ![r] = m1]
      BY <2>1 DEF m1
    <3> QED
      BY <2>1, <2>2, <2>3, <2>7, <2>11, <2>12, <3>1 DEF Passed
  <2> QED
    BY <2>13
<1> QED
  BY <1>1, <1>2 DEF EndSection

LEMMA SectionTyped ==
  ASSUME QueueTyped, NEW r \in Server, NEW s \in QueueStore, NEW m \in QueueMemory, NEW recheck \in BOOLEAN,
         EndSection(r, s, m, recheck), unmarked \subseteq ToSet(store.waiting)
  PROVE  /\ store' \in QueueStore /\ memory' \in [Server -> QueueMemory] /\ unmarked' \subseteq ToSet(store'.waiting)
         /\ store'.since = s.since
<1>1. memory \in [Server -> QueueMemory]
  BY DEF QueueTyped
<1>2. CASE store' = s /\ memory' = [memory EXCEPT ![r] = m] /\ unmarked' = unmarked \cap ToSet(s.waiting)
  BY <1>1, <1>2
<1>3. ASSUME NEW focus, NEW plan, NEW m1, Passed(r, s, m, focus, plan, m1)
      PROVE  /\ store' \in QueueStore /\ memory' \in [Server -> QueueMemory]
             /\ unmarked' \subseteq ToSet(store'.waiting) /\ store'.since = s.since
  BY <1>1, <1>3 DEF Passed
<1> QED
  BY <1>2, <1>3, SectionIs

-----------------------------------------------------------------------------
(* The watch over the pairs.                                                *)

\* p's step of the ladder, and whether nothing but a block keeps a and b apart, when
\* the clock shows t.
StepAt(s, lows, p, t) == RelaxStep(t - s.since[p], p \in lows)
SuitsAt(s, lows, a, b, t) ==
  /\ IsCompatible(s, a, b)
  /\ MeetsPreferences(s, a, b, PairStep(StepAt(s, lows, a, t), StepAt(s, lows, b, t)))

\* A memory makes its server look at p when the clock shows t.
Climbs(entry, t) == RelaxStep(t - entry.since, entry.low) > entry.step
DueAt(m, s, p, t) ==
  \/ p \in m.dirty
  \/ m.wakeAt[p] <= t
  \/ m.relaxing[p].since = s.since[p] /\ Climbs(m.relaxing[p], t)

\* A server has noted p's wait and priority, and no step that p has not reached.
Tracked(s, mem, lows, p, t) ==
  \/ StepAt(s, lows, p, t) = MaxStep
  \/ \E r \in Server : /\ mem[r].relaxing[p].since = s.since[p]
                       /\ mem[r].relaxing[p].low = (p \in lows)
                       /\ mem[r].relaxing[p].step <= StepAt(s, lows, p, t)

\* Those who wait with all their marks.
Kept(s, lost) == ToSet(s.waiting) \ lost

\* Two of them that could meet at t, now or later, are looked at by then.
Watch(s, mem, lows, lost, now0) ==
  /\ \A p \in Kept(s, lost) : Tracked(s, mem, lows, p, now0)
  /\ \A a, b \in Kept(s, lost) : \A t \in now0 .. Horizon :
       SuitsAt(s, lows, a, b, t) /\ s.blocks[{a, b}] <= t
         => \E r \in Server : DueAt(mem[r], s, a, t) \/ DueAt(mem[r], s, b, t)

LEMMA StepAtGrows ==
  ASSUME NEW s \in QueueStore, NEW lows, NEW p \in Person, NEW t \in Nat, NEW u \in Nat, t <= u
  PROVE  /\ StepAt(s, lows, p, t) \in Held .. MaxStep /\ StepAt(s, lows, p, u) \in Held .. MaxStep
         /\ StepAt(s, lows, p, t) <= StepAt(s, lows, p, u)
<1> DEFINE v == t - s.since[p]
           w == u - s.since[p]
<1>1. v \in Int /\ w \in Int /\ v <= w
  <2>1. s.since[p] \in 0 .. Horizon
    BY DEF QueueStore
  <2> QED
    BY <2>1, QueueConstants
<1> HIDE DEF v, w
<1>2. (p \in lows) \in BOOLEAN
  OBVIOUS
<1> DEFINE l == p \in lows
<1> HIDE DEF l
<1>3. l \in BOOLEAN
  BY <1>2 DEF l
<1>4. RelaxStep(v, l) \in Held .. MaxStep /\ RelaxStep(w, l) \in Held .. MaxStep /\ RelaxStep(v, l) <= RelaxStep(w, l)
  BY <1>1, <1>3, StepType, StepGrows
<1> QED
  BY <1>4 DEF StepAt, v, w, l

\* Who is higher on the ladder at t than now is looked at by t.
LEMMA ClimberIsDue ==
  ASSUME NEW s \in QueueStore, NEW mem \in [Server -> QueueMemory], NEW lows, NEW p \in Person,
         NEW now0 \in Nat, NEW t \in Nat, now0 <= t, Tracked(s, mem, lows, p, now0),
         StepAt(s, lows, p, t) # StepAt(s, lows, p, now0)
  PROVE  \E r \in Server : DueAt(mem[r], s, p, t)
<1> DEFINE before == StepAt(s, lows, p, now0)
           after == StepAt(s, lows, p, t)
<1>1. before \in Held .. MaxStep /\ after \in Held .. MaxStep /\ before <= after /\ before # after
  BY StepAtGrows
<1>2. PICK r \in Server : /\ mem[r].relaxing[p].since = s.since[p] /\ mem[r].relaxing[p].low = (p \in lows)
                          /\ mem[r].relaxing[p].step <= before
  <2>1. before # MaxStep
    <3> HIDE DEF before, after
    <3> QED
      BY <1>1, QueueConstants
  <2> QED
    BY <2>1 DEF Tracked
<1> DEFINE entry == mem[r].relaxing[p]
<1>3. entry.step \in Held .. MaxStep
  BY DEF QueueMemory, RelaxingEntry
<1>4. after > entry.step
  <2> DEFINE x == entry.step
  <2>1. x \in Held .. MaxStep /\ x <= before
    BY <1>2, <1>3
  <2> HIDE DEF before, after, x
  <2>2. after > x
    BY <1>1, <2>1, QueueConstants
  <2> QED
    BY <2>2 DEF x
<1>5. RelaxStep(t - entry.since, entry.low) = after
  BY <1>2 DEF StepAt
<1>6. Climbs(entry, t)
  <2> HIDE DEF after, entry
  <2> QED
    BY <1>4, <1>5 DEF Climbs
<1> QED
  BY <1>2, <1>6 DEF DueAt

\* Whoever of the two is older has met the block.
LEMMA MissedIsWoken ==
  ASSUME NEW s \in QueueStore, NEW focus, NEW wake, NEW plan, Sought(s, focus, wake, Len(s.waiting), plan),
         NEW a \in ToSet(s.waiting), NEW b \in ToSet(s.waiting), Misses(s, focus, plan, a, b)
  PROVE  /\ s.blocks[{a, b}] > now
         /\ plan.wake[a] <= s.blocks[{a, b}] \/ plan.wake[b] <= s.blocks[{a, b}]
<1> DEFINE n == Len(s.waiting)
           q(i) == s.waiting[i]
<1>1. n \in Nat /\ DOMAIN s.waiting = 1 .. n
  BY DEF QueueStore, Queues
<1>2. PICK i \in 1 .. n, j \in 1 .. n : a = q(i) /\ b = q(j)
  BY <1>1 DEF ToSet
<1>3. a # b /\ {a, b} = {b, a}
  BY SuitsStep DEF Misses
<1>4. Misses(s, focus, plan, b, a)
  BY <1>3, SuitsIsSymmetric DEF Misses
<1>5. \A k \in 1 .. n : \A l \in k + 1 .. n :
        Misses(s, focus, plan, q(k), q(l))
          => s.blocks[{q(k), q(l)}] > now /\ plan.wake[q(k)] <= s.blocks[{q(k), q(l)}]
  BY DEF Sought
<1> HIDE DEF n, q
<1>6. j \in i + 1 .. n \/ i \in j + 1 .. n
  BY <1>1, <1>2, <1>3
<1> QED
  BY <1>2, <1>3, <1>4, <1>5, <1>6

LEMMA SuitsNow ==
  ASSUME NEW s, NEW a, NEW b
  PROVE  Suits(s, a, b) <=> SuitsAt(s, low, a, b, now)
BY DEF Suits, SuitsAt, StepOf, StepAt

\* A pass takes every two that could meet, or leaves a mark for when they can.
LEMMA PassWatches ==
  ASSUME QueueTyped, NEW r \in Server, NEW s \in QueueStore, NEW m \in QueueMemory,
         Watch(s, [memory EXCEPT ![r] = m], low, unmarked, now),
         NEW focus, NEW plan, NEW m1, Passed(r, s, m, focus, plan, m1)
  PROVE  Watch(store', memory', low, unmarked', now)
<1> DEFINE mem == [memory EXCEPT ![r] = m]
           left == Kept(s, unmarked) \ plan.taken
<1>1. /\ mem \in [Server -> QueueMemory] /\ mem[r] = m /\ memory'[r] = m1
      /\ \A r2 \in Server : r2 # r => memory'[r2] = mem[r2]
  BY DEF QueueTyped, Passed
<1>2. /\ plan \in PlansOver(s) /\ m.dirty \subseteq focus /\ Sought(s, focus, m.wakeAt, Len(s.waiting), plan)
      /\ store'.since = s.since /\ store'.filters = s.filters /\ store'.blocks = s.blocks
      /\ m1 \in QueueMemory /\ m1.wakeAt = plan.wake
      /\ \A p \in Person : p \notin plan.taken => m1.relaxing[p] = m.relaxing[p]
  BY DEF Passed, Sought
<1>3. Kept(store', unmarked') = left
  BY DEF Passed, Kept
<1>4. \A p \in left : p \in Person /\ p \in ToSet(s.waiting) /\ p \in Kept(s, unmarked) /\ p \notin plan.taken
  BY DEF QueueStore, Queues, ToSet, Kept
<1>5. /\ \A p \in Kept(s, unmarked) : Tracked(s, mem, low, p, now)
      /\ \A a, b \in Kept(s, unmarked) : \A t \in now .. Horizon :
           SuitsAt(s, low, a, b, t) /\ s.blocks[{a, b}] <= t
             => \E r2 \in Server : DueAt(mem[r2], s, a, t) \/ DueAt(mem[r2], s, b, t)
  BY DEF Watch
<1>6. now \in Nat /\ \A t \in now .. Horizon : t \in Nat /\ now <= t
  BY QueueConstants DEF QueueTyped
<1> HIDE DEF mem, left
\* The ladder's notes of those left are as they were.
<1>7. ASSUME NEW p \in left, NEW r2 \in Server
      PROVE  memory'[r2].relaxing[p] = mem[r2].relaxing[p]
  BY <1>1, <1>2, <1>4
<1>8. ASSUME NEW p \in left, NEW t PROVE StepAt(store', low, p, t) = StepAt(s, low, p, t)
  BY <1>2 DEF StepAt
<1>9. ASSUME NEW p \in left PROVE Tracked(store', memory', low, p, now)
  <2>1. Tracked(s, mem, low, p, now)
    BY <1>4, <1>5
  <2> QED
    BY <1>2, <1>7, <1>8, <2>1 DEF Tracked
<1>10. ASSUME NEW a \in left, NEW b \in left, NEW t \in now .. Horizon,
              SuitsAt(store', low, a, b, t), store'.blocks[{a, b}] <= t
       PROVE  \E r2 \in Server : DueAt(memory'[r2], store', a, t) \/ DueAt(memory'[r2], store', b, t)
  <2>1. SuitsAt(s, low, a, b, t) /\ s.blocks[{a, b}] <= t
    BY <1>2, <1>10 DEF SuitsAt, StepAt, IsCompatible, Accepts, MeetsPreferences
  <2>2. a \in Person /\ b \in Person /\ a # b
    BY <1>4, <2>1 DEF SuitsAt, IsCompatible
  <2>3. CASE {a, b} \cap focus = {}
    <3>1. PICK r2 \in Server, p \in {a, b} : DueAt(mem[r2], s, p, t)
      BY <1>4, <1>5, <2>1
    <3>2. p \in left /\ p \in Person /\ p \notin focus
      BY <1>4, <2>3
    <3>3. DueAt(memory'[r2], store', p, t)
      <4>1. CASE r2 = r
        <5>1. p \notin m.dirty /\ DueAt(m, s, p, t)
          BY <1>1, <1>2, <3>1, <3>2, <4>1
        <5>2. CASE m.wakeAt[p] <= t
          <6>1. plan.wake[p] <= m.wakeAt[p] /\ plan.wake[p] \in 1 .. NoLapse /\ m.wakeAt[p] \in 1 .. NoLapse
            BY <1>2, <3>2, MemoryIs DEF Sought, PlansOver
          <6> DEFINE x == plan.wake[p]
                     y == m.wakeAt[p]
          <6> HIDE DEF x, y
          <6>2. x <= t
            BY <1>6, <5>2, <6>1, QueueConstants DEF x, y
          <6> QED
            BY <1>1, <1>2, <4>1, <6>2 DEF DueAt, x
        <5>3. CASE m.relaxing[p].since = s.since[p] /\ Climbs(m.relaxing[p], t)
          BY <1>1, <1>2, <1>4, <3>2, <4>1, <5>3 DEF DueAt
        <5> QED
          BY <5>1, <5>2, <5>3 DEF DueAt
      <4>2. CASE r2 # r
        <5>1. memory'[r2] = mem[r2]
          BY <1>1, <4>2
        <5> QED
          BY <1>2, <3>1, <5>1 DEF DueAt
      <4> QED
        BY <4>1, <4>2
    <3> QED
      BY <3>1, <3>3
  <2>4. CASE {a, b} \cap focus # {} /\ Suits(s, a, b)
    <3>1. Misses(s, focus, plan, a, b)
      BY <1>4, <2>4 DEF Misses
    <3>2. PICK p \in {a, b} : plan.wake[p] <= s.blocks[{a, b}]
      BY <1>2, <1>4, <3>1, MissedIsWoken
    <3>3. plan.wake[p] <= t
      <4>1. p \in Person /\ {a, b} \in Pair
        BY <2>2, PairType
      <4>2. plan.wake[p] \in 1 .. NoLapse /\ s.blocks[{a, b}] \in 0 .. Horizon + BlockTicks
        BY <1>2, <4>1 DEF PlansOver, QueueStore
      <4> DEFINE x == plan.wake[p]
                 y == s.blocks[{a, b}]
      <4> HIDE DEF x, y
      <4>3. x <= t
        BY <1>6, <2>1, <3>2, <4>2, QueueConstants DEF x, y
      <4> QED
        BY <4>3 DEF x
    <3>4. DueAt(memory'[r], store', p, t)
      BY <1>1, <1>2, <3>3 DEF DueAt
    <3> QED
      BY <3>4
  <2>5. CASE ~Suits(s, a, b)
    <3>1. PICK p \in {a, b} : StepAt(s, low, p, t) # StepAt(s, low, p, now)
      <4>1. ~SuitsAt(s, low, a, b, now)
        BY <2>5, SuitsNow
      <4> QED
        BY <2>1, <4>1 DEF SuitsAt
    <3>2. p \in left /\ p \in Person
      BY <2>2
    <3>3. /\ store' \in QueueStore /\ memory' \in [Server -> QueueMemory]
          /\ StepAt(store', low, p, t) # StepAt(store', low, p, now)
      BY <1>8, <3>1, <3>2 DEF QueueTyped, Passed
    <3>4. \E r2 \in Server : DueAt(memory'[r2], store', p, t)
      BY <1>6, <1>9, <3>2, <3>3, ClimberIsDue
    <3> QED
      BY <3>4
  <2> QED
    BY <2>3, <2>4, <2>5
<1> QED
  BY <1>3, <1>9, <1>10 DEF Watch

LEMMA SectionWatches ==
  ASSUME QueueTyped, NEW r \in Server, NEW s \in QueueStore, NEW m \in QueueMemory, NEW recheck \in BOOLEAN,
         EndSection(r, s, m, recheck), Watch(s, [memory EXCEPT ![r] = m], low, unmarked, now)
  PROVE  Watch(store', memory', low, unmarked', now)
<1>1. CASE store' = s /\ memory' = [memory EXCEPT ![r] = m] /\ unmarked' = unmarked \cap ToSet(s.waiting)
  <2>1. Kept(s, unmarked \cap ToSet(s.waiting)) = Kept(s, unmarked)
    BY DEF Kept
  <2> DEFINE mem == [memory EXCEPT ![r] = m]
             lost == unmarked \cap ToSet(s.waiting)
  <2>2. Watch(s, mem, low, unmarked, now) /\ store' = s /\ memory' = mem /\ unmarked' = lost
    BY <1>1
  <2> HIDE DEF mem, lost
  <2>3. Kept(s, lost) = Kept(s, unmarked)
    BY <2>1 DEF lost
  <2>4. Watch(s, mem, low, lost, now)
    BY <2>2, <2>3 DEF Watch
  <2> QED
    BY <2>2, <2>4
<1>2. ASSUME NEW focus, NEW plan, NEW m1, Passed(r, s, m, focus, plan, m1)
      PROVE  Watch(store', memory', low, unmarked', now)
  BY <1>2, PassWatches
<1> QED
  BY <1>1, <1>2, SectionIs

-----------------------------------------------------------------------------
(* The watch is kept up.                                                    *)

\* p waits as it did, and m makes its server look at p whenever m0 did.
Stays(s0, lost0, s, m0, m, now0, p) ==
  /\ p \in Kept(s0, lost0) /\ s.since[p] = s0.since[p] /\ s.filters[p] = s0.filters[p]
  /\ \A t \in now0 .. Horizon : DueAt(m0, s0, p, t) => DueAt(m, s, p, t)

LEMMA WatchCarries ==
  ASSUME NEW s0, NEW s \in QueueStore, s0.blocks \in [Pair -> 0 .. Horizon + BlockTicks],
         NEW mem \in [Server -> QueueMemory], NEW r \in Server, NEW m \in QueueMemory,
         NEW lows, NEW lost0, NEW lost, NEW now0 \in Nat, Watch(s0, mem, lows, lost0, now0),
         \A pair \in Pair : s0.blocks[pair] <= s.blocks[pair],
         \A p \in Kept(s, lost) : Tracked(s, [mem EXCEPT ![r] = m], lows, p, now0),
         \A p \in Kept(s, lost) : p \in m.dirty \/ Stays(s0, lost0, s, mem[r], m, now0, p)
  PROVE  Watch(s, [mem EXCEPT ![r] = m], lows, lost, now0)
<1> DEFINE new == [mem EXCEPT ![r] = m]
<1>1. new[r] = m /\ \A r2 \in Server : r2 # r => new[r2] = mem[r2]
  OBVIOUS
<1>2. \A p \in Kept(s, lost) : Tracked(s, new, lows, p, now0)
  OBVIOUS
<1> HIDE DEF new
<1>3. ASSUME NEW a \in Kept(s, lost), NEW b \in Kept(s, lost), NEW t \in now0 .. Horizon,
             SuitsAt(s, lows, a, b, t), s.blocks[{a, b}] <= t
      PROVE  \E r2 \in Server : DueAt(new[r2], s, a, t) \/ DueAt(new[r2], s, b, t)
  <2>1. CASE a \in m.dirty \/ b \in m.dirty
    BY <1>1, <2>1 DEF DueAt
  <2>2. CASE ~(a \in m.dirty \/ b \in m.dirty)
    <3>1. Stays(s0, lost0, s, mem[r], m, now0, a) /\ Stays(s0, lost0, s, mem[r], m, now0, b)
      BY <2>2
    <3>2. SuitsAt(s0, lows, a, b, t)
      BY <1>3, <3>1 DEF SuitsAt, StepAt, IsCompatible, Accepts, MeetsPreferences, Stays
    <3>3. s0.blocks[{a, b}] <= t
      <4>1. a \in Person /\ b \in Person /\ a # b
        BY <1>3 DEF Kept, QueueStore, Queues, ToSet, SuitsAt, IsCompatible
      <4>2. {a, b} \in Pair
        BY <4>1, PairType
      <4>3. s0.blocks[{a, b}] \in 0 .. Horizon + BlockTicks /\ s.blocks[{a, b}] \in 0 .. Horizon + BlockTicks
            /\ s0.blocks[{a, b}] <= s.blocks[{a, b}]
        BY <4>2 DEF QueueStore
      <4> DEFINE x == s0.blocks[{a, b}]
                 y == s.blocks[{a, b}]
      <4> HIDE DEF x, y
      <4>4. x <= t
        BY <1>3, <4>3, QueueConstants DEF x, y
      <4> QED
        BY <4>4 DEF x
    <3>4. PICK r2 \in Server, p \in {a, b} : DueAt(mem[r2], s0, p, t)
      BY <3>1, <3>2, <3>3 DEF Watch, Stays
    <3>5. Stays(s0, lost0, s, mem[r], m, now0, p)
      BY <3>1
    <3>6. DueAt(new[r2], s, p, t)
      <4>1. CASE r2 = r
        BY <1>1, <3>4, <3>5, <4>1 DEF Stays
      <4>2. CASE r2 # r
        <5>1. new[r2] = mem[r2]
          BY <1>1, <4>2
        <5> QED
          BY <3>4, <3>5, <5>1 DEF DueAt, Stays
      <4> QED
        BY <4>1, <4>2
    <3> QED
      BY <3>4, <3>6
  <2> QED
    BY <2>1, <2>2
<1>4. Watch(s, new, lows, lost, now0)
  BY <1>2, <1>3 DEF Watch
<1> QED
  BY <1>4 DEF new

\* p waits as it did, and its marks at r are those of m0.
Untouched(s0, lost0, s, m0, m, p) ==
  /\ p \in Kept(s0, lost0) /\ s.since[p] = s0.since[p] /\ s.filters[p] = s0.filters[p]
  /\ p \in m0.dirty => p \in m.dirty
  /\ m.wakeAt[p] = m0.wakeAt[p] /\ m.relaxing[p] = m0.relaxing[p]

LEMMA UntouchedStays ==
  ASSUME NEW s0, NEW s, NEW mem \in [Server -> QueueMemory], NEW r \in Server, NEW m, NEW lows, NEW lost0, NEW now0,
         NEW p, Watch(s0, mem, lows, lost0, now0), Untouched(s0, lost0, s, mem[r], m, p)
  PROVE  /\ Stays(s0, lost0, s, mem[r], m, now0, p)
         /\ Tracked(s, [mem EXCEPT ![r] = m], lows, p, now0)
<1>1. Stays(s0, lost0, s, mem[r], m, now0, p)
  BY DEF Untouched, Stays, DueAt
<1> DEFINE new == [mem EXCEPT ![r] = m]
<1>2. \A r2 \in Server : new[r2].relaxing[p] = mem[r2].relaxing[p]
  BY DEF Untouched
<1> HIDE DEF new
<1>3. Tracked(s0, mem, lows, p, now0)
  BY DEF Watch, Untouched
<1>4. StepAt(s, lows, p, now0) = StepAt(s0, lows, p, now0) /\ s.since[p] = s0.since[p]
  BY DEF StepAt, Untouched
<1>5. Tracked(s, new, lows, p, now0)
  BY <1>2, <1>3, <1>4 DEF Tracked
<1> QED
  BY <1>1, <1>5 DEF new

LEMMA WaitingArePersons ==
  ASSUME NEW s \in QueueStore
  PROVE  ToSet(s.waiting) \subseteq Person
BY DEF QueueStore, Queues, ToSet

\* enqueueLocked marks whom it puts into the queue, and notes their wait.
LEMMA QueuedAreWatched ==
  ASSUME QueueTyped, Watch(store, memory, low, unmarked, now), NEW r \in Server,
         NEW s1 \in QueueStore, NEW order \in Queues, s1.waiting = store.waiting, s1.since = store.since,
         \A p \in Person \ ToSet(order) : s1.filters[p] = store.filters[p],
         \A pair \in Pair : store.blocks[pair] <= s1.blocks[pair]
  PROVE  LET s == Enqueue(s1, order)
             m == Mark(s, memory[r], ToSet(order))
         IN  /\ s \in QueueStore /\ m \in QueueMemory /\ \A p \in Person : s.since[p] <= now
             /\ Watch(s, [memory EXCEPT ![r] = m], low, unmarked, now)
<1> DEFINE s == Enqueue(s1, order)
           m == Mark(s, memory[r], ToSet(order))
           new == [memory EXCEPT ![r] = m]
<1>1. /\ memory \in [Server -> QueueMemory] /\ memory[r] \in QueueMemory /\ low \subseteq Person
      /\ now \in 0 .. Horizon /\ now \in Nat /\ store \in QueueStore
      /\ (\A p \in Person : store.since[p] <= now) /\ unmarked \subseteq ToSet(store.waiting)
  BY QueueConstants DEF QueueTyped
<1>2. /\ s \in QueueStore /\ ToSet(s.waiting) = ToSet(store.waiting) \cup ToSet(order)
      /\ s.filters = s1.filters /\ s.blocks = s1.blocks
      /\ \A p \in Person : s.since[p] = IF p \in ToSet(order) /\ ~Waiting(s1, p) THEN now ELSE store.since[p]
  BY <1>1, EnqueueIs
<1>3. ToSet(order) \in SUBSET Person
  BY DEF Queues, ToSet
<1> HIDE DEF s
<1>4. /\ m \in QueueMemory /\ m.dirty = memory[r].dirty \cup ToSet(order) /\ m.wakeAt = memory[r].wakeAt
      /\ \A p \in Person : m.relaxing[p] =
           IF p \in ToSet(order) THEN [since |-> s.since[p], step |-> IF p \in low THEN Held ELSE 0, low |-> p \in low]
           ELSE memory[r].relaxing[p]
  BY <1>1, <1>2, <1>3, MarkIs
<1> HIDE DEF m
<1>5. \A p \in Person : s.since[p] <= now /\ s.since[p] \in 0 .. Horizon
  BY <1>1, <1>2 DEF QueueStore
<1>6. ASSUME NEW p \in ToSet(order)
      PROVE  Tracked(s, new, low, p, now)
  <2>1. p \in Person /\ new[r] = m
    BY <1>1, <1>3
  <2>2. /\ m.relaxing[p].since = s.since[p] /\ m.relaxing[p].low = (p \in low)
        /\ m.relaxing[p].step = IF p \in low THEN Held ELSE 0
    <3> DEFINE l == p \in low
               z == IF p \in low THEN Held ELSE 0
    <3>1. m.relaxing[p] = [since |-> s.since[p], step |-> z, low |-> l]
      BY <1>4, <2>1
    <3> HIDE DEF l, z
    <3>2. m.relaxing[p].since = s.since[p] /\ m.relaxing[p].low = l /\ m.relaxing[p].step = z
      BY <3>1
    <3> QED
      BY <3>2 DEF l, z
  <2>3. StepAt(s, low, p, now) \in Held .. MaxStep
    BY <1>1, <1>2, <2>1, StepAtGrows
  <2>4. CASE p \in low
    <3>1. m.relaxing[p].step <= StepAt(s, low, p, now)
      BY <2>2, <2>3, <2>4, QueueConstants
    <3> QED
      BY <2>1, <2>2, <3>1 DEF Tracked
  <2>5. CASE p \notin low
    <3> DEFINE w == now - s.since[p]
    <3>1. w \in Nat
      BY <1>1, <1>5, <2>1, QueueConstants
    <3> HIDE DEF w
    <3>2. RelaxStep(w, FALSE) >= 0
      BY <3>1, StepStarts
    <3>3. StepAt(s, low, p, now) = RelaxStep(w, FALSE)
      <4>1. (p \in low) = FALSE
        BY <2>5
      <4> QED
        BY <4>1 DEF StepAt, w
    <3>4. m.relaxing[p].step <= StepAt(s, low, p, now)
      BY <2>2, <2>3, <2>5, <3>2, <3>3, QueueConstants
    <3> QED
      BY <2>1, <2>2, <3>4 DEF Tracked
  <2> QED
    BY <2>4, <2>5
<1>7. ASSUME NEW p \in Kept(s, unmarked), p \notin ToSet(order)
      PROVE  Untouched(store, unmarked, s, memory[r], m, p)
  <2>1. p \in ToSet(store.waiting) /\ p \in Kept(store, unmarked) /\ p \in Person
    BY <1>1, <1>2, <1>7, WaitingArePersons DEF Kept
  <2> QED
    BY <1>2, <1>4, <1>7, <2>1 DEF Untouched
<1>8. ASSUME NEW p \in Kept(s, unmarked)
      PROVE  Tracked(s, new, low, p, now) /\ (p \in m.dirty \/ Stays(store, unmarked, s, memory[r], m, now, p))
  <2>1. CASE p \in ToSet(order)
    BY <1>4, <1>6, <2>1
  <2>2. CASE p \notin ToSet(order)
    <3>1. Untouched(store, unmarked, s, memory[r], m, p)
      BY <1>7, <2>2
    <3> QED
      BY <1>1, <3>1, UntouchedStays
  <2> QED
    BY <2>1, <2>2
<1>9. Watch(s, new, low, unmarked, now)
  <2>1. \A pair \in Pair : store.blocks[pair] <= s.blocks[pair]
    BY <1>2
  <2>2. store.blocks \in [Pair -> 0 .. Horizon + BlockTicks]
    BY <1>1 DEF QueueStore
  <2> QED
    BY <1>1, <1>2, <1>4, <1>8, <2>1, <2>2, WatchCarries
<1>10. s \in QueueStore /\ m \in QueueMemory /\ (\A p \in Person : s.since[p] <= now)
       /\ Watch(s, new, low, unmarked, now)
  BY <1>2, <1>4, <1>5, <1>9
<1> QED
  BY <1>10 DEF s, m

QueueInv == QueueTyped /\ Watch(store, memory, low, unmarked, now)

LEMMA SectionKeeps ==
  ASSUME QueueTyped, NEW r \in Server, NEW s \in QueueStore, NEW m \in QueueMemory, NEW recheck \in BOOLEAN,
         Watch(s, [memory EXCEPT ![r] = m], low, unmarked, now), \A p \in Person : s.since[p] <= now,
         EndSection(r, s, m, recheck), UNCHANGED <<low, open, now>>
  PROVE  QueueInv'
<1>1. Watch(store', memory', low, unmarked', now)
  BY SectionWatches
<1>2. /\ store' \in QueueStore /\ memory' \in [Server -> QueueMemory] /\ unmarked' \subseteq ToSet(store'.waiting)
      /\ store'.since = s.since
  <2>1. unmarked \subseteq ToSet(store.waiting)
    BY DEF QueueTyped
  <2> QED
    BY <2>1, SectionTyped
<1>3. QueueTyped'
  BY <1>2 DEF QueueTyped
<1> QED
  BY <1>1, <1>3 DEF QueueInv

LEMMA StoreIs ==
  ASSUME NEW s \in QueueStore
  PROVE  /\ s = [waiting |-> s.waiting, since |-> s.since, filters |-> s.filters,
                 rooms |-> s.rooms, blocks |-> s.blocks]
         /\ s.waiting \in Queues /\ s.since \in [Person -> 0 .. Horizon] /\ s.filters \in [Person -> Filters]
         /\ s.rooms \subseteq Pair /\ s.blocks \in [Pair -> 0 .. Horizon + BlockTicks]
BY DEF QueueStore

\* A person changes the filters.
LEMMA RefilteredIs ==
  ASSUME NEW s0 \in QueueStore, NEW p \in Person, NEW f \in Filters
  PROVE  LET s == [s0 EXCEPT !.filters[p] = f]
         IN  /\ s \in QueueStore /\ s.waiting = s0.waiting /\ s.since = s0.since /\ s.blocks = s0.blocks
             /\ \A q \in Person \ {p} : s.filters[q] = s0.filters[q]
<1> DEFINE s == [s0 EXCEPT !.filters[p] = f]
           filters == [s0.filters EXCEPT ![p] = f]
<1>1. s = [waiting |-> s0.waiting, since |-> s0.since, filters |-> filters, rooms |-> s0.rooms, blocks |-> s0.blocks]
  <2>1. s = [s0 EXCEPT !.filters = filters]
    OBVIOUS
  <2>2. s0 = [waiting |-> s0.waiting, since |-> s0.since, filters |-> s0.filters,
              rooms |-> s0.rooms, blocks |-> s0.blocks]
    BY StoreIs
  <2> HIDE DEF s, filters
  <2> QED
    BY <2>1, <2>2
<1>2. filters \in [Person -> Filters] /\ \A q \in Person \ {p} : filters[q] = s0.filters[q]
  BY StoreIs
<1> HIDE DEF s, filters
<1>3. s \in QueueStore
  BY <1>1, <1>2, StoreIs DEF QueueStore
<1>4. s.waiting = s0.waiting /\ s.since = s0.since /\ s.blocks = s0.blocks /\ s.filters = filters
  BY <1>1
<1> QED
  BY <1>2, <1>3, <1>4 DEF s

LEMMA BlocksAreKept ==
  ASSUME NEW s \in QueueStore
  PROVE  \A pair \in Pair : s.blocks[pair] <= s.blocks[pair]
<1>1. ASSUME NEW pair \in Pair PROVE s.blocks[pair] <= s.blocks[pair]
  <2> DEFINE x == s.blocks[pair]
  <2>1. x \in 0 .. Horizon + BlockTicks
    BY StoreIs
  <2> HIDE DEF x
  <2>2. x <= x
    BY <2>1, QueueConstants
  <2> QED
    BY <2>2 DEF x
<1> QED
  BY <1>1

LEMMA HelloKeeps ==
  ASSUME QueueInv, NEW r \in Server, NEW p \in Person, NEW f \in Filters, helloLocked(r, p, f)
  PROVE  QueueInv'
<1> DEFINE s1 == [store EXCEPT !.filters[p] = f]
           order == <<p>>
           s == Enqueue(s1, order)
           m == Mark(s, memory[r], {p})
<1>1. QueueTyped /\ Watch(store, memory, low, unmarked, now) /\ store \in QueueStore
  BY DEF QueueInv, QueueTyped
<1>2. EndSection(r, s, m, FALSE) /\ UNCHANGED <<low, open, now>>
  BY DEF helloLocked
<1>3. /\ s1 \in QueueStore /\ s1.waiting = store.waiting /\ s1.since = store.since /\ s1.blocks = store.blocks
      /\ \A q \in Person \ {p} : s1.filters[q] = store.filters[q]
  BY <1>1, RefilteredIs
<1>4. order \in Queues /\ ToSet(order) = {p}
  BY DEF Queues, IsInjective, ToSet
<1>5. \A pair \in Pair : store.blocks[pair] <= s1.blocks[pair]
  BY <1>1, <1>3, BlocksAreKept
<1> HIDE DEF s1, order
<1>6. /\ s \in QueueStore /\ m \in QueueMemory /\ \A q \in Person : s.since[q] <= now
      /\ Watch(s, [memory EXCEPT ![r] = m], low, unmarked, now)
  <2>1. \A q \in Person \ ToSet(order) : s1.filters[q] = store.filters[q]
    BY <1>3, <1>4
  <2>2. LET k == Mark(s, memory[r], ToSet(order))
        IN  /\ s \in QueueStore /\ k \in QueueMemory /\ \A q \in Person : s.since[q] <= now
            /\ Watch(s, [memory EXCEPT ![r] = k], low, unmarked, now)
    BY <1>1, <1>3, <1>4, <1>5, <2>1, QueuedAreWatched
  <2> QED
    BY <1>4, <2>2
<1> HIDE DEF s, m
<1> QED
  BY <1>1, <1>2, <1>6, SectionKeeps

LEMMA EndRoomKeeps ==
  ASSUME QueueInv, NEW r \in Server, NEW pair \in store.rooms, NEW order \in SeqOf(Person, 2), NEW blocked \in BOOLEAN,
         IsInjective(order), endRoom(r, pair, order, blocked)
  PROVE  QueueInv'
<1> DEFINE until == IF blocked THEN Max({store.blocks[pair], now + BlockTicks}) ELSE store.blocks[pair]
           blocks == [store.blocks EXCEPT ![pair] = until]
           s1 == [store EXCEPT !.rooms = @ \ {pair},
                               !.blocks[pair] = IF blocked THEN Max({@, now + BlockTicks}) ELSE @]
           s == Enqueue(s1, order)
           m == Mark(s, memory[r], ToSet(order))
<1>1. QueueTyped /\ Watch(store, memory, low, unmarked, now) /\ store \in QueueStore /\ now \in 0 .. Horizon
  BY DEF QueueInv, QueueTyped
<1>2. EndSection(r, s, m, FALSE) /\ UNCHANGED <<low, open, now>>
  BY DEF endRoom
<1>3. pair \in Pair /\ store.blocks[pair] \in 0 .. Horizon + BlockTicks
  BY <1>1, StoreIs
<1>4. until \in 0 .. Horizon + BlockTicks /\ store.blocks[pair] <= until
  <2> DEFINE x == store.blocks[pair]
             y == now + BlockTicks
  <2>1. x \in 0 .. Horizon + BlockTicks /\ y \in 0 .. Horizon + BlockTicks /\ x \in Int /\ y \in Int /\ x <= x
    <3>1. x \in 0 .. Horizon + BlockTicks
      BY <1>3
    <3> HIDE DEF x
    <3> QED
      BY <1>1, <3>1, QueueConstants
  <2> HIDE DEF x, y
  <2>2. Max({x, y}) \in {x, y} /\ Max({x, y}) >= x
    BY <2>1, MaxOfTwo
  <2>3. Max({x, y}) \in 0 .. Horizon + BlockTicks /\ x <= Max({x, y})
    BY <2>1, <2>2
  <2>4. until = IF blocked THEN Max({x, y}) ELSE x
    BY DEF x, y
  <2> HIDE DEF until
  <2> QED
    BY <2>1, <2>3, <2>4 DEF x
<1>5. s1 = [waiting |-> store.waiting, since |-> store.since, filters |-> store.filters,
            rooms |-> store.rooms \ {pair}, blocks |-> blocks]
  <2>1. s1 = [store EXCEPT !.rooms = @ \ {pair}, !.blocks = blocks]
    <3>1. store = [waiting |-> store.waiting, since |-> store.since, filters |-> store.filters,
                   rooms |-> store.rooms, blocks |-> store.blocks]
      BY <1>1, StoreIs
    <3>2. [store EXCEPT !.rooms = store.rooms \ {pair}].blocks = store.blocks
      BY <3>1
    <3> QED
      BY <3>2
  <2>2. store = [waiting |-> store.waiting, since |-> store.since, filters |-> store.filters,
                 rooms |-> store.rooms, blocks |-> store.blocks]
    BY <1>1, StoreIs
  <2> HIDE DEF s1, blocks
  <2> QED
    BY <2>1, <2>2
<1> HIDE DEF until, s1
<1>6. blocks \in [Pair -> 0 .. Horizon + BlockTicks] /\ \A q \in Pair : store.blocks[q] <= blocks[q]
  BY <1>1, <1>3, <1>4, BlocksAreKept, StoreIs
<1> HIDE DEF blocks
<1>7. /\ s1 \in QueueStore /\ s1.waiting = store.waiting /\ s1.since = store.since /\ s1.filters = store.filters
      /\ s1.blocks = blocks
  <2>1. store.rooms \ {pair} \subseteq Pair
    BY <1>1, StoreIs
  <2> QED
    BY <1>1, <1>5, <1>6, <2>1, StoreIs DEF QueueStore
<1>8. order \in Queues
  <2>1. PICK n \in 0 .. 2 : order \in [1 .. n -> Person]
    BY DEF SeqOf
  <2> QED
    BY <2>1 DEF Queues
<1>9. /\ s \in QueueStore /\ m \in QueueMemory /\ \A q \in Person : s.since[q] <= now
      /\ Watch(s, [memory EXCEPT ![r] = m], low, unmarked, now)
  <2>1. \A q \in Person \ ToSet(order) : s1.filters[q] = store.filters[q]
    BY <1>7
  <2>2. \A q \in Pair : store.blocks[q] <= s1.blocks[q]
    BY <1>6, <1>7
  <2> QED
    BY <1>1, <1>7, <1>8, <2>1, <2>2, QueuedAreWatched
<1> HIDE DEF s, m
<1> QED
  BY <1>1, <1>2, <1>9, SectionKeeps

LEMMA DisconnectKeeps ==
  ASSUME QueueInv, NEW r \in Server, NEW p \in Person, disconnect(r, p)
  PROVE  QueueInv'
<1> DEFINE m0 == memory[r]
           wakeAt == [m0.wakeAt EXCEPT ![p] = NoLapse]
           relaxing == [m0.relaxing EXCEPT ![p] = Unknown]
           s == [store EXCEPT !.waiting = Without(@, {p})]
           m == [m0 EXCEPT !.wakeAt[p] = NoLapse, !.relaxing[p] = Unknown]
<1>1. /\ QueueTyped /\ Watch(store, memory, low, unmarked, now) /\ store \in QueueStore
      /\ memory \in [Server -> QueueMemory] /\ m0 \in QueueMemory /\ now \in Nat
      /\ \A q \in Person : store.since[q] <= now
  BY QueueConstants DEF QueueInv, QueueTyped
<1>2. EndSection(r, s, m, FALSE) /\ UNCHANGED <<low, open, now>>
  BY DEF disconnect
<1>3. store.waiting \in Queues /\ Without(store.waiting, {p}) \in Queues
      /\ ToSet(Without(store.waiting, {p})) = ToSet(store.waiting) \ {p}
  BY <1>1, StoreIs, WithoutQueue
<1>4. s = [waiting |-> Without(store.waiting, {p}), since |-> store.since, filters |-> store.filters,
           rooms |-> store.rooms, blocks |-> store.blocks]
  <2> DEFINE w == Without(store.waiting, {p})
  <2>1. s = [store EXCEPT !.waiting = w]
    OBVIOUS
  <2>2. store = [waiting |-> store.waiting, since |-> store.since, filters |-> store.filters,
                 rooms |-> store.rooms, blocks |-> store.blocks]
    BY <1>1, StoreIs
  <2> HIDE DEF s, w
  <2>3. s = [waiting |-> w, since |-> store.since, filters |-> store.filters,
             rooms |-> store.rooms, blocks |-> store.blocks]
    BY <2>1, <2>2
  <2> QED
    BY <2>3 DEF w
<1>5. m = [dirty |-> m0.dirty, relaxing |-> relaxing, wakeAt |-> wakeAt, recheckCursor |-> m0.recheckCursor]
  <2>1. m0 = [dirty |-> m0.dirty, relaxing |-> m0.relaxing, wakeAt |-> m0.wakeAt, recheckCursor |-> m0.recheckCursor]
    BY <1>1, MemoryIs
  <2>2. m = [m0 EXCEPT !.wakeAt = wakeAt, !.relaxing = relaxing]
    <3> HIDE DEF m0
    <3>1. [m0 EXCEPT !.wakeAt = wakeAt].relaxing = m0.relaxing
      BY <2>1
    <3> QED
      BY <3>1
  <2> HIDE DEF m, wakeAt, relaxing, m0
  <2> QED
    BY <2>1, <2>2
<1> HIDE DEF s, m, m0
<1>6. /\ wakeAt \in [Person -> 1 .. NoLapse] /\ relaxing \in [Person -> RelaxingEntry]
      /\ \A q \in Person \ {p} : wakeAt[q] = m0.wakeAt[q] /\ relaxing[q] = m0.relaxing[q]
  BY <1>1, MemoryIs, UnknownType, QueueConstants
<1> HIDE DEF wakeAt, relaxing
<1>7. m \in QueueMemory /\ m.dirty = m0.dirty /\ m.wakeAt = wakeAt /\ m.relaxing = relaxing
  BY <1>1, <1>5, <1>6, MemoryIs DEF QueueMemory
<1>8. /\ s \in QueueStore /\ s.since = store.since /\ s.filters = store.filters /\ s.blocks = store.blocks
      /\ ToSet(s.waiting) = ToSet(store.waiting) \ {p}
  BY <1>1, <1>3, <1>4, StoreIs DEF QueueStore
<1>9. ASSUME NEW q \in Kept(s, unmarked)
      PROVE  Tracked(s, [memory EXCEPT ![r] = m], low, q, now) /\ Stays(store, unmarked, s, memory[r], m, now, q)
  <2>1. q \in Kept(store, unmarked) /\ q \in Person \ {p}
    BY <1>1, <1>8, <1>9, WaitingArePersons DEF Kept
  <2>2. Untouched(store, unmarked, s, memory[r], m, q)
    BY <1>6, <1>7, <1>8, <2>1 DEF Untouched, m0
  <2> QED
    BY <1>1, <2>2, UntouchedStays
<1>10. Watch(s, [memory EXCEPT ![r] = m], low, unmarked, now)
  <2>1. store.blocks \in [Pair -> 0 .. Horizon + BlockTicks] /\ \A pair \in Pair : store.blocks[pair] <= s.blocks[pair]
    BY <1>1, <1>8, StoreIs, BlocksAreKept
  <2> QED
    BY <1>1, <1>7, <1>8, <1>9, <2>1, WatchCarries
<1>11. \A q \in Person : s.since[q] <= now
  BY <1>1, <1>8
<1> QED
  BY <1>1, <1>2, <1>7, <1>8, <1>10, <1>11, SectionKeeps

LEMMA PreferencesKeep ==
  ASSUME QueueInv, NEW r \in Server, NEW p \in Person, NEW f \in Filters, updatePreferences(r, p, f)
  PROVE  QueueInv'
<1> DEFINE m0 == memory[r]
           s == [store EXCEPT !.filters[p] = f]
           marked == [m0 EXCEPT !.dirty = @ \cup {p}]
<1>1. /\ QueueTyped /\ Watch(store, memory, low, unmarked, now) /\ store \in QueueStore
      /\ memory \in [Server -> QueueMemory] /\ m0 \in QueueMemory /\ now \in Nat
      /\ unmarked \subseteq ToSet(store.waiting) /\ \A q \in Person : store.since[q] <= now
  BY QueueConstants DEF QueueInv, QueueTyped
<1>2. /\ IF Waiting(store, p) THEN EndSection(r, s, marked, FALSE) ELSE store' = s /\ UNCHANGED <<memory, unmarked>>
      /\ UNCHANGED <<low, open, now>>
  BY DEF updatePreferences
<1>3. /\ s \in QueueStore /\ s.waiting = store.waiting /\ s.since = store.since /\ s.blocks = store.blocks
      /\ \A q \in Person \ {p} : s.filters[q] = store.filters[q]
  BY <1>1, RefilteredIs
<1>4. /\ marked \in QueueMemory /\ marked.dirty = m0.dirty \cup {p}
      /\ marked.wakeAt = m0.wakeAt /\ marked.relaxing = m0.relaxing
  <2>1. m0 = [dirty |-> m0.dirty, relaxing |-> m0.relaxing, wakeAt |-> m0.wakeAt, recheckCursor |-> m0.recheckCursor]
    BY <1>1, MemoryIs
  <2>2. marked = [dirty |-> m0.dirty \cup {p}, relaxing |-> m0.relaxing,
                  wakeAt |-> m0.wakeAt, recheckCursor |-> m0.recheckCursor]
    <3> HIDE DEF m0
    <3> QED
      BY <2>1
  <2>3. m0.dirty \cup {p} \subseteq Person
    BY <1>1, MemoryIs
  <2> HIDE DEF marked, m0
  <2> QED
    BY <1>1, <2>2, <2>3, MemoryIs DEF QueueMemory
<1> HIDE DEF s, marked
<1>5. store.blocks \in [Pair -> 0 .. Horizon + BlockTicks] /\ \A pair \in Pair : store.blocks[pair] <= s.blocks[pair]
  BY <1>1, <1>3, StoreIs, BlocksAreKept
<1>6. \A q \in Kept(s, unmarked) : q \in Kept(store, unmarked) /\ q \in Person
  BY <1>1, <1>3, WaitingArePersons DEF Kept
\* Those that keep their filters keep their marks; whoever waits and changes them is marked.
<1>7. ASSUME NEW m, m = marked \/ m = m0, NEW q \in Kept(s, unmarked), q # p
      PROVE  Tracked(s, [memory EXCEPT ![r] = m], low, q, now) /\ Stays(store, unmarked, s, memory[r], m, now, q)
  <2>1. Untouched(store, unmarked, s, memory[r], m, q)
    BY <1>3, <1>4, <1>6, <1>7 DEF Untouched, m0
  <2> QED
    BY <1>1, <2>1, UntouchedStays
<1>8. CASE Waiting(store, p)
  <2>1. ASSUME p \in Kept(s, unmarked) PROVE Tracked(s, [memory EXCEPT ![r] = marked], low, p, now)
    <3> DEFINE new == [memory EXCEPT ![r] = marked]
    <3>1. Tracked(store, memory, low, p, now)
      BY <1>1, <1>6, <2>1 DEF Watch
    <3>2. \A r2 \in Server : new[r2].relaxing[p] = memory[r2].relaxing[p]
      BY <1>1, <1>4 DEF m0
    <3> HIDE DEF new
    <3>3. Tracked(s, new, low, p, now)
      BY <1>3, <3>1, <3>2 DEF Tracked, StepAt
    <3> QED
      BY <3>3 DEF new
  <2>2. \A q \in Kept(s, unmarked) : Tracked(s, [memory EXCEPT ![r] = marked], low, q, now)
    BY <1>7, <2>1
  <2>3. \A q \in Kept(s, unmarked) : q \in marked.dirty \/ Stays(store, unmarked, s, memory[r], marked, now, q)
    BY <1>4, <1>7
  <2>4. Watch(s, [memory EXCEPT ![r] = marked], low, unmarked, now)
    BY <1>1, <1>3, <1>4, <1>5, <2>2, <2>3, WatchCarries
  <2>5. \A q \in Person : s.since[q] <= now
    BY <1>1, <1>3
  <2>6. EndSection(r, s, marked, FALSE) /\ UNCHANGED <<low, open, now>>
    BY <1>2, <1>8
  <2> QED
    BY <1>1, <1>3, <1>4, <2>4, <2>5, <2>6, SectionKeeps
<1>9. CASE ~Waiting(store, p)
  <2>1. \A q \in Kept(s, unmarked) : q # p
    BY <1>3, <1>9 DEF Kept, Waiting
  <2>2. [memory EXCEPT ![r] = m0] = memory
    BY <1>1 DEF m0
  <2>3. /\ \A q \in Kept(s, unmarked) : Tracked(s, [memory EXCEPT ![r] = m0], low, q, now)
        /\ \A q \in Kept(s, unmarked) : q \in m0.dirty \/ Stays(store, unmarked, s, memory[r], m0, now, q)
    BY <1>7, <2>1
  <2>4. Watch(s, [memory EXCEPT ![r] = m0], low, unmarked, now)
    BY <1>1, <1>3, <1>5, <2>3, WatchCarries
  <2>5. Watch(s, memory, low, unmarked, now)
    BY <2>2, <2>4
  <2>6. store' = s /\ memory' = memory /\ unmarked' = unmarked /\ low' = low /\ open' = open /\ now' = now
    BY <1>2, <1>9
  <2>7. QueueTyped'
    BY <1>1, <1>3, <2>6 DEF QueueTyped
  <2> QED
    BY <2>5, <2>6, <2>7 DEF QueueInv
<1> QED
  BY <1>8, <1>9

\* The marks the sweeper takes make up for what its ticks drop.
LEMMA SweptStays ==
  ASSUME QueueInv, NEW r \in Server, NEW p \in Kept(store, unmarked)
  PROVE  LET m == RelaxTick(Wake(memory[r]))
         IN  /\ m \in QueueMemory
             /\ \A t \in now .. Horizon : DueAt(memory[r], store, p, t) => DueAt(m, store, p, t)
             /\ Tracked(store, [memory EXCEPT ![r] = m], low, p, now)
<1> DEFINE m0 == memory[r]
           w == Wake(m0)
           m == RelaxTick(w)
           entry == m0.relaxing[p]
           step == RelaxStep(now - entry.since, entry.low)
           new == [memory EXCEPT ![r] = m]
<1>1. /\ Watch(store, memory, low, unmarked, now) /\ store \in QueueStore /\ now \in 0 .. Horizon
      /\ memory \in [Server -> QueueMemory] /\ m0 \in QueueMemory /\ now \in Nat
  BY QueueConstants DEF QueueInv, QueueTyped
<1>2. p \in Person /\ Waiting(store, p)
  BY <1>1, WaitingArePersons DEF Kept, Waiting
<1>3. /\ w \in QueueMemory /\ w.relaxing = m0.relaxing /\ w.dirty = m0.dirty \cup {q \in Person : m0.wakeAt[q] <= now}
      /\ w.wakeAt[p] = IF m0.wakeAt[p] <= now THEN NoLapse ELSE m0.wakeAt[p]
  BY <1>1, <1>2, WakeIs
<1> HIDE DEF w
<1>4. /\ m \in QueueMemory /\ m.wakeAt = w.wakeAt
      /\ m.dirty = w.dirty \cup
           {q \in Person : /\ RelaxStep(now - w.relaxing[q].since, w.relaxing[q].low) > w.relaxing[q].step
                          /\ Waiting(store, q) /\ store.since[q] = w.relaxing[q].since}
      /\ m.relaxing[p] =
           IF ~(RelaxStep(now - w.relaxing[p].since, w.relaxing[p].low) > w.relaxing[p].step) THEN w.relaxing[p]
           ELSE IF ~(Waiting(store, p) /\ store.since[p] = w.relaxing[p].since)
                   \/ RelaxStep(now - w.relaxing[p].since, w.relaxing[p].low) = MaxStep THEN Unknown
           ELSE [w.relaxing[p] EXCEPT !.step = RelaxStep(now - w.relaxing[p].since, w.relaxing[p].low)]
  BY <1>1, <1>2, <1>3, RelaxTickIs
<1> HIDE DEF m
<1>5. /\ m0.dirty \subseteq m.dirty /\ (m0.wakeAt[p] <= now => p \in m.dirty)
      /\ ~(m0.wakeAt[p] <= now) => m.wakeAt[p] = m0.wakeAt[p]
      /\ step > entry.step /\ store.since[p] = entry.since => p \in m.dirty
      /\ m.relaxing[p] = IF ~(step > entry.step) THEN entry
                         ELSE IF store.since[p] # entry.since \/ step = MaxStep THEN Unknown
                         ELSE [entry EXCEPT !.step = step]
  BY <1>2, <1>3, <1>4
<1>6. entry \in RelaxingEntry
  BY <1>1, <1>2, MemoryIs
<1> HIDE DEF m0, step
<1>7. ASSUME NEW t \in now .. Horizon, DueAt(m0, store, p, t)
      PROVE  DueAt(m, store, p, t)
  <2>1. CASE p \in m0.dirty \/ m0.wakeAt[p] <= t
    BY <1>5, <2>1 DEF DueAt
  <2>2. CASE entry.since = store.since[p] /\ Climbs(entry, t)
    <3>1. CASE step > entry.step
      BY <1>5, <2>2, <3>1 DEF DueAt
    <3>2. CASE ~(step > entry.step)
      BY <1>5, <2>2, <3>2 DEF DueAt
    <3> QED
      BY <3>1, <3>2
  <2> QED
    BY <1>7, <2>1, <2>2 DEF DueAt
<1>8. Tracked(store, new, low, p, now)
  <2> DEFINE at == StepAt(store, low, p, now)
  <2>1. CASE at = MaxStep
    BY <2>1 DEF Tracked
  <2>2. ASSUME NEW r2 \in Server, memory[r2].relaxing[p].since = store.since[p],
               memory[r2].relaxing[p].low = (p \in low), memory[r2].relaxing[p].step <= at, at # MaxStep
        PROVE  Tracked(store, new, low, p, now)
    <3>1. CASE r2 # r
      <4>1. new[r2] = memory[r2]
        BY <1>1, <3>1
      <4> QED
        BY <2>2, <4>1 DEF Tracked
    <3>2. CASE r2 = r
      <4>1. entry.since = store.since[p] /\ entry.low = (p \in low) /\ entry.step <= at
        BY <2>2, <3>2 DEF m0
      <4>2. step = at
        BY <4>1 DEF step, StepAt
      <4>3. at \in Held .. MaxStep
        BY <1>1, <1>2, StepAtGrows
      <4> HIDE DEF at, entry
      <4>4. m.relaxing[p].since = entry.since /\ m.relaxing[p].low = entry.low /\ m.relaxing[p].step <= at
        <5>1. CASE ~(step > entry.step)
          BY <1>5, <4>1, <5>1
        <5>2. CASE step > entry.step
          <6>1. m.relaxing[p] = [entry EXCEPT !.step = at]
            BY <1>5, <2>2, <4>1, <4>2, <5>2
          <6>2. m.relaxing[p].since = entry.since /\ m.relaxing[p].low = entry.low /\ m.relaxing[p].step = at
            BY <1>6, <6>1 DEF RelaxingEntry
          <6> QED
            BY <4>3, <6>2, QueueConstants
        <5> QED
          BY <5>1, <5>2
      <4>5. new[r] = m
        BY <1>1
      <4> QED
        BY <4>1, <4>4, <4>5 DEF Tracked, at
    <3> QED
      BY <3>1, <3>2
  <2>3. Tracked(store, memory, low, p, now)
    BY <1>1 DEF Watch
  <2> QED
    BY <2>1, <2>2, <2>3 DEF Tracked
<1> QED
  BY <1>4, <1>7, <1>8 DEF m, w, m0

LEMMA SweepKeeps ==
  ASSUME QueueInv, NEW r \in Server, NEW recheck \in BOOLEAN, sweep(r, recheck)
  PROVE  QueueInv'
<1> DEFINE k == RelaxTick(Wake(memory[r]))
           m == Forget(k, recheck)
           new == [memory EXCEPT ![r] = m]
<1>1. /\ QueueTyped /\ Watch(store, memory, low, unmarked, now) /\ store \in QueueStore /\ now \in 0 .. Horizon
      /\ memory \in [Server -> QueueMemory] /\ memory[r] \in QueueMemory /\ now \in Nat
      /\ \A p \in Person : store.since[p] <= now
  BY QueueConstants DEF QueueInv, QueueTyped
<1>2. EndSection(r, store, m, recheck) /\ UNCHANGED <<low, open, now>>
  BY DEF sweep
<1>3. k \in QueueMemory
  <2>1. Wake(memory[r]) \in QueueMemory
    BY <1>1, WakeIs
  <2> QED
    BY <1>1, <2>1, RelaxTickIs
<1> HIDE DEF k
<1>4. /\ m \in QueueMemory /\ m.relaxing = k.relaxing /\ m.dirty = k.dirty
      /\ \A p \in ToSet(store.waiting) \cap Person : m.wakeAt[p] = k.wakeAt[p]
  BY <1>3, ForgetIs
<1> HIDE DEF m
<1>5. ASSUME NEW p \in Kept(store, unmarked)
      PROVE  Tracked(store, new, low, p, now) /\ Stays(store, unmarked, store, memory[r], m, now, p)
  <2>1. /\ \A t \in now .. Horizon : DueAt(memory[r], store, p, t) => DueAt(k, store, p, t)
        /\ Tracked(store, [memory EXCEPT ![r] = k], low, p, now)
    BY SweptStays DEF k
  <2>2. p \in ToSet(store.waiting) \cap Person
    BY <1>1, WaitingArePersons DEF Kept
  <2>3. \A t \in now .. Horizon : DueAt(k, store, p, t) => DueAt(m, store, p, t)
    BY <1>4, <2>2 DEF DueAt
  <2> DEFINE swept == [memory EXCEPT ![r] = k]
  <2>4. \A r2 \in Server : new[r2].relaxing = swept[r2].relaxing
    BY <1>1, <1>4
  <2> HIDE DEF swept, new
  <2>5. Tracked(store, new, low, p, now)
    BY <2>1, <2>4 DEF Tracked, swept
  <2> QED
    BY <2>1, <2>3, <2>5 DEF Stays
<1>6. Watch(store, new, low, unmarked, now)
  <2>1. /\ store.blocks \in [Pair -> 0 .. Horizon + BlockTicks]
        /\ \A pair \in Pair : store.blocks[pair] <= store.blocks[pair]
    BY <1>1, StoreIs, BlocksAreKept
  <2> QED
    BY <1>1, <1>4, <1>5, <2>1, WatchCarries
<1> QED
  BY <1>1, <1>2, <1>4, <1>6, SectionKeeps

LEMMA PassFailsKeeps ==
  ASSUME QueueInv, NEW r \in Server, passFails(r)
  PROVE  QueueInv'
<1> DEFINE k == RelaxTick(Wake(memory[r]))
           m == [k EXCEPT !.dirty = {}]
           new == [memory EXCEPT ![r] = m]
           lost == unmarked \cup (k.dirty \cap ToSet(store.waiting))
<1>1. /\ QueueTyped /\ Watch(store, memory, low, unmarked, now) /\ store \in QueueStore /\ now \in 0 .. Horizon
      /\ memory \in [Server -> QueueMemory] /\ memory[r] \in QueueMemory /\ now \in Nat
      /\ unmarked \subseteq ToSet(store.waiting)
  BY QueueConstants DEF QueueInv, QueueTyped
<1>2. memory' = new /\ unmarked' = lost /\ UNCHANGED <<store, low, open, now>>
  BY DEF passFails
<1>3. k \in QueueMemory
  <2>1. Wake(memory[r]) \in QueueMemory
    BY <1>1, WakeIs
  <2> QED
    BY <1>1, <2>1, RelaxTickIs
<1> HIDE DEF k
<1>4. m \in QueueMemory /\ m.relaxing = k.relaxing /\ m.dirty = {} /\ m.wakeAt = k.wakeAt
  <2>1. k = [dirty |-> k.dirty, relaxing |-> k.relaxing, wakeAt |-> k.wakeAt, recheckCursor |-> k.recheckCursor]
    BY <1>3, MemoryIs
  <2>2. m = [dirty |-> {}, relaxing |-> k.relaxing, wakeAt |-> k.wakeAt, recheckCursor |-> k.recheckCursor]
    BY <2>1
  <2> HIDE DEF m
  <2> QED
    BY <1>3, <2>2, MemoryIs DEF QueueMemory
<1> HIDE DEF m
<1>5. ASSUME NEW p \in Kept(store, lost)
      PROVE  Tracked(store, new, low, p, now) /\ Stays(store, unmarked, store, memory[r], m, now, p)
  <2>1. p \in Kept(store, unmarked) /\ p \notin k.dirty
    BY DEF Kept
  <2>2. /\ \A t \in now .. Horizon : DueAt(memory[r], store, p, t) => DueAt(k, store, p, t)
        /\ Tracked(store, [memory EXCEPT ![r] = k], low, p, now)
    BY <2>1, SweptStays DEF k
  <2>3. \A t \in now .. Horizon : DueAt(k, store, p, t) => DueAt(m, store, p, t)
    BY <1>4, <2>1 DEF DueAt
  <2> DEFINE swept == [memory EXCEPT ![r] = k]
  <2>4. \A r2 \in Server : new[r2].relaxing = swept[r2].relaxing
    BY <1>1, <1>4
  <2> HIDE DEF swept, new
  <2>5. Tracked(store, new, low, p, now)
    BY <2>2, <2>4 DEF Tracked, swept
  <2> QED
    BY <2>1, <2>2, <2>3, <2>5 DEF Stays
<1>6. Watch(store, new, low, lost, now)
  <2>1. /\ store.blocks \in [Pair -> 0 .. Horizon + BlockTicks]
        /\ \A pair \in Pair : store.blocks[pair] <= store.blocks[pair]
    BY <1>1, StoreIs, BlocksAreKept
  <2> HIDE DEF lost
  <2> QED
    BY <1>1, <1>4, <1>5, <2>1, WatchCarries
<1>7. new \in [Server -> QueueMemory] /\ lost \subseteq ToSet(store.waiting)
  BY <1>1, <1>4
<1> HIDE DEF new, lost
<1>8. QueueTyped'
  BY <1>1, <1>2, <1>7 DEF QueueTyped
<1> QED
  BY <1>2, <1>6, <1>8 DEF QueueInv

LEMMA ForgetfulType ==
  Forgetful \in QueueMemory /\ Forgetful.dirty = {}
  /\ \A p \in Person : Forgetful.wakeAt[p] = NoLapse /\ Forgetful.relaxing[p] = Unknown
BY UnknownType, QueueConstants DEF Forgetful, QueueMemory

LEMMA CrashKeeps ==
  ASSUME QueueInv, NEW r \in Server, crash(r)
  PROVE  QueueInv'
<1> DEFINE new == [memory EXCEPT ![r] = Forgetful]
           lost == unmarked \cup {p \in ToSet(store.waiting) : Marked(memory[r], p)}
<1>1. /\ QueueTyped /\ Watch(store, memory, low, unmarked, now) /\ store \in QueueStore /\ now \in Nat
      /\ memory \in [Server -> QueueMemory] /\ unmarked \subseteq ToSet(store.waiting)
  BY QueueConstants DEF QueueInv, QueueTyped
<1>2. memory' = new /\ unmarked' = lost /\ UNCHANGED <<store, low, open, now>>
  BY DEF crash
<1>3. ASSUME NEW p \in Kept(store, lost)
      PROVE  Tracked(store, new, low, p, now) /\ Stays(store, unmarked, store, memory[r], Forgetful, now, p)
  <2>1. p \in Kept(store, unmarked) /\ p \in Person /\ ~Marked(memory[r], p)
    BY <1>1, WaitingArePersons DEF Kept
  <2>2. Untouched(store, unmarked, store, memory[r], Forgetful, p)
    BY <2>1, ForgetfulType DEF Untouched, Marked
  <2> QED
    BY <1>1, <2>2, UntouchedStays
<1>4. Watch(store, new, low, lost, now)
  <2>1. /\ store.blocks \in [Pair -> 0 .. Horizon + BlockTicks]
        /\ \A pair \in Pair : store.blocks[pair] <= store.blocks[pair]
    BY <1>1, StoreIs, BlocksAreKept
  <2> HIDE DEF lost
  <2> QED
    BY <1>1, <1>3, <2>1, ForgetfulType, WatchCarries
<1>5. new \in [Server -> QueueMemory] /\ lost \subseteq ToSet(store.waiting)
  BY <1>1, ForgetfulType
<1> HIDE DEF new, lost
<1>6. QueueTyped'
  BY <1>1, <1>2, <1>5 DEF QueueTyped
<1> QED
  BY <1>2, <1>4, <1>6 DEF QueueInv

LEMMA PriorityKeeps ==
  ASSUME QueueInv, NEW p \in Person, priorityChanges(p)
  PROVE  QueueInv'
<1> DEFINE lows == IF p \in low THEN low \ {p} ELSE low \cup {p}
           lost == unmarked \cup ({p} \cap ToSet(store.waiting))
<1>1. /\ QueueTyped /\ Watch(store, memory, low, unmarked, now) /\ store \in QueueStore
      /\ unmarked \subseteq ToSet(store.waiting) /\ low \subseteq Person
  BY DEF QueueInv, QueueTyped
<1>2. low' = lows /\ unmarked' = lost /\ UNCHANGED <<store, memory, open, now>>
  BY DEF priorityChanges
<1>3. \A q \in Kept(store, lost) : q \in Kept(store, unmarked) /\ (q \in lows <=> q \in low)
  BY DEF Kept
<1>4. lows \subseteq Person /\ lost \subseteq ToSet(store.waiting)
  BY <1>1
<1> HIDE DEF lows, lost
<1>5. ASSUME NEW q \in Kept(store, lost), NEW t PROVE StepAt(store, lows, q, t) = StepAt(store, low, q, t)
  <2>1. (q \in lows) = (q \in low)
    BY <1>3
  <2> QED
    BY <2>1 DEF StepAt
<1>6. ASSUME NEW q \in Kept(store, lost) PROVE Tracked(store, memory, lows, q, now)
  <2>1. (q \in lows) = (q \in low) /\ Tracked(store, memory, low, q, now)
    BY <1>1, <1>3 DEF Watch
  <2> QED
    BY <1>5, <2>1 DEF Tracked
<1>7. ASSUME NEW a \in Kept(store, lost), NEW b \in Kept(store, lost), NEW t \in now .. Horizon,
             SuitsAt(store, lows, a, b, t), store.blocks[{a, b}] <= t
      PROVE  \E r \in Server : DueAt(memory[r], store, a, t) \/ DueAt(memory[r], store, b, t)
  <2>1. SuitsAt(store, low, a, b, t)
    BY <1>5, <1>7 DEF SuitsAt
  <2> QED
    BY <1>1, <1>3, <1>7, <2>1 DEF Watch
<1>8. Watch(store, memory, lows, lost, now)
  BY <1>6, <1>7 DEF Watch
<1>9. QueueTyped'
  BY <1>1, <1>2, <1>4 DEF QueueTyped
<1> QED
  BY <1>2, <1>8, <1>9 DEF QueueInv

LEMMA ClockKeeps ==
  ASSUME QueueInv, tick
  PROVE  QueueInv'
<1>1. /\ QueueTyped /\ Watch(store, memory, low, unmarked, now) /\ store \in QueueStore /\ now \in 0 .. Horizon
      /\ memory \in [Server -> QueueMemory] /\ \A p \in Person : store.since[p] <= now
  BY DEF QueueInv, QueueTyped
<1>2. now < Horizon /\ now' = now + 1 /\ UNCHANGED <<store, memory, low, open, unmarked>>
  BY DEF tick
<1>3. now \in Nat /\ now + 1 \in Nat /\ now <= now + 1 /\ now + 1 \in 0 .. Horizon
      /\ now + 1 .. Horizon \subseteq now .. Horizon
  BY <1>1, <1>2, QueueConstants
<1>4. ASSUME NEW p \in Kept(store, unmarked) PROVE Tracked(store, memory, low, p, now + 1)
  <2> DEFINE before == StepAt(store, low, p, now)
             after == StepAt(store, low, p, now + 1)
  <2>1. p \in Person
    BY <1>1, WaitingArePersons DEF Kept
  <2>2. before \in Held .. MaxStep /\ after \in Held .. MaxStep /\ before <= after
    BY <1>1, <1>3, <2>1, StepAtGrows
  <2>3. before = MaxStep => after = MaxStep
    <3> HIDE DEF before, after
    <3> QED
      BY <2>2, QueueConstants
  <2>4. Tracked(store, memory, low, p, now)
    BY <1>1 DEF Watch
  <2>5. ASSUME NEW r \in Server, memory[r].relaxing[p].step <= before
        PROVE  memory[r].relaxing[p].step <= after
    <3> DEFINE x == memory[r].relaxing[p].step
    <3>1. x \in Held .. MaxStep
      BY <1>1, <2>1 DEF QueueMemory, RelaxingEntry
    <3> HIDE DEF before, after, x
    <3>2. x <= after
      BY <2>2, <2>5, <3>1, QueueConstants DEF x
    <3> QED
      BY <3>2 DEF x
  <2> QED
    BY <2>3, <2>4, <2>5 DEF Tracked
<1>5. Watch(store, memory, low, unmarked, now + 1)
  BY <1>1, <1>3, <1>4 DEF Watch
<1>6. QueueTyped'
  <2>1. \A p \in Person : store.since[p] <= now + 1
    <3> SUFFICES ASSUME NEW p \in Person PROVE store.since[p] <= now + 1
      OBVIOUS
    <3> DEFINE x == store.since[p]
    <3>1. x \in 0 .. Horizon /\ x <= now
      BY <1>1, StoreIs
    <3> HIDE DEF x
    <3>2. x <= now + 1
      BY <1>3, <3>1, QueueConstants
    <3> QED
      BY <3>2 DEF x
  <2> QED
    BY <1>1, <1>2, <1>3, <2>1 DEF QueueTyped
<1> QED
  BY <1>2, <1>5, <1>6 DEF QueueInv

LEMMA FlagsKeep ==
  ASSUME QueueInv, flagsChange
  PROVE  QueueInv'
<1>1. UNCHANGED <<store, memory, low, now, unmarked>> /\ open' \in BOOLEAN
  BY DEF flagsChange
<1>2. QueueTyped'
  BY <1>1 DEF QueueInv, QueueTyped
<1> QED
  BY <1>1, <1>2 DEF QueueInv

LEMMA QueueStarts == QueueInit => QueueInv
<1> SUFFICES ASSUME QueueInit PROVE QueueInv
  OBVIOUS
<1>1. store.waiting = <<>> /\ <<>> \in Queues /\ ToSet(store.waiting) = {}
  BY DEF QueueInit, Queues, IsInjective, ToSet
<1>2. store \in QueueStore
  <2>1. (CHOOSE f \in Filters : TRUE) \in Filters
    BY QueueAssumption
  <2> QED
    BY <1>1, <2>1, QueueConstants DEF QueueInit, QueueStore
<1>3. QueueTyped
  <2>1. \A p \in Person : store.since[p] <= now
    BY DEF QueueInit
  <2>2. memory \in [Server -> QueueMemory]
    BY ForgetfulType DEF QueueInit
  <2> QED
    BY <1>1, <1>2, <2>1, <2>2, QueueConstants DEF QueueInit, QueueTyped
<1>4. Watch(store, memory, low, unmarked, now)
  BY <1>1 DEF Watch, Kept
<1> QED
  BY <1>3, <1>4 DEF QueueInv

LEMMA QueueStep == QueueInv /\ [QueueNext]_queueVars => QueueInv'
<1> SUFFICES ASSUME QueueInv, [QueueNext]_queueVars PROVE QueueInv'
  OBVIOUS
<1>1. CASE UNCHANGED queueVars
  BY <1>1 DEF QueueInv, QueueTyped, queueVars
<1>2. CASE tick
  BY <1>2, ClockKeeps
<1>3. CASE flagsChange
  BY <1>3, FlagsKeep
<1>4. ASSUME NEW p \in Person, priorityChanges(p) PROVE QueueInv'
  BY <1>4, PriorityKeeps
<1>5. ASSUME NEW r \in Server, NEW p \in Person, NEW f \in Filters, helloLocked(r, p, f) PROVE QueueInv'
  BY <1>5, HelloKeeps
<1>6. ASSUME NEW r \in Server, NEW p \in Person, NEW f \in Filters, updatePreferences(r, p, f) PROVE QueueInv'
  BY <1>6, PreferencesKeep
<1>7. ASSUME NEW r \in Server, NEW p \in Person, disconnect(r, p) PROVE QueueInv'
  BY <1>7, DisconnectKeeps
<1>8. ASSUME NEW r \in Server, NEW pair \in store.rooms, NEW order \in SeqOf(Person, 2), NEW blocked \in BOOLEAN,
             IsInjective(order), endRoom(r, pair, order, blocked)
      PROVE  QueueInv'
  BY <1>8, EndRoomKeeps
<1>9. ASSUME NEW r \in Server, NEW recheck \in BOOLEAN, sweep(r, recheck) PROVE QueueInv'
  BY <1>9, SweepKeeps
<1>10. ASSUME NEW r \in Server, passFails(r) PROVE QueueInv'
  BY <1>10, PassFailsKeeps
<1>11. ASSUME NEW r \in Server, crash(r) PROVE QueueInv'
  BY <1>11, CrashKeeps
<1> QED
  BY <1>1, <1>2, <1>3, <1>4, <1>5, <1>6, <1>7, <1>8, <1>9, <1>10, <1>11 DEF QueueNext

LEMMA QueueTypedIsTypeOK == QueueTyped => QueueTypeOK
<1> SUFFICES ASSUME QueueTyped PROVE QueueTypeOK
  OBVIOUS
<1>1. store.waiting \in {q \in SeqOf(Person, Cardinality(Person)) : IsInjective(q)}
  <2>1. store.waiting \in Queues
    BY StoreIs DEF QueueTyped
  <2> QED
    BY <2>1, QueueLength DEF Queues
<1>2. store \in [waiting : {q \in SeqOf(Person, Cardinality(Person)) : IsInjective(q)},
                 since : [Person -> 0 .. Horizon], filters : [Person -> Filters],
                 rooms : SUBSET Pair, blocks : [Pair -> 0 .. Horizon + BlockTicks]]
  <2> DEFINE W == {q \in SeqOf(Person, Cardinality(Person)) : IsInjective(q)}
  <2>1. store.waiting \in W
    BY <1>1
  <2> HIDE DEF W
  <2>2. store \in [waiting : W, since : [Person -> 0 .. Horizon], filters : [Person -> Filters],
                   rooms : SUBSET Pair, blocks : [Pair -> 0 .. Horizon + BlockTicks]]
    BY <2>1 DEF QueueTyped, QueueStore
  <2> QED
    BY <2>2 DEF W
<1>3. memory \in [Server -> [dirty : SUBSET Person,
                             relaxing : [Person -> [since : 0 .. Horizon, step : Held .. MaxStep, low : BOOLEAN]],
                             wakeAt : [Person -> 1 .. NoLapse], recheckCursor : 0 .. 2 * Cardinality(Person)]]
  BY DEF QueueTyped, QueueMemory, RelaxingEntry
<1> QED
  BY <1>2, <1>3 DEF QueueTypeOK, QueueTyped

\* The queue holds nobody twice, and a memory notes only what can be (enqueueLocked,
\* relaxTickLocked, matchPassLocked).
THEOREM QueueTypeCorrect == QueueSpec => []QueueTypeOK
<1>1. QueueInv => QueueTypeOK
  BY QueueTypedIsTypeOK DEF QueueInv
<1> QED
  BY <1>1, QueueStarts, QueueStep, PTL DEF QueueSpec

LEMMA WatchedAreNotOverlooked == QueueInv => NobodyIsOverlooked
<1> SUFFICES ASSUME QueueInv, NEW a \in ToSet(store.waiting), NEW b \in ToSet(store.waiting),
                    Suits(store, a, b), store.blocks[{a, b}] <= now, {a, b} \cap unmarked = {}
             PROVE  \E r \in Server : IsDue(r, a) \/ IsDue(r, b)
  BY DEF NobodyIsOverlooked
<1>1. /\ Watch(store, memory, low, unmarked, now) /\ store \in QueueStore /\ now \in 0 .. Horizon
      /\ memory \in [Server -> QueueMemory] /\ now \in now .. Horizon
  BY QueueConstants DEF QueueInv, QueueTyped
<1>2. a \in Kept(store, unmarked) /\ b \in Kept(store, unmarked) /\ SuitsAt(store, low, a, b, now)
  BY SuitsNow DEF Kept
<1>3. PICK r \in Server, p \in {a, b} : DueAt(memory[r], store, p, now)
  BY <1>1, <1>2 DEF Watch
<1>4. p \in Person /\ Waiting(store, p)
  BY <1>1, WaitingArePersons DEF Waiting
<1> DEFINE m0 == memory[r]
           w == Wake(m0)
<1>5. m0 \in QueueMemory
  BY <1>1
<1>6. /\ w \in QueueMemory /\ w.relaxing = m0.relaxing
      /\ w.dirty = m0.dirty \cup {q \in Person : m0.wakeAt[q] <= now}
  BY <1>1, <1>5, WakeIs
<1> HIDE DEF w, m0
<1>7. RelaxTick(w).dirty =
        w.dirty \cup {q \in Person : /\ RelaxStep(now - w.relaxing[q].since, w.relaxing[q].low) > w.relaxing[q].step
                                     /\ Waiting(store, q) /\ store.since[q] = w.relaxing[q].since}
  BY <1>1, <1>6, RelaxTickIs
<1>8. p \in RelaxTick(w).dirty
  BY <1>3, <1>4, <1>6, <1>7 DEF DueAt, Climbs, m0
<1>9. IsDue(r, p)
  BY <1>8 DEF IsDue, w, m0
<1> QED
  BY <1>3, <1>9

\* Two waiting sessions that could be matched right now are looked at by some server's
\* next sweep, unless one of them lost its mark (matchPassLocked).
THEOREM NobodyIsOverlookedCorrect == QueueSpec => []NobodyIsOverlooked
<1> QED
  BY QueueStarts, QueueStep, WatchedAreNotOverlooked, PTL DEF QueueSpec
=============================================================================
