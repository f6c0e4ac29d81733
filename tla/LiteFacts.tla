----------------------------- MODULE LiteFacts ------------------------------
(***************************************************************************)
(* Facts about numbers and sequences that the proofs of several components *)
(* cite.                                                                   *)
(***************************************************************************)
EXTENDS Integers, Sequences, FiniteSetsExt, WellFoundedInduction, TLAPS

\* A nonempty set of numbers has a least element.
LEMMA LeastExists ==
  ASSUME NEW S \in SUBSET Nat, S # {}
  PROVE  \E m \in S : \A x \in S : m <= x
<1>. DEFINE less == {ss \in Nat \X Nat : ss[1] < ss[2]}
<1>1. IsWellFoundedOn(less, Nat)
  BY NatLessThanWellFounded DEF OpToRel
<1>2. PICK m \in S : \A x \in S : ~(<<x, m>> \in less)
  <2>. HIDE DEF less
  <2>. QED  BY <1>1, WFMin
<1>3. \A x \in S : m <= x
  <2>. SUFFICES ASSUME NEW x \in S PROVE ~(x < m)
    OBVIOUS
  <2>1. x \in Nat /\ m \in Nat
    OBVIOUS
  <2>2. ~(<<x, m>> \in less)
    BY <1>2
  <2>. QED  BY <2>1, <2>2
<1>. QED  BY <1>3

\* Max of a bounded nonempty set of numbers is its greatest element.
LEMMA MaxIsGreatest ==
  ASSUME NEW S \in SUBSET Nat, S # {}, NEW b \in Nat, \A x \in S : x <= b
  PROVE  Max(S) \in S /\ \A x \in S : x <= Max(S)
<1>. DEFINE T == {n \in Nat : \A x \in S : x <= n}
<1>1. PICK m \in T : \A n \in T : m <= n
  <2>1. T \in SUBSET Nat /\ T # {}
    BY DEF T
  <2>. HIDE DEF T
  <2>. QED  BY <2>1, LeastExists
<1>2. m \in S
  <2>. SUFFICES ASSUME m \notin S PROVE FALSE
    OBVIOUS
  <2>1. \A x \in S : x < m
    OBVIOUS
  <2>2. m \in Nat /\ \A x \in S : x \in Nat
    OBVIOUS
  <2>3. m - 1 \in Nat
    <3>1. PICK y : y \in S
      OBVIOUS
    <3>2. y \in Nat /\ y < m
      BY <2>1, <2>2, <3>1
    <3>. QED  BY <2>2, <3>2
  <2>4. m - 1 \in T
    BY <2>1, <2>2, <2>3
  <2>. QED  BY <1>1, <2>2, <2>4
<1>3. \E y \in S : \A x \in S : y >= x
  BY <1>2
<1>4. Max(S) \in S /\ \A x \in S : Max(S) >= x
  BY <1>3 DEF Max
<1>. QED  BY <1>4

\* Min of a nonempty set of numbers is its least element.
LEMMA MinIsLeast ==
  ASSUME NEW S \in SUBSET Nat, S # {}
  PROVE  Min(S) \in S /\ \A x \in S : Min(S) <= x
<1>1. \E m \in S : \A x \in S : m <= x
  BY LeastExists
<1>. QED  BY <1>1 DEF Min

\* The elements of an extended sequence.
LEMMA AppendFacts ==
  ASSUME NEW S, NEW q \in Seq(S), NEW e \in S
  PROVE  /\ Append(q, e) \in Seq(S)
         /\ Len(q) \in Nat
         /\ Len(Append(q, e)) = Len(q) + 1
         /\ DOMAIN q = 1..Len(q)
         /\ DOMAIN Append(q, e) = 1..(Len(q) + 1)
         /\ \A i \in DOMAIN q : Append(q, e)[i] = q[i] /\ q[i] \in S
         /\ Append(q, e)[Len(q) + 1] = e
         /\ \A i \in DOMAIN Append(q, e) : i \in DOMAIN q \/ i = Len(q) + 1
  OBVIOUS

\* The prefix of a sequence that a crash leaves.
LEMMA PrefixFacts ==
  ASSUME NEW S, NEW q \in Seq(S), NEW n \in 0..Len(q)
  PROVE  /\ SubSeq(q, 1, n) \in Seq(S)
         /\ Len(SubSeq(q, 1, n)) = n
         /\ DOMAIN SubSeq(q, 1, n) = 1..n
         /\ \A i \in 1..n : i \in DOMAIN q /\ SubSeq(q, 1, n)[i] = q[i]
<1>1. Len(q) \in Nat /\ DOMAIN q = 1..Len(q)
  OBVIOUS
<1>2. \A i \in 1..n : q[i] \in S /\ i \in DOMAIN q
  BY <1>1
<1>3. SubSeq(q, 1, n) = [i \in 1..n |-> q[i]]
  OBVIOUS
<1>4. SubSeq(q, 1, n) \in Seq(S)
  BY <1>2, <1>3, <1>1
<1>. QED  BY <1>1, <1>2, <1>3, <1>4

\* Induction along an interval.
LEMMA IntervalInduction ==
  ASSUME NEW n \in Nat, NEW S,
         0 \in S, \A i \in 1..n : i - 1 \in S => i \in S
  PROVE  \A i \in 0..n : i \in S
<1>. DEFINE T == {i \in 0..n : i \notin S}
<1>1. SUFFICES T = {}
  OBVIOUS
<1>2. SUFFICES ASSUME T # {} PROVE FALSE
  OBVIOUS
<1>3. PICK m \in T : \A x \in T : m <= x
  <2>1. T \in SUBSET Nat
    OBVIOUS
  <2>. HIDE DEF T
  <2>. QED  BY <1>2, <2>1, LeastExists
<1>4. m \in 1..n /\ m - 1 \in 0..n
  OBVIOUS
<1>5. m - 1 \notin T
  BY <1>3, <1>4
<1>. QED  BY <1>4, <1>5

\* A loop of n steps from a has a value after each of them.
IsLoop(g, A, n, a, step) ==
  /\ g \in [0..n -> A] /\ g[0] = a
  /\ \A i \in 1..n : g[i] = step[i][g[i - 1]]

LEMMA IterationExists ==
  ASSUME NEW A, NEW n \in Nat, NEW a \in A, NEW step \in [1..n -> [A -> A]]
  PROVE  \E g : IsLoop(g, A, n, a, step)
<1>. DEFINE Runs(k) == {g \in [0..k -> A] :
                         g[0] = a /\ \A i \in 1..k : g[i] = step[i][g[i - 1]]}
            S == {k \in 0..n : Runs(k) # {}}
<1>1. 0 \in S
  <2>1. [i \in 0..0 |-> a] \in Runs(0)
    OBVIOUS
  <2>. QED  BY <2>1
<1>2. ASSUME NEW k \in 1..n, k - 1 \in S PROVE k \in S
  <2>1. PICK g : g \in Runs(k - 1)
    BY <1>2
  <2>2. /\ g \in [0..(k - 1) -> A] /\ g[0] = a
        /\ \A i \in 1..(k - 1) : g[i] = step[i][g[i - 1]]
    BY <2>1
  <2>. DEFINE h == [i \in 0..k |-> IF i = k THEN step[k][g[k - 1]] ELSE g[i]]
  <2>3. step[k][g[k - 1]] \in A
    BY <2>2
  <2>4. h \in [0..k -> A] /\ h[0] = a
    BY <2>2, <2>3
  <2>5. ASSUME NEW i \in 1..k PROVE h[i] = step[i][h[i - 1]]
    <3>1. i - 1 \in 0..k /\ i - 1 # k /\ h[i - 1] = g[i - 1]
      OBVIOUS
    <3>2. CASE i = k
      BY <3>1, <3>2
    <3>3. CASE i # k
      <4>1. i \in 1..(k - 1) /\ h[i] = g[i]
        BY <3>3
      <4>. QED  BY <3>1, <4>1, <2>2
    <3>. QED  BY <3>2, <3>3
  <2>6. h \in Runs(k)
    <3>. HIDE DEF h
    <3>. QED  BY <2>4, <2>5
  <2>. HIDE DEF h, Runs
  <2>. QED  BY <2>6
<1>3. n \in S
  <2>. HIDE DEF S
  <2>1. \A i \in 0..n : i \in S
    BY <1>1, <1>2, IntervalInduction
  <2>. QED  BY <2>1
<1>4. PICK g : g \in Runs(n)
  BY <1>3
<1>5. /\ g \in [0..n -> A] /\ g[0] = a
      /\ \A i \in 1..n : g[i] = step[i][g[i - 1]]
  BY <1>4
<1>. QED  BY <1>5 DEF IsLoop
=============================================================================
