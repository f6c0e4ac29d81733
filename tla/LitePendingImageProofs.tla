----------------------- MODULE LitePendingImageProofs -----------------------
(***************************************************************************)
(* Proofs about the private image of a transaction.  The loops over        *)
(* mutations, deletes and rows are recursive functions; IterationExists    *)
(* says that they have values and IntervalInduction what these are.        *)
(***************************************************************************)
EXTENDS LitePendingImage, LiteFacts, FiniteSetTheorems, SequenceTheorems

-----------------------------------------------------------------------------
(***************************************************************************)
(* Sequences.                                                              *)
(***************************************************************************)
LEMMA RemoveAtFacts ==
  ASSUME NEW S, NEW q \in Seq(S), NEW j \in 1..Len(q)
  PROVE  /\ RemoveAt(q, j) \in Seq(S)
         /\ Len(q) \in Nat /\ Len(RemoveAt(q, j)) = Len(q) - 1
         /\ \A i \in 1..(Len(q) - 1) :
              RemoveAt(q, j)[i] = IF i < j THEN q[i] ELSE q[i + 1]
<1>1. Len(q) \in Nat /\ j - 1 \in 0..Len(q)
  OBVIOUS
<1>. DEFINE l == SubSeq(q, 1, j - 1)
            r == SubSeq(q, j + 1, Len(q))
<1>2. /\ l \in Seq(S) /\ Len(l) = j - 1
      /\ \A i \in 1..(j - 1) : l[i] = q[i]
  BY <1>1, PrefixFacts
<1>3. /\ r \in Seq(S) /\ Len(r) = Len(q) - j
      /\ \A i \in 1..(Len(q) - j) : r[i] = q[i + j]
  <2>1. r = [i \in 1..(Len(q) - j) |-> q[i + j]]
    BY <1>1
  <2>2. \A i \in 1..(Len(q) - j) : i + j \in 1..Len(q) /\ q[i + j] \in S
    BY <1>1
  <2>3. Len(q) - j \in Nat
    BY <1>1
  <2>. HIDE DEF r
  <2>. QED  BY <2>1, <2>2, <2>3
<1>. HIDE DEF l, r
<1>4. RemoveAt(q, j) = l \o r
  BY DEF RemoveAt, l, r
<1>5. /\ l \o r \in Seq(S) /\ Len(l \o r) = Len(q) - 1
      /\ \A i \in 1..(Len(q) - 1) : (l \o r)[i] = IF i < j THEN l[i] ELSE r[i - (j - 1)]
  <2>1. /\ l \o r \in Seq(S) /\ Len(l \o r) = Len(l) + Len(r)
        /\ \A i \in 1..(Len(l) + Len(r)) :
             (l \o r)[i] = IF i <= Len(l) THEN l[i] ELSE r[i - Len(l)]
    BY <1>2, <1>3, ConcatProperties
  <2>2. Len(l) + Len(r) = Len(q) - 1 /\ \A i \in Int : i <= j - 1 <=> i < j
    BY <1>1, <1>2, <1>3
  <2>. QED  BY <1>2, <2>1, <2>2
<1>6. ASSUME NEW i \in 1..(Len(q) - 1)
      PROVE  (l \o r)[i] = IF i < j THEN q[i] ELSE q[i + 1]
  <2>1. CASE i < j
    BY <1>1, <1>2, <1>5, <2>1
  <2>2. CASE ~(i < j)
    <3>1. i - (j - 1) \in 1..(Len(q) - j) /\ (i - (j - 1)) + j = i + 1
      BY <1>1, <2>2
    <3>2. r[i - (j - 1)] = q[(i - (j - 1)) + j]
      BY <1>3, <3>1
    <3>. QED  BY <1>5, <2>2, <3>1, <3>2
  <2>. QED  BY <2>1, <2>2
<1>. QED  BY <1>1, <1>4, <1>5, <1>6

LEMMA ReplaceAtFacts ==
  ASSUME NEW S, NEW q \in Seq(S), NEW j \in 1..Len(q), NEW e \in S
  PROVE  /\ [q EXCEPT ![j] = e] \in Seq(S)
         /\ Len(q) \in Nat /\ Len([q EXCEPT ![j] = e]) = Len(q)
         /\ \A i \in 1..Len(q) :
              [q EXCEPT ![j] = e][i] = IF i = j THEN e ELSE q[i]
  OBVIOUS

LEMMA ConcatFacts ==
  ASSUME NEW S, NEW a \in Seq(S), NEW d \in Seq(S)
  PROVE  /\ a \o d \in Seq(S) /\ Len(a) \in Nat /\ Len(d) \in Nat
         /\ Len(a \o d) = Len(a) + Len(d)
         /\ DOMAIN (a \o d) = 1..(Len(a) + Len(d))
         /\ \A x \in 1..(Len(a) + Len(d)) :
              (a \o d)[x] = IF x <= Len(a) THEN a[x] ELSE d[x - Len(a)]
<1>. DEFINE c == a \o d
<1>1. /\ c \in Seq(S) /\ Len(c) = Len(a) + Len(d)
      /\ \A x \in 1..(Len(a) + Len(d)) :
           c[x] = IF x <= Len(a) THEN a[x] ELSE d[x - Len(a)]
  BY ConcatProperties
<1>. HIDE DEF c
<1>2. DOMAIN c = 1..(Len(a) + Len(d))
  BY <1>1
<1>. QED  BY <1>1, <1>2 DEF c

\* The first place of a row, of a producer of a row.
LEMMA FirstPlace ==
  ASSUME NEW q \in Seq(Row), NEW r, PlacesOf(q, r) # {}
  PROVE  Min(PlacesOf(q, r)) \in 1..Len(q) /\ q[Min(PlacesOf(q, r))] = r
<1>1. PlacesOf(q, r) \in SUBSET Nat
  BY DEF PlacesOf
<1>2. Min(PlacesOf(q, r)) \in PlacesOf(q, r)
  BY <1>1, MinIsLeast
<1>. QED  BY <1>2 DEF PlacesOf

LEMMA FirstProducer ==
  ASSUME NEW q \in Seq(Mutation), NEW r, ProducersOf(q, r) # {}
  PROVE  Min(ProducersOf(q, r)) \in 1..Len(q) /\ q[Min(ProducersOf(q, r))].after = r
<1>1. ProducersOf(q, r) \in SUBSET Nat
  BY DEF ProducersOf
<1>2. Min(ProducersOf(q, r)) \in ProducersOf(q, r)
  BY <1>1, MinIsLeast
<1>. QED  BY <1>2 DEF ProducersOf

-----------------------------------------------------------------------------
(***************************************************************************)
(* The merges and the loops over them, one step after the other.           *)
(***************************************************************************)

\* The three places a mutation can go to.
LEMMA MergeUpdateCases ==
  ASSUME NEW p \in Pending, NEW m \in Mutation
  PROVE  LET q == MergeUpdate(p, m) IN
         \/ \E j \in 1..Len(p.rows) :
              /\ p.rows[j] = m.before
              /\ q = [p EXCEPT !.rows = [@ EXCEPT ![j] = m.after]]
         \/ \E j \in 1..Len(p.updates) :
              /\ p.updates[j].after = m.before
              /\ q = [p EXCEPT !.updates =
                        [p.updates EXCEPT ![j] = [before |-> p.updates[j].before,
                                                  after  |-> m.after]]]
         \/ /\ PlacesOf(p.rows, m.before) = {}
            /\ ProducersOf(p.updates, m.before) = {}
            /\ q = [p EXCEPT !.updates = Append(@, m)]
<1>. DEFINE q == MergeUpdate(p, m)
<1>1. p.rows \in Seq(Row) /\ p.updates \in Seq(Mutation)
  BY DEF Pending
<1>2. CASE PlacesOf(p.rows, m.before) # {}
  <2>. DEFINE j == Min(PlacesOf(p.rows, m.before))
  <2>1. j \in 1..Len(p.rows) /\ p.rows[j] = m.before
    BY <1>1, <1>2, FirstPlace
  <2>2. q = [p EXCEPT !.rows = [@ EXCEPT ![j] = m.after]]
    BY <1>2 DEF MergeUpdate, Pending
  <2>. QED  BY <2>1, <2>2
<1>3. CASE PlacesOf(p.rows, m.before) = {} /\ ProducersOf(p.updates, m.before) # {}
  <2>. DEFINE j == Min(ProducersOf(p.updates, m.before))
  <2>1. j \in 1..Len(p.updates) /\ p.updates[j].after = m.before
    BY <1>1, <1>3, FirstProducer
  <2>2. q = [p EXCEPT !.updates =
               [p.updates EXCEPT ![j] = [p.updates[j] EXCEPT !.after = m.after]]]
    BY <1>3, <1>1, <2>1 DEF MergeUpdate, Pending
  <2>3. p.updates[j] \in [before : Row, after : Row]
    BY <1>1, <2>1 DEF Mutation
  <2>4. [p.updates[j] EXCEPT !.after = m.after]
          = [before |-> p.updates[j].before, after |-> m.after]
    BY <2>3
  <2>. HIDE DEF j, q
  <2>5. q = [p EXCEPT !.updates =
               [p.updates EXCEPT ![j] = [before |-> p.updates[j].before,
                                         after  |-> m.after]]]
    BY <2>2, <2>4
  <2>. QED  BY <2>1, <2>5 DEF q
<1>4. CASE PlacesOf(p.rows, m.before) = {} /\ ProducersOf(p.updates, m.before) = {}
  BY <1>4 DEF MergeUpdate
<1>. QED  BY <1>2, <1>3, <1>4

LEMMA MergeUpdateType ==
  ASSUME NEW p \in Pending, NEW m \in Mutation
  PROVE  /\ MergeUpdate(p, m) \in Pending
         /\ MergeUpdate(p, m).initialized = p.initialized
         /\ MergeUpdate(p, m).nextRowId = p.nextRowId
         /\ MergeUpdate(p, m).deletes = p.deletes
<1>. DEFINE q == MergeUpdate(p, m)
<1>1. p.rows \in Seq(Row) /\ p.updates \in Seq(Mutation)
  BY DEF Pending
<1>2. m.before \in Row /\ m.after \in Row /\ m.after.id = m.before.id
  BY DEF Mutation
<1>3. CASE \E j \in 1..Len(p.rows) :
             /\ p.rows[j] = m.before
             /\ q = [p EXCEPT !.rows = [@ EXCEPT ![j] = m.after]]
  <2>1. PICK j \in 1..Len(p.rows) : q = [p EXCEPT !.rows = [@ EXCEPT ![j] = m.after]]
    BY <1>3
  <2>2. [p.rows EXCEPT ![j] = m.after] \in Seq(Row)
    BY <1>1, <1>2, ReplaceAtFacts
  <2>. HIDE DEF q
  <2>3. q \in Pending /\ q.initialized = p.initialized /\ q.nextRowId = p.nextRowId
        /\ q.deletes = p.deletes
    BY <2>1, <2>2 DEF Pending
  <2>. QED  BY <2>3 DEF q
<1>4. CASE \E j \in 1..Len(p.updates) :
             /\ p.updates[j].after = m.before
             /\ q = [p EXCEPT !.updates =
                       [p.updates EXCEPT ![j] = [before |-> p.updates[j].before,
                                                 after  |-> m.after]]]
  <2>1. PICK j \in 1..Len(p.updates) :
             /\ p.updates[j].after = m.before
             /\ q = [p EXCEPT !.updates =
                       [p.updates EXCEPT ![j] = [before |-> p.updates[j].before,
                                                 after  |-> m.after]]]
    BY <1>4
  <2>. DEFINE e == [before |-> p.updates[j].before, after |-> m.after]
  <2>2. p.updates[j] \in Mutation
    BY <1>1
  <2>3. e \in Mutation
    BY <1>2, <2>1, <2>2 DEF Mutation
  <2>. HIDE DEF e
  <2>4. [p.updates EXCEPT ![j] = e] \in Seq(Mutation)
    BY <1>1, <2>3, ReplaceAtFacts
  <2>5. q = [p EXCEPT !.updates = [p.updates EXCEPT ![j] = e]]
    BY <2>1 DEF e
  <2>. HIDE DEF q
  <2>6. q \in Pending /\ q.initialized = p.initialized /\ q.nextRowId = p.nextRowId
        /\ q.deletes = p.deletes
    BY <2>5, <2>4 DEF Pending
  <2>. QED  BY <2>6 DEF q
<1>5. CASE q = [p EXCEPT !.updates = Append(@, m)]
  <2>1. Append(p.updates, m) \in Seq(Mutation)
    BY <1>1, AppendFacts
  <2>. HIDE DEF q
  <2>2. q \in Pending /\ q.initialized = p.initialized /\ q.nextRowId = p.nextRowId
        /\ q.deletes = p.deletes
    BY <1>5, <2>1 DEF Pending
  <2>. QED  BY <2>2 DEF q
<1>. QED  BY <1>3, <1>4, <1>5, MergeUpdateCases

\* What a deleted row can be.
LEMMA MergeDeleteCases ==
  ASSUME NEW p \in Pending, NEW r \in Row
  PROVE  LET q == MergeDelete(p, r) IN
         \/ \E j \in 1..Len(p.rows) :
              /\ p.rows[j] = r
              /\ q = [p EXCEPT !.rows = RemoveAt(@, j)]
         \/ \E j \in 1..Len(p.updates) :
              /\ p.updates[j].after = r
              /\ q = [p EXCEPT !.deletes = Append(@, p.updates[j].before),
                               !.updates = RemoveAt(@, j)]
         \/ /\ PlacesOf(p.rows, r) = {}
            /\ ProducersOf(p.updates, r) = {}
            /\ q = [p EXCEPT !.deletes = Append(@, r)]
<1>. DEFINE q == MergeDelete(p, r)
<1>1. p.rows \in Seq(Row) /\ p.updates \in Seq(Mutation)
  BY DEF Pending
<1>2. CASE PlacesOf(p.rows, r) # {}
  <2>. DEFINE j == Min(PlacesOf(p.rows, r))
  <2>1. j \in 1..Len(p.rows) /\ p.rows[j] = r
    BY <1>1, <1>2, FirstPlace
  <2>2. q = [p EXCEPT !.rows = RemoveAt(@, j)]
    BY <1>2 DEF MergeDelete
  <2>. QED  BY <2>1, <2>2
<1>3. CASE PlacesOf(p.rows, r) = {} /\ ProducersOf(p.updates, r) # {}
  <2>. DEFINE j == Min(ProducersOf(p.updates, r))
  <2>1. j \in 1..Len(p.updates) /\ p.updates[j].after = r
    BY <1>1, <1>3, FirstProducer
  <2>2. q = [p EXCEPT !.deletes = Append(@, p.updates[j].before),
                      !.updates = RemoveAt(@, j)]
    BY <1>3 DEF MergeDelete
  <2>. QED  BY <2>1, <2>2
<1>4. CASE PlacesOf(p.rows, r) = {} /\ ProducersOf(p.updates, r) = {}
  BY <1>4 DEF MergeDelete
<1>. QED  BY <1>2, <1>3, <1>4

LEMMA MergeDeleteType ==
  ASSUME NEW p \in Pending, NEW r \in Row
  PROVE  /\ MergeDelete(p, r) \in Pending
         /\ MergeDelete(p, r).initialized = p.initialized
         /\ MergeDelete(p, r).nextRowId = p.nextRowId
<1>. DEFINE q == MergeDelete(p, r)
<1>1. p.rows \in Seq(Row) /\ p.updates \in Seq(Mutation) /\ p.deletes \in Seq(Row)
  BY DEF Pending
<1>2. CASE \E j \in 1..Len(p.rows) :
             /\ p.rows[j] = r
             /\ q = [p EXCEPT !.rows = RemoveAt(@, j)]
  <2>1. PICK j \in 1..Len(p.rows) : q = [p EXCEPT !.rows = RemoveAt(@, j)]
    BY <1>2
  <2>2. RemoveAt(p.rows, j) \in Seq(Row)
    BY <1>1, RemoveAtFacts
  <2>. HIDE DEF q
  <2>3. q \in Pending /\ q.initialized = p.initialized /\ q.nextRowId = p.nextRowId
    BY <2>1, <2>2 DEF Pending
  <2>. QED  BY <2>3 DEF q
<1>3. CASE \E j \in 1..Len(p.updates) :
             /\ p.updates[j].after = r
             /\ q = [p EXCEPT !.deletes = Append(@, p.updates[j].before),
                              !.updates = RemoveAt(@, j)]
  <2>1. PICK j \in 1..Len(p.updates) :
               q = [p EXCEPT !.deletes = Append(@, p.updates[j].before),
                             !.updates = RemoveAt(@, j)]
    BY <1>3
  <2>2. RemoveAt(p.updates, j) \in Seq(Mutation)
    BY <1>1, RemoveAtFacts
  <2>3. p.updates[j] \in Mutation
    BY <1>1
  <2>4. p.updates[j].before \in Row
    BY <2>3 DEF Mutation
  <2>5. Append(p.deletes, p.updates[j].before) \in Seq(Row)
    BY <1>1, <2>4, AppendFacts
  <2>. HIDE DEF q
  <2>6. q \in Pending /\ q.initialized = p.initialized /\ q.nextRowId = p.nextRowId
    BY <2>1, <2>2, <2>5 DEF Pending
  <2>. QED  BY <2>6 DEF q
<1>4. CASE q = [p EXCEPT !.deletes = Append(@, r)]
  <2>1. Append(p.deletes, r) \in Seq(Row)
    BY <1>1, AppendFacts
  <2>. HIDE DEF q
  <2>2. q \in Pending /\ q.initialized = p.initialized /\ q.nextRowId = p.nextRowId
    BY <1>4, <2>1 DEF Pending
  <2>. QED  BY <2>2 DEF q
<1>. QED  BY <1>2, <1>3, <1>4, MergeDeleteCases

\* updateRows.
LEMMA UpdatingSteps ==
  ASSUME NEW p \in Pending, NEW ms \in Seq(Mutation)
  PROVE  /\ Len(ms) \in Nat
         /\ Updating(p, ms) \in [0..Len(ms) -> Pending]
         /\ Updating(p, ms)[0] = p
         /\ \A i \in 1..Len(ms) : ms[i] \in Mutation /\
              Updating(p, ms)[i] = MergeUpdate(Updating(p, ms)[i - 1], ms[i])
<1>. DEFINE n == Len(ms)
            step == [i \in 1..n |-> [x \in Pending |-> MergeUpdate(x, ms[i])]]
<1>1. n \in Nat /\ \A i \in 1..n : ms[i] \in Mutation
  OBVIOUS
<1>. HIDE DEF n
<1>2. step \in [1..n -> [Pending -> Pending]]
  BY <1>1, MergeUpdateType
<1>. HIDE DEF step
<1>3. PICK g : IsLoop(g, Pending, n, p, step)
  BY <1>1, <1>2, IterationExists
<1>4. /\ g \in [0..n -> Pending] /\ g[0] = p
      /\ \A i \in 1..n : g[i] = MergeUpdate(g[i - 1], ms[i])
  <2>1. /\ g \in [0..n -> Pending] /\ g[0] = p
        /\ \A i \in 1..n : g[i] = step[i][g[i - 1]]
    BY <1>3 DEF IsLoop
  <2>2. \A i \in 1..n : g[i - 1] \in Pending
    BY <1>1, <2>1
  <2>. QED  BY <2>1, <2>2 DEF step
<1>5. g = [i \in 0..n |-> IF i = 0 THEN p ELSE MergeUpdate(g[i - 1], ms[i])]
  <2>1. \A i \in 0..n : g[i] = IF i = 0 THEN p ELSE MergeUpdate(g[i - 1], ms[i])
    BY <1>1, <1>4
  <2>. QED  BY <1>4, <2>1
<1>. DEFINE u == CHOOSE h :
              h = [i \in 0..n |-> IF i = 0 THEN p ELSE MergeUpdate(h[i - 1], ms[i])]
<1>6. u = [i \in 0..n |-> IF i = 0 THEN p ELSE MergeUpdate(u[i - 1], ms[i])]
  BY <1>5
<1>7. Updating(p, ms) = u
  BY DEF Updating, n
<1>. HIDE DEF u
<1>8. u[0] = p /\ \A i \in 1..n : u[i] = MergeUpdate(u[i - 1], ms[i])
  BY <1>1, <1>6
<1>9. u \in [0..n -> Pending]
  <2>. DEFINE S == {i \in 0..n : u[i] \in Pending}
  <2>1. 0 \in S
    BY <1>1, <1>8
  <2>2. ASSUME NEW i \in 1..n, i - 1 \in S PROVE i \in S
    <3>1. u[i - 1] \in Pending /\ ms[i] \in Mutation
      BY <1>1, <2>2
    <3>2. MergeUpdate(u[i - 1], ms[i]) \in Pending
      BY <3>1, MergeUpdateType
    <3>. QED  BY <1>1, <1>8, <3>2
  <2>. HIDE DEF S
  <2>3. \A i \in 0..n : i \in S
    BY <1>1, <2>1, <2>2, IntervalInduction
  <2>. QED  BY <1>6, <2>3 DEF S
<1>. QED  BY <1>1, <1>7, <1>8, <1>9 DEF n

\* deleteRows.
LEMMA DeletingSteps ==
  ASSUME NEW p \in Pending, NEW ms \in Seq(Row)
  PROVE  /\ Len(ms) \in Nat
         /\ Deleting(p, ms) \in [0..Len(ms) -> Pending]
         /\ Deleting(p, ms)[0] = p
         /\ \A i \in 1..Len(ms) : ms[i] \in Row /\
              Deleting(p, ms)[i] = MergeDelete(Deleting(p, ms)[i - 1], ms[i])
<1>. DEFINE n == Len(ms)
            step == [i \in 1..n |-> [x \in Pending |-> MergeDelete(x, ms[i])]]
<1>1. n \in Nat /\ \A i \in 1..n : ms[i] \in Row
  OBVIOUS
<1>. HIDE DEF n
<1>2. step \in [1..n -> [Pending -> Pending]]
  BY <1>1, MergeDeleteType
<1>. HIDE DEF step
<1>3. PICK g : IsLoop(g, Pending, n, p, step)
  BY <1>1, <1>2, IterationExists
<1>4. /\ g \in [0..n -> Pending] /\ g[0] = p
      /\ \A i \in 1..n : g[i] = MergeDelete(g[i - 1], ms[i])
  <2>1. /\ g \in [0..n -> Pending] /\ g[0] = p
        /\ \A i \in 1..n : g[i] = step[i][g[i - 1]]
    BY <1>3 DEF IsLoop
  <2>2. \A i \in 1..n : g[i - 1] \in Pending
    BY <1>1, <2>1
  <2>. QED  BY <2>1, <2>2 DEF step
<1>5. g = [i \in 0..n |-> IF i = 0 THEN p ELSE MergeDelete(g[i - 1], ms[i])]
  <2>1. \A i \in 0..n : g[i] = IF i = 0 THEN p ELSE MergeDelete(g[i - 1], ms[i])
    BY <1>1, <1>4
  <2>. QED  BY <1>4, <2>1
<1>. DEFINE u == CHOOSE h :
              h = [i \in 0..n |-> IF i = 0 THEN p ELSE MergeDelete(h[i - 1], ms[i])]
<1>6. u = [i \in 0..n |-> IF i = 0 THEN p ELSE MergeDelete(u[i - 1], ms[i])]
  BY <1>5
<1>7. Deleting(p, ms) = u
  BY DEF Deleting, n
<1>. HIDE DEF u
<1>8. u[0] = p /\ \A i \in 1..n : u[i] = MergeDelete(u[i - 1], ms[i])
  BY <1>1, <1>6
<1>9. u \in [0..n -> Pending]
  <2>. DEFINE S == {i \in 0..n : u[i] \in Pending}
  <2>1. 0 \in S
    BY <1>1, <1>8
  <2>2. ASSUME NEW i \in 1..n, i - 1 \in S PROVE i \in S
    <3>1. u[i - 1] \in Pending /\ ms[i] \in Row
      BY <1>1, <2>2
    <3>2. MergeDelete(u[i - 1], ms[i]) \in Pending
      BY <3>1, MergeDeleteType
    <3>. QED  BY <1>1, <1>8, <3>2
  <2>. HIDE DEF S
  <2>3. \A i \in 0..n : i \in S
    BY <1>1, <2>1, <2>2, IntervalInduction
  <2>. QED  BY <1>6, <2>3 DEF S
<1>. QED  BY <1>1, <1>7, <1>8, <1>9 DEF n

\* The effects of a pending update and a pending delete on the rows of a scan.
LEMMA ReplaceRowType ==
  ASSUME NEW s \in Seq(Row), NEW m \in Mutation
  PROVE  ReplaceRow(s, m) \in Seq(Row)
<1>1. m.before \in Row /\ m.after \in Row
  BY DEF Mutation
<1>2. CASE PlacesOf(s, m.before) = {}
  BY <1>2 DEF ReplaceRow
<1>3. CASE PlacesOf(s, m.before) # {}
  <2>. DEFINE j == Min(PlacesOf(s, m.before))
  <2>1. j \in 1..Len(s)
    BY <1>3, FirstPlace
  <2>2. ReplaceRow(s, m) = [s EXCEPT ![j] = m.after]
    BY <1>3 DEF ReplaceRow
  <2>. HIDE DEF j
  <2>. QED  BY <1>1, <2>1, <2>2, ReplaceAtFacts
<1>. QED  BY <1>2, <1>3

LEMMA DropRowType ==
  ASSUME NEW s \in Seq(Row), NEW r \in Row
  PROVE  DropRow(s, r) \in Seq(Row)
<1>1. CASE PlacesOf(s, r) = {}
  BY <1>1 DEF DropRow
<1>2. CASE PlacesOf(s, r) # {}
  <2>. DEFINE j == Min(PlacesOf(s, r))
  <2>1. j \in 1..Len(s)
    BY <1>2, FirstPlace
  <2>2. DropRow(s, r) = RemoveAt(s, j)
    BY <1>2 DEF DropRow
  <2>. HIDE DEF j
  <2>. QED  BY <2>1, <2>2, RemoveAtFacts
<1>. QED  BY <1>1, <1>2

LEMMA KeepRowType ==
  ASSUME NEW s \in Seq(Row), NEW r \in Row, NEW K
  PROVE  KeepRow(s, r, K) \in Seq(Row)
BY AppendFacts DEF KeepRow

\* scanRows: the updates.
LEMMA ReplacingSteps ==
  ASSUME NEW p \in Seq(Row), NEW ms \in Seq(Mutation)
  PROVE  /\ Len(ms) \in Nat
         /\ Replacing(p, ms) \in [0..Len(ms) -> Seq(Row)]
         /\ Replacing(p, ms)[0] = p
         /\ \A i \in 1..Len(ms) : ms[i] \in Mutation /\
              Replacing(p, ms)[i] = ReplaceRow(Replacing(p, ms)[i - 1], ms[i])
<1>. DEFINE n == Len(ms)
            step == [i \in 1..n |-> [x \in Seq(Row) |-> ReplaceRow(x, ms[i])]]
<1>1. n \in Nat /\ \A i \in 1..n : ms[i] \in Mutation
  OBVIOUS
<1>. HIDE DEF n
<1>2. step \in [1..n -> [Seq(Row) -> Seq(Row)]]
  BY <1>1, ReplaceRowType
<1>. HIDE DEF step
<1>3. PICK g : IsLoop(g, Seq(Row), n, p, step)
  BY <1>1, <1>2, IterationExists
<1>4. /\ g \in [0..n -> Seq(Row)] /\ g[0] = p
      /\ \A i \in 1..n : g[i] = ReplaceRow(g[i - 1], ms[i])
  <2>1. /\ g \in [0..n -> Seq(Row)] /\ g[0] = p
        /\ \A i \in 1..n : g[i] = step[i][g[i - 1]]
    BY <1>3 DEF IsLoop
  <2>2. \A i \in 1..n : g[i - 1] \in Seq(Row)
    BY <1>1, <2>1
  <2>. QED  BY <2>1, <2>2 DEF step
<1>5. g = [i \in 0..n |-> IF i = 0 THEN p ELSE ReplaceRow(g[i - 1], ms[i])]
  <2>1. \A i \in 0..n : g[i] = IF i = 0 THEN p ELSE ReplaceRow(g[i - 1], ms[i])
    BY <1>1, <1>4
  <2>. QED  BY <1>4, <2>1
<1>. DEFINE u == CHOOSE h :
              h = [i \in 0..n |-> IF i = 0 THEN p ELSE ReplaceRow(h[i - 1], ms[i])]
<1>6. u = [i \in 0..n |-> IF i = 0 THEN p ELSE ReplaceRow(u[i - 1], ms[i])]
  BY <1>5
<1>7. Replacing(p, ms) = u
  BY DEF Replacing, n
<1>. HIDE DEF u
<1>8. u[0] = p /\ \A i \in 1..n : u[i] = ReplaceRow(u[i - 1], ms[i])
  BY <1>1, <1>6
<1>9. u \in [0..n -> Seq(Row)]
  <2>. DEFINE S == {i \in 0..n : u[i] \in Seq(Row)}
  <2>1. 0 \in S
    BY <1>1, <1>8
  <2>2. ASSUME NEW i \in 1..n, i - 1 \in S PROVE i \in S
    <3>1. u[i - 1] \in Seq(Row) /\ ms[i] \in Mutation
      BY <1>1, <2>2
    <3>2. ReplaceRow(u[i - 1], ms[i]) \in Seq(Row)
      BY <3>1, ReplaceRowType
    <3>. QED  BY <1>1, <1>8, <3>2
  <2>. HIDE DEF S
  <2>3. \A i \in 0..n : i \in S
    BY <1>1, <2>1, <2>2, IntervalInduction
  <2>. QED  BY <1>6, <2>3 DEF S
<1>. QED  BY <1>1, <1>7, <1>8, <1>9 DEF n

\* scanRows: the deletes.
LEMMA DroppingSteps ==
  ASSUME NEW p \in Seq(Row), NEW ms \in Seq(Row)
  PROVE  /\ Len(ms) \in Nat
         /\ Dropping(p, ms) \in [0..Len(ms) -> Seq(Row)]
         /\ Dropping(p, ms)[0] = p
         /\ \A i \in 1..Len(ms) : ms[i] \in Row /\
              Dropping(p, ms)[i] = DropRow(Dropping(p, ms)[i - 1], ms[i])
<1>. DEFINE n == Len(ms)
            step == [i \in 1..n |-> [x \in Seq(Row) |-> DropRow(x, ms[i])]]
<1>1. n \in Nat /\ \A i \in 1..n : ms[i] \in Row
  OBVIOUS
<1>. HIDE DEF n
<1>2. step \in [1..n -> [Seq(Row) -> Seq(Row)]]
  BY <1>1, DropRowType
<1>. HIDE DEF step
<1>3. PICK g : IsLoop(g, Seq(Row), n, p, step)
  BY <1>1, <1>2, IterationExists
<1>4. /\ g \in [0..n -> Seq(Row)] /\ g[0] = p
      /\ \A i \in 1..n : g[i] = DropRow(g[i - 1], ms[i])
  <2>1. /\ g \in [0..n -> Seq(Row)] /\ g[0] = p
        /\ \A i \in 1..n : g[i] = step[i][g[i - 1]]
    BY <1>3 DEF IsLoop
  <2>2. \A i \in 1..n : g[i - 1] \in Seq(Row)
    BY <1>1, <2>1
  <2>. QED  BY <2>1, <2>2 DEF step
<1>5. g = [i \in 0..n |-> IF i = 0 THEN p ELSE DropRow(g[i - 1], ms[i])]
  <2>1. \A i \in 0..n : g[i] = IF i = 0 THEN p ELSE DropRow(g[i - 1], ms[i])
    BY <1>1, <1>4
  <2>. QED  BY <1>4, <2>1
<1>. DEFINE u == CHOOSE h :
              h = [i \in 0..n |-> IF i = 0 THEN p ELSE DropRow(h[i - 1], ms[i])]
<1>6. u = [i \in 0..n |-> IF i = 0 THEN p ELSE DropRow(u[i - 1], ms[i])]
  BY <1>5
<1>7. Dropping(p, ms) = u
  BY DEF Dropping, n
<1>. HIDE DEF u
<1>8. u[0] = p /\ \A i \in 1..n : u[i] = DropRow(u[i - 1], ms[i])
  BY <1>1, <1>6
<1>9. u \in [0..n -> Seq(Row)]
  <2>. DEFINE S == {i \in 0..n : u[i] \in Seq(Row)}
  <2>1. 0 \in S
    BY <1>1, <1>8
  <2>2. ASSUME NEW i \in 1..n, i - 1 \in S PROVE i \in S
    <3>1. u[i - 1] \in Seq(Row) /\ ms[i] \in Row
      BY <1>1, <2>2
    <3>2. DropRow(u[i - 1], ms[i]) \in Seq(Row)
      BY <3>1, DropRowType
    <3>. QED  BY <1>1, <1>8, <3>2
  <2>. HIDE DEF S
  <2>3. \A i \in 0..n : i \in S
    BY <1>1, <2>1, <2>2, IntervalInduction
  <2>. QED  BY <1>6, <2>3 DEF S
<1>. QED  BY <1>1, <1>7, <1>8, <1>9 DEF n

\* The predicate of a scan.
LEMMA SelectingSteps ==
  ASSUME NEW ms \in Seq(Row), NEW K
  PROVE  /\ Len(ms) \in Nat
         /\ Selecting(ms, K) \in [0..Len(ms) -> Seq(Row)]
         /\ Selecting(ms, K)[0] = <<>>
         /\ \A i \in 1..Len(ms) : ms[i] \in Row /\
              Selecting(ms, K)[i] = KeepRow(Selecting(ms, K)[i - 1], ms[i], K)
<1>. DEFINE n == Len(ms)
            step == [i \in 1..n |-> [x \in Seq(Row) |-> KeepRow(x, ms[i], K)]]
<1>1. n \in Nat /\ \A i \in 1..n : ms[i] \in Row
  OBVIOUS
<1>. HIDE DEF n
<1>2. step \in [1..n -> [Seq(Row) -> Seq(Row)]]
  BY <1>1, KeepRowType
<1>. HIDE DEF step
<1>3. PICK g : IsLoop(g, Seq(Row), n, <<>>, step)
  BY <1>1, <1>2, <<>> \in Seq(Row), IterationExists
<1>4. /\ g \in [0..n -> Seq(Row)] /\ g[0] = <<>>
      /\ \A i \in 1..n : g[i] = KeepRow(g[i - 1], ms[i], K)
  <2>1. /\ g \in [0..n -> Seq(Row)] /\ g[0] = <<>>
        /\ \A i \in 1..n : g[i] = step[i][g[i - 1]]
    BY <1>3 DEF IsLoop
  <2>2. \A i \in 1..n : g[i - 1] \in Seq(Row)
    BY <1>1, <2>1
  <2>. QED  BY <2>1, <2>2 DEF step
<1>5. g = [i \in 0..n |-> IF i = 0 THEN <<>> ELSE KeepRow(g[i - 1], ms[i], K)]
  <2>1. \A i \in 0..n : g[i] = IF i = 0 THEN <<>> ELSE KeepRow(g[i - 1], ms[i], K)
    BY <1>1, <1>4
  <2>. QED  BY <1>4, <2>1
<1>. DEFINE u == CHOOSE h :
              h = [i \in 0..n |-> IF i = 0 THEN <<>> ELSE KeepRow(h[i - 1], ms[i], K)]
<1>6. u = [i \in 0..n |-> IF i = 0 THEN <<>> ELSE KeepRow(u[i - 1], ms[i], K)]
  BY <1>5
<1>7. Selecting(ms, K) = u
  BY DEF Selecting, n
<1>. HIDE DEF u
<1>8. u[0] = <<>> /\ \A i \in 1..n : u[i] = KeepRow(u[i - 1], ms[i], K)
  BY <1>1, <1>6
<1>9. u \in [0..n -> Seq(Row)]
  <2>. DEFINE S == {i \in 0..n : u[i] \in Seq(Row)}
  <2>1. 0 \in S
    <3>1. u[0] \in Seq(Row)
      BY <1>8
    <3>. QED  BY <1>1, <3>1
  <2>2. ASSUME NEW i \in 1..n, i - 1 \in S PROVE i \in S
    <3>1. u[i - 1] \in Seq(Row) /\ ms[i] \in Row
      BY <1>1, <2>2
    <3>2. KeepRow(u[i - 1], ms[i], K) \in Seq(Row)
      BY <3>1, KeepRowType
    <3>. QED  BY <1>1, <1>8, <3>2
  <2>. HIDE DEF S
  <2>3. \A i \in 0..n : i \in S
    BY <1>1, <2>1, <2>2, IntervalInduction
  <2>. QED  BY <1>6, <2>3 DEF S
<1>. QED  BY <1>1, <1>7, <1>8, <1>9 DEF n

-----------------------------------------------------------------------------
(***************************************************************************)
(* The order of an iterator, and the reads.                                *)
(***************************************************************************)
LEMMA KeyType ==
  ASSUME NEW r \in Row
  PROVE  StorageKey(r) \in Nat
BY ImageAssumption DEF Row, Keys, StorageKey

KeyOrdered(f) ==
  \A i, j \in DOMAIN f : i < j => StorageKey(f[i]) < StorageKey(f[j])

KeysDiffer(S) == \A r, s \in S : StorageKey(r) = StorageKey(s) => r = s

\* A finite set of rows has an order by storage key.
LEMMA OrderExists ==
  ASSUME NEW S \in SUBSET Row, IsFiniteSet(S), KeysDiffer(S)
  PROVE  \E f \in [1..Cardinality(S) -> S] : KeyOrdered(f)
<1>. DEFINE n == Cardinality(S)
            Good == {k \in 0..n : \A T \in SUBSET S : Cardinality(T) = k =>
                       \E f \in [1..k -> T] : KeyOrdered(f)}
<1>1. n \in Nat
  BY FS_CardinalityType
<1>2. \A T \in SUBSET S : IsFiniteSet(T)
  BY FS_Subset
<1>. HIDE DEF n
<1>3. 0 \in Good
  <2>1. SUFFICES ASSUME NEW T \in SUBSET S PROVE \E f \in [1..0 -> T] : KeyOrdered(f)
    BY <1>1
  <2>2. [i \in 1..0 |-> {}] \in [1..0 -> T] /\ KeyOrdered([i \in 1..0 |-> {}])
    BY DEF KeyOrdered
  <2>. QED  BY <2>2
<1>4. ASSUME NEW k \in 1..n, k - 1 \in Good PROVE k \in Good
  <2>1. SUFFICES ASSUME NEW T \in SUBSET S, Cardinality(T) = k
                 PROVE  \E f \in [1..k -> T] : KeyOrdered(f)
    BY <1>1
  <2>2. T # {} /\ k \in Nat /\ k >= 1
    BY <1>1, <2>1, FS_EmptySet
  <2>. DEFINE D == {StorageKey(r) : r \in T}
  <2>3. D \in SUBSET Nat /\ D # {}
    BY <2>2, KeyType
  <2>4. PICK d \in D : \A x \in D : d <= x
    <3>. HIDE DEF D
    <3>. QED  BY <2>3, LeastExists
  <2>5. PICK r \in T : \A s \in T : StorageKey(r) <= StorageKey(s)
    BY <2>4
  <2>. DEFINE U == T \ {r}
  <2>6. U \in SUBSET S /\ Cardinality(U) = k - 1
    BY <1>2, <2>1, <2>5, FS_RemoveElement
  <2>7. PICK f \in [1..(k - 1) -> U] : KeyOrdered(f)
    <3>. HIDE DEF U
    <3>. QED  BY <1>4, <2>6
  <2>8. ASSUME NEW s \in U PROVE StorageKey(r) < StorageKey(s)
    <3>1. StorageKey(r) <= StorageKey(s) /\ StorageKey(r) \in Nat /\ StorageKey(s) \in Nat
      BY <2>5, KeyType
    <3>2. StorageKey(r) # StorageKey(s)
      BY <2>5 DEF KeysDiffer
    <3>. QED  BY <3>1, <3>2
  <2>. DEFINE g == [i \in 1..k |-> IF i = 1 THEN r ELSE f[i - 1]]
  <2>9. \A i \in 1..k : i # 1 => i - 1 \in 1..(k - 1) /\ f[i - 1] \in U
    BY <2>2, <2>7
  <2>. HIDE DEF U
  <2>10. g \in [1..k -> T]
    BY <2>5, <2>9 DEF U
  <2>11. ASSUME NEW i \in 1..k, NEW j \in 1..k, i < j
         PROVE  StorageKey(g[i]) < StorageKey(g[j])
    <3>1. j # 1 /\ g[j] = f[j - 1] /\ f[j - 1] \in U
      BY <2>9, <2>11
    <3>2. CASE i = 1
      BY <2>8, <3>1, <3>2
    <3>3. CASE i # 1
      <4>1. g[i] = f[i - 1] /\ i - 1 \in DOMAIN f /\ j - 1 \in DOMAIN f /\ i - 1 < j - 1
        BY <2>7, <2>9, <2>11, <3>1, <3>3
      <4>. HIDE DEF g
      <4>. QED  BY <2>7, <3>1, <4>1 DEF KeyOrdered
    <3>. QED  BY <3>2, <3>3
  <2>12. KeyOrdered(g)
    <3>1. DOMAIN g = 1..k
      OBVIOUS
    <3>. HIDE DEF g
    <3>. QED  BY <2>11, <3>1 DEF KeyOrdered
  <2>. HIDE DEF g
  <2>. QED  BY <2>10, <2>12
<1>5. \A k \in 0..n : k \in Good
  <2>. HIDE DEF Good
  <2>. QED  BY <1>1, <1>3, <1>4, IntervalInduction
<1>6. n \in Good
  <2>. HIDE DEF Good
  <2>. QED  BY <1>1, <1>5
<1>. QED  BY <1>6 DEF n

\* What the statements of a transaction rely on.
SnapshotInv == snapshot \subseteq Row /\ IsFiniteSet(snapshot) /\ KeysDiffer(snapshot)

LEMMA BaseFacts ==
  ASSUME SnapshotInv
  PROVE  /\ Base \in [1..Cardinality(snapshot) -> snapshot]
         /\ KeyOrdered(Base)
         /\ Cardinality(snapshot) \in Nat
         /\ Base \in Seq(Row)
<1>. DEFINE n == Cardinality(snapshot)
<1>1. n \in Nat
  BY FS_CardinalityType DEF SnapshotInv
<1>2. \E f \in [1..n -> snapshot] : KeyOrdered(f)
  BY OrderExists DEF SnapshotInv
<1>3. Base = CHOOSE f \in [1..n -> snapshot] : KeyOrdered(f)
  BY DEF Base, KeyOrdered
<1>. HIDE DEF n
<1>4. Base \in [1..n -> snapshot] /\ KeyOrdered(Base)
  BY <1>2, <1>3
<1>5. Base \in Seq(Row)
  <2>1. Base \in [1..n -> Row]
    BY <1>4 DEF SnapshotInv
  <2>. QED  BY <1>1, <2>1
<1>. QED  BY <1>1, <1>4, <1>5 DEF n

LEMMA ScanType ==
  ASSUME SnapshotInv, NEW p \in Pending
  PROVE  /\ Replacing(Base, p.updates)[Len(p.updates)] \in Seq(Row)
         /\ Dropping(Replacing(Base, p.updates)[Len(p.updates)],
                     p.deletes)[Len(p.deletes)] \in Seq(Row)
         /\ Scan(p) \in Seq(Row)
<1>1. /\ p.rows \in Seq(Row) /\ p.updates \in Seq(Mutation) /\ p.deletes \in Seq(Row)
      /\ Len(p.updates) \in 0..Len(p.updates) /\ Len(p.deletes) \in 0..Len(p.deletes)
  BY DEF Pending
<1>. DEFINE u == Replacing(Base, p.updates)[Len(p.updates)]
            d == Dropping(u, p.deletes)[Len(p.deletes)]
<1>2. u \in Seq(Row)
  BY <1>1, BaseFacts, ReplacingSteps
<1>. HIDE DEF u
<1>3. d \in Seq(Row)
  BY <1>1, <1>2, DroppingSteps
<1>. HIDE DEF d
<1>4. Scan(p) = d \o p.rows
  BY DEF Scan, d, u
<1>. QED  BY <1>1, <1>2, <1>3, <1>4 DEF d, u

LEMMA SelectedType ==
  ASSUME SnapshotInv, pend \in Pending, NEW K
  PROVE  Selected(K) \in Seq(Row)
<1>1. Scan(pend) \in Seq(Row) /\ Len(Scan(pend)) \in 0..Len(Scan(pend))
  BY ScanType
<1>2. Selecting(Scan(pend), K)[Len(Scan(pend))] \in Seq(Row)
  BY <1>1, SelectingSteps
<1>. QED  BY <1>2 DEF Selected

\* A point read returns at most one row.
LEMMA PointReadType ==
  ASSUME snapshot \subseteq Row, NEW p \in Pending, NEW k
  PROVE  PointRead(p, k) = <<>> \/ \E r \in Row : PointRead(p, k) = <<r>>
<1>1. p.rows \in Seq(Row) /\ p.updates \in Seq(Mutation)
  BY DEF Pending
<1>. DEFINE touched == Touching(p.updates, k)
            inserted == {i \in DOMAIN p.rows : StorageKey(p.rows[i]) = k}
<1>2. touched # {} => p.updates[Max(touched)].after \in Row
  <2>. SUFFICES ASSUME touched # {} PROVE p.updates[Max(touched)].after \in Row
    OBVIOUS
  <2>1. touched \in SUBSET Nat /\ Len(p.updates) \in Nat /\ \A x \in touched : x <= Len(p.updates)
    BY <1>1 DEF Touching
  <2>2. Max(touched) \in touched
    <3>. HIDE DEF touched
    <3>. QED  BY <2>1, MaxIsGreatest
  <2>3. \A j \in touched : p.updates[j] \in Mutation
    BY <1>1 DEF Touching
  <2>4. p.updates[Max(touched)] \in Mutation
    <3>. HIDE DEF touched
    <3>. QED  BY <2>2, <2>3
  <2>. QED  BY <2>4 DEF Mutation
<1>3. inserted # {} => p.rows[Min(inserted)] \in Row
  <2>. SUFFICES ASSUME inserted # {} PROVE p.rows[Min(inserted)] \in Row
    OBVIOUS
  <2>1. inserted \in SUBSET Nat
    BY <1>1
  <2>2. Min(inserted) \in inserted
    <3>. HIDE DEF inserted
    <3>. QED  BY <2>1, MinIsLeast
  <2>3. \A j \in inserted : p.rows[j] \in Row
    BY <1>1
  <2>. HIDE DEF inserted
  <2>. QED  BY <2>2, <2>3
<1>4. StoredUnder(k) = <<>> \/ \E r \in Row : StoredUnder(k) = <<r>>
  BY DEF StoredUnder
<1>5. PointRead(p, k) =
        IF \E i \in DOMAIN p.deletes : StorageKey(p.deletes[i]) = k THEN <<>>
        ELSE IF touched # {}
          THEN IF StorageKey(p.updates[Max(touched)].after) = k
                 THEN <<p.updates[Max(touched)].after>> ELSE <<>>
        ELSE IF inserted # {} THEN <<p.rows[Min(inserted)]>>
        ELSE StoredUnder(k)
  BY DEF PointRead
<1>. HIDE DEF touched, inserted
<1>. QED  BY <1>2, <1>3, <1>4, <1>5

-----------------------------------------------------------------------------
(***************************************************************************)
(* The stored records and what a batch makes of them.                      *)
(***************************************************************************)
LEMMA FiniteImage ==
  ASSUME NEW S, NEW f, f \in [S -> {f[x] : x \in S}], IsFiniteSet(S)
  PROVE  IsFiniteSet({f[x] : x \in S})
<1>1. f \in Surjection(S, {f[x] : x \in S})
  BY DEF Surjection
<1>. QED  BY <1>1, FS_Surjection

\* No two rows of S have the same UNIQUE value.
ValsDiffer(S) == \A r, s \in S : HasUnique(r) /\ r.val = s.val => r = s

LEMMA UniqueRecordsFacts ==
  ASSUME NEW S
  PROVE  /\ \A r \in S : HasUnique(r) =>
              [val |-> r.val, ref |-> StorageKey(r)] \in UniqueRecords(S)
         /\ \A u \in UniqueRecords(S) :
              \E r \in S : HasUnique(r) /\ u = [val |-> r.val, ref |-> StorageKey(r)]
BY DEF UniqueRecords, HasUnique

LEMMA UniqueRecordsType ==
  ASSUME NEW S \in SUBSET Row
  PROVE  UniqueRecords(S) \subseteq [val : Vals \ {Null}, ref : Nat]
<1>. SUFFICES ASSUME NEW u \in UniqueRecords(S)
              PROVE  u \in [val : Vals \ {Null}, ref : Nat]
  OBVIOUS
<1>1. PICK r \in S : HasUnique(r) /\ u = [val |-> r.val, ref |-> StorageKey(r)]
  BY UniqueRecordsFacts
<1>2. r.val \in Vals \ {Null} /\ StorageKey(r) \in Nat
  BY <1>1, KeyType DEF HasUnique, Row
<1>. QED  BY <1>1, <1>2

\* What a write leaves of the table, whatever was checked before it.
LEMMA WriteKeepsKeys ==
  ASSUME table \subseteq Row, IsFiniteSet(table), KeysDiffer(table),
         uniques \subseteq [val : Vals \ {Null}, ref : Nat],
         NEW R \in SUBSET Row, NEW P \in SUBSET Row, IsFiniteSet(P), KeysDiffer(P),
         WriteBatch(R, P), keyless' = keyless
  PROVE  /\ table' \subseteq Row
         /\ table' \subseteq table \cup P
         /\ IsFiniteSet(table')
         /\ KeysDiffer(table)'
         /\ uniques' \subseteq [val : Vals \ {Null}, ref : Nat]
<1>1. /\ table' \subseteq table \cup P
      /\ \A r \in table' : r \notin P =>
           r \in table /\ \A s \in P : StorageKey(s) # StorageKey(r)
  BY DEF WriteBatch
<1>2. IsFiniteSet(table')
  <2>1. IsFiniteSet(table \cup P)
    BY FS_Union
  <2>. QED  BY <1>1, <2>1, FS_Subset
<1>3. KeysDiffer(table')
  BY <1>1 DEF KeysDiffer
<1>4. KeysDiffer(table)'
  BY <1>3 DEF KeysDiffer, StorageKey
<1>5. uniques' \subseteq uniques \cup UniqueRecords(P)
  BY DEF WriteBatch
<1>. QED  BY <1>1, <1>2, <1>4, <1>5, UniqueRecordsType

\* The records of a table that was only written by checked batches.
Records ==
  /\ uniques = UniqueRecords(table)
  /\ \A u, w \in uniques : u.val = w.val => u = w

\* Unique UNIQUE records, said of the rows.
LEMMA RecordsOfRows ==
  ASSUME NEW T, KeysDiffer(T)
  PROVE  (\A u, w \in UniqueRecords(T) : u.val = w.val => u = w) <=> ValsDiffer(T)
<1>1. ASSUME \A u, w \in UniqueRecords(T) : u.val = w.val => u = w PROVE ValsDiffer(T)
  <2>. SUFFICES ASSUME NEW r \in T, NEW s \in T, HasUnique(r), r.val = s.val
                PROVE  r = s
    BY DEF ValsDiffer
  <2>1. HasUnique(s)
    BY DEF HasUnique
  <2>2. /\ [val |-> r.val, ref |-> StorageKey(r)] \in UniqueRecords(T)
        /\ [val |-> s.val, ref |-> StorageKey(s)] \in UniqueRecords(T)
    BY <2>1, UniqueRecordsFacts
  <2>3. StorageKey(r) = StorageKey(s)
    BY <1>1, <2>2
  <2>. QED  BY <2>3 DEF KeysDiffer
<1>2. ASSUME ValsDiffer(T), NEW u \in UniqueRecords(T), NEW w \in UniqueRecords(T),
             u.val = w.val
      PROVE  u = w
  <2>1. PICK r \in T : HasUnique(r) /\ u = [val |-> r.val, ref |-> StorageKey(r)]
    BY UniqueRecordsFacts
  <2>2. PICK s \in T : HasUnique(s) /\ w = [val |-> s.val, ref |-> StorageKey(s)]
    BY UniqueRecordsFacts
  <2>3. r = s
    BY <1>2, <2>1, <2>2 DEF ValsDiffer
  <2>. QED  BY <2>1, <2>2, <2>3
<1>. QED  BY <1>1, <1>2

\* Row r can be put when the rows R are removed.
LEMMA FreeFacts ==
  ASSUME NEW r, NEW R, ~Occupied(r, R), uniques = UniqueRecords(table)
  PROVE  /\ \A s \in table : StorageKey(s) = StorageKey(r) =>
              \E x \in R : StorageKey(x) = StorageKey(r)
         /\ \A s \in table : HasUnique(r) /\ s.val = r.val => \E x \in R : x.val = r.val
<1>1. \A s \in table : StorageKey(s) = StorageKey(r) =>
        \E x \in R : StorageKey(x) = StorageKey(r)
  BY DEF Occupied
<1>2. ASSUME NEW s \in table, HasUnique(r), s.val = r.val PROVE \E x \in R : x.val = r.val
  <2>1. HasUnique(s)
    BY <1>2 DEF HasUnique
  <2>2. [val |-> s.val, ref |-> StorageKey(s)] \in uniques
    BY <2>1, UniqueRecordsFacts
  <2>3. r.val \in {u.val : u \in uniques}
    BY <1>2, <2>2
  <2>. QED  BY <1>2, <2>3 DEF Occupied
<1>. QED  BY <1>1, <1>2

\* A batch whose removed rows are there and whose rows are free keeps the
\* records and the rows together.
LEMMA WriteKeepsRecords ==
  ASSUME table \subseteq Row, KeysDiffer(table), Records,
         NEW R \in SUBSET table, NEW P \in SUBSET Row,
         KeysDiffer(P), ValsDiffer(P), \A r \in P : ~Occupied(r, R),
         WriteBatch(R, P), keyless' = keyless, KeysDiffer(table)'
  PROVE  Records'
<1>1. uniques = UniqueRecords(table) /\ ValsDiffer(table)
  BY RecordsOfRows DEF Records
<1>. DEFINE Kept == {r \in table : \A s \in R \cup P : StorageKey(s) # StorageKey(r)}
            Gone == UniqueRecords(R) \cup UniqueRecords(P)
<1>2. table' = Kept \cup P
  BY DEF WriteBatch
<1>3. uniques' = {u \in uniques : \A v \in Gone : v.val # u.val} \cup UniqueRecords(P)
  BY DEF WriteBatch
<1>4. ASSUME NEW r \in Kept, HasUnique(r), NEW s \in R \cup P PROVE s.val # r.val
  <2>. SUFFICES ASSUME s.val = r.val PROVE FALSE
    OBVIOUS
  <2>1. ASSUME NEW x \in R, x.val = r.val PROVE FALSE
    <3>1. x = r
      BY <1>1, <1>4, <2>1 DEF ValsDiffer
    <3>. QED  BY <2>1, <3>1
  <2>2. CASE s \in P
    <3>1. HasUnique(s)
      BY <1>4 DEF HasUnique
    <3>2. \E x \in R : x.val = s.val
      BY <1>1, <1>4, <2>2, <3>1, FreeFacts
    <3>. QED  BY <2>1, <3>2
  <2>. QED  BY <2>1, <2>2
<1>5. ValsDiffer(table')
  <2>. SUFFICES ASSUME NEW r \in Kept \cup P, NEW s \in Kept \cup P,
                       HasUnique(r), r.val = s.val
                PROVE  r = s
    BY <1>2 DEF ValsDiffer
  <2>0. HasUnique(s)
    BY DEF HasUnique
  <2>1. CASE r \in Kept /\ s \in Kept
    BY <1>1, <2>1 DEF ValsDiffer
  <2>2. CASE r \in P /\ s \in P
    BY <2>2 DEF ValsDiffer
  <2>3. CASE r \in Kept /\ s \in P
    BY <1>4, <2>3
  <2>4. CASE r \in P /\ s \in Kept
    BY <1>4, <2>0, <2>4
  <2>. QED  BY <2>1, <2>2, <2>3, <2>4
<1>6. uniques' = UniqueRecords(table')
  <2>1. ASSUME NEW u \in uniques, \A v \in Gone : v.val # u.val PROVE u \in UniqueRecords(table')
    <3>1. PICK r \in table : HasUnique(r) /\ u = [val |-> r.val, ref |-> StorageKey(r)]
      BY <1>1, UniqueRecordsFacts
    <3>2. r \notin R
      <4>. SUFFICES ASSUME r \in R PROVE FALSE
        OBVIOUS
      <4>1. u \in UniqueRecords(R)
        BY <3>1, UniqueRecordsFacts
      <4>. QED  BY <2>1, <4>1
    <3>3. \A s \in R : StorageKey(s) # StorageKey(r)
      BY <3>2 DEF KeysDiffer
    <3>4. \A s \in P : StorageKey(s) # StorageKey(r)
      BY <1>1, <3>3, FreeFacts
    <3>5. r \in table'
      BY <1>2, <3>3, <3>4
    <3>. QED  BY <3>1, <3>5, UniqueRecordsFacts
  <2>2. UniqueRecords(P) \subseteq UniqueRecords(table')
    BY <1>2 DEF UniqueRecords
  <2>3. ASSUME NEW u \in UniqueRecords(table') PROVE u \in uniques'
    <3>1. PICK r \in table' : HasUnique(r) /\ u = [val |-> r.val, ref |-> StorageKey(r)]
      BY UniqueRecordsFacts
    <3>2. CASE r \in P
      <4>1. u \in UniqueRecords(P)
        BY <3>1, <3>2, UniqueRecordsFacts
      <4>. QED  BY <1>3, <4>1
    <3>3. CASE r \in Kept
      <4>1. u \in uniques
        BY <1>1, <3>1, <3>3, UniqueRecordsFacts
      <4>2. ASSUME NEW v \in Gone PROVE v.val # u.val
        <5>1. \E s \in R \cup P : v.val = s.val
          BY UniqueRecordsFacts
        <5>2. u.val = r.val
          BY <3>1
        <5>. QED  BY <1>4, <3>1, <3>3, <5>1, <5>2
      <4>. HIDE DEF Gone
      <4>. QED  BY <1>3, <4>1, <4>2
    <3>. QED  BY <1>2, <3>1, <3>2, <3>3
  <2>. HIDE DEF Gone
  <2>. QED  BY <1>3, <2>1, <2>2, <2>3
<1>7. KeysDiffer(table')
  BY DEF KeysDiffer, StorageKey
<1>8. \A u, w \in uniques' : u.val = w.val => u = w
  BY <1>5, <1>6, <1>7, RecordsOfRows
<1>9. UniqueRecords(table') = UniqueRecords(table)'
  BY DEF UniqueRecords, StorageKey
<1>. QED  BY <1>6, <1>8, <1>9 DEF Records

-----------------------------------------------------------------------------
(***************************************************************************)
(* The batch of a commit.                                                  *)
(***************************************************************************)
LEMMA StoredFacts ==
  ASSUME NEW r \in Row
  PROVE  /\ Stored(r) \in Row
         /\ Stored(r).key = r.key /\ Stored(r).val = r.val
         /\ StorageKey(Stored(r)) = StorageKey(r)
         /\ HasUnique(Stored(r)) <=> HasUnique(r)
         /\ keyless => Stored(r) = r
         /\ ~keyless => Stored(r).id = 0
BY DEF Stored, Row, StorageKey, HasUnique

LEMMA AftersFacts ==
  ASSUME NEW p \in Pending
  PROVE  /\ Afters(p) \in Seq(Row)
         /\ \A x \in DOMAIN Afters(p) :
              \/ \E i \in 1..Len(p.updates) : Afters(p)[x] = p.updates[i].after
              \/ \E i \in 1..Len(p.rows) : Afters(p)[x] = p.rows[i]
<1>. DEFINE a == [i \in DOMAIN p.updates |-> p.updates[i].after]
            n == Len(p.updates)
            w == p.rows
<1>1. /\ w \in Seq(Row) /\ p.updates \in Seq(Mutation)
      /\ n \in Nat /\ Len(w) \in Nat /\ DOMAIN p.updates = 1..n
  BY DEF Pending
<1>2. \A i \in 1..n : p.updates[i].after \in Row
  BY <1>1 DEF Mutation
<1>3. a \in Seq(Row) /\ Len(a) = n /\ \A i \in 1..n : a[i] = p.updates[i].after
  <2>. HIDE DEF n, w
  <2>. QED  BY <1>1, <1>2
<1>4. Afters(p) = a \o w
  BY DEF Afters
<1>. HIDE DEF a, n, w
<1>5. /\ a \o w \in Seq(Row) /\ Len(a \o w) = n + Len(w)
      /\ \A x \in 1..(n + Len(w)) :
           (a \o w)[x] = IF x <= n THEN a[x] ELSE w[x - n]
  BY <1>1, <1>3, ConcatFacts
<1>6. DOMAIN (a \o w) = 1..(n + Len(w))
  BY <1>1, <1>3, ConcatFacts
<1>7. ASSUME NEW x \in 1..(n + Len(w))
      PROVE  \/ \E i \in 1..n : (a \o w)[x] = p.updates[i].after
             \/ \E i \in 1..Len(w) : (a \o w)[x] = w[i]
  <2>1. CASE x <= n
    <3>1. x \in 1..n /\ (a \o w)[x] = a[x]
      BY <1>1, <1>5, <2>1
    <3>. QED  BY <1>3, <3>1
  <2>2. CASE ~(x <= n)
    <3>1. x - n \in 1..Len(w)
      BY <1>1, <2>2
    <3>. QED  BY <1>5, <2>2, <3>1
  <2>. QED  BY <2>1, <2>2
<1>. QED  BY <1>4, <1>5, <1>6, <1>7 DEF n, w

LEMMA BeforesFacts ==
  ASSUME NEW p \in Pending
  PROVE  /\ Befores(p) \in Seq(Row)
         /\ \A i \in 1..Len(p.updates) :
              i \in DOMAIN Befores(p) /\ Befores(p)[i] = p.updates[i].before
         /\ \A i \in 1..Len(p.deletes) :
              /\ i + Len(p.updates) \in DOMAIN Befores(p)
              /\ Befores(p)[i + Len(p.updates)] = p.deletes[i]
         /\ \A x \in DOMAIN Befores(p) :
              \/ x \in 1..Len(p.updates)
              \/ x - Len(p.updates) \in 1..Len(p.deletes)
<1>. DEFINE a == [i \in DOMAIN p.updates |-> p.updates[i].before]
            n == Len(p.updates)
            d == p.deletes
<1>1. /\ d \in Seq(Row) /\ p.updates \in Seq(Mutation)
      /\ n \in Nat /\ Len(d) \in Nat /\ DOMAIN p.updates = 1..n
  BY DEF Pending
<1>2. \A i \in 1..n : p.updates[i].before \in Row
  BY <1>1 DEF Mutation
<1>3. a \in Seq(Row) /\ Len(a) = n /\ \A i \in 1..n : a[i] = p.updates[i].before
  <2>. HIDE DEF n
  <2>. QED  BY <1>1, <1>2
<1>4. Befores(p) = a \o d
  BY DEF Befores
<1>. HIDE DEF a, d, n
<1>5. /\ a \o d \in Seq(Row) /\ Len(a \o d) = n + Len(d)
      /\ \A x \in 1..(n + Len(d)) : (a \o d)[x] = IF x <= n THEN a[x] ELSE d[x - n]
  BY <1>1, <1>3, ConcatFacts
<1>6. DOMAIN (a \o d) = 1..(n + Len(d))
  BY <1>1, <1>3, ConcatFacts
<1>7. \A i \in 1..n : i \in 1..(n + Len(d)) /\ (a \o d)[i] = p.updates[i].before
  <2>. HIDE DEF n
  <2>. QED  BY <1>1, <1>3, <1>5
<1>8. ASSUME NEW i \in 1..Len(d)
      PROVE  i + n \in 1..(n + Len(d)) /\ (a \o d)[i + n] = d[i]
  <2>. HIDE DEF n
  <2>1. i + n \in 1..(n + Len(d)) /\ ~(i + n <= n) /\ (i + n) - n = i
    BY <1>1
  <2>. QED  BY <1>5, <2>1
<1>9. \A x \in 1..(n + Len(d)) : x \in 1..n \/ x - n \in 1..Len(d)
  <2>. HIDE DEF n
  <2>. QED  BY <1>1
<1>. QED  BY <1>4, <1>5, <1>6, <1>7, <1>8, <1>9 DEF d, n

\* A batch that is not refused: what it removes is there, what it puts is free,
\* and no two of its rows collide.
LEMMA BatchFacts ==
  ASSUME NEW p \in Pending, ~Refused(p), table \subseteq Row, nextRowId \in Nat \ {0}
  PROVE  LET b == BatchOf(p) IN
         /\ b \in [removed : SUBSET Row, puts : SUBSET Row, nextRowId : Nat]
         /\ b.removed \subseteq table
         /\ IsFiniteSet(b.puts) /\ KeysDiffer(b.puts) /\ ValsDiffer(b.puts)
         /\ ~keyless => \A r \in b.puts : r.id = 0
         /\ \A r \in b.puts : ~Occupied(r, b.removed)
         /\ b.nextRowId # 0 => b.nextRowId >= nextRowId
         /\ keyless /\ (\A r \in table : r.id < nextRowId) =>
              \A r \in b.puts :
                r.id < IF b.nextRowId # 0 THEN b.nextRowId ELSE nextRowId
<1>. DEFINE A == Afters(p)
            B == Befores(p)
            R == {Stored(r) : r \in ToSet(B)}
            P == {Stored(r) : r \in ToSet(A)}
            next == IF keyless /\ p.rows # <<>> THEN nextRowId + Len(p.rows) ELSE 0
<1>1. A \in Seq(Row) /\ B \in Seq(Row)
  BY AftersFacts, BeforesFacts
<1>2. /\ \A r \in ToSet(B) : Stored(r) \in table
      /\ ~RowIdsMoved(p)
      /\ ~DuplicateInBatch(A)
      /\ \A r \in ToSet(A) : ~Occupied(r, ToSet(B))
  BY DEF Refused
<1>3. /\ p.rows \in Seq(Row) /\ p.updates \in Seq(Mutation) /\ Len(p.rows) \in Nat
  BY DEF Pending
<1>4. next \in Nat
  BY <1>3
<1>. HIDE DEF A, B
<1>5. (\A r \in ToSet(A) : r \in Row) /\ \A r \in ToSet(B) : r \in Row
  BY <1>1 DEF ToSet
<1>6. R \subseteq table /\ P \in SUBSET Row
  BY <1>2, <1>5, StoredFacts
<1>7. IsFiniteSet(P)
  <2>. DEFINE f == [i \in 1..Len(A) |-> Stored(A[i])]
  <2>1. Len(A) \in Nat /\ DOMAIN A = 1..Len(A)
    BY <1>1
  <2>2. P = {f[i] : i \in 1..Len(A)}
    BY <2>1 DEF ToSet
  <2>3. f \in [1..Len(A) -> {f[i] : i \in 1..Len(A)}]
    OBVIOUS
  <2>4. IsFiniteSet(1..Len(A))
    BY <2>1, FS_Interval
  <2>. HIDE DEF f, P
  <2>. QED  BY <2>2, <2>3, <2>4, FiniteImage
<1>8. ASSUME NEW r \in P, NEW s \in P,
             StorageKey(r) = StorageKey(s) \/ (HasUnique(r) /\ r.val = s.val)
      PROVE  r = s
  <2>1. PICK i \in DOMAIN A : r = Stored(A[i])
    BY DEF ToSet
  <2>2. PICK j \in DOMAIN A : s = Stored(A[j])
    BY DEF ToSet
  <2>3. A[i] \in Row /\ A[j] \in Row
    BY <1>5 DEF ToSet
  <2>4. StorageKey(A[i]) = StorageKey(A[j]) \/ (HasUnique(A[i]) /\ A[i].val = A[j].val)
    BY <1>8, <2>1, <2>2, <2>3, StoredFacts
  <2>5. i = j
    BY <1>2, <2>4 DEF DuplicateInBatch
  <2>. QED  BY <2>1, <2>2, <2>5
<1>9. ASSUME NEW r \in P PROVE ~Occupied(r, R)
  <2>1. PICK a \in ToSet(A) : r = Stored(a)
    OBVIOUS
  <2>2. /\ StorageKey(r) = StorageKey(a) /\ r.val = a.val
        /\ HasUnique(r) <=> HasUnique(a)
    BY <1>5, <2>1, StoredFacts
  <2>3. ~Occupied(a, ToSet(B))
    BY <1>2
  <2>4. /\ \A x \in ToSet(B) : Stored(x) \in R
        /\ \A x \in ToSet(B) : StorageKey(Stored(x)) = StorageKey(x) /\ Stored(x).val = x.val
    BY <1>5, StoredFacts
  <2>5. {StorageKey(x) : x \in ToSet(B)} \subseteq {StorageKey(x) : x \in R}
    <3>. HIDE DEF R
    <3>. QED  BY <2>4
  <2>6. {x.val : x \in ToSet(B)} \subseteq {x.val : x \in R}
    <3>. HIDE DEF R
    <3>. QED  BY <2>4
  <2>. HIDE DEF R
  <2>. QED  BY <2>2, <2>3, <2>5, <2>6 DEF Occupied
<1>10. ASSUME ~keyless, NEW r \in P PROVE r.id = 0
  BY <1>5, <1>10, StoredFacts
<1>11. next # 0 => next >= nextRowId
  BY <1>3
<1>12. ASSUME keyless, \A r \in table : r.id < nextRowId, NEW r \in P
       PROVE  r.id < IF next # 0 THEN next ELSE nextRowId
  <2>1. PICK x \in DOMAIN A : r = Stored(A[x])
    BY DEF ToSet
  <2>2. r = A[x] /\ r \in Row
    <3>1. A[x] \in Row
      BY <1>5 DEF ToSet
    <3>. QED  BY <1>12, <2>1, <3>1, StoredFacts
  <2>3. r.id \in Nat
    BY <2>2 DEF Row
  <2>4. CASE \E i \in 1..Len(p.updates) : r = p.updates[i].after
    <3>1. PICK i \in 1..Len(p.updates) : r = p.updates[i].after
      BY <2>4
    <3>2. p.updates[i] \in Mutation
      BY <1>3
    <3>3. p.updates[i].before \in ToSet(B) /\ p.updates[i].before \in Row
      BY <3>2, BeforesFacts DEF ToSet, B, Mutation
    <3>4. p.updates[i].before \in table
      BY <1>2, <1>12, <3>3, StoredFacts
    <3>5. r.id = p.updates[i].before.id
      BY <3>1, <3>2 DEF Mutation
    <3>6. r.id < nextRowId
      BY <1>12, <3>4, <3>5
    <3>. HIDE DEF next
    <3>. QED  BY <1>4, <1>11, <2>3, <3>6
  <2>5. CASE \E i \in 1..Len(p.rows) : r = p.rows[i]
    <3>1. PICK i \in 1..Len(p.rows) : r = p.rows[i]
      BY <2>5
    <3>2. i \in DOMAIN p.rows
      BY <1>3
    <3>3. r.id = nextRowId + i - 1
      BY <1>2, <1>12, <3>1, <3>2 DEF RowIdsMoved
    <3>4. p.rows # <<>> /\ next = nextRowId + Len(p.rows)
      BY <1>3, <1>12, <3>1
    <3>. HIDE DEF next
    <3>. QED  BY <1>3, <3>3, <3>4
  <2>. QED  BY <2>2, <2>4, <2>5, AftersFacts DEF A
<1>13. KeysDiffer(P) /\ ValsDiffer(P)
  <2>. HIDE DEF P
  <2>. QED  BY <1>8 DEF KeysDiffer, ValsDiffer
<1>14. BatchOf(p) = [removed |-> R, puts |-> P, nextRowId |-> next]
  BY DEF BatchOf, A, B
<1>. HIDE DEF R, P, next
<1>. QED  BY <1>4, <1>6, <1>7, <1>9, <1>10, <1>11, <1>12, <1>13, <1>14

-----------------------------------------------------------------------------
(***************************************************************************)
(* Bags.                                                                   *)
(***************************************************************************)
Copies(e, b) == IF e \in DOMAIN b THEN b[e] ELSE 0

LEMMA CopiesFacts ==
  ASSUME NEW b, IsABag(b)
  PROVE  /\ \A e : Copies(e, b) \in Nat
         /\ \A e : Copies(e, b) > 0 <=> e \in DOMAIN b
         /\ \A e \in DOMAIN b : b[e] = Copies(e, b)
BY DEF IsABag, Copies

\* Bags are equal that have the same copies of everything.
LEMMA SameCopies ==
  ASSUME NEW b, NEW c, IsABag(b), IsABag(c),
         \A e : Copies(e, b) = Copies(e, c)
  PROVE  b = c
<1>1. DOMAIN b = DOMAIN c
  <2>1. \A e : e \in DOMAIN b <=> e \in DOMAIN c
    BY CopiesFacts
  <2>. QED  BY <2>1
<1>2. \A e \in DOMAIN b : b[e] = c[e]
  BY <1>1, CopiesFacts
<1>3. b = [e \in DOMAIN b |-> b[e]] /\ c = [e \in DOMAIN c |-> c[e]]
  BY DEF IsABag
<1>. QED  BY <1>1, <1>2, <1>3

LEMMA BagSum ==
  ASSUME NEW b, NEW c, IsABag(b), IsABag(c)
  PROVE  /\ IsABag(b (+) c)
         /\ \A e : Copies(e, b (+) c) = Copies(e, b) + Copies(e, c)
<1>. DEFINE d == b (+) c
<1>1. /\ DOMAIN d = DOMAIN b \cup DOMAIN c
      /\ \A e \in DOMAIN d : d[e] = Copies(e, b) + Copies(e, c)
      /\ d = [e \in DOMAIN d |-> d[e]]
  BY DEF (+), Copies
<1>. HIDE DEF d
<1>2. \A e \in DOMAIN d : d[e] \in {n \in Nat : n > 0}
  <2>. SUFFICES ASSUME NEW e \in DOMAIN d PROVE d[e] \in {n \in Nat : n > 0}
    OBVIOUS
  <2>1. Copies(e, b) \in Nat /\ Copies(e, c) \in Nat
    BY CopiesFacts
  <2>2. Copies(e, b) > 0 \/ Copies(e, c) > 0
    BY <1>1, CopiesFacts
  <2>3. d[e] = Copies(e, b) + Copies(e, c)
    BY <1>1
  <2>. QED  BY <2>1, <2>2, <2>3
<1>3. IsABag(d)
  BY <1>1, <1>2 DEF IsABag
<1>4. ASSUME NEW e PROVE Copies(e, d) = Copies(e, b) + Copies(e, c)
  <2>1. Copies(e, b) \in Nat /\ Copies(e, c) \in Nat
    BY CopiesFacts
  <2>2. CASE e \in DOMAIN d
    BY <1>1, <2>2 DEF Copies
  <2>3. CASE e \notin DOMAIN d
    <3>1. Copies(e, b) = 0 /\ Copies(e, c) = 0
      BY <1>1, <2>3 DEF Copies
    <3>. QED  BY <3>1, <2>3 DEF Copies
  <2>. QED  BY <2>2, <2>3
<1>. QED  BY <1>3, <1>4 DEF d

LEMMA BagDifference ==
  ASSUME NEW b, NEW c, IsABag(b), IsABag(c)
  PROVE  /\ IsABag(b (-) c)
         /\ \A e : Copies(e, b (-) c) =
              IF Copies(e, b) > Copies(e, c)
                THEN Copies(e, b) - Copies(e, c) ELSE 0
<1>. DEFINE d == b (-) c
            B == [e \in DOMAIN b |-> IF e \in DOMAIN c THEN b[e] - c[e] ELSE b[e]]
<1>1. d = [e \in {x \in DOMAIN B : B[x] > 0} |-> B[e]]
  BY DEF (-)
<1>2. \A e : Copies(e, b) \in Nat /\ Copies(e, c) \in Nat
  BY CopiesFacts
<1>3. DOMAIN B = DOMAIN b /\ \A e \in DOMAIN b : B[e] = Copies(e, b) - Copies(e, c)
  BY <1>2 DEF Copies
<1>. HIDE DEF d, B
<1>4. /\ DOMAIN d = {e \in DOMAIN b : Copies(e, b) - Copies(e, c) > 0}
      /\ \A e \in DOMAIN d : d[e] = Copies(e, b) - Copies(e, c)
      /\ d = [e \in DOMAIN d |-> d[e]]
  BY <1>1, <1>3
<1>5. \A e \in DOMAIN d : d[e] \in {n \in Nat : n > 0}
  BY <1>2, <1>4
<1>6. IsABag(d)
  BY <1>4, <1>5 DEF IsABag
<1>7. ASSUME NEW e
      PROVE  Copies(e, d) = IF Copies(e, b) > Copies(e, c)
                                THEN Copies(e, b) - Copies(e, c) ELSE 0
  <2>1. e \in DOMAIN d <=> Copies(e, b) > Copies(e, c)
    <3>1. e \in DOMAIN b <=> Copies(e, b) > 0
      BY CopiesFacts
    <3>. QED  BY <1>2, <1>4, <3>1
  <2>. QED  BY <1>4, <2>1 DEF Copies
<1>. QED  BY <1>6, <1>7 DEF d

\* The number of places of e in q.
Count(q, e) == Cardinality(PlacesOf(q, e))

LEMMA CountType ==
  ASSUME NEW S, NEW q \in Seq(S), NEW e
  PROVE  /\ IsFiniteSet(PlacesOf(q, e)) /\ Count(q, e) \in Nat
         /\ Count(q, e) > 0 <=> PlacesOf(q, e) # {}
<1>1. PlacesOf(q, e) \in SUBSET (1..Len(q)) /\ Len(q) \in Nat
  BY DEF PlacesOf
<1>2. IsFiniteSet(PlacesOf(q, e))
  <2>1. IsFiniteSet(1..Len(q))
    BY <1>1, FS_Interval
  <2>. QED  BY <1>1, <2>1, FS_Subset
<1>3. Count(q, e) \in Nat /\ (Count(q, e) = 0 <=> PlacesOf(q, e) = {})
  BY <1>2, FS_CardinalityType, FS_EmptySet DEF Count
<1>. QED  BY <1>2, <1>3

\* The bag of a sequence has what the sequence counts.
LEMMA BagOfFacts ==
  ASSUME NEW S, NEW q \in Seq(S)
  PROVE  /\ IsABag(BagOf(q))
         /\ \A e : Copies(e, BagOf(q)) = Count(q, e)
<1>. DEFINE b == BagOf(q)
<1>1. /\ b = [e \in ToSet(q) |-> Count(q, e)] /\ DOMAIN b = ToSet(q)
      /\ \A e \in ToSet(q) : b[e] = Count(q, e)
  BY DEF BagOf, Count, PlacesOf
<1>2. \A e : e \in ToSet(q) <=> PlacesOf(q, e) # {}
  BY DEF ToSet, PlacesOf
<1>. HIDE DEF b
<1>3. \A e : Count(q, e) \in Nat /\ (e \in ToSet(q) <=> Count(q, e) > 0)
  BY <1>2, CountType
<1>4. IsABag(b)
  BY <1>1, <1>3 DEF IsABag
<1>5. \A e : Copies(e, b) = Count(q, e)
  BY <1>1, <1>3 DEF Copies
<1>. QED  BY <1>4, <1>5 DEF b

\* 1 where two things are the same.
Is(e, x) == IF e = x THEN 1 ELSE 0

LEMMA CountEmpty ==
  \A e : Count(<<>>, e) = 0
<1>1. \A e : PlacesOf(<<>>, e) = {}
  BY DEF PlacesOf
<1>. QED  BY <1>1, FS_EmptySet DEF Count

LEMMA CountAppend ==
  ASSUME NEW S, NEW q \in Seq(S), NEW x \in S, NEW e
  PROVE  Count(Append(q, x), e) = Count(q, e) + Is(e, x)
<1>. DEFINE n == Len(q) + 1
            P == PlacesOf(q, e)
<1>1. IsFiniteSet(P) /\ Count(q, e) \in Nat /\ Cardinality(P) = Count(q, e)
  BY CountType DEF Count
<1>2. n \notin P
  BY DEF PlacesOf
<1>3. PlacesOf(Append(q, x), e) = IF e = x THEN P \cup {n} ELSE P
  BY AppendFacts DEF PlacesOf
<1>. HIDE DEF P, n
<1>4. Cardinality(P \cup {n}) = Cardinality(P) + 1
  BY <1>1, <1>2, FS_AddElement
<1>. QED  BY <1>1, <1>3, <1>4 DEF Count, Is

LEMMA CountReplace ==
  ASSUME NEW S, NEW q \in Seq(S), NEW j \in 1..Len(q), NEW x \in S, NEW e
  PROVE  Count([q EXCEPT ![j] = x], e) = Count(q, e) - Is(e, q[j]) + Is(e, x)
<1>. DEFINE P == PlacesOf(q, e)
            Q == PlacesOf([q EXCEPT ![j] = x], e)
<1>1. IsFiniteSet(P) /\ Count(q, e) \in Nat /\ Cardinality(P) = Count(q, e)
  BY CountType DEF Count
<1>2. Q = IF e = x THEN (P \ {j}) \cup {j} ELSE P \ {j}
  BY DEF PlacesOf
<1>3. j \in P <=> e = q[j]
  BY DEF PlacesOf
<1>. HIDE DEF P
<1>4. IsFiniteSet(P \ {j}) /\ Cardinality(P \ {j}) = Count(q, e) - Is(e, q[j])
  BY <1>1, <1>3, FS_RemoveElement DEF Is
<1>5. Cardinality((P \ {j}) \cup {j}) = Cardinality(P \ {j}) + 1
  <2>. DEFINE D == P \ {j}
  <2>1. j \notin D
    OBVIOUS
  <2>. HIDE DEF D
  <2>. QED  BY <1>4, <2>1, FS_AddElement DEF D
<1>6. Cardinality(Q) = Cardinality(P \ {j}) + Is(e, x)
  <2>. HIDE DEF Q
  <2>1. Cardinality(P \ {j}) \in Int
    BY <1>1, <1>4 DEF Is
  <2>. QED  BY <1>2, <1>5, <2>1 DEF Is
<1>. QED  BY <1>1, <1>4, <1>6 DEF Count

LEMMA CountRemove ==
  ASSUME NEW S, NEW q \in Seq(S), NEW j \in 1..Len(q), NEW e
  PROVE  Count(RemoveAt(q, j), e) = Count(q, e) - Is(e, q[j])
<1>. DEFINE P == PlacesOf(q, e)
            D == P \ {j}
            Q == PlacesOf(RemoveAt(q, j), e)
            f == [i \in Q |-> IF i < j THEN i ELSE i + 1]
            n == Len(q)
<1>1. IsFiniteSet(P) /\ Count(q, e) \in Nat /\ Cardinality(P) = Count(q, e)
  BY CountType DEF Count
<1>2. j \in P <=> e = q[j]
  BY DEF PlacesOf
<1>3. IsFiniteSet(D) /\ Cardinality(D) = Count(q, e) - Is(e, q[j])
  <2>. HIDE DEF P
  <2>. QED  BY <1>1, <1>2, FS_RemoveElement DEF Is
<1>4. n \in Nat /\ P = {i \in 1..n : q[i] = e}
  BY DEF PlacesOf
<1>5. Q = {i \in 1..(n - 1) : (IF i < j THEN q[i] ELSE q[i + 1]) = e}
  <2>. DEFINE w == RemoveAt(q, j)
  <2>1. /\ w \in Seq(S) /\ Len(w) = n - 1
        /\ \A i \in 1..(n - 1) : w[i] = IF i < j THEN q[i] ELSE q[i + 1]
    BY RemoveAtFacts
  <2>. HIDE DEF w
  <2>2. DOMAIN w = 1..(n - 1)
    BY <2>1
  <2>. QED  BY <2>1, <2>2 DEF PlacesOf, w
<1>. HIDE DEF P, Q, n
<1>6. f \in [Q -> D]
  BY <1>4, <1>5 DEF n
<1>7. \A a, b \in Q : f[a] = f[b] => a = b
  BY <1>4, <1>5
<1>8. ASSUME NEW d \in D PROVE \E i \in Q : f[i] = d
  <2>1. d \in 1..n /\ d # j /\ q[d] = e
    BY <1>4
  <2>2. CASE d < j
    <3>1. d \in Q
      BY <1>4, <1>5, <2>1, <2>2 DEF n
    <3>. QED  BY <2>2, <3>1
  <2>3. CASE ~(d < j)
    <3>1. d - 1 \in 1..(n - 1) /\ ~(d - 1 < j) /\ (d - 1) + 1 = d
      BY <1>4, <2>1, <2>3 DEF n
    <3>2. d - 1 \in Q
      BY <1>5, <2>1, <3>1
    <3>. QED  BY <3>1, <3>2
  <2>. QED  BY <2>2, <2>3
<1>. HIDE DEF f, D
<1>9. f \in Bijection(Q, D)
  BY <1>6, <1>7, <1>8 DEF Bijection, Injection, Surjection, IsInjective
<1>10. Cardinality(Q) = Cardinality(D)
  <2>1. f \in Injection(Q, D)
    BY <1>9 DEF Bijection
  <2>2. IsFiniteSet(Q)
    BY <1>3, <2>1, FS_Injection
  <2>3. ExistsBijection(Q, D)
    BY <1>9 DEF ExistsBijection
  <2>. QED  BY <2>2, <2>3, FS_Bijection
<1>. QED  BY <1>3, <1>10 DEF Count, Q

LEMMA CountConcat ==
  ASSUME NEW S, NEW a \in Seq(S), NEW d \in Seq(S), NEW e
  PROVE  Count(a \o d, e) = Count(a, e) + Count(d, e)
<1>. DEFINE n == Len(a)
            P == PlacesOf(a, e)
            D == PlacesOf(d, e)
            T == {i + n : i \in D}
            f == [i \in D |-> i + n]
<1>1. /\ IsFiniteSet(P) /\ Cardinality(P) = Count(a, e) /\ Count(a, e) \in Nat
      /\ IsFiniteSet(D) /\ Cardinality(D) = Count(d, e) /\ Count(d, e) \in Nat
  BY CountType DEF Count
<1>2. /\ n \in Nat /\ Len(d) \in Nat
      /\ P = {i \in 1..n : a[i] = e} /\ D = {i \in 1..Len(d) : d[i] = e}
  BY DEF PlacesOf
<1>3. PlacesOf(a \o d, e) = P \cup T
  <2>. DEFINE c == a \o d
  <2>1. /\ DOMAIN c = 1..(n + Len(d))
        /\ \A x \in 1..(n + Len(d)) : c[x] = IF x <= n THEN a[x] ELSE d[x - n]
    BY ConcatFacts
  <2>. HIDE DEF c, P, D, n
  <2>2. ASSUME NEW x \in P PROVE x \in PlacesOf(c, e)
    BY <1>2, <2>1 DEF PlacesOf
  <2>3. ASSUME NEW i \in D PROVE i + n \in PlacesOf(c, e)
    <3>1. i + n \in 1..(n + Len(d)) /\ ~(i + n <= n) /\ (i + n) - n = i /\ d[i] = e
      BY <1>2
    <3>. QED  BY <2>1, <3>1 DEF PlacesOf
  <2>4. ASSUME NEW x \in PlacesOf(c, e) PROVE x \in P \cup T
    <3>1. x \in 1..(n + Len(d)) /\ c[x] = e
      BY <2>1 DEF PlacesOf
    <3>2. CASE x <= n
      BY <1>2, <2>1, <3>1, <3>2
    <3>3. CASE ~(x <= n)
      <4>1. x - n \in 1..Len(d) /\ (x - n) + n = x
        BY <1>2, <3>1, <3>3
      <4>2. x - n \in D
        BY <1>2, <2>1, <3>1, <3>3, <4>1
      <4>. QED  BY <4>1, <4>2
    <3>. QED  BY <3>2, <3>3
  <2>5. P \cup T \subseteq PlacesOf(c, e) /\ PlacesOf(c, e) \subseteq P \cup T
    BY <2>2, <2>3, <2>4
  <2>. QED  BY <2>5 DEF c
<1>. HIDE DEF n, P, D
<1>4. f \in Bijection(D, T)
  <2>1. f \in [D -> T] /\ \A t \in T : \E i \in D : f[i] = t
    OBVIOUS
  <2>2. \A i, k \in D : f[i] = f[k] => i = k
    BY <1>2
  <2>. HIDE DEF f, T
  <2>. QED  BY <2>1, <2>2 DEF Bijection, Injection, Surjection, IsInjective
<1>5. IsFiniteSet(T) /\ Cardinality(T) = Cardinality(D)
  <2>1. ExistsBijection(D, T)
    BY <1>4 DEF ExistsBijection
  <2>. HIDE DEF T
  <2>. QED  BY <1>1, <2>1, FS_Bijection
<1>6. P \cap T = {}
  BY <1>2
<1>. HIDE DEF T
<1>7. Cardinality(P \cup T) = Cardinality(P) + Cardinality(T) - Cardinality(P \cap T)
  BY <1>1, <1>5, FS_Union
<1>8. Cardinality(P \cap T) = 0
  BY <1>6, FS_EmptySet
<1>. QED  BY <1>1, <1>3, <1>5, <1>7, <1>8 DEF Count

\* The number of places of e among the first i.
Upto(q, i, e) == Cardinality({x \in 1..i : q[x] = e})

LEMMA UptoFacts ==
  ASSUME NEW S, NEW q \in Seq(S), NEW e
  PROVE  /\ Len(q) \in Nat
         /\ Upto(q, 0, e) = 0
         /\ Upto(q, Len(q), e) = Count(q, e)
         /\ \A i \in 0..Len(q) : Upto(q, i, e) \in Nat /\ Upto(q, i, e) <= Count(q, e)
         /\ \A i \in 1..Len(q) : Upto(q, i, e) = Upto(q, i - 1, e) + Is(e, q[i])
<1>. DEFINE n == Len(q)
            U(i) == {x \in 1..i : q[x] = e}
<1>1. n \in Nat /\ PlacesOf(q, e) = U(n)
  BY DEF PlacesOf
<1>2. U(0) = {}
  OBVIOUS
<1>3. ASSUME NEW i \in 0..n
      PROVE  IsFiniteSet(U(i)) /\ Cardinality(U(i)) \in Nat /\ Cardinality(U(i)) <= Count(q, e)
  <2>1. U(i) \subseteq PlacesOf(q, e)
    BY <1>1
  <2>2. IsFiniteSet(PlacesOf(q, e))
    BY CountType
  <2>. HIDE DEF U
  <2>. QED  BY <2>1, <2>2, FS_Subset, FS_CardinalityType DEF Count
<1>4. ASSUME NEW i \in 1..n
      PROVE  Cardinality(U(i)) = Cardinality(U(i - 1)) + Is(e, q[i])
  <2>1. U(i) = IF q[i] = e THEN U(i - 1) \cup {i} ELSE U(i - 1)
    BY <1>1
  <2>2. i \notin U(i - 1)
    BY <1>1
  <2>3. i - 1 \in 0..n
    BY <1>1
  <2>4. IsFiniteSet(U(i - 1)) /\ Cardinality(U(i - 1)) \in Nat
    BY <1>3, <2>3
  <2>. HIDE DEF U
  <2>5. Cardinality(U(i - 1) \cup {i}) = Cardinality(U(i - 1)) + 1
    BY <2>2, <2>4, FS_AddElement
  <2>. QED  BY <2>1, <2>4, <2>5 DEF Is
<1>. HIDE DEF U
<1>5. Cardinality(U(0)) = 0
  BY <1>2, FS_EmptySet
<1>6. Cardinality(U(n)) = Count(q, e)
  BY <1>1 DEF Count
<1>. QED  BY <1>1, <1>3, <1>4, <1>5, <1>6 DEF Upto, U

-----------------------------------------------------------------------------
(***************************************************************************)
(* The balance of a pending table: how often a row is in the snapshot with *)
(* the pending changes applied.                                            *)
(***************************************************************************)
BeforesOf(u) == [i \in DOMAIN u |-> u[i].before]
AftersOf(u) == [i \in DOMAIN u |-> u[i].after]

LEMMA ProjectionType ==
  ASSUME NEW u \in Seq(Mutation)
  PROVE  /\ BeforesOf(u) \in Seq(Row) /\ AftersOf(u) \in Seq(Row)
         /\ Len(u) \in Nat /\ Len(BeforesOf(u)) = Len(u) /\ Len(AftersOf(u)) = Len(u)
         /\ \A i \in 1..Len(u) :
              /\ u[i] \in Mutation
              /\ BeforesOf(u)[i] = u[i].before /\ AftersOf(u)[i] = u[i].after
<1>. DEFINE n == Len(u)
<1>1. n \in Nat /\ DOMAIN u = 1..n /\ \A i \in 1..n : u[i] \in Mutation
  OBVIOUS
<1>2. \A i \in 1..n : u[i].before \in Row /\ u[i].after \in Row
  BY <1>1 DEF Mutation
<1>. HIDE DEF n
<1>3. BeforesOf(u) = [i \in 1..n |-> u[i].before] /\ AftersOf(u) = [i \in 1..n |-> u[i].after]
  BY <1>1 DEF BeforesOf, AftersOf
<1>. QED  BY <1>1, <1>2, <1>3 DEF n

\* Two sequences are the same that have the same elements in the same places.
LEMMA SameElements ==
  ASSUME NEW S, NEW a \in Seq(S), NEW b \in Seq(S), Len(a) = Len(b),
         \A i \in 1..Len(a) : a[i] = b[i]
  PROVE  a = b
  OBVIOUS

LEMMA ProjectAppend ==
  ASSUME NEW u \in Seq(Mutation), NEW m \in Mutation
  PROVE  /\ BeforesOf(Append(u, m)) = Append(BeforesOf(u), m.before)
         /\ AftersOf(Append(u, m)) = Append(AftersOf(u), m.after)
<1>. DEFINE w == Append(u, m)
<1>1. /\ w \in Seq(Mutation) /\ Len(w) = Len(u) + 1 /\ Len(u) \in Nat
      /\ \A i \in 1..Len(w) : w[i] = IF i <= Len(u) THEN u[i] ELSE m
  BY AppendFacts
<1>2. m.before \in Row /\ m.after \in Row
  BY DEF Mutation
<1>. HIDE DEF w
<1>3. BeforesOf(w) = Append(BeforesOf(u), m.before)
  <2>. DEFINE a == BeforesOf(u)
              b == BeforesOf(w)
  <2>1. a \in Seq(Row) /\ Len(a) = Len(u) /\ \A i \in 1..Len(u) : a[i] = u[i].before
    BY ProjectionType
  <2>2. b \in Seq(Row) /\ Len(b) = Len(w) /\ \A i \in 1..Len(w) : b[i] = w[i].before
    BY <1>1, ProjectionType
  <2>. HIDE DEF a, b
  <2>3. /\ Append(a, m.before) \in Seq(Row) /\ Len(Append(a, m.before)) = Len(w)
        /\ \A i \in 1..Len(w) :
             Append(a, m.before)[i] = IF i <= Len(u) THEN a[i] ELSE m.before
    BY <1>1, <1>2, <2>1
  <2>4. ASSUME NEW i \in 1..Len(b) PROVE b[i] = Append(a, m.before)[i]
    <3>1. CASE i <= Len(u)
      BY <1>1, <2>1, <2>2, <2>3, <3>1
    <3>2. CASE ~(i <= Len(u))
      BY <1>1, <2>2, <2>3, <3>2
    <3>. QED  BY <3>1, <3>2
  <2>5. b = Append(a, m.before)
    BY <2>2, <2>3, <2>4, SameElements
  <2>. QED  BY <2>5 DEF a, b
<1>4. AftersOf(w) = Append(AftersOf(u), m.after)
  <2>. DEFINE a == AftersOf(u)
              b == AftersOf(w)
  <2>1. a \in Seq(Row) /\ Len(a) = Len(u) /\ \A i \in 1..Len(u) : a[i] = u[i].after
    BY ProjectionType
  <2>2. b \in Seq(Row) /\ Len(b) = Len(w) /\ \A i \in 1..Len(w) : b[i] = w[i].after
    BY <1>1, ProjectionType
  <2>. HIDE DEF a, b
  <2>3. /\ Append(a, m.after) \in Seq(Row) /\ Len(Append(a, m.after)) = Len(w)
        /\ \A i \in 1..Len(w) :
             Append(a, m.after)[i] = IF i <= Len(u) THEN a[i] ELSE m.after
    BY <1>1, <1>2, <2>1
  <2>4. ASSUME NEW i \in 1..Len(b) PROVE b[i] = Append(a, m.after)[i]
    <3>1. CASE i <= Len(u)
      BY <1>1, <2>1, <2>2, <2>3, <3>1
    <3>2. CASE ~(i <= Len(u))
      BY <1>1, <2>2, <2>3, <3>2
    <3>. QED  BY <3>1, <3>2
  <2>5. b = Append(a, m.after)
    BY <2>2, <2>3, <2>4, SameElements
  <2>. QED  BY <2>5 DEF a, b
<1>. QED  BY <1>3, <1>4 DEF w

LEMMA ProjectReplace ==
  ASSUME NEW u \in Seq(Mutation), NEW j \in 1..Len(u), NEW r \in Row, r.id = u[j].after.id
  PROVE  LET w == [u EXCEPT ![j] = [before |-> u[j].before, after |-> r]] IN
         /\ BeforesOf(w) = BeforesOf(u)
         /\ AftersOf(w) = [AftersOf(u) EXCEPT ![j] = r]
<1>. DEFINE e == [before |-> u[j].before, after |-> r]
            w == [u EXCEPT ![j] = e]
<1>1. u[j] \in Mutation
  OBVIOUS
<1>2. e \in Mutation /\ e.before = u[j].before /\ e.after = r
  BY <1>1 DEF Mutation
<1>. HIDE DEF e
<1>3. /\ w \in Seq(Mutation) /\ Len(w) = Len(u) /\ Len(u) \in Nat
      /\ \A i \in 1..Len(u) : w[i] = IF i = j THEN e ELSE u[i]
  BY <1>2, ReplaceAtFacts
<1>. HIDE DEF w
<1>4. BeforesOf(w) = BeforesOf(u)
  <2>. DEFINE a == BeforesOf(u)
              b == BeforesOf(w)
  <2>1. a \in Seq(Row) /\ Len(a) = Len(u) /\ \A i \in 1..Len(u) : a[i] = u[i].before
    BY ProjectionType
  <2>2. b \in Seq(Row) /\ Len(b) = Len(u) /\ \A i \in 1..Len(u) : b[i] = w[i].before
    BY <1>3, ProjectionType
  <2>. HIDE DEF a, b
  <2>3. \A i \in 1..Len(b) : b[i] = a[i]
    BY <1>2, <1>3, <2>1, <2>2
  <2>4. b = a
    BY <2>1, <2>2, <2>3, SameElements
  <2>. QED  BY <2>4 DEF a, b
<1>5. AftersOf(w) = [AftersOf(u) EXCEPT ![j] = r]
  <2>. DEFINE a == AftersOf(u)
              b == AftersOf(w)
              c == [a EXCEPT ![j] = r]
  <2>1. a \in Seq(Row) /\ Len(a) = Len(u) /\ \A i \in 1..Len(u) : a[i] = u[i].after
    BY ProjectionType
  <2>2. b \in Seq(Row) /\ Len(b) = Len(u) /\ \A i \in 1..Len(u) : b[i] = w[i].after
    BY <1>3, ProjectionType
  <2>. HIDE DEF a, b
  <2>3. /\ c \in Seq(Row) /\ Len(c) = Len(u)
        /\ \A i \in 1..Len(u) : c[i] = IF i = j THEN r ELSE a[i]
    BY <2>1, ReplaceAtFacts
  <2>. HIDE DEF c
  <2>4. \A i \in 1..Len(b) : b[i] = c[i]
    BY <1>2, <1>3, <2>1, <2>2, <2>3
  <2>5. b = c
    BY <2>2, <2>3, <2>4, SameElements
  <2>. QED  BY <2>5 DEF a, b, c
<1>. QED  BY <1>4, <1>5 DEF w, e

LEMMA ProjectRemove ==
  ASSUME NEW u \in Seq(Mutation), NEW j \in 1..Len(u)
  PROVE  /\ BeforesOf(RemoveAt(u, j)) = RemoveAt(BeforesOf(u), j)
         /\ AftersOf(RemoveAt(u, j)) = RemoveAt(AftersOf(u), j)
<1>. DEFINE w == RemoveAt(u, j)
            n == Len(u)
<1>1. /\ w \in Seq(Mutation) /\ Len(w) = n - 1 /\ n \in Nat
      /\ \A i \in 1..(n - 1) : w[i] = IF i < j THEN u[i] ELSE u[i + 1]
  BY RemoveAtFacts
<1>2. \A i \in 1..(n - 1) : i \in 1..n /\ i + 1 \in 1..n
  BY <1>1
<1>. HIDE DEF w
<1>3. BeforesOf(w) = RemoveAt(BeforesOf(u), j)
  <2>. DEFINE a == BeforesOf(u)
              b == BeforesOf(w)
              c == RemoveAt(a, j)
  <2>1. a \in Seq(Row) /\ Len(a) = n /\ \A i \in 1..n : a[i] = u[i].before
    BY ProjectionType
  <2>2. b \in Seq(Row) /\ Len(b) = n - 1 /\ \A i \in 1..(n - 1) : b[i] = w[i].before
    BY <1>1, ProjectionType
  <2>. HIDE DEF a, b
  <2>3. /\ c \in Seq(Row) /\ Len(c) = n - 1
        /\ \A i \in 1..(n - 1) : c[i] = IF i < j THEN a[i] ELSE a[i + 1]
    BY <2>1, RemoveAtFacts
  <2>. HIDE DEF c, n
  <2>4. \A i \in 1..Len(b) : b[i] = c[i]
    BY <1>1, <1>2, <2>1, <2>2, <2>3
  <2>5. b = c
    BY <2>2, <2>3, <2>4, SameElements
  <2>. QED  BY <2>5 DEF a, b, c
<1>4. AftersOf(w) = RemoveAt(AftersOf(u), j)
  <2>. DEFINE a == AftersOf(u)
              b == AftersOf(w)
              c == RemoveAt(a, j)
  <2>1. a \in Seq(Row) /\ Len(a) = n /\ \A i \in 1..n : a[i] = u[i].after
    BY ProjectionType
  <2>2. b \in Seq(Row) /\ Len(b) = n - 1 /\ \A i \in 1..(n - 1) : b[i] = w[i].after
    BY <1>1, ProjectionType
  <2>. HIDE DEF a, b
  <2>3. /\ c \in Seq(Row) /\ Len(c) = n - 1
        /\ \A i \in 1..(n - 1) : c[i] = IF i < j THEN a[i] ELSE a[i + 1]
    BY <2>1, RemoveAtFacts
  <2>. HIDE DEF c, n
  <2>4. \A i \in 1..Len(b) : b[i] = c[i]
    BY <1>1, <1>2, <2>1, <2>2, <2>3
  <2>5. b = c
    BY <2>2, <2>3, <2>4, SameElements
  <2>. QED  BY <2>5 DEF a, b, c
<1>. QED  BY <1>3, <1>4 DEF w

Here(e) == IF e \in snapshot THEN 1 ELSE 0
Taken(p, e) == Count(BeforesOf(p.updates), e) + Count(p.deletes, e)
Made(p, e) == Count(AftersOf(p.updates), e) + Count(p.rows, e)
Net(p, e) == Here(e) - Taken(p, e) + Made(p, e)

\* The before-images and the deleted rows are rows of the snapshot, and none of
\* them twice.
Balanced(p) == \A e : Taken(p, e) <= Here(e)

LEMMA NetType ==
  ASSUME NEW p \in Pending, NEW e
  PROVE  /\ Here(e) \in 0..1
         /\ Count(BeforesOf(p.updates), e) \in Nat /\ Count(p.deletes, e) \in Nat
         /\ Count(AftersOf(p.updates), e) \in Nat /\ Count(p.rows, e) \in Nat
         /\ Taken(p, e) \in Nat /\ Made(p, e) \in Nat /\ Net(p, e) \in Int
         /\ Balanced(p) => Net(p, e) \in Nat /\ Net(p, e) >= Made(p, e)
<1>1. p.rows \in Seq(Row) /\ p.deletes \in Seq(Row) /\ p.updates \in Seq(Mutation)
  BY DEF Pending
<1>2. BeforesOf(p.updates) \in Seq(Row) /\ AftersOf(p.updates) \in Seq(Row)
  BY <1>1, ProjectionType
<1>3. /\ Count(BeforesOf(p.updates), e) \in Nat /\ Count(p.deletes, e) \in Nat
      /\ Count(AftersOf(p.updates), e) \in Nat /\ Count(p.rows, e) \in Nat
  BY <1>1, <1>2, CountType
<1>4. Taken(p, e) \in Nat /\ Made(p, e) \in Nat
  BY <1>3 DEF Taken, Made
<1>5. Here(e) \in 0..1
  BY DEF Here
<1>6. Net(p, e) \in Int /\ (Taken(p, e) <= Here(e) => Net(p, e) \in Nat /\ Net(p, e) >= Made(p, e))
  BY <1>4, <1>5 DEF Net
<1>. QED  BY <1>3, <1>4, <1>5, <1>6 DEF Balanced

\* The numbers of the rows of p, for the arithmetic below.
Numbers(p, e) ==
  /\ Here(e) \in 0..1
  /\ Count(BeforesOf(p.updates), e) \in Nat /\ Count(p.deletes, e) \in Nat
  /\ Count(AftersOf(p.updates), e) \in Nat /\ Count(p.rows, e) \in Nat
  /\ Taken(p, e) = Count(BeforesOf(p.updates), e) + Count(p.deletes, e)
  /\ Made(p, e) = Count(AftersOf(p.updates), e) + Count(p.rows, e)
  /\ Net(p, e) = Here(e) - Taken(p, e) + Made(p, e)
  /\ Balanced(p) => Taken(p, e) <= Here(e)

LEMMA NumbersFacts ==
  ASSUME NEW p \in Pending, NEW e
  PROVE  Numbers(p, e)
BY NetType DEF Numbers, Taken, Made, Net, Balanced

LEMMA NetStep ==
  ASSUME NEW p \in Pending, NEW q \in Pending, NEW e, NEW x \in Int, NEW y \in Int,
         Taken(q, e) = Taken(p, e), Made(q, e) = Made(p, e) - x + y
  PROVE  Net(q, e) = Net(p, e) - x + y
<1>1. Here(e) \in Int /\ Taken(p, e) \in Int /\ Made(p, e) \in Int
  BY NetType
<1>2. Net(p, e) = Here(e) - Taken(p, e) + Made(p, e)
  BY DEF Net
<1>3. Net(q, e) = Here(e) - Taken(p, e) + (Made(p, e) - x + y)
  BY DEF Net
<1>. QED  BY <1>1, <1>2, <1>3

LEMMA IsType == \A e, x : Is(e, x) \in 0..1
BY DEF Is

\* An update of a row that is there takes it and makes its after-image.
LEMMA MergeUpdateNet ==
  ASSUME NEW p \in Pending, Balanced(p), NEW m \in Mutation, Net(p, m.before) >= 1
  PROVE  /\ Balanced(MergeUpdate(p, m))
         /\ \A e : Net(MergeUpdate(p, m), e) = Net(p, e) - Is(e, m.before) + Is(e, m.after)
<1>. DEFINE q == MergeUpdate(p, m)
<1>1. p.rows \in Seq(Row) /\ p.deletes \in Seq(Row) /\ p.updates \in Seq(Mutation)
  BY DEF Pending
<1>2. m.before \in Row /\ m.after \in Row /\ m.after.id = m.before.id
  BY DEF Mutation
<1>3. BeforesOf(p.updates) \in Seq(Row) /\ AftersOf(p.updates) \in Seq(Row)
  BY <1>1, ProjectionType
<1>7. q \in Pending
  BY MergeUpdateType
<1>4. CASE \E j \in 1..Len(p.rows) :
             /\ p.rows[j] = m.before
             /\ q = [p EXCEPT !.rows = [@ EXCEPT ![j] = m.after]]
  <2>1. PICK j \in 1..Len(p.rows) :
             /\ p.rows[j] = m.before
             /\ q = [p EXCEPT !.rows = [@ EXCEPT ![j] = m.after]]
    BY <1>4
  <2>2. q.updates = p.updates /\ q.deletes = p.deletes /\ q.rows = [p.rows EXCEPT ![j] = m.after]
    BY <2>1 DEF Pending
  <2>. HIDE DEF q
  <2>3. ASSUME NEW e PROVE Net(q, e) = Net(p, e) - Is(e, m.before) + Is(e, m.after)
    <3>1. Count(q.rows, e) = Count(p.rows, e) - Is(e, m.before) + Is(e, m.after)
      BY <1>1, <1>2, <2>1, <2>2, CountReplace
    <3>2. Numbers(p, e) /\ Numbers(q, e) /\ Is(e, m.before) \in 0..1 /\ Is(e, m.after) \in 0..1
      BY <1>7, NumbersFacts, IsType
    <3>3. Taken(q, e) = Taken(p, e) /\ Made(q, e) = Made(p, e) - Is(e, m.before) + Is(e, m.after)
      BY <2>2, <3>1, <3>2 DEF Numbers
    <3>. QED  BY <1>7, <3>2, <3>3, NetStep
  <2>4. \A e : Taken(q, e) = Taken(p, e)
    BY <2>2 DEF Taken
  <2>. QED  BY <2>3, <2>4 DEF Balanced, q
<1>5. CASE \E j \in 1..Len(p.updates) :
             /\ p.updates[j].after = m.before
             /\ q = [p EXCEPT !.updates =
                       [p.updates EXCEPT ![j] = [before |-> p.updates[j].before,
                                                 after  |-> m.after]]]
  <2>1. PICK j \in 1..Len(p.updates) :
             /\ p.updates[j].after = m.before
             /\ q = [p EXCEPT !.updates =
                       [p.updates EXCEPT ![j] = [before |-> p.updates[j].before,
                                                 after  |-> m.after]]]
    BY <1>5
  <2>. DEFINE w == [p.updates EXCEPT ![j] = [before |-> p.updates[j].before,
                                             after  |-> m.after]]
  <2>2. q.updates = w /\ q.deletes = p.deletes /\ q.rows = p.rows
    BY <2>1 DEF Pending
  <2>3. BeforesOf(w) = BeforesOf(p.updates) /\ AftersOf(w) = [AftersOf(p.updates) EXCEPT ![j] = m.after]
    <3>. DEFINE u == p.updates
    <3>1. m.after.id = u[j].after.id /\ u \in Seq(Mutation) /\ j \in 1..Len(u)
      BY <1>1, <1>2, <2>1
    <3>. HIDE DEF u
    <3>2. LET x == [u EXCEPT ![j] = [before |-> u[j].before, after |-> m.after]]
          IN  BeforesOf(x) = BeforesOf(u) /\ AftersOf(x) = [AftersOf(u) EXCEPT ![j] = m.after]
      BY <1>2, <3>1, ProjectReplace
    <3>. QED  BY <3>2 DEF u
  <2>4. j \in 1..Len(AftersOf(p.updates)) /\ AftersOf(p.updates)[j] = m.before
    BY <1>1, <2>1, ProjectionType
  <2>. HIDE DEF q, w
  <2>5. ASSUME NEW e PROVE Net(q, e) = Net(p, e) - Is(e, m.before) + Is(e, m.after)
    <3>1. Count(AftersOf(w), e) = Count(AftersOf(p.updates), e) - Is(e, m.before) + Is(e, m.after)
      BY <1>2, <1>3, <2>3, <2>4, CountReplace
    <3>2. Numbers(p, e) /\ Numbers(q, e) /\ Is(e, m.before) \in 0..1 /\ Is(e, m.after) \in 0..1
      BY <1>7, NumbersFacts, IsType
    <3>3. /\ Count(AftersOf(q.updates), e)
               = Count(AftersOf(p.updates), e) - Is(e, m.before) + Is(e, m.after)
          /\ BeforesOf(q.updates) = BeforesOf(p.updates)
          /\ q.rows = p.rows /\ q.deletes = p.deletes
      BY <2>2, <2>3, <3>1
    <3>4. Taken(q, e) = Taken(p, e)
      BY <3>3 DEF Taken
    <3>5. Made(q, e) = Made(p, e) - Is(e, m.before) + Is(e, m.after)
      BY <3>2, <3>3 DEF Numbers
    <3>. QED  BY <1>7, <3>2, <3>4, <3>5, NetStep
  <2>6. \A e : Taken(q, e) = Taken(p, e)
    BY <2>2, <2>3 DEF Taken
  <2>. QED  BY <2>5, <2>6 DEF Balanced, q
<1>6. CASE /\ PlacesOf(p.rows, m.before) = {}
           /\ ProducersOf(p.updates, m.before) = {}
           /\ q = [p EXCEPT !.updates = Append(@, m)]
  <2>1. q.updates = Append(p.updates, m) /\ q.deletes = p.deletes /\ q.rows = p.rows
    BY <1>6 DEF Pending
  <2>2. /\ BeforesOf(q.updates) = Append(BeforesOf(p.updates), m.before)
        /\ AftersOf(q.updates) = Append(AftersOf(p.updates), m.after)
    BY <1>1, <2>1, ProjectAppend
  <2>3. Made(p, m.before) = 0
    <3>1. Count(p.rows, m.before) = 0
      BY <1>1, <1>6, CountType
    <3>2. PlacesOf(AftersOf(p.updates), m.before) = {}
      BY <1>6 DEF PlacesOf, ProducersOf, AftersOf
    <3>3. Count(AftersOf(p.updates), m.before) = 0
      BY <1>3, <3>2, CountType
    <3>. QED  BY <3>1, <3>3 DEF Made
  <2>. HIDE DEF q
  <2>4. ASSUME NEW e
        PROVE  /\ Count(BeforesOf(q.updates), e) = Count(BeforesOf(p.updates), e) + Is(e, m.before)
               /\ Count(AftersOf(q.updates), e) = Count(AftersOf(p.updates), e) + Is(e, m.after)
    BY <1>2, <1>3, <2>2, CountAppend
  <2>5. ASSUME NEW e PROVE Net(q, e) = Net(p, e) - Is(e, m.before) + Is(e, m.after)
    <3>1. Numbers(p, e) /\ Numbers(q, e) /\ Is(e, m.before) \in 0..1 /\ Is(e, m.after) \in 0..1
      BY <1>7, NumbersFacts, IsType
    <3>2. Taken(q, e) = Taken(p, e) + Is(e, m.before) /\ Made(q, e) = Made(p, e) + Is(e, m.after)
      BY <2>1, <2>4, <3>1 DEF Numbers
    <3>3. Taken(p, e) \in Nat /\ Made(p, e) \in Nat
      BY NetType
    <3>. QED  BY <3>1, <3>2, <3>3 DEF Numbers
  <2>6. ASSUME NEW e PROVE Taken(q, e) <= Here(e)
    <3>0. Numbers(p, e) /\ Numbers(q, e) /\ Is(e, m.before) \in 0..1
      BY <1>7, NumbersFacts, IsType
    <3>1. Taken(q, e) = Taken(p, e) + Is(e, m.before)
      BY <2>1, <2>4, <3>0 DEF Numbers
    <3>2. CASE e = m.before
      <4>1. Made(p, e) = 0 /\ Net(p, e) >= 1 /\ Is(e, m.before) = 1
        BY <2>3, <3>2 DEF Is
      <4>. QED  BY <3>0, <3>1, <4>1 DEF Numbers
    <3>3. CASE e # m.before
      <4>1. Is(e, m.before) = 0
        BY <3>3 DEF Is
      <4>. QED  BY <3>0, <3>1, <4>1 DEF Numbers
    <3>. QED  BY <3>2, <3>3
  <2>. QED  BY <2>5, <2>6 DEF Balanced, q
<1>. QED  BY <1>4, <1>5, <1>6, MergeUpdateCases

\* A delete of a row that is there takes it.
LEMMA MergeDeleteNet ==
  ASSUME NEW p \in Pending, Balanced(p), NEW r \in Row, Net(p, r) >= 1
  PROVE  /\ Balanced(MergeDelete(p, r))
         /\ \A e : Net(MergeDelete(p, r), e) = Net(p, e) - Is(e, r)
<1>. DEFINE q == MergeDelete(p, r)
<1>1. p.rows \in Seq(Row) /\ p.deletes \in Seq(Row) /\ p.updates \in Seq(Mutation)
  BY DEF Pending
<1>2. BeforesOf(p.updates) \in Seq(Row) /\ AftersOf(p.updates) \in Seq(Row)
  BY <1>1, ProjectionType
<1>7. q \in Pending
  BY MergeDeleteType
<1>3. CASE \E j \in 1..Len(p.rows) :
             /\ p.rows[j] = r
             /\ q = [p EXCEPT !.rows = RemoveAt(@, j)]
  <2>1. PICK j \in 1..Len(p.rows) :
             /\ p.rows[j] = r
             /\ q = [p EXCEPT !.rows = RemoveAt(@, j)]
    BY <1>3
  <2>2. q.updates = p.updates /\ q.deletes = p.deletes /\ q.rows = RemoveAt(p.rows, j)
    BY <2>1 DEF Pending
  <2>. HIDE DEF q
  <2>3. ASSUME NEW e PROVE Net(q, e) = Net(p, e) - Is(e, r)
    <3>1. Count(q.rows, e) = Count(p.rows, e) - Is(e, r)
      BY <1>1, <2>1, <2>2, CountRemove
    <3>2. Numbers(p, e) /\ Numbers(q, e) /\ Is(e, r) \in 0..1
      BY <1>7, NumbersFacts, IsType
    <3>. QED  BY <2>2, <3>1, <3>2 DEF Numbers
  <2>4. \A e : Taken(q, e) = Taken(p, e)
    BY <2>2 DEF Taken
  <2>. QED  BY <2>3, <2>4 DEF Balanced, q
<1>4. CASE \E j \in 1..Len(p.updates) :
             /\ p.updates[j].after = r
             /\ q = [p EXCEPT !.deletes = Append(@, p.updates[j].before),
                              !.updates = RemoveAt(@, j)]
  <2>1. PICK j \in 1..Len(p.updates) :
             /\ p.updates[j].after = r
             /\ q = [p EXCEPT !.deletes = Append(@, p.updates[j].before),
                              !.updates = RemoveAt(@, j)]
    BY <1>4
  <2>. DEFINE b == p.updates[j].before
  <2>2. /\ q.updates = RemoveAt(p.updates, j) /\ q.deletes = Append(p.deletes, b)
        /\ q.rows = p.rows
    BY <2>1 DEF Pending
  <2>3. /\ BeforesOf(q.updates) = RemoveAt(BeforesOf(p.updates), j)
        /\ AftersOf(q.updates) = RemoveAt(AftersOf(p.updates), j)
    BY <1>1, <2>1, <2>2, ProjectRemove
  <2>4. /\ j \in 1..Len(AftersOf(p.updates)) /\ AftersOf(p.updates)[j] = r
        /\ j \in 1..Len(BeforesOf(p.updates)) /\ BeforesOf(p.updates)[j] = b
        /\ b \in Row
    BY <1>1, <2>1, ProjectionType DEF Mutation
  <2>. HIDE DEF q, b
  <2>5. ASSUME NEW e
        PROVE  /\ Count(BeforesOf(q.updates), e) = Count(BeforesOf(p.updates), e) - Is(e, b)
               /\ Count(AftersOf(q.updates), e) = Count(AftersOf(p.updates), e) - Is(e, r)
               /\ Count(q.deletes, e) = Count(p.deletes, e) + Is(e, b)
    <3>1. Count(BeforesOf(q.updates), e) = Count(BeforesOf(p.updates), e) - Is(e, b)
      BY <1>2, <2>3, <2>4, CountRemove
    <3>2. Count(AftersOf(q.updates), e) = Count(AftersOf(p.updates), e) - Is(e, r)
      BY <1>2, <2>3, <2>4, CountRemove
    <3>3. Count(q.deletes, e) = Count(p.deletes, e) + Is(e, b)
      BY <1>1, <2>2, <2>4, CountAppend
    <3>. QED  BY <3>1, <3>2, <3>3
  <2>6. ASSUME NEW e PROVE Taken(q, e) = Taken(p, e) /\ Made(q, e) = Made(p, e) - Is(e, r)
    <3>1. /\ Numbers(p, e) /\ Numbers(q, e)
          /\ Is(e, r) \in 0..1 /\ Is(e, b) \in 0..1
      BY <1>7, NumbersFacts, IsType
    <3>2. Taken(q, e) = Taken(p, e)
      BY <2>5, <3>1 DEF Numbers
    <3>3. Made(q, e) = Made(p, e) - Is(e, r)
      BY <2>2, <2>5, <3>1 DEF Numbers
    <3>. QED  BY <3>2, <3>3
  <2>7. ASSUME NEW e PROVE Net(q, e) = Net(p, e) - Is(e, r)
    <3>1. Numbers(p, e) /\ Numbers(q, e) /\ Is(e, r) \in 0..1
      BY <1>7, NumbersFacts, IsType
    <3>. QED  BY <2>6, <3>1 DEF Numbers
  <2>. QED  BY <2>6, <2>7 DEF Balanced, q
<1>5. CASE /\ PlacesOf(p.rows, r) = {}
           /\ ProducersOf(p.updates, r) = {}
           /\ q = [p EXCEPT !.deletes = Append(@, r)]
  <2>1. q.updates = p.updates /\ q.deletes = Append(p.deletes, r) /\ q.rows = p.rows
    BY <1>5 DEF Pending
  <2>2. Made(p, r) = 0
    <3>1. Count(p.rows, r) = 0
      BY <1>1, <1>5, CountType
    <3>2. PlacesOf(AftersOf(p.updates), r) = {}
      BY <1>5 DEF PlacesOf, ProducersOf, AftersOf
    <3>3. Count(AftersOf(p.updates), r) = 0
      BY <1>2, <3>2, CountType
    <3>. QED  BY <3>1, <3>3 DEF Made
  <2>. HIDE DEF q
  <2>3. ASSUME NEW e PROVE Taken(q, e) = Taken(p, e) + Is(e, r) /\ Made(q, e) = Made(p, e)
    <3>1. Count(q.deletes, e) = Count(p.deletes, e) + Is(e, r)
      BY <1>1, <2>1, CountAppend
    <3>2. Numbers(p, e) /\ Numbers(q, e) /\ Is(e, r) \in 0..1
      BY <1>7, NumbersFacts, IsType
    <3>. QED  BY <2>1, <3>1, <3>2 DEF Numbers
  <2>4. ASSUME NEW e PROVE Net(q, e) = Net(p, e) - Is(e, r)
    <3>1. Numbers(p, e) /\ Numbers(q, e) /\ Is(e, r) \in 0..1
      BY <1>7, NumbersFacts, IsType
    <3>. QED  BY <2>3, <3>1 DEF Numbers
  <2>5. ASSUME NEW e PROVE Taken(q, e) <= Here(e)
    <3>0. Numbers(p, e) /\ Numbers(q, e) /\ Is(e, r) \in 0..1
      BY <1>7, NumbersFacts, IsType
    <3>1. CASE e = r
      <4>1. Made(p, e) = 0 /\ Net(p, e) >= 1 /\ Is(e, r) = 1
        BY <2>2, <3>1 DEF Is
      <4>. QED  BY <2>3, <3>0, <4>1 DEF Numbers
    <3>2. CASE e # r
      <4>1. Is(e, r) = 0
        BY <3>2 DEF Is
      <4>. QED  BY <2>3, <3>0, <4>1 DEF Numbers
    <3>. QED  BY <3>1, <3>2
  <2>. QED  BY <2>4, <2>5 DEF Balanced, q
<1>. QED  BY <1>3, <1>4, <1>5, MergeDeleteCases

\* A row that is there and that nothing pending has made is not taken.
LEMMA NotMadeNotTaken ==
  ASSUME NEW p \in Pending, Balanced(p), NEW r, Net(p, r) >= 1,
         PlacesOf(p.rows, r) = {}, ProducersOf(p.updates, r) = {}
  PROVE  PlacesOf(p.deletes, r) = {}
<1>1. p.rows \in Seq(Row) /\ p.deletes \in Seq(Row) /\ p.updates \in Seq(Mutation)
  BY DEF Pending
<1>2. AftersOf(p.updates) \in Seq(Row)
  BY <1>1, ProjectionType
<1>3. Count(p.rows, r) = 0
  BY <1>1, CountType
<1>4. PlacesOf(AftersOf(p.updates), r) = {}
  BY DEF PlacesOf, ProducersOf, AftersOf
<1>5. Count(AftersOf(p.updates), r) = 0
  BY <1>2, <1>4, CountType
<1>6. Numbers(p, r)
  BY NumbersFacts
<1>7. Made(p, r) = 0
  BY <1>3, <1>5, <1>6 DEF Numbers
<1>8. Count(p.deletes, r) = 0
  BY <1>6, <1>7 DEF Numbers
<1>. QED  BY <1>1, <1>8, CountType

\* Updates of rows that are there take them and make their after-images.
LEMMA UpdatingNet ==
  ASSUME NEW p \in Pending, Balanced(p), NEW ms \in Seq(Mutation),
         \A e : Count(BeforesOf(ms), e) <= Net(p, e)
  PROVE  LET q == Updating(p, ms)[Len(ms)] IN
         /\ Balanced(q)
         /\ \A e : Net(q, e) = Net(p, e) - Count(BeforesOf(ms), e) + Count(AftersOf(ms), e)
<1>. DEFINE n == Len(ms)
            u == Updating(p, ms)
            B == BeforesOf(ms)
            A == AftersOf(ms)
            Right(i, e) == Net(u[i], e) = Net(p, e) - Upto(B, i, e) + Upto(A, i, e)
            S == {i \in 0..n : Balanced(u[i]) /\ \A e : Right(i, e)}
<1>1. /\ n \in Nat /\ u \in [0..n -> Pending] /\ u[0] = p
      /\ \A i \in 1..n : ms[i] \in Mutation /\ u[i] = MergeUpdate(u[i - 1], ms[i])
  BY UpdatingSteps
<1>2. /\ B \in Seq(Row) /\ A \in Seq(Row) /\ Len(B) = n /\ Len(A) = n
      /\ \A i \in 1..n : B[i] = ms[i].before /\ A[i] = ms[i].after
  BY ProjectionType
<1>3. \A e : Count(B, e) <= Net(p, e)
  OBVIOUS
<1>. HIDE DEF n, u, B, A
<1>4. ASSUME NEW e
      PROVE  /\ Upto(B, 0, e) = 0 /\ Upto(A, 0, e) = 0
             /\ Upto(B, n, e) = Count(B, e) /\ Upto(A, n, e) = Count(A, e)
             /\ \A i \in 0..n : /\ Upto(B, i, e) \in Nat /\ Upto(B, i, e) <= Count(B, e)
                                /\ Upto(A, i, e) \in Nat
             /\ \A i \in 1..n : /\ Upto(B, i, e) = Upto(B, i - 1, e) + Is(e, B[i])
                                /\ Upto(A, i, e) = Upto(A, i - 1, e) + Is(e, A[i])
             /\ Net(p, e) \in Int /\ Count(B, e) \in Nat
  BY <1>2, UptoFacts, NetType, CountType
<1>5. 0 \in S
  <2>1. \A e : Right(0, e)
    BY <1>1, <1>4
  <2>. QED  BY <1>1, <2>1
<1>6. ASSUME NEW i \in 1..n, i - 1 \in S PROVE i \in S
  <2>. DEFINE v == u[i - 1]
              m == ms[i]
  <2>1. i - 1 \in 0..n /\ i \in 0..n /\ v \in Pending /\ m \in Mutation /\ u[i] = MergeUpdate(v, m)
        /\ B[i] = m.before /\ A[i] = m.after
    BY <1>1, <1>2
  <2>2. Balanced(v) /\ \A e : Net(v, e) = Net(p, e) - Upto(B, i - 1, e) + Upto(A, i - 1, e)
    BY <1>6
  <2>. HIDE DEF v, m, Right
  <2>3. Net(v, m.before) >= 1
    <3>. DEFINE b == m.before
    <3>1. Net(v, b) = Net(p, b) - Upto(B, i - 1, b) + Upto(A, i - 1, b)
      BY <2>2
    <3>2. Upto(B, i, b) = Upto(B, i - 1, b) + 1
      BY <1>4, <2>1 DEF Is
    <3>3. /\ Upto(B, i, b) <= Count(B, b) /\ Upto(B, i - 1, b) \in Nat
          /\ Upto(A, i - 1, b) \in Nat /\ Net(p, b) \in Int /\ Count(B, b) \in Nat
      BY <1>4, <2>1
    <3>4. Count(B, b) <= Net(p, b)
      BY <1>3
    <3>. HIDE DEF b
    <3>5. Net(v, b) >= 1
      BY <3>1, <3>2, <3>3, <3>4
    <3>. QED  BY <3>5 DEF b
  <2>4. Balanced(u[i]) /\ \A e : Net(u[i], e) = Net(v, e) - Is(e, m.before) + Is(e, m.after)
    BY <2>1, <2>2, <2>3, MergeUpdateNet
  <2>5. ASSUME NEW e PROVE Right(i, e)
    <3>1. Net(u[i], e) = Net(v, e) - Is(e, B[i]) + Is(e, A[i])
      BY <2>1, <2>4
    <3>2. Net(v, e) = Net(p, e) - Upto(B, i - 1, e) + Upto(A, i - 1, e)
      BY <2>2
    <3>3. /\ Upto(B, i, e) = Upto(B, i - 1, e) + Is(e, B[i])
          /\ Upto(A, i, e) = Upto(A, i - 1, e) + Is(e, A[i])
          /\ Upto(B, i - 1, e) \in Nat /\ Upto(A, i - 1, e) \in Nat /\ Net(p, e) \in Int
      BY <1>4, <2>1
    <3>4. Is(e, B[i]) \in 0..1 /\ Is(e, A[i]) \in 0..1
      BY IsType
    <3>. QED  BY <3>1, <3>2, <3>3, <3>4 DEF Right
  <2>. QED  BY <2>1, <2>4, <2>5
<1>7. n \in S
  <2>. HIDE DEF S
  <2>1. \A i \in 0..n : i \in S
    BY <1>1, <1>5, <1>6, IntervalInduction
  <2>. QED  BY <1>1, <2>1
<1>8. Balanced(u[n]) /\ \A e : Net(u[n], e) = Net(p, e) - Count(B, e) + Count(A, e)
  BY <1>4, <1>7
<1>. QED  BY <1>8 DEF n, u, A, B

\* Deletes of rows that are there take them, and none of them is an error.
LEMMA DeletingNet ==
  ASSUME NEW p \in Pending, Balanced(p), NEW sel \in Seq(Row),
         \A e : Count(sel, e) <= Net(p, e)
  PROVE  LET q == Deleting(p, sel)[Len(sel)] IN
         /\ Balanced(q)
         /\ \A e : Net(q, e) = Net(p, e) - Count(sel, e)
         /\ DeleteErrors(p, sel) = {}
<1>. DEFINE n == Len(sel)
            u == Deleting(p, sel)
            Right(i, e) == Net(u[i], e) = Net(p, e) - Upto(sel, i, e)
            S == {i \in 0..n : Balanced(u[i]) /\ \A e : Right(i, e)}
<1>1. /\ n \in Nat /\ u \in [0..n -> Pending] /\ u[0] = p
      /\ \A i \in 1..n : sel[i] \in Row /\ u[i] = MergeDelete(u[i - 1], sel[i])
  BY DeletingSteps
<1>. HIDE DEF u
<1>2. ASSUME NEW e
      PROVE  /\ Upto(sel, 0, e) = 0 /\ Upto(sel, n, e) = Count(sel, e)
             /\ \A i \in 0..n : Upto(sel, i, e) \in Nat /\ Upto(sel, i, e) <= Count(sel, e)
             /\ \A i \in 1..n : Upto(sel, i, e) = Upto(sel, i - 1, e) + Is(e, sel[i])
             /\ Net(p, e) \in Int /\ Count(sel, e) \in Nat
  BY UptoFacts, NetType, CountType
<1>. HIDE DEF n
<1>3. 0 \in S
  <2>1. \A e : Right(0, e)
    BY <1>1, <1>2
  <2>. QED  BY <1>1, <2>1
<1>4. ASSUME NEW i \in 1..n, i - 1 \in S
      PROVE  /\ Balanced(u[i - 1]) /\ u[i - 1] \in Pending
             /\ \A e : Net(u[i - 1], e) = Net(p, e) - Upto(sel, i - 1, e)
             /\ Net(u[i - 1], sel[i]) >= 1
  <2>. DEFINE v == u[i - 1]
              r == sel[i]
  <2>1. i - 1 \in 0..n /\ i \in 0..n /\ v \in Pending
    BY <1>1
  <2>2. Balanced(v) /\ \A e : Net(v, e) = Net(p, e) - Upto(sel, i - 1, e)
    BY <1>4
  <2>3. Net(v, r) = Net(p, r) - Upto(sel, i - 1, r)
    BY <2>2
  <2>4. Upto(sel, i, r) = Upto(sel, i - 1, r) + 1
    BY <1>2 DEF Is
  <2>5. /\ Upto(sel, i, r) <= Count(sel, r) /\ Upto(sel, i - 1, r) \in Nat
        /\ Net(p, r) \in Int /\ Count(sel, r) \in Nat /\ Count(sel, r) <= Net(p, r)
    BY <1>2, <2>1
  <2>. HIDE DEF v, r
  <2>6. Net(v, r) >= 1
    BY <2>3, <2>4, <2>5
  <2>. QED  BY <2>1, <2>2, <2>6 DEF v, r
<1>5. ASSUME NEW i \in 1..n, i - 1 \in S PROVE i \in S
  <2>. DEFINE v == u[i - 1]
  <2>1. /\ Balanced(v) /\ v \in Pending /\ Net(v, sel[i]) >= 1
        /\ \A e : Net(v, e) = Net(p, e) - Upto(sel, i - 1, e)
    BY <1>4, <1>5
  <2>2. i - 1 \in 0..n /\ i \in 0..n /\ sel[i] \in Row /\ u[i] = MergeDelete(v, sel[i])
    BY <1>1
  <2>. HIDE DEF v, Right
  <2>3. Balanced(u[i]) /\ \A e : Net(u[i], e) = Net(v, e) - Is(e, sel[i])
    BY <2>1, <2>2, MergeDeleteNet
  <2>4. ASSUME NEW e PROVE Right(i, e)
    <3>1. Net(u[i], e) = Net(v, e) - Is(e, sel[i]) /\ Net(v, e) = Net(p, e) - Upto(sel, i - 1, e)
      BY <2>1, <2>3
    <3>2. /\ Upto(sel, i, e) = Upto(sel, i - 1, e) + Is(e, sel[i])
          /\ Upto(sel, i - 1, e) \in Nat /\ Net(p, e) \in Int
      BY <1>2, <2>2
    <3>3. Is(e, sel[i]) \in 0..1
      BY IsType
    <3>. QED  BY <3>1, <3>2, <3>3 DEF Right
  <2>. QED  BY <2>2, <2>3, <2>4
<1>6. \A i \in 0..n : i \in S
  <2>. HIDE DEF S
  <2>. QED  BY <1>1, <1>3, <1>5, IntervalInduction
<1>7. Balanced(u[n]) /\ \A e : Net(u[n], e) = Net(p, e) - Count(sel, e)
  <2>1. n \in S
    <3>. HIDE DEF S
    <3>. QED  BY <1>1, <1>6
  <2>. QED  BY <1>2, <2>1
<1>8. DeleteErrors(p, sel) = {}
  <2>. SUFFICES ASSUME NEW i \in DeleteErrors(p, sel) PROVE FALSE
    OBVIOUS
  <2>1. /\ i \in DOMAIN sel
        /\ PlacesOf(u[i - 1].rows, sel[i]) = {}
        /\ ProducersOf(u[i - 1].updates, sel[i]) = {}
        /\ PlacesOf(u[i - 1].deletes, sel[i]) # {}
    BY DEF DeleteErrors, u
  <2>2. i \in 1..n /\ i - 1 \in 0..n
    BY <1>1, <2>1 DEF n
  <2>3. i - 1 \in S
    <3>. HIDE DEF S
    <3>. QED  BY <1>6, <2>2
  <2>4. Balanced(u[i - 1]) /\ u[i - 1] \in Pending /\ Net(u[i - 1], sel[i]) >= 1
    <3>. HIDE DEF S
    <3>. QED  BY <1>4, <2>2, <2>3
  <2>. QED  BY <2>1, <2>4, NotMadeNotTaken
<1>. QED  BY <1>7, <1>8 DEF n, u

-----------------------------------------------------------------------------
(***************************************************************************)
(* What a scan returns.                                                    *)
(***************************************************************************)

\* The iterator meets every row of the snapshot once.
LEMMA BaseCount ==
  ASSUME SnapshotInv, NEW e
  PROVE  Count(Base, e) = Here(e)
<1>. DEFINE n == Cardinality(snapshot)
<1>1. Base \in [1..n -> snapshot] /\ KeyOrdered(Base) /\ n \in Nat
  BY BaseFacts
<1>. HIDE DEF n
<1>2. ASSUME NEW i \in 1..n, NEW j \in 1..n, Base[i] = Base[j] PROVE i = j
  <2>1. Base[i] \in Row /\ Base[j] \in Row
    BY <1>1 DEF SnapshotInv
  <2>2. StorageKey(Base[i]) \in Nat
    BY <2>1, KeyType
  <2>3. ~(i < j) /\ ~(j < i)
    BY <1>1, <1>2, <2>2 DEF KeyOrdered
  <2>. QED  BY <1>1, <2>3
<1>3. Base \in Injection(1..n, snapshot)
  BY <1>1, <1>2 DEF Injection, IsInjective
<1>4. Cardinality(1..n) = n
  BY <1>1, FS_Interval
<1>5. Base \in Surjection(1..n, snapshot)
  BY <1>3, <1>4, FS_Injection DEF SnapshotInv, n
<1>6. PlacesOf(Base, e) = {i \in 1..n : Base[i] = e}
  BY <1>1 DEF PlacesOf
<1>7. CASE e \in snapshot
  <2>1. PICK i \in 1..n : Base[i] = e
    BY <1>5, <1>7 DEF Surjection
  <2>2. PlacesOf(Base, e) = {i}
    BY <1>2, <1>6, <2>1
  <2>. QED  BY <1>7, <2>2, FS_Singleton DEF Count, Here
<1>8. CASE e \notin snapshot
  <2>1. PlacesOf(Base, e) = {}
    BY <1>1, <1>6, <1>8
  <2>. QED  BY <1>8, <2>1, FS_EmptySet DEF Count, Here
<1>. QED  BY <1>7, <1>8

\* An update or a delete finds the row it is about.
LEMMA ReplaceRowCount ==
  ASSUME NEW s \in Seq(Row), NEW m \in Mutation, Count(s, m.before) >= 1, NEW e
  PROVE  Count(ReplaceRow(s, m), e) = Count(s, e) - Is(e, m.before) + Is(e, m.after)
<1>1. m.before \in Row /\ m.after \in Row
  BY DEF Mutation
<1>2. PlacesOf(s, m.before) # {}
  BY CountType
<1>. DEFINE j == Min(PlacesOf(s, m.before))
<1>3. j \in 1..Len(s) /\ s[j] = m.before
  BY <1>2, FirstPlace
<1>4. ReplaceRow(s, m) = [s EXCEPT ![j] = m.after]
  BY <1>2 DEF ReplaceRow
<1>. HIDE DEF j
<1>5. ASSUME NEW x \in Row
      PROVE  Count([s EXCEPT ![j] = x], e) = Count(s, e) - Is(e, s[j]) + Is(e, x)
  BY <1>3, CountReplace
<1>. QED  BY <1>1, <1>3, <1>4, <1>5

LEMMA DropRowCount ==
  ASSUME NEW s \in Seq(Row), NEW r \in Row, Count(s, r) >= 1, NEW e
  PROVE  Count(DropRow(s, r), e) = Count(s, e) - Is(e, r)
<1>1. PlacesOf(s, r) # {}
  BY CountType
<1>. DEFINE j == Min(PlacesOf(s, r))
<1>2. j \in 1..Len(s) /\ s[j] = r
  BY <1>1, FirstPlace
<1>3. DropRow(s, r) = RemoveAt(s, j)
  BY <1>1 DEF DropRow
<1>. HIDE DEF j
<1>. QED  BY <1>2, <1>3, CountRemove

LEMMA ReplacingCount ==
  ASSUME NEW s \in Seq(Row), NEW ms \in Seq(Mutation),
         \A e : Count(BeforesOf(ms), e) <= Count(s, e)
  PROVE  \A e : Count(Replacing(s, ms)[Len(ms)], e)
                  = Count(s, e) - Count(BeforesOf(ms), e) + Count(AftersOf(ms), e)
<1>. DEFINE n == Len(ms)
            u == Replacing(s, ms)
            B == BeforesOf(ms)
            A == AftersOf(ms)
            Right(i, e) == Count(u[i], e) = Count(s, e) - Upto(B, i, e) + Upto(A, i, e)
            S == {i \in 0..n : \A e : Right(i, e)}
<1>1. /\ n \in Nat /\ u \in [0..n -> Seq(Row)] /\ u[0] = s
      /\ \A i \in 1..n : ms[i] \in Mutation /\ u[i] = ReplaceRow(u[i - 1], ms[i])
  BY ReplacingSteps
<1>2. /\ B \in Seq(Row) /\ A \in Seq(Row) /\ Len(B) = n /\ Len(A) = n
      /\ \A i \in 1..n : B[i] = ms[i].before /\ A[i] = ms[i].after
  BY ProjectionType
<1>3. \A e : Count(B, e) <= Count(s, e)
  OBVIOUS
<1>. HIDE DEF n, u, B, A
<1>4. ASSUME NEW e
      PROVE  /\ Upto(B, 0, e) = 0 /\ Upto(A, 0, e) = 0
             /\ Upto(B, n, e) = Count(B, e) /\ Upto(A, n, e) = Count(A, e)
             /\ \A i \in 0..n : /\ Upto(B, i, e) \in Nat /\ Upto(B, i, e) <= Count(B, e)
                                /\ Upto(A, i, e) \in Nat
             /\ \A i \in 1..n : /\ Upto(B, i, e) = Upto(B, i - 1, e) + Is(e, B[i])
                                /\ Upto(A, i, e) = Upto(A, i - 1, e) + Is(e, A[i])
             /\ Count(s, e) \in Nat /\ Count(B, e) \in Nat
  BY <1>2, UptoFacts, CountType
<1>5. 0 \in S
  <2>1. \A e : Right(0, e)
    BY <1>1, <1>4
  <2>. QED  BY <1>1, <2>1
<1>6. ASSUME NEW i \in 1..n, i - 1 \in S PROVE i \in S
  <2>. DEFINE v == u[i - 1]
              m == ms[i]
  <2>1. i - 1 \in 0..n /\ i \in 0..n /\ v \in Seq(Row) /\ m \in Mutation /\ u[i] = ReplaceRow(v, m)
        /\ B[i] = m.before /\ A[i] = m.after
    <3>1. i - 1 \in 0..n /\ i \in 0..n
      BY <1>1
    <3>2. v \in Seq(Row)
      BY <1>1, <3>1
    <3>. QED  BY <1>1, <1>2, <3>1, <3>2
  <2>2. \A e : Count(v, e) = Count(s, e) - Upto(B, i - 1, e) + Upto(A, i - 1, e)
    BY <1>6
  <2>. HIDE DEF v, m, Right
  <2>3. Count(v, m.before) >= 1
    <3>. DEFINE b == m.before
    <3>1. Count(v, b) = Count(s, b) - Upto(B, i - 1, b) + Upto(A, i - 1, b)
      BY <2>2
    <3>2. Upto(B, i, b) = Upto(B, i - 1, b) + 1
      BY <1>4, <2>1 DEF Is
    <3>3. /\ Upto(B, i, b) <= Count(B, b) /\ Upto(B, i - 1, b) \in Nat
          /\ Upto(A, i - 1, b) \in Nat /\ Count(s, b) \in Nat /\ Count(B, b) \in Nat
      BY <1>4, <2>1
    <3>4. Count(B, b) <= Count(s, b)
      BY <1>3
    <3>. HIDE DEF b
    <3>5. Count(v, b) >= 1
      BY <3>1, <3>2, <3>3, <3>4
    <3>. QED  BY <3>5 DEF b
  <2>5. ASSUME NEW e PROVE Right(i, e)
    <3>1. Count(u[i], e) = Count(v, e) - Is(e, B[i]) + Is(e, A[i])
      BY <2>1, <2>3, ReplaceRowCount
    <3>2. Count(v, e) = Count(s, e) - Upto(B, i - 1, e) + Upto(A, i - 1, e)
      BY <2>2
    <3>3. /\ Upto(B, i, e) = Upto(B, i - 1, e) + Is(e, B[i])
          /\ Upto(A, i, e) = Upto(A, i - 1, e) + Is(e, A[i])
          /\ Upto(B, i - 1, e) \in Nat /\ Upto(A, i - 1, e) \in Nat /\ Count(s, e) \in Nat
      BY <1>4, <2>1
    <3>4. Is(e, B[i]) \in 0..1 /\ Is(e, A[i]) \in 0..1
      BY IsType
    <3>. QED  BY <3>1, <3>2, <3>3, <3>4 DEF Right
  <2>. QED  BY <2>1, <2>5
<1>7. n \in S
  <2>. HIDE DEF S
  <2>1. \A i \in 0..n : i \in S
    BY <1>1, <1>5, <1>6, IntervalInduction
  <2>. QED  BY <1>1, <2>1
<1>8. \A e : Count(u[n], e) = Count(s, e) - Count(B, e) + Count(A, e)
  BY <1>4, <1>7
<1>. QED  BY <1>8 DEF n, u, A, B

LEMMA DroppingCount ==
  ASSUME NEW s \in Seq(Row), NEW ds \in Seq(Row),
         \A e : Count(ds, e) <= Count(s, e)
  PROVE  \A e : Count(Dropping(s, ds)[Len(ds)], e) = Count(s, e) - Count(ds, e)
<1>. DEFINE n == Len(ds)
            u == Dropping(s, ds)
            Right(i, e) == Count(u[i], e) = Count(s, e) - Upto(ds, i, e)
            S == {i \in 0..n : \A e : Right(i, e)}
<1>1. /\ n \in Nat /\ u \in [0..n -> Seq(Row)] /\ u[0] = s
      /\ \A i \in 1..n : ds[i] \in Row /\ u[i] = DropRow(u[i - 1], ds[i])
  BY DroppingSteps
<1>. HIDE DEF u
<1>2. ASSUME NEW e
      PROVE  /\ Upto(ds, 0, e) = 0 /\ Upto(ds, n, e) = Count(ds, e)
             /\ \A i \in 0..n : Upto(ds, i, e) \in Nat /\ Upto(ds, i, e) <= Count(ds, e)
             /\ \A i \in 1..n : Upto(ds, i, e) = Upto(ds, i - 1, e) + Is(e, ds[i])
             /\ Count(s, e) \in Nat /\ Count(ds, e) \in Nat
  BY UptoFacts, CountType
<1>. HIDE DEF n
<1>3. 0 \in S
  <2>1. \A e : Right(0, e)
    BY <1>1, <1>2
  <2>. QED  BY <1>1, <2>1
<1>4. ASSUME NEW i \in 1..n, i - 1 \in S PROVE i \in S
  <2>. DEFINE v == u[i - 1]
              r == ds[i]
  <2>1. i - 1 \in 0..n /\ i \in 0..n /\ v \in Seq(Row) /\ r \in Row /\ u[i] = DropRow(v, r)
    BY <1>1
  <2>2. \A e : Count(v, e) = Count(s, e) - Upto(ds, i - 1, e)
    BY <1>4
  <2>3. Count(v, r) = Count(s, r) - Upto(ds, i - 1, r)
    BY <2>2
  <2>4. Upto(ds, i, r) = Upto(ds, i - 1, r) + 1
    BY <1>2 DEF Is
  <2>5. /\ Upto(ds, i, r) <= Count(ds, r) /\ Upto(ds, i - 1, r) \in Nat
        /\ Count(s, r) \in Nat /\ Count(ds, r) \in Nat /\ Count(ds, r) <= Count(s, r)
    BY <1>2, <2>1
  <2>. HIDE DEF v, Right
  <2>7. \A e : Upto(ds, i, e) = Upto(ds, i - 1, e) + Is(e, r)
    BY <1>2
  <2>. HIDE DEF r
  <2>6. Count(v, r) >= 1
    BY <2>3, <2>4, <2>5
  <2>8. ASSUME NEW e PROVE Right(i, e)
    <3>1. Count(u[i], e) = Count(v, e) - Is(e, r)
      BY <2>1, <2>6, DropRowCount
    <3>2. Count(v, e) = Count(s, e) - Upto(ds, i - 1, e)
      BY <2>2
    <3>3. /\ Upto(ds, i, e) = Upto(ds, i - 1, e) + Is(e, r)
          /\ Upto(ds, i - 1, e) \in Nat /\ Count(s, e) \in Nat
      BY <1>2, <2>1, <2>7
    <3>4. Is(e, r) \in 0..1
      BY IsType
    <3>. QED  BY <3>1, <3>2, <3>3, <3>4 DEF Right
  <2>. QED  BY <2>1, <2>8
<1>5. n \in S
  <2>. HIDE DEF S
  <2>1. \A i \in 0..n : i \in S
    BY <1>1, <1>3, <1>4, IntervalInduction
  <2>. QED  BY <1>1, <2>1
<1>6. \A e : Count(u[n], e) = Count(s, e) - Count(ds, e)
  BY <1>2, <1>5
<1>. QED  BY <1>6 DEF n, u

\* scanRows returns the snapshot with the pending changes applied.
LEMMA ScanCount ==
  ASSUME SnapshotInv, NEW p \in Pending, Balanced(p)
  PROVE  \A e : Count(Scan(p), e) = Net(p, e)
<1>1. p.rows \in Seq(Row) /\ p.updates \in Seq(Mutation) /\ p.deletes \in Seq(Row)
  BY DEF Pending
<1>. DEFINE s == Base
            u == Replacing(s, p.updates)[Len(p.updates)]
            d == Dropping(u, p.deletes)[Len(p.deletes)]
<1>2. s \in Seq(Row) /\ u \in Seq(Row) /\ d \in Seq(Row) /\ Scan(p) = d \o p.rows
  BY BaseFacts, ScanType DEF Scan
<1>3. \A e : Count(s, e) = Here(e)
  BY BaseCount
<1>. HIDE DEF s
<1>4. \A e : Numbers(p, e)
  BY NumbersFacts
<1>5. \A e : Count(BeforesOf(p.updates), e) <= Count(s, e)
  <2>. TAKE e
  <2>1. Numbers(p, e)
    BY <1>4
  <2>2. Taken(p, e) <= Here(e) /\ Taken(p, e) = Count(BeforesOf(p.updates), e) + Count(p.deletes, e)
        /\ Count(BeforesOf(p.updates), e) \in Nat /\ Count(p.deletes, e) \in Nat /\ Here(e) \in 0..1
    BY <2>1 DEF Numbers
  <2>. QED  BY <1>3, <2>2
<1>6. \A e : Count(u, e) = Count(s, e) - Count(BeforesOf(p.updates), e) + Count(AftersOf(p.updates), e)
  BY <1>1, <1>2, <1>5, ReplacingCount
<1>. HIDE DEF u
<1>7. \A e : Count(p.deletes, e) <= Count(u, e)
  <2>. TAKE e
  <2>1. Numbers(p, e)
    BY <1>4
  <2>2. /\ Taken(p, e) <= Here(e) /\ Taken(p, e) = Count(BeforesOf(p.updates), e) + Count(p.deletes, e)
        /\ Count(BeforesOf(p.updates), e) \in Nat /\ Count(p.deletes, e) \in Nat /\ Here(e) \in 0..1
        /\ Count(AftersOf(p.updates), e) \in Nat
    BY <2>1 DEF Numbers
  <2>3. Count(u, e) = Here(e) - Count(BeforesOf(p.updates), e) + Count(AftersOf(p.updates), e)
    BY <1>3, <1>6
  <2>. QED  BY <2>2, <2>3
<1>8. \A e : Count(d, e) = Count(u, e) - Count(p.deletes, e)
  BY <1>1, <1>2, <1>7, DroppingCount
<1>. HIDE DEF d
<1>. TAKE e
<1>9. Count(Scan(p), e) = Count(d, e) + Count(p.rows, e)
  BY <1>1, <1>2, CountConcat
<1>10. Count(u, e) = Here(e) - Count(BeforesOf(p.updates), e) + Count(AftersOf(p.updates), e)
  BY <1>3, <1>6
<1>11. Count(d, e) = Count(u, e) - Count(p.deletes, e)
  BY <1>8
<1>12. Numbers(p, e)
  BY <1>4
<1>. QED  BY <1>9, <1>10, <1>11, <1>12 DEF Numbers

\* A predicate keeps some of the rows.
LEMMA SelectingCount ==
  ASSUME NEW s \in Seq(Row), NEW K
  PROVE  \A e : Count(Selecting(s, K)[Len(s)], e) <= Count(s, e)
<1>. DEFINE n == Len(s)
            u == Selecting(s, K)
            Right(i, e) == Count(u[i], e) <= Upto(s, i, e)
            S == {i \in 0..n : \A e : Right(i, e)}
<1>1. /\ n \in Nat /\ u \in [0..n -> Seq(Row)] /\ u[0] = <<>>
      /\ \A i \in 1..n : s[i] \in Row /\ u[i] = KeepRow(u[i - 1], s[i], K)
  BY SelectingSteps
<1>. HIDE DEF u
<1>2. ASSUME NEW e
      PROVE  /\ Upto(s, 0, e) = 0 /\ Upto(s, n, e) = Count(s, e)
             /\ \A i \in 0..n : Upto(s, i, e) \in Nat
             /\ \A i \in 1..n : Upto(s, i, e) = Upto(s, i - 1, e) + Is(e, s[i])
  BY UptoFacts
<1>. HIDE DEF n
<1>3. 0 \in S
  <2>1. \A e : Right(0, e)
    BY <1>1, <1>2, CountEmpty
  <2>. QED  BY <1>1, <2>1
<1>4. ASSUME NEW i \in 1..n, i - 1 \in S PROVE i \in S
  <2>. DEFINE v == u[i - 1]
              r == s[i]
  <2>1. i - 1 \in 0..n /\ i \in 0..n
    BY <1>1
  <2>2. v \in Seq(Row) /\ r \in Row /\ u[i] = KeepRow(v, r, K)
    BY <1>1, <2>1
  <2>3. \A e : Count(v, e) <= Upto(s, i - 1, e)
    BY <1>4
  <2>4. \A e : Upto(s, i, e) = Upto(s, i - 1, e) + Is(e, r) /\ Upto(s, i - 1, e) \in Nat
    BY <1>2, <2>1
  <2>5. u[i] = Append(v, r) \/ u[i] = v
    BY <2>2 DEF KeepRow
  <2>. HIDE DEF v, Right, r
  <2>6. ASSUME NEW e PROVE Right(i, e)
    <3>1. Count(v, e) \in Nat /\ Count(Append(v, r), e) = Count(v, e) + Is(e, r)
      BY <2>2, CountType, CountAppend
    <3>2. Is(e, r) \in 0..1
      BY IsType
    <3>3. Count(v, e) <= Upto(s, i - 1, e) /\ Upto(s, i, e) = Upto(s, i - 1, e) + Is(e, r)
          /\ Upto(s, i - 1, e) \in Nat
      BY <2>3, <2>4
    <3>4. Count(v, e) <= Upto(s, i, e) /\ Count(Append(v, r), e) <= Upto(s, i, e)
      BY <3>1, <3>2, <3>3
    <3>. QED  BY <2>5, <3>4 DEF Right
  <2>. QED  BY <2>1, <2>6
<1>5. n \in S
  <2>. HIDE DEF S
  <2>1. \A i \in 0..n : i \in S
    BY <1>1, <1>3, <1>4, IntervalInduction
  <2>. QED  BY <1>1, <2>1
<1>6. \A e : Count(u[n], e) <= Count(s, e)
  BY <1>2, <1>5
<1>. QED  BY <1>6 DEF n, u

\* A sequence of rows the transaction sees, each no more often than it does.
Seen(sel, p) == sel \in Seq(Row) /\ \A e : Count(sel, e) <= Net(p, e)

LEMMA SelectedSeen ==
  ASSUME SnapshotInv, pend \in Pending, Balanced(pend), NEW K
  PROVE  Seen(Selected(K), pend)
<1>. DEFINE s == Scan(pend)
<1>1. s \in Seq(Row) /\ \A e : Count(s, e) = Net(pend, e)
  BY ScanType, ScanCount
<1>2. Selected(K) = Selecting(s, K)[Len(s)]
  BY DEF Selected
<1>. HIDE DEF s
<1>3. \A e : Count(Selected(K), e) <= Count(s, e)
  BY <1>1, <1>2, SelectingCount
<1>. QED  BY <1>1, <1>3, SelectedType DEF Seen

LEMMA CountSingle ==
  ASSUME NEW r \in Row
  PROVE  <<r>> \in Seq(Row) /\ \A e : Count(<<r>>, e) = Is(e, r)
<1>1. <<>> \in Seq(Row) /\ <<r>> = Append(<<>>, r)
  OBVIOUS
<1>2. \A e : Count(Append(<<>>, r), e) = Count(<<>>, e) + Is(e, r)
  BY <1>1, CountAppend
<1>3. \A e : Is(e, r) \in 0..1 /\ Count(<<>>, e) = 0
  BY IsType, CountEmpty
<1>. QED  BY <1>1, <1>2, <1>3

\* getRowByKey returns a row the transaction sees, under the key asked for.
LEMMA PointReadNet ==
  ASSUME SnapshotInv, NEW p \in Pending, Balanced(p), NEW k, NEW r \in Row,
         PointRead(p, k) = <<r>>
  PROVE  Net(p, r) >= 1 /\ StorageKey(r) = k
<1>. DEFINE w == p.rows
            d == p.deletes
            u == p.updates
            touched == Touching(u, k)
            inserted == {i \in DOMAIN w : StorageKey(w[i]) = k}
            newest == u[Max(touched)]
<1>1. w \in Seq(Row) /\ d \in Seq(Row) /\ u \in Seq(Mutation)
  BY DEF Pending
<1>2. /\ ~\E i \in DOMAIN d : StorageKey(d[i]) = k
      /\ \/ touched # {} /\ StorageKey(newest.after) = k /\ r = newest.after
         \/ touched = {} /\ inserted # {} /\ r = w[Min(inserted)]
         \/ touched = {} /\ inserted = {} /\ StoredUnder(k) = <<r>>
  <2>1. PointRead(p, k) =
          IF \E i \in DOMAIN d : StorageKey(d[i]) = k THEN <<>>
          ELSE IF touched # {}
            THEN IF StorageKey(newest.after) = k THEN <<newest.after>> ELSE <<>>
          ELSE IF inserted # {} THEN <<w[Min(inserted)]>>
          ELSE StoredUnder(k)
    BY DEF PointRead
  <2>2. \A x : <<x>> # <<>> /\ (<<x>> = <<r>> => x = r)
    OBVIOUS
  <2>. HIDE DEF touched, inserted, newest, d, w
  <2>. QED  BY <2>1, <2>2
<1>3. /\ BeforesOf(u) \in Seq(Row) /\ AftersOf(u) \in Seq(Row) /\ Len(u) \in Nat
      /\ Len(BeforesOf(u)) = Len(u) /\ Len(AftersOf(u)) = Len(u)
      /\ \A i \in 1..Len(u) : BeforesOf(u)[i] = u[i].before /\ AftersOf(u)[i] = u[i].after
  BY <1>1, ProjectionType
<1>4. Numbers(p, r)
  BY NumbersFacts
<1>5. /\ Here(r) \in 0..1 /\ Net(p, r) = Here(r) - Taken(p, r) + Made(p, r)
      /\ Count(BeforesOf(u), r) \in Nat /\ Count(d, r) \in Nat
      /\ Count(AftersOf(u), r) \in Nat /\ Count(w, r) \in Nat
      /\ Taken(p, r) = Count(BeforesOf(u), r) + Count(d, r)
      /\ Made(p, r) = Count(AftersOf(u), r) + Count(w, r)
      /\ Taken(p, r) <= Here(r)
  BY <1>4 DEF Numbers
<1>. HIDE DEF w, d, u
<1>6. CASE touched # {} /\ StorageKey(newest.after) = k /\ r = newest.after
  <2>. DEFINE j == Max(touched)
  <2>1. touched \in SUBSET Nat /\ \A x \in touched : x <= Len(u) /\ x \in 1..Len(u)
    BY <1>1 DEF Touching
  <2>2. j \in touched
    <3>. HIDE DEF touched
    <3>. QED  BY <1>3, <1>6, <2>1, MaxIsGreatest
  <2>3. j \in 1..Len(u)
    BY <2>1, <2>2
  <2>4. AftersOf(u)[j] = r
    BY <1>3, <1>6, <2>3
  <2>. HIDE DEF j, touched, newest
  <2>5. j \in PlacesOf(AftersOf(u), r)
    BY <1>3, <2>3, <2>4 DEF PlacesOf
  <2>6. Count(AftersOf(u), r) > 0
    BY <1>3, <2>5, CountType
  <2>7. Net(p, r) >= 1
    BY <1>5, <2>6
  <2>. QED  BY <1>6, <2>7
<1>7. CASE touched = {} /\ inserted # {} /\ r = w[Min(inserted)]
  <2>. DEFINE j == Min(inserted)
  <2>1. inserted \in SUBSET Nat
    BY <1>1
  <2>2. j \in inserted
    <3>. HIDE DEF inserted
    <3>. QED  BY <1>7, <2>1, MinIsLeast
  <2>3. j \in DOMAIN w /\ StorageKey(w[j]) = k /\ w[j] = r
    BY <1>7, <2>2
  <2>. HIDE DEF j, inserted
  <2>4. j \in PlacesOf(w, r)
    BY <2>3 DEF PlacesOf
  <2>5. Count(w, r) > 0
    BY <1>1, <2>4, CountType
  <2>6. Net(p, r) >= 1
    BY <1>5, <2>5
  <2>. QED  BY <2>3, <2>6
<1>8. CASE touched = {} /\ inserted = {} /\ StoredUnder(k) = <<r>>
  <2>1. r \in snapshot /\ StorageKey(r) = k
    <3>1. \E x \in snapshot : StorageKey(x) = k
      BY <1>8 DEF StoredUnder
    <3>2. r = CHOOSE x \in snapshot : StorageKey(x) = k
      BY <1>8, <3>1 DEF StoredUnder
    <3>. QED  BY <3>1, <3>2
  <2>2. Here(r) = 1
    BY <2>1 DEF Here
  <2>3. PlacesOf(d, r) = {}
    BY <1>2, <2>1 DEF PlacesOf
  <2>4. PlacesOf(BeforesOf(u), r) = {}
    <3>. SUFFICES ASSUME NEW i \in PlacesOf(BeforesOf(u), r) PROVE FALSE
      OBVIOUS
    <3>1. i \in 1..Len(u) /\ u[i].before = r /\ i \in DOMAIN u
      BY <1>1, <1>3 DEF PlacesOf
    <3>2. i \in touched
      BY <2>1, <3>1 DEF Touching
    <3>. HIDE DEF touched
    <3>. QED  BY <1>8, <3>2
  <2>5. Count(d, r) = 0 /\ Count(BeforesOf(u), r) = 0
    BY <2>3, <2>4, FS_EmptySet DEF Count
  <2>6. Net(p, r) >= 1
    BY <1>5, <2>2, <2>5
  <2>. QED  BY <2>1, <2>6
<1>. QED  BY <1>2, <1>6, <1>7, <1>8

LEMMA PointReadSeen ==
  ASSUME SnapshotInv, NEW p \in Pending, Balanced(p), NEW k
  PROVE  Seen(PointRead(p, k), p)
<1>1. \A e : Net(p, e) \in Nat
  BY NetType
<1>2. CASE PointRead(p, k) = <<>>
  <2>1. <<>> \in Seq(Row) /\ \A e : Count(<<>>, e) = 0
    BY CountEmpty
  <2>. QED  BY <1>1, <1>2, <2>1 DEF Seen
<1>3. CASE \E r \in Row : PointRead(p, k) = <<r>>
  <2>1. PICK r \in Row : PointRead(p, k) = <<r>>
    BY <1>3
  <2>2. Net(p, r) >= 1
    BY <2>1, PointReadNet
  <2>3. <<r>> \in Seq(Row) /\ \A e : Count(<<r>>, e) = Is(e, r)
    BY CountSingle
  <2>4. ASSUME NEW e PROVE Is(e, r) <= Net(p, e)
    <3>1. Net(p, e) \in Nat
      BY <1>1
    <3>2. CASE e = r
      BY <2>2, <3>1, <3>2 DEF Is
    <3>3. CASE e # r
      BY <3>1, <3>3 DEF Is
    <3>. QED  BY <3>2, <3>3
  <2>. QED  BY <2>1, <2>3, <2>4 DEF Seen
<1>. QED  BY <1>2, <1>3, PointReadType DEF SnapshotInv

-----------------------------------------------------------------------------
(***************************************************************************)
(* The row ids of the pending inserts.                                     *)
(***************************************************************************)

\* They ascend from the catalog's counter; what was deleted leaves gaps.
Gap(p) ==
  /\ p.nextRowId >= nextRowId + Len(p.rows)
  /\ \A i \in 1..Len(p.rows) :
       /\ p.rows[i].id >= nextRowId + i - 1
       /\ p.rows[i].id < p.nextRowId - Len(p.rows) + i

LEMMA RowsType ==
  ASSUME NEW p \in Pending
  PROVE  /\ p.rows \in Seq(Row) /\ Len(p.rows) \in Nat /\ p.nextRowId \in Nat
         /\ DOMAIN p.rows = 1..Len(p.rows)
         /\ \A i \in 1..Len(p.rows) : p.rows[i] \in Row /\ p.rows[i].id \in Nat
<1>1. p.rows \in Seq(Row) /\ p.nextRowId \in Nat
  BY DEF Pending
<1>2. Len(p.rows) \in Nat /\ DOMAIN p.rows = 1..Len(p.rows)
      /\ \A i \in 1..Len(p.rows) : p.rows[i] \in Row
  BY <1>1
<1>. QED  BY <1>1, <1>2 DEF Row

LEMMA MergeUpdateGap ==
  ASSUME NEW p \in Pending, NEW m \in Mutation, nextRowId \in Nat, Gap(p)
  PROVE  Gap(MergeUpdate(p, m))
<1>. DEFINE q == MergeUpdate(p, m)
            s == p.rows
<1>1. q.nextRowId = p.nextRowId
  BY MergeUpdateType
<1>2. m.after.id = m.before.id /\ m.after \in Row
  BY DEF Mutation
<1>3. s \in Seq(Row) /\ Len(s) \in Nat
  BY RowsType
<1>4. q.rows = s \/ \E j \in 1..Len(s) : s[j] = m.before /\ q.rows = [s EXCEPT ![j] = m.after]
  <2>1. \A x : [p EXCEPT !.rows = x].rows = x /\ [p EXCEPT !.updates = x].rows = s
    BY DEF Pending
  <2>2. \/ \E j \in 1..Len(s) : s[j] = m.before /\ q = [p EXCEPT !.rows = [s EXCEPT ![j] = m.after]]
        \/ \E x : q = [p EXCEPT !.updates = x]
    BY MergeUpdateCases
  <2>. HIDE DEF q, s
  <2>. QED  BY <2>1, <2>2
<1>. SUFFICES Gap(q)
  OBVIOUS
<1>. HIDE DEF q
<1>5. CASE q.rows = s
  BY <1>1, <1>5 DEF Gap
<1>6. CASE \E j \in 1..Len(s) : s[j] = m.before /\ q.rows = [s EXCEPT ![j] = m.after]
  <2>1. PICK j \in 1..Len(s) : s[j] = m.before /\ q.rows = [s EXCEPT ![j] = m.after]
    BY <1>6
  <2>2. Len(q.rows) = Len(s) /\ \A i \in 1..Len(s) : q.rows[i] = IF i = j THEN m.after ELSE s[i]
    BY <1>2, <1>3, <2>1, ReplaceAtFacts
  <2>3. \A i \in 1..Len(s) : q.rows[i].id = s[i].id
    BY <1>2, <2>1, <2>2
  <2>. QED  BY <1>1, <2>2, <2>3 DEF Gap
<1>. QED  BY <1>4, <1>5, <1>6

LEMMA MergeDeleteGap ==
  ASSUME NEW p \in Pending, NEW r \in Row, nextRowId \in Nat, Gap(p)
  PROVE  Gap(MergeDelete(p, r))
<1>. DEFINE q == MergeDelete(p, r)
            s == p.rows
            n == Len(s)
            N == p.nextRowId
<1>1. q.nextRowId = N
  BY MergeDeleteType
<1>2. s \in Seq(Row) /\ n \in Nat /\ N \in Nat /\ \A i \in 1..n : s[i].id \in Nat
  BY RowsType
<1>3. q.rows = s \/ \E j \in 1..n : q.rows = RemoveAt(s, j)
  <2>1. \A x, y : /\ [p EXCEPT !.rows = x].rows = x /\ [p EXCEPT !.deletes = x].rows = s
                  /\ [p EXCEPT !.deletes = x, !.updates = y].rows = s
    BY DEF Pending
  <2>2. \/ \E j \in 1..n : q = [p EXCEPT !.rows = RemoveAt(s, j)]
        \/ \E x, y : q = [p EXCEPT !.deletes = x, !.updates = y]
        \/ \E x : q = [p EXCEPT !.deletes = x]
    BY MergeDeleteCases
  <2>. HIDE DEF q, s, n
  <2>3. CASE \E j \in 1..n : q = [p EXCEPT !.rows = RemoveAt(s, j)]
    BY <2>1, <2>3
  <2>4. CASE \E x, y : q = [p EXCEPT !.deletes = x, !.updates = y]
    <3>1. PICK x, y : q = [p EXCEPT !.deletes = x, !.updates = y]
      BY <2>4
    <3>. QED  BY <2>1, <3>1
  <2>5. CASE \E x : q = [p EXCEPT !.deletes = x]
    BY <2>1, <2>5
  <2>. QED  BY <2>2, <2>3, <2>4, <2>5
<1>. SUFFICES Gap(q)
  OBVIOUS
<1>. HIDE DEF q
<1>4. CASE q.rows = s
  BY <1>1, <1>4 DEF Gap
<1>5. CASE \E j \in 1..n : q.rows = RemoveAt(s, j)
  <2>. DEFINE w == q.rows
  <2>1. PICK j \in 1..n : w = RemoveAt(s, j)
    BY <1>5
  <2>2. Len(w) = n - 1 /\ \A i \in 1..(n - 1) : w[i] = IF i < j THEN s[i] ELSE s[i + 1]
    BY <1>2, <2>1, RemoveAtFacts
  <2>3. N >= nextRowId + n /\ \A i \in 1..n : s[i].id >= nextRowId + i - 1 /\ s[i].id < N - n + i
    BY DEF Gap
  <2>. HIDE DEF w, N, n, s
  <2>4. N >= nextRowId + (n - 1)
    BY <1>2, <2>3
  <2>5. ASSUME NEW i \in 1..(n - 1)
        PROVE  w[i].id >= nextRowId + i - 1 /\ w[i].id < N - (n - 1) + i
    <3>1. i \in 1..n /\ i + 1 \in 1..n
      BY <1>2
    <3>2. /\ s[i].id >= nextRowId + i - 1 /\ s[i].id < N - n + i
          /\ s[i + 1].id >= nextRowId + (i + 1) - 1 /\ s[i + 1].id < N - n + (i + 1)
          /\ s[i].id \in Nat /\ s[i + 1].id \in Nat
      BY <1>2, <2>3, <3>1
    <3>3. CASE i < j
      <4>1. w[i] = s[i]
        BY <2>2, <3>3
      <4>. HIDE DEF w
      <4>2. s[i].id < N - (n - 1) + i
        BY <1>2, <3>1, <3>2
      <4>. QED  BY <3>2, <4>1, <4>2
    <3>4. CASE ~(i < j)
      <4>1. w[i] = s[i + 1]
        BY <2>2, <3>4
      <4>. QED  BY <1>2, <3>2, <4>1
    <3>. QED  BY <3>3, <3>4
  <2>. QED  BY <1>1, <2>2, <2>4, <2>5 DEF Gap, w, N, n, s
<1>. QED  BY <1>3, <1>4, <1>5

LEMMA InsertRowGap ==
  ASSUME NEW p \in Pending, NEW k \in Keys, NEW v \in Vals, nextRowId \in Nat, Gap(p)
  PROVE  Gap(InsertRow(p, k, v))
<1>. DEFINE q == InsertRow(p, k, v)
            s == p.rows
            n == Len(s)
            N == p.nextRowId
            x == [id |-> N, key |-> k, val |-> v]
            w == q.rows
<1>1. s \in Seq(Row) /\ n \in Nat /\ N \in Nat /\ x \in Row /\ \A i \in 1..n : s[i].id \in Nat
  BY RowsType DEF Row
<1>2. q.nextRowId = N + 1 /\ w = Append(s, x) /\ x.id = N
  <2>1. p \in [initialized : BOOLEAN, nextRowId : Nat, rows : Seq(Row),
               updates : Seq(Mutation), deletes : Seq(Row)]
    BY DEF Pending
  <2>. QED  BY <2>1 DEF InsertRow
<1>3. N >= nextRowId + n /\ \A i \in 1..n : s[i].id >= nextRowId + i - 1 /\ s[i].id < N - n + i
  BY DEF Gap
<1>4. Len(w) = n + 1 /\ \A i \in 1..(n + 1) : w[i] = IF i <= n THEN s[i] ELSE x
  BY <1>1, <1>2, AppendFacts
<1>. HIDE DEF w, N, n, s, x, q
<1>5. N + 1 >= nextRowId + (n + 1)
  BY <1>1, <1>3
<1>6. ASSUME NEW i \in 1..(n + 1)
      PROVE  w[i].id >= nextRowId + i - 1 /\ w[i].id < (N + 1) - (n + 1) + i
  <2>1. CASE i <= n
    <3>1. i \in 1..n /\ w[i] = s[i]
      BY <1>1, <1>4, <2>1
    <3>2. s[i].id >= nextRowId + i - 1 /\ s[i].id < N - n + i /\ s[i].id \in Nat
      BY <1>1, <1>3, <3>1
    <3>. QED  BY <1>1, <3>1, <3>2
  <2>2. CASE ~(i <= n)
    <3>1. i = n + 1 /\ w[i] = x
      BY <1>1, <1>4, <2>2
    <3>. QED  BY <1>1, <1>2, <1>3, <3>1
  <2>. QED  BY <2>1, <2>2
<1>. QED  BY <1>2, <1>4, <1>5, <1>6 DEF Gap, w, q

\* The loops keep the order of the ids, and that the table is loaded.
LEMMA UpdatingGap ==
  ASSUME NEW p \in Pending, NEW ms \in Seq(Mutation), nextRowId \in Nat
  PROVE  LET q == Updating(p, ms)[Len(ms)] IN
         /\ q \in Pending /\ q.initialized = p.initialized
         /\ Gap(p) => Gap(q)
<1>. DEFINE n == Len(ms)
            u == Updating(p, ms)
            S == {i \in 0..n : u[i].initialized = p.initialized /\ (Gap(p) => Gap(u[i]))}
<1>1. /\ n \in Nat /\ u \in [0..n -> Pending] /\ u[0] = p
      /\ \A i \in 1..n : ms[i] \in Mutation /\ u[i] = MergeUpdate(u[i - 1], ms[i])
  BY UpdatingSteps
<1>. HIDE DEF n, u
<1>2. 0 \in S
  BY <1>1
<1>3. ASSUME NEW i \in 1..n, i - 1 \in S PROVE i \in S
  <2>1. i - 1 \in 0..n /\ i \in 0..n
    BY <1>1
  <2>2. u[i - 1] \in Pending /\ ms[i] \in Mutation /\ u[i] = MergeUpdate(u[i - 1], ms[i])
    BY <1>1, <2>1
  <2>3. u[i].initialized = u[i - 1].initialized
    BY <2>2, MergeUpdateType
  <2>4. Gap(u[i - 1]) => Gap(u[i])
    BY <2>2, MergeUpdateGap
  <2>. QED  BY <1>3, <2>1, <2>3, <2>4
<1>4. n \in S
  <2>. HIDE DEF S
  <2>1. \A i \in 0..n : i \in S
    BY <1>1, <1>2, <1>3, IntervalInduction
  <2>. QED  BY <1>1, <2>1
<1>5. u[n] \in Pending
  BY <1>1
<1>. QED  BY <1>4, <1>5 DEF n, u

LEMMA DeletingGap ==
  ASSUME NEW p \in Pending, NEW sel \in Seq(Row), nextRowId \in Nat
  PROVE  LET q == Deleting(p, sel)[Len(sel)] IN
         /\ q \in Pending /\ q.initialized = p.initialized
         /\ Gap(p) => Gap(q)
<1>. DEFINE n == Len(sel)
            u == Deleting(p, sel)
            S == {i \in 0..n : u[i].initialized = p.initialized /\ (Gap(p) => Gap(u[i]))}
<1>1. /\ n \in Nat /\ u \in [0..n -> Pending] /\ u[0] = p
      /\ \A i \in 1..n : sel[i] \in Row /\ u[i] = MergeDelete(u[i - 1], sel[i])
  BY DeletingSteps
<1>. HIDE DEF n, u
<1>2. 0 \in S
  BY <1>1
<1>3. ASSUME NEW i \in 1..n, i - 1 \in S PROVE i \in S
  <2>1. i - 1 \in 0..n /\ i \in 0..n
    BY <1>1
  <2>2. u[i - 1] \in Pending /\ sel[i] \in Row /\ u[i] = MergeDelete(u[i - 1], sel[i])
    BY <1>1, <2>1
  <2>3. u[i].initialized = u[i - 1].initialized
    BY <2>2, MergeDeleteType
  <2>4. Gap(u[i - 1]) => Gap(u[i])
    BY <2>2, MergeDeleteGap
  <2>. QED  BY <1>3, <2>1, <2>3, <2>4
<1>4. n \in S
  <2>. HIDE DEF S
  <2>1. \A i \in 0..n : i \in S
    BY <1>1, <1>2, <1>3, IntervalInduction
  <2>. QED  BY <1>1, <2>1
<1>5. u[n] \in Pending
  BY <1>1
<1>. QED  BY <1>4, <1>5 DEF n, u

-----------------------------------------------------------------------------
(***************************************************************************)
(* The statements: pending table and image stay in step.                   *)
(***************************************************************************)
Matches(p, b) ==
  /\ Balanced(p)
  /\ IsABag(b)
  /\ \A e : Copies(e, b) = Net(p, e)

\* What the transaction sees are rows.
LEMMA NetRow ==
  ASSUME SnapshotInv, NEW p \in Pending, NEW e, Net(p, e) > 0
  PROVE  e \in Row
<1>. DEFINE w == p.rows
            a == AftersOf(p.updates)
<1>1. w \in Seq(Row) /\ p.updates \in Seq(Mutation)
  BY DEF Pending
<1>2. a \in Seq(Row)
  BY <1>1, ProjectionType
<1>3. Numbers(p, e)
  BY NumbersFacts
<1>4. /\ Here(e) \in 0..1 /\ Net(p, e) = Here(e) - Taken(p, e) + Made(p, e)
      /\ Taken(p, e) \in Nat /\ Made(p, e) = Count(a, e) + Count(w, e)
      /\ Count(a, e) \in Nat /\ Count(w, e) \in Nat
  BY <1>3 DEF Numbers
<1>. HIDE DEF w, a
<1>5. Here(e) = 1 \/ Count(a, e) > 0 \/ Count(w, e) > 0
  BY <1>4
<1>6. ASSUME NEW q \in Seq(Row), Count(q, e) > 0 PROVE e \in Row
  <2>1. PlacesOf(q, e) # {}
    BY <1>6, CountType
  <2>2. PICK i \in DOMAIN q : q[i] = e
    BY <2>1 DEF PlacesOf
  <2>. QED  BY <2>2
<1>7. Here(e) = 1 => e \in Row
  BY DEF Here, SnapshotInv
<1>. QED  BY <1>1, <1>2, <1>5, <1>6, <1>7

LEMMA MatchesRows ==
  ASSUME SnapshotInv, NEW p \in Pending, NEW b, Matches(p, b)
  PROVE  IsABag(b) /\ BagToSet(b) \subseteq Row
<1>1. ASSUME NEW e \in DOMAIN b PROVE e \in Row
  <2>1. Copies(e, b) > 0
    BY CopiesFacts DEF Matches
  <2>2. Net(p, e) > 0
    BY <2>1 DEF Matches
  <2>. QED  BY <2>2, NetRow
<1>. QED  BY <1>1 DEF Matches, BagToSet

LEMMA LoadedFacts ==
  ASSUME NEW p \in Pending, nextRowId \in Nat
  PROVE  /\ Loaded(p) \in Pending /\ Loaded(p).initialized
         /\ Loaded(p).rows = p.rows /\ Loaded(p).updates = p.updates
         /\ Loaded(p).deletes = p.deletes
         /\ \A e : Net(Loaded(p), e) = Net(p, e)
         /\ Balanced(Loaded(p)) <=> Balanced(p)
         /\ p = NoPending \/ (p.initialized /\ Gap(p)) => Gap(Loaded(p))
<1>1. /\ Loaded(p) \in Pending /\ Loaded(p).initialized
      /\ Loaded(p).rows = p.rows /\ Loaded(p).updates = p.updates
      /\ Loaded(p).deletes = p.deletes
  BY DEF Loaded, Pending
<1>2. ASSUME NEW e
      PROVE  Net(Loaded(p), e) = Net(p, e) /\ Taken(Loaded(p), e) = Taken(p, e)
  BY <1>1 DEF Net, Taken, Made
<1>3. Balanced(Loaded(p)) <=> Balanced(p)
  BY <1>2 DEF Balanced
<1>4. ASSUME p = NoPending PROVE Gap(Loaded(p))
  <2>1. Loaded(p).rows = <<>> /\ Loaded(p).nextRowId = nextRowId
    BY <1>4 DEF NoPending, Loaded
  <2>2. Len(<<>>) = 0
    OBVIOUS
  <2>. QED  BY <2>1, <2>2 DEF Gap
<1>5. ASSUME p.initialized, Gap(p) PROVE Gap(Loaded(p))
  BY <1>5 DEF Loaded
<1>. QED  BY <1>1, <1>2, <1>3, <1>4, <1>5

\* The mutations of an UPDATE: the rows it read and what it makes of them.
LEMMA NextKeyType ==
  ASSUME NEW r \in Row
  PROVE  NextKey(r) \in Row /\ NextKey(r).id = r.id
<1>1. r.key \in 1..KeyCount /\ KeyCount \in Nat \ {0}
  BY ImageAssumption DEF Row, Keys
<1>2. r.key % KeyCount \in 0..(KeyCount - 1)
  BY <1>1
<1>3. (r.key % KeyCount) + 1 \in Keys
  BY <1>1, <1>2 DEF Keys
<1>. QED  BY <1>3 DEF NextKey, Row

LEMMA SetValType ==
  ASSUME NEW r \in Row, NEW v \in Vals
  PROVE  SetVal(r, v) \in Row /\ SetVal(r, v).id = r.id /\ SetVal(r, v).key = r.key
BY DEF SetVal, Row

LEMMA NextKeysFacts ==
  ASSUME NEW sel \in Seq(Row)
  PROVE  NextKeys(sel) \in Seq(Mutation) /\ BeforesOf(NextKeys(sel)) = sel
<1>. DEFINE ms == NextKeys(sel)
<1>1. /\ DOMAIN ms = 1..Len(sel) /\ Len(sel) \in Nat
      /\ \A i \in 1..Len(sel) : ms[i] = [before |-> sel[i], after |-> NextKey(sel[i])]
  BY DEF NextKeys
<1>2. ASSUME NEW i \in 1..Len(sel) PROVE ms[i] \in Mutation /\ ms[i].before = sel[i]
  <2>1. sel[i] \in Row
    OBVIOUS
  <2>2. NextKey(sel[i]) \in Row /\ NextKey(sel[i]).id = sel[i].id
    BY <2>1, NextKeyType
  <2>. QED  BY <1>1, <2>1, <2>2 DEF Mutation
<1>3. ms = [i \in 1..Len(sel) |-> ms[i]]
  BY DEF NextKeys
<1>. HIDE DEF ms
<1>4. ms \in Seq(Mutation)
  BY <1>1, <1>2, <1>3
<1>5. BeforesOf(ms) = sel
  <2>1. BeforesOf(ms) = [i \in 1..Len(sel) |-> sel[i]]
    BY <1>1, <1>2 DEF BeforesOf
  <2>. QED  BY <2>1
<1>. QED  BY <1>4, <1>5 DEF ms

LEMMA SetValsFacts ==
  ASSUME NEW sel \in Seq(Row), NEW v \in Vals
  PROVE  SetVals(sel, v) \in Seq(Mutation) /\ BeforesOf(SetVals(sel, v)) = sel
<1>. DEFINE ms == SetVals(sel, v)
<1>1. /\ DOMAIN ms = 1..Len(sel) /\ Len(sel) \in Nat
      /\ \A i \in 1..Len(sel) : ms[i] = [before |-> sel[i], after |-> SetVal(sel[i], v)]
  BY DEF SetVals
<1>2. ASSUME NEW i \in 1..Len(sel) PROVE ms[i] \in Mutation /\ ms[i].before = sel[i]
  <2>1. sel[i] \in Row
    OBVIOUS
  <2>2. SetVal(sel[i], v) \in Row /\ SetVal(sel[i], v).id = sel[i].id
    BY <2>1, SetValType
  <2>. QED  BY <1>1, <2>1, <2>2 DEF Mutation
<1>3. ms = [i \in 1..Len(sel) |-> ms[i]]
  BY DEF SetVals
<1>. HIDE DEF ms
<1>4. ms \in Seq(Mutation)
  BY <1>1, <1>2, <1>3
<1>5. BeforesOf(ms) = sel
  <2>1. BeforesOf(ms) = [i \in 1..Len(sel) |-> sel[i]]
    BY <1>1, <1>2 DEF BeforesOf
  <2>. QED  BY <2>1
<1>. QED  BY <1>4, <1>5 DEF ms

LEMMA UpdateMatches ==
  ASSUME NEW p \in Pending, NEW b, Matches(p, b), NEW ms \in Seq(Mutation),
         Seen(BeforesOf(ms), p)
  PROVE  Matches(Updating(p, ms)[Len(ms)], (b (-) BagOf(BeforesOf(ms))) (+) BagOf(AftersOf(ms)))
<1>. DEFINE B == BeforesOf(ms)
            A == AftersOf(ms)
            q == Updating(p, ms)[Len(ms)]
            c == b (-) BagOf(B)
            d == c (+) BagOf(A)
<1>1. B \in Seq(Row) /\ A \in Seq(Row) /\ \A e : Count(B, e) <= Net(p, e)
  BY ProjectionType DEF Seen
<1>2. Balanced(p) /\ IsABag(b) /\ \A e : Copies(e, b) = Net(p, e)
  BY DEF Matches
<1>3. Balanced(q) /\ \A e : Net(q, e) = Net(p, e) - Count(B, e) + Count(A, e)
  BY <1>1, <1>2, UpdatingNet
<1>. HIDE DEF B, A, q
<1>4. IsABag(BagOf(B)) /\ IsABag(BagOf(A))
      /\ \A e : Copies(e, BagOf(B)) = Count(B, e) /\ Copies(e, BagOf(A)) = Count(A, e)
  BY <1>1, BagOfFacts
<1>5. IsABag(c) /\ \A e : Copies(e, c) = IF Copies(e, b) > Copies(e, BagOf(B))
                                          THEN Copies(e, b) - Copies(e, BagOf(B)) ELSE 0
  BY <1>2, <1>4, BagDifference
<1>. HIDE DEF c
<1>6. IsABag(d) /\ \A e : Copies(e, d) = Copies(e, c) + Copies(e, BagOf(A))
  BY <1>4, <1>5, BagSum
<1>. HIDE DEF d
<1>7. ASSUME NEW e PROVE Copies(e, d) = Net(q, e)
  <2>1. Net(p, e) \in Nat /\ Count(B, e) \in Nat /\ Count(A, e) \in Nat /\ Count(B, e) <= Net(p, e)
    BY <1>1, <1>2, NetType, CountType
  <2>2. Copies(e, c) = IF Net(p, e) > Count(B, e) THEN Net(p, e) - Count(B, e) ELSE 0
    BY <1>2, <1>4, <1>5
  <2>3. Copies(e, d) = Copies(e, c) + Count(A, e)
    BY <1>4, <1>6
  <2>4. Net(q, e) = Net(p, e) - Count(B, e) + Count(A, e)
    BY <1>3
  <2>. QED  BY <2>1, <2>2, <2>3, <2>4
<1>8. Matches(q, d)
  BY <1>3, <1>6, <1>7 DEF Matches
<1>. QED  BY <1>8 DEF q, d, c, A, B

LEMMA DeleteMatches ==
  ASSUME NEW p \in Pending, NEW b, Matches(p, b), NEW sel, Seen(sel, p)
  PROVE  /\ DeleteErrors(p, sel) = {}
         /\ Matches(Deleting(p, sel)[Len(sel)], b (-) BagOf(sel))
<1>. DEFINE q == Deleting(p, sel)[Len(sel)]
            c == b (-) BagOf(sel)
<1>1. sel \in Seq(Row) /\ \A e : Count(sel, e) <= Net(p, e)
  BY DEF Seen
<1>2. Balanced(p) /\ IsABag(b) /\ \A e : Copies(e, b) = Net(p, e)
  BY DEF Matches
<1>3. /\ Balanced(q) /\ \A e : Net(q, e) = Net(p, e) - Count(sel, e)
      /\ DeleteErrors(p, sel) = {}
  BY <1>1, <1>2, DeletingNet
<1>. HIDE DEF q
<1>4. IsABag(BagOf(sel)) /\ \A e : Copies(e, BagOf(sel)) = Count(sel, e)
  BY <1>1, BagOfFacts
<1>5. IsABag(c) /\ \A e : Copies(e, c) = IF Copies(e, b) > Copies(e, BagOf(sel))
                                          THEN Copies(e, b) - Copies(e, BagOf(sel)) ELSE 0
  BY <1>2, <1>4, BagDifference
<1>. HIDE DEF c
<1>6. ASSUME NEW e PROVE Copies(e, c) = Net(q, e)
  <2>1. Net(p, e) \in Nat /\ Count(sel, e) \in Nat /\ Count(sel, e) <= Net(p, e)
    BY <1>1, <1>2, NetType, CountType
  <2>2. Copies(e, c) = IF Net(p, e) > Count(sel, e) THEN Net(p, e) - Count(sel, e) ELSE 0
    BY <1>2, <1>4, <1>5
  <2>3. Net(q, e) = Net(p, e) - Count(sel, e)
    BY <1>3
  <2>. QED  BY <2>1, <2>2, <2>3
<1>7. Matches(q, c)
  BY <1>3, <1>5, <1>6 DEF Matches
<1>. QED  BY <1>3, <1>7 DEF q, c

LEMMA InsertMatches ==
  ASSUME NEW p \in Pending, NEW b, Matches(p, b), NEW k \in Keys, NEW v \in Vals
  PROVE  LET q == InsertRow(p, k, v) IN
         /\ q \in Pending /\ q.initialized = p.initialized
         /\ Matches(q, b (+) BagOf(<<Last(q.rows)>>))
<1>. DEFINE q == InsertRow(p, k, v)
            x == [id |-> p.nextRowId, key |-> k, val |-> v]
            c == b (+) BagOf(<<x>>)
<1>1. p.rows \in Seq(Row) /\ p.nextRowId \in Nat
  BY DEF Pending
<1>2. x \in Row
  BY <1>1 DEF Row
<1>3. Append(p.rows, x) \in Seq(Row) /\ Last(Append(p.rows, x)) = x
  BY <1>1, <1>2, AppendFacts DEF Last
<1>4. /\ q \in Pending /\ q.initialized = p.initialized /\ q.rows = Append(p.rows, x)
      /\ q.updates = p.updates /\ q.deletes = p.deletes
  <2>. HIDE DEF x
  <2>1. q = [p EXCEPT !.rows = Append(p.rows, x), !.nextRowId = p.nextRowId + 1]
    BY DEF InsertRow, x
  <2>2. p.nextRowId + 1 \in Nat
    BY <1>1
  <2>. HIDE DEF q
  <2>. QED  BY <1>3, <2>1, <2>2 DEF Pending
<1>. HIDE DEF x
<1>5. \A e : Count(q.rows, e) = Count(p.rows, e) + Is(e, x)
  BY <1>1, <1>2, <1>4, CountAppend
<1>6. Balanced(p) /\ IsABag(b) /\ \A e : Copies(e, b) = Net(p, e)
  BY DEF Matches
<1>. HIDE DEF q
<1>7. ASSUME NEW e
      PROVE  Taken(q, e) = Taken(p, e) /\ Net(q, e) = Net(p, e) + Is(e, x)
  <2>1. Taken(q, e) = Taken(p, e) /\ AftersOf(q.updates) = AftersOf(p.updates)
    BY <1>4 DEF Taken
  <2>2. Numbers(p, e) /\ Numbers(q, e) /\ Is(e, x) \in 0..1
    BY <1>4, NumbersFacts, IsType
  <2>3. Made(q, e) = Made(p, e) - 0 + Is(e, x)
    BY <1>5, <2>1, <2>2 DEF Numbers
  <2>4. Net(q, e) = Net(p, e) - 0 + Is(e, x)
    BY <1>4, <2>1, <2>2, <2>3, NetStep
  <2>5. Net(p, e) \in Int
    BY NetType
  <2>. QED  BY <2>1, <2>2, <2>4, <2>5
<1>8. Balanced(q)
  BY <1>6, <1>7 DEF Balanced
<1>9. <<x>> \in Seq(Row) /\ \A e : Count(<<x>>, e) = Is(e, x)
  BY <1>2, CountSingle
<1>10. IsABag(BagOf(<<x>>)) /\ \A e : Copies(e, BagOf(<<x>>)) = Is(e, x)
  BY <1>9, BagOfFacts
<1>11. IsABag(c) /\ \A e : Copies(e, c) = Copies(e, b) + Copies(e, BagOf(<<x>>))
  BY <1>6, <1>10, BagSum
<1>. HIDE DEF c
<1>12. \A e : Copies(e, c) = Net(q, e)
  BY <1>6, <1>7, <1>10, <1>11
<1>13. Matches(q, c)
  BY <1>8, <1>11, <1>12 DEF Matches
<1>14. Last(q.rows) = x
  BY <1>3, <1>4
<1>15. Matches(q, b (+) BagOf(<<Last(q.rows)>>))
  BY <1>13, <1>14 DEF c
<1>. QED  BY <1>4, <1>15 DEF q

-----------------------------------------------------------------------------
(***************************************************************************)
(* The inductive invariant.                                                *)
(***************************************************************************)

\* The stored rows and those of a batch have keys of their own.
TableInv ==
  /\ IsFiniteSet(table) /\ KeysDiffer(table)
  /\ IsFiniteSet(batch.puts) /\ KeysDiffer(batch.puts)

RecordsInv == ~raced => Records

\* What the checks of a commit have found still holds when it is written.
PreparedInv ==
  phase = "prepared" /\ ~raced =>
    /\ batch.removed \subseteq table
    /\ ValsDiffer(batch.puts)
    /\ \A r \in batch.puts : ~Occupied(r, batch.removed)
    /\ batch.nextRowId # 0 => batch.nextRowId >= nextRowId
    /\ keyless => \A r \in batch.puts :
                    r.id < IF batch.nextRowId # 0 THEN batch.nextRowId ELSE nextRowId

\* Between two statements the pending table stands for the image, and the ids
\* it has given ascend from the counter as long as nobody else moves it.
StatementInv ==
  phase = "active" =>
    /\ Matches(pend, image)
    /\ autos = 0 => pend = NoPending \/ (pend.initialized /\ Gap(pend))

RestInv == phase = "idle" => pend = NoPending

IInv ==
  /\ TypeOK
  /\ TableInv
  /\ SnapshotInv
  /\ RecordsInv
  /\ RowIdsFresh
  /\ PreparedInv
  /\ StatementInv
  /\ RestInv

\* A step that leaves the stored table and the batch alone.
LEMMA StoredAlone ==
  ASSUME IInv, dbVars' = dbVars, raced' = raced
  PROVE  /\ (IsFiniteSet(table) /\ KeysDiffer(table))' /\ RecordsInv' /\ RowIdsFresh'
         /\ batch' = batch => TableInv'
<1>1. /\ keyless' = keyless /\ table' = table /\ uniques' = uniques
      /\ nextRowId' = nextRowId
  BY DEF dbVars
<1>2. IsFiniteSet(table') /\ KeysDiffer(table)'
  BY <1>1 DEF IInv, TableInv, KeysDiffer, StorageKey
<1>3. RecordsInv'
  BY <1>1 DEF IInv, RecordsInv, Records, UniqueRecords, StorageKey
<1>4. RowIdsFresh'
  BY <1>1 DEF IInv, RowIdsFresh
<1>5. batch' = batch => IsFiniteSet(batch'.puts) /\ KeysDiffer(batch.puts)'
  BY <1>1 DEF IInv, TableInv, KeysDiffer, StorageKey
<1>. QED  BY <1>2, <1>3, <1>4, <1>5 DEF TableInv

LEMMA SnapshotAlone ==
  ASSUME SnapshotInv, snapshot' = snapshot, keyless' = keyless
  PROVE  SnapshotInv'
BY DEF SnapshotInv, KeysDiffer, StorageKey

LEMMA MatchesAlone ==
  ASSUME NEW q, NEW b, Matches(q, b), pend' = q, image' = b, snapshot' = snapshot
  PROVE  Matches(pend, image)'
BY DEF Matches, Balanced, Net, Taken, Made, Here

LEMMA GapAlone ==
  ASSUME NEW q, Gap(q), pend' = q, nextRowId' = nextRowId
  PROVE  Gap(pend)'
BY DEF Gap

\* A statement: only the pending table and the image change.
LEMMA StatementStep ==
  ASSUME IInv, Statement, NEW q \in Pending, NEW b, pend' = q, image' = b,
         q.initialized, Matches(q, b), autos = 0 => Gap(q)
  PROVE  IInv'
<1>1. /\ phase = "active" /\ phase' = phase /\ dbVars' = dbVars /\ snapshot' = snapshot
      /\ batch' = batch /\ autos' = autos /\ raced' = raced
      /\ statements' = statements + 1
  BY DEF Statement
<1>2. /\ keyless' = keyless /\ table' = table /\ uniques' = uniques
      /\ nextRowId' = nextRowId
  BY <1>1 DEF dbVars
<1>3. IsABag(b) /\ BagToSet(b) \subseteq Row
  BY MatchesRows DEF IInv
<1>4. TypeOK'
  <2>1. BagToSet(image') \subseteq Row /\ IsABag(image')
    BY <1>3
  <2>. QED  BY <1>1, <1>2, <2>1 DEF IInv, TypeOK
<1>5. TableInv' /\ RecordsInv' /\ RowIdsFresh'
  BY <1>1, StoredAlone
<1>6. SnapshotInv'
  BY <1>1, <1>2, SnapshotAlone DEF IInv
<1>7. PreparedInv' /\ RestInv'
  BY <1>1 DEF PreparedInv, RestInv
<1>8. Matches(pend, image)'
  BY <1>1, MatchesAlone
<1>9. autos = 0 => Gap(pend)'
  BY <1>2, GapAlone
<1>10. StatementInv'
  BY <1>1, <1>8, <1>9 DEF StatementInv
<1>. QED  BY <1>4, <1>5, <1>6, <1>7, <1>10 DEF IInv

\* What a statement starts from: the loaded pending table.
LEMMA LoadedStep ==
  ASSUME IInv, phase = "active"
  PROVE  /\ pend \in Pending /\ Loaded(pend) \in Pending /\ Loaded(pend).initialized
         /\ Balanced(pend)
         /\ Matches(Loaded(pend), image)
         /\ autos = 0 => Gap(Loaded(pend))
         /\ \A sel : Seen(sel, pend) => Seen(sel, Loaded(pend))
         /\ nextRowId \in Nat
<1>1. pend \in Pending /\ nextRowId \in Nat
  BY DEF IInv, TypeOK
<1>2. /\ Loaded(pend) \in Pending /\ Loaded(pend).initialized
      /\ \A e : Net(Loaded(pend), e) = Net(pend, e)
      /\ Balanced(Loaded(pend)) <=> Balanced(pend)
      /\ pend = NoPending \/ (pend.initialized /\ Gap(pend)) => Gap(Loaded(pend))
  BY <1>1, LoadedFacts
<1>3. Matches(pend, image) /\ (autos = 0 => pend = NoPending \/ (pend.initialized /\ Gap(pend)))
  BY DEF IInv, StatementInv
<1>4. Matches(Loaded(pend), image) /\ Balanced(pend)
  BY <1>2, <1>3 DEF Matches
<1>5. \A sel : Seen(sel, pend) => Seen(sel, Loaded(pend))
  BY <1>2 DEF Seen
<1>. QED  BY <1>1, <1>2, <1>3, <1>4, <1>5

\* UPDATE of rows the transaction sees.
LEMMA UpdateStep ==
  ASSUME IInv, Statement, NEW ms \in Seq(Mutation), Seen(BeforesOf(ms), pend),
         UpdateSelected(ms)
  PROVE  IInv'
<1>. DEFINE p == Loaded(pend)
            q == Updating(p, ms)[Len(ms)]
            b == (image (-) BagOf(BeforesOf(ms))) (+) BagOf(AftersOf(ms))
<1>1. phase = "active"
  BY DEF Statement
<1>2. /\ p \in Pending /\ p.initialized /\ Matches(p, image) /\ (autos = 0 => Gap(p))
      /\ Seen(BeforesOf(ms), p) /\ nextRowId \in Nat
  BY <1>1, LoadedStep
<1>3. pend' = q /\ image' = b
  BY DEF UpdateSelected, BeforesOf, AftersOf
<1>. HIDE DEF p
<1>4. Matches(q, b)
  BY <1>2, UpdateMatches
<1>5. q \in Pending /\ q.initialized = p.initialized /\ (Gap(p) => Gap(q))
  BY <1>2, UpdatingGap
<1>. HIDE DEF q, b
<1>. QED  BY <1>2, <1>3, <1>4, <1>5, StatementStep

\* DELETE of rows the transaction sees: none of them is an error.
LEMMA DeleteStep ==
  ASSUME IInv, Statement, NEW sel, Seen(sel, pend), DeleteSelected(sel)
  PROVE  IInv'
<1>. DEFINE p == Loaded(pend)
            q == Deleting(p, sel)[Len(sel)]
            b == image (-) BagOf(sel)
<1>1. phase = "active"
  BY DEF Statement
<1>2. /\ p \in Pending /\ p.initialized /\ Matches(p, image) /\ (autos = 0 => Gap(p))
      /\ Seen(sel, p) /\ nextRowId \in Nat
  BY <1>1, LoadedStep
<1>3. sel \in Seq(Row)
  BY DEF Seen
<1>4. DeleteErrors(p, sel) = {} => pend' = q /\ image' = b
  BY DEF DeleteSelected
<1>. HIDE DEF p
<1>5. DeleteErrors(p, sel) = {} /\ Matches(q, b)
  BY <1>2, DeleteMatches
<1>6. q \in Pending /\ q.initialized = p.initialized /\ (Gap(p) => Gap(q))
  BY <1>2, <1>3, DeletingGap
<1>. HIDE DEF q, b
<1>. QED  BY <1>2, <1>4, <1>5, <1>6, StatementStep

LEMMA InsertStep ==
  ASSUME IInv, NEW k \in Keys, NEW v \in Vals, Insert(k, v)
  PROVE  IInv'
<1>. DEFINE p == Loaded(pend)
            q == InsertRow(p, k, v)
            b == image (+) BagOf(<<Last(q.rows)>>)
<1>1. phase = "active" /\ Statement
  BY DEF Insert, Statement
<1>2. /\ p \in Pending /\ p.initialized /\ Matches(p, image) /\ (autos = 0 => Gap(p))
      /\ nextRowId \in Nat
  BY <1>1, LoadedStep
<1>3. (pend' = p /\ image' = image) \/ (pend' = q /\ image' = b)
  BY DEF Insert
<1>. HIDE DEF p
<1>4. q \in Pending /\ q.initialized = p.initialized /\ Matches(q, b)
  BY <1>2, InsertMatches
<1>5. Gap(p) => Gap(q)
  BY <1>2, InsertRowGap
<1>. HIDE DEF q, b
<1>6. CASE pend' = p /\ image' = image
  BY <1>1, <1>2, <1>6, StatementStep
<1>7. CASE pend' = q /\ image' = b
  BY <1>1, <1>2, <1>4, <1>5, <1>7, StatementStep
<1>. QED  BY <1>3, <1>6, <1>7

\* BEGIN: the snapshot is the table and nothing is pending.
LEMMA EmptyFacts ==
  /\ NoPending \in Pending
  /\ NoBatch \in [removed : SUBSET Row, puts : SUBSET Row, nextRowId : Nat]
  /\ NoBatch.puts = {}
  /\ IsABag(EmptyBag) /\ BagToSet(EmptyBag) = {}
  /\ \A e : Net(NoPending, e) = Here(e) /\ Taken(NoPending, e) = 0
<1>1. NoPending \in Pending
  <2>1. <<>> \in Seq(Row) /\ <<>> \in Seq(Mutation)
    OBVIOUS
  <2>. QED  BY <2>1 DEF NoPending, Pending
<1>2. NoBatch \in [removed : SUBSET Row, puts : SUBSET Row, nextRowId : Nat] /\ NoBatch.puts = {}
  BY DEF NoBatch
<1>3. IsABag(EmptyBag) /\ BagToSet(EmptyBag) = {}
  BY DEF IsABag, EmptyBag, SetToBag, BagToSet
<1>4. ASSUME NEW e PROVE Net(NoPending, e) = Here(e) /\ Taken(NoPending, e) = 0
  <2>1. /\ NoPending.rows = <<>> /\ NoPending.deletes = <<>>
        /\ BeforesOf(NoPending.updates) = <<>> /\ AftersOf(NoPending.updates) = <<>>
    BY DEF NoPending, BeforesOf, AftersOf
  <2>2. Count(<<>>, e) = 0
    BY CountEmpty
  <2>3. Taken(NoPending, e) = 0 /\ Made(NoPending, e) = 0
    BY <2>1, <2>2 DEF Taken, Made
  <2>4. Here(e) \in 0..1
    BY DEF Here
  <2>. QED  BY <2>3, <2>4 DEF Net
<1>. QED  BY <1>1, <1>2, <1>3, <1>4

LEMMA BeginStep ==
  ASSUME IInv, Begin
  PROVE  IInv'
<1>1. /\ phase = "idle" /\ phase' = "active" /\ dbVars' = dbVars /\ snapshot' = table
      /\ batch' = batch /\ autos' = autos /\ raced' = raced /\ pend' = pend
      /\ statements' = statements /\ image' = SetToBag(table)
  BY DEF Begin
<1>2. /\ keyless' = keyless /\ table' = table /\ uniques' = uniques
      /\ nextRowId' = nextRowId
  BY <1>1 DEF dbVars
<1>3. pend' = NoPending /\ table \subseteq Row
  BY <1>1 DEF IInv, RestInv, TypeOK
<1>4. /\ IsABag(SetToBag(table)) /\ BagToSet(SetToBag(table)) = table
      /\ \A e : Copies(e, SetToBag(table)) = IF e \in table THEN 1 ELSE 0
  BY DEF IsABag, SetToBag, BagToSet, Copies
<1>5. TypeOK'
  <2>1. BagToSet(image') \subseteq Row /\ IsABag(image')
    BY <1>1, <1>3, <1>4
  <2>. QED  BY <1>1, <1>2, <2>1 DEF IInv, TypeOK
<1>6. TableInv' /\ RecordsInv' /\ RowIdsFresh'
  BY <1>1, StoredAlone
<1>7. SnapshotInv'
  BY <1>1, <1>2, <1>3 DEF IInv, TableInv, SnapshotInv, KeysDiffer, StorageKey
<1>8. PreparedInv' /\ RestInv'
  BY <1>1 DEF PreparedInv, RestInv
<1>9. ASSUME NEW e PROVE Here(e)' = Copies(e, image')
  BY <1>1, <1>4 DEF Here
<1>10. ASSUME NEW e PROVE Net(pend, e)' = Here(e)' /\ Taken(pend, e)' = 0
  <2>1. Taken(NoPending, e) = 0 /\ Made(NoPending, e) = 0
    <3>1. /\ NoPending.rows = <<>> /\ NoPending.deletes = <<>>
          /\ BeforesOf(NoPending.updates) = <<>> /\ AftersOf(NoPending.updates) = <<>>
      BY DEF NoPending, BeforesOf, AftersOf
    <3>2. Count(<<>>, e) = 0
      BY CountEmpty
    <3>. QED  BY <3>1, <3>2 DEF Taken, Made
  <2>2. Taken(pend, e)' = 0 /\ Made(pend, e)' = 0
    BY <1>3, <2>1
  <2>3. Here(e)' \in 0..1
    BY DEF Here
  <2>. QED  BY <2>2, <2>3 DEF Net
<1>11. Balanced(pend)'
  <2>1. \A e : Taken(pend, e)' = 0 /\ Here(e)' \in 0..1
    BY <1>10 DEF Here
  <2>. QED  BY <2>1 DEF Balanced
<1>12. Matches(pend, image)'
  BY <1>1, <1>4, <1>9, <1>10, <1>11 DEF Matches
<1>13. StatementInv'
  BY <1>3, <1>12 DEF StatementInv
<1>. QED  BY <1>5, <1>6, <1>7, <1>8, <1>13 DEF IInv

\* The end of a transaction.
LEMMA RestFacts ==
  ASSUME Rest
  PROVE  /\ phase' = "idle" /\ pend' = NoPending /\ pend' \in Pending
         /\ IsABag(image') /\ BagToSet(image') \subseteq Row
         /\ snapshot' = {} /\ batch' = NoBatch
         /\ SnapshotInv' /\ PreparedInv' /\ StatementInv' /\ RestInv'
         /\ (IsFiniteSet(batch.puts) /\ KeysDiffer(batch.puts))'
<1>1. /\ phase' = "idle" /\ pend' = NoPending /\ image' = EmptyBag
      /\ snapshot' = {} /\ batch' = NoBatch
  BY DEF Rest
<1>2. pend' \in Pending /\ IsABag(image') /\ BagToSet(image') = {} /\ batch'.puts = {}
  BY <1>1, EmptyFacts
<1>3. PreparedInv' /\ StatementInv' /\ RestInv'
  BY <1>1 DEF PreparedInv, StatementInv, RestInv
<1>4. SnapshotInv'
  BY <1>1, FS_EmptySet DEF SnapshotInv, KeysDiffer
<1>5. IsFiniteSet(batch'.puts) /\ KeysDiffer(batch.puts)'
  BY <1>2, FS_EmptySet DEF KeysDiffer
<1>. QED  BY <1>1, <1>2, <1>3, <1>4, <1>5

LEMMA RestStep ==
  ASSUME IInv, Rest, UNCHANGED <<dbVars, statements, autos, raced>>
  PROVE  IInv'
<1>1. /\ phase' = "idle" /\ pend' = NoPending /\ pend' \in Pending
      /\ IsABag(image') /\ BagToSet(image') \subseteq Row
      /\ snapshot' = {} /\ batch' = NoBatch
      /\ SnapshotInv' /\ PreparedInv' /\ StatementInv' /\ RestInv'
      /\ IsFiniteSet(batch'.puts) /\ KeysDiffer(batch.puts)'
  BY RestFacts
<1>2. (IsFiniteSet(table) /\ KeysDiffer(table))' /\ RecordsInv' /\ RowIdsFresh'
  BY StoredAlone
<1>3. /\ keyless' = keyless /\ table' = table /\ uniques' = uniques
      /\ nextRowId' = nextRowId /\ statements' = statements /\ autos' = autos
      /\ raced' = raced
  BY DEF dbVars
<1>4. /\ batch' \in [removed : SUBSET Row, puts : SUBSET Row, nextRowId : Nat]
      /\ batch'.puts = {}
  BY <1>1, EmptyFacts
<1>5. TypeOK'
  BY <1>1, <1>3, <1>4 DEF IInv, TypeOK
<1>6. TableInv'
  BY <1>1, <1>2 DEF TableInv
<1>. QED  BY <1>1, <1>2, <1>5, <1>6 DEF IInv

\* A write, of a commit or of another session.
LEMMA WriteStep ==
  ASSUME IInv, NEW R \in SUBSET Row, NEW P \in SUBSET Row, IsFiniteSet(P),
         KeysDiffer(P), ~keyless => \A r \in P : r.id = 0,
         WriteBatch(R, P), keyless' = keyless, nextRowId' \in Nat \ {0},
         ~raced' => /\ ~raced
                    /\ R \subseteq table /\ ValsDiffer(P)
                    /\ \A r \in P : ~Occupied(r, R)
                    /\ nextRowId' >= nextRowId
                    /\ keyless => \A r \in P : r.id < nextRowId'
  PROVE  /\ table' \subseteq Row
         /\ ~keyless => \A r \in table' : r.id = 0
         /\ uniques' \subseteq [val : Vals \ {Null}, ref : Nat]
         /\ IsFiniteSet(table') /\ KeysDiffer(table)'
         /\ RecordsInv' /\ RowIdsFresh'
<1>1. /\ table \subseteq Row /\ IsFiniteSet(table) /\ KeysDiffer(table)
      /\ uniques \subseteq [val : Vals \ {Null}, ref : Nat] /\ nextRowId \in Nat
      /\ ~keyless => \A r \in table : r.id = 0
  BY DEF IInv, TypeOK, TableInv
<1>2. /\ table' \subseteq Row /\ table' \subseteq table \cup P
      /\ IsFiniteSet(table') /\ KeysDiffer(table)'
      /\ uniques' \subseteq [val : Vals \ {Null}, ref : Nat]
  BY <1>1, WriteKeepsKeys
<1>3. RecordsInv'
  <2>1. SUFFICES ASSUME ~raced' PROVE Records'
    BY DEF RecordsInv
  <2>2. Records
    BY <2>1 DEF IInv, RecordsInv
  <2>. QED  BY <1>1, <1>2, <2>1, <2>2, WriteKeepsRecords
<1>4. RowIdsFresh'
  <2>. SUFFICES ASSUME keyless', ~raced', NEW r \in table' PROVE r.id < nextRowId'
    BY DEF RowIdsFresh
  <2>1. CASE r \in P
    BY <2>1
  <2>2. CASE r \in table
    <3>1. r.id < nextRowId /\ r.id \in Nat
      BY <1>1, <2>2 DEF IInv, RowIdsFresh, Row
    <3>. QED  BY <1>1, <3>1
  <2>. QED  BY <1>2, <2>1, <2>2
<1>. QED  BY <1>1, <1>2, <1>3, <1>4

LEMMA CommitPrepareStep ==
  ASSUME IInv, CommitPrepare
  PROVE  IInv'
<1>1. /\ phase = "active" /\ phase' = "prepared" /\ dbVars' = dbVars /\ snapshot' = snapshot
      /\ batch' = BatchOf(pend) /\ autos' = autos /\ raced' = raced /\ pend' = pend
      /\ statements' = statements /\ image' = image /\ ~Refused(pend)
  BY DEF CommitPrepare
<1>2. /\ keyless' = keyless /\ table' = table /\ uniques' = uniques
      /\ nextRowId' = nextRowId
  BY <1>1 DEF dbVars
<1>. DEFINE b == BatchOf(pend)
<1>3. /\ b \in [removed : SUBSET Row, puts : SUBSET Row, nextRowId : Nat]
      /\ b.removed \subseteq table
      /\ IsFiniteSet(b.puts) /\ KeysDiffer(b.puts) /\ ValsDiffer(b.puts)
      /\ ~keyless => \A r \in b.puts : r.id = 0
      /\ \A r \in b.puts : ~Occupied(r, b.removed)
      /\ b.nextRowId # 0 => b.nextRowId >= nextRowId
      /\ keyless /\ (\A r \in table : r.id < nextRowId) =>
           \A r \in b.puts : r.id < IF b.nextRowId # 0 THEN b.nextRowId ELSE nextRowId
  BY <1>1, BatchFacts DEF IInv, TypeOK
<1>. HIDE DEF b
<1>4. batch' = b
  BY <1>1 DEF b
<1>5. TypeOK'
  BY <1>1, <1>2, <1>3, <1>4 DEF IInv, TypeOK
<1>6. (IsFiniteSet(table) /\ KeysDiffer(table))' /\ RecordsInv' /\ RowIdsFresh'
  BY <1>1, StoredAlone
<1>7. KeysDiffer(batch.puts)'
  BY <1>2, <1>3, <1>4 DEF KeysDiffer, StorageKey
<1>8. TableInv'
  BY <1>3, <1>4, <1>6, <1>7 DEF TableInv
<1>9. SnapshotInv'
  BY <1>1, <1>2, SnapshotAlone DEF IInv
<1>10. StatementInv' /\ RestInv'
  BY <1>1 DEF StatementInv, RestInv
<1>11. PreparedInv'
  <2>. SUFFICES ASSUME ~raced'
                PROVE  /\ batch'.removed \subseteq table'
                       /\ ValsDiffer(batch.puts)'
                       /\ (\A r \in batch.puts : ~Occupied(r, batch.removed))'
                       /\ batch'.nextRowId # 0 => batch'.nextRowId >= nextRowId'
                       /\ keyless' => \A r \in batch'.puts :
                            r.id < IF batch'.nextRowId # 0 THEN batch'.nextRowId ELSE nextRowId'
    BY DEF PreparedInv
  <2>1. keyless => \A r \in table : r.id < nextRowId
    BY <1>1 DEF IInv, RowIdsFresh
  <2>2. ValsDiffer(batch.puts)'
    BY <1>3, <1>4 DEF ValsDiffer, HasUnique
  <2>3. (\A r \in batch.puts : ~Occupied(r, batch.removed))'
    BY <1>2, <1>3, <1>4 DEF Occupied, StorageKey, HasUnique
  <2>. QED  BY <1>2, <1>3, <1>4, <2>1, <2>2, <2>3
<1>. QED  BY <1>5, <1>6, <1>8, <1>9, <1>10, <1>11 DEF IInv

LEMMA CommitWriteStep ==
  ASSUME IInv, CommitWrite
  PROVE  IInv'
<1>1. /\ phase = "prepared" /\ WriteBatch(batch.removed, batch.puts) /\ Rest
      /\ nextRowId' = IF batch.nextRowId # 0 THEN batch.nextRowId ELSE nextRowId
      /\ keyless' = keyless /\ statements' = statements /\ autos' = autos /\ raced' = raced
  BY DEF CommitWrite
<1>2. /\ batch.removed \in SUBSET Row /\ batch.puts \in SUBSET Row /\ batch.nextRowId \in Nat
      /\ nextRowId \in Nat \ {0} /\ (~keyless => \A r \in batch.puts : r.id = 0)
      /\ IsFiniteSet(batch.puts) /\ KeysDiffer(batch.puts)
  BY DEF IInv, TypeOK, TableInv
<1>3. nextRowId' \in Nat \ {0}
  BY <1>1, <1>2
<1>4. ~raced => /\ batch.removed \subseteq table /\ ValsDiffer(batch.puts)
                /\ \A r \in batch.puts : ~Occupied(r, batch.removed)
                /\ nextRowId' >= nextRowId
                /\ keyless => \A r \in batch.puts : r.id < nextRowId'
  BY <1>1, <1>2 DEF IInv, PreparedInv
<1>5. /\ table' \subseteq Row
      /\ ~keyless => \A r \in table' : r.id = 0
      /\ uniques' \subseteq [val : Vals \ {Null}, ref : Nat]
      /\ IsFiniteSet(table') /\ KeysDiffer(table)'
      /\ RecordsInv' /\ RowIdsFresh'
  BY <1>1, <1>2, <1>3, <1>4, WriteStep
<1>6. /\ phase' = "idle" /\ pend' = NoPending /\ pend' \in Pending
      /\ IsABag(image') /\ BagToSet(image') \subseteq Row
      /\ snapshot' = {} /\ batch' = NoBatch
      /\ SnapshotInv' /\ PreparedInv' /\ StatementInv' /\ RestInv'
      /\ IsFiniteSet(batch'.puts) /\ KeysDiffer(batch.puts)'
  BY <1>1, RestFacts
<1>7. /\ batch' \in [removed : SUBSET Row, puts : SUBSET Row, nextRowId : Nat]
      /\ batch'.puts = {}
  BY <1>6, EmptyFacts
<1>8. TypeOK'
  BY <1>1, <1>3, <1>5, <1>6, <1>7 DEF IInv, TypeOK
<1>. QED  BY <1>5, <1>6, <1>8 DEF IInv, TableInv

\* A checked write of another session.
LEMMA AutocommitStep ==
  ASSUME IInv, Autocommit, NEW R \in SUBSET table, NEW P \in SUBSET Row, IsFiniteSet(P),
         KeysDiffer(P), ~keyless => \A r \in P : r.id = 0,
         WriteBatch(R, P), nextRowId' \in Nat \ {0}, nextRowId' >= nextRowId,
         ValsDiffer(P), \A r \in P : ~Occupied(r, R),
         keyless /\ ~raced => \A r \in P : r.id < nextRowId'
  PROVE  IInv'
<1>1. /\ phase \in {"active", "prepared"} /\ phase' = phase /\ keyless' = keyless
      /\ snapshot' = snapshot /\ pend' = pend /\ image' = image /\ batch' = batch
      /\ statements' = statements /\ autos' = autos + 1
      /\ raced' = (raced \/ phase = "prepared")
  BY DEF Autocommit
<1>2. R \in SUBSET Row
  BY DEF IInv, TypeOK
<1>3. ~raced' => ~raced /\ phase # "prepared"
  BY <1>1
<1>4. /\ table' \subseteq Row
      /\ ~keyless => \A r \in table' : r.id = 0
      /\ uniques' \subseteq [val : Vals \ {Null}, ref : Nat]
      /\ IsFiniteSet(table') /\ KeysDiffer(table)'
      /\ RecordsInv' /\ RowIdsFresh'
  BY <1>1, <1>2, <1>3, WriteStep
<1>5. TypeOK'
  <2>1. raced' \in BOOLEAN
    BY <1>1
  <2>. QED  BY <1>1, <1>4, <2>1 DEF IInv, TypeOK
<1>6. TableInv'
  <2>1. IsFiniteSet(batch'.puts) /\ KeysDiffer(batch.puts)'
    BY <1>1 DEF IInv, TableInv, KeysDiffer, StorageKey
  <2>. QED  BY <1>4, <2>1 DEF TableInv
<1>7. SnapshotInv'
  BY <1>1, SnapshotAlone DEF IInv
<1>8. PreparedInv' /\ RestInv'
  BY <1>1, <1>3 DEF PreparedInv, RestInv
<1>9. StatementInv'
  <2>. SUFFICES ASSUME phase' = "active"
                PROVE  Matches(pend, image)' /\ autos' # 0
    BY DEF StatementInv
  <2>1. Matches(pend, image)
    BY <1>1 DEF IInv, StatementInv
  <2>2. Matches(pend, image)'
    BY <1>1, <2>1 DEF Matches, Balanced, Net, Taken, Made, Here
  <2>3. autos \in Nat
    BY DEF IInv, TypeOK
  <2>. QED  BY <1>1, <2>2, <2>3
<1>. QED  BY <1>4, <1>5, <1>6, <1>7, <1>8, <1>9 DEF IInv

LEMMA AutoInsertStep ==
  ASSUME IInv, NEW k \in Keys, NEW v \in Vals, AutoInsert(k, v)
  PROVE  IInv'
<1>. DEFINE row == [id |-> IF keyless THEN nextRowId ELSE 0, key |-> k, val |-> v]
            P == {row}
<1>1. /\ Autocommit /\ ~Occupied(row, {}) /\ WriteBatch({}, P)
      /\ nextRowId' = IF keyless THEN nextRowId + 1 ELSE nextRowId
  BY DEF AutoInsert
<1>2. nextRowId \in Nat \ {0}
  BY DEF IInv, TypeOK
<1>3. row \in Row /\ row.id = IF keyless THEN nextRowId ELSE 0
  BY <1>2 DEF Row
<1>. HIDE DEF row
<1>4. P \in SUBSET Row /\ IsFiniteSet(P) /\ KeysDiffer(P) /\ ValsDiffer(P)
  BY <1>3, FS_Singleton DEF KeysDiffer, ValsDiffer
<1>5. /\ nextRowId' \in Nat \ {0} /\ nextRowId' >= nextRowId
      /\ ~keyless => \A r \in P : r.id = 0
      /\ keyless => \A r \in P : r.id < nextRowId'
      /\ \A r \in P : ~Occupied(r, {})
  BY <1>1, <1>2, <1>3
<1>. HIDE DEF P
<1>. QED  BY <1>1, <1>4, <1>5, AutocommitStep

LEMMA AutoDeleteStep ==
  ASSUME IInv, NEW K, AutoDelete(K)
  PROVE  IInv'
<1>1. /\ Autocommit /\ WriteBatch(Matching(K), {}) /\ nextRowId' = nextRowId
  BY DEF AutoDelete
<1>2. nextRowId \in Nat \ {0}
  BY DEF IInv, TypeOK
<1>3. Matching(K) \in SUBSET table
  BY DEF Matching
<1>4. {} \in SUBSET Row /\ IsFiniteSet({}) /\ KeysDiffer({}) /\ ValsDiffer({})
  BY FS_EmptySet DEF KeysDiffer, ValsDiffer
<1>. QED  BY <1>1, <1>2, <1>3, <1>4, AutocommitStep

\* Row by row changes f of the rows R that the checks of updateRows let pass:
\* as many new storage keys as rows means that no two of them are the same.
LEMMA AutoUpdateStep ==
  ASSUME IInv, NEW R \in SUBSET table, NEW f \in [R -> Row], \A r \in R : f[r].id = r.id,
         AutoUpdate(R, {f[r] : r \in R})
  PROVE  IInv'
<1>. DEFINE P == {f[r] : r \in R}
            g == [r \in R |-> StorageKey(f[r])]
            T == {g[r] : r \in R}
<1>1. /\ Autocommit /\ WriteBatch(R, P) /\ nextRowId' = nextRowId
      /\ Cardinality({StorageKey(r) : r \in P}) = Cardinality(R)
      /\ \A r, s \in P : r # s /\ HasUnique(r) => r.val # s.val
      /\ \A r \in P : ~Occupied(r, R)
  BY DEF AutoUpdate
<1>2. /\ nextRowId \in Nat \ {0} /\ IsFiniteSet(table)
      /\ ~keyless => \A r \in table : r.id = 0
      /\ keyless /\ ~raced => \A r \in table : r.id < nextRowId
  BY DEF IInv, TypeOK, TableInv, RowIdsFresh
<1>3. IsFiniteSet(R)
  BY <1>2, FS_Subset
<1>4. P \in SUBSET Row /\ f \in [R -> P] /\ \A x \in P : \E r \in R : x = f[r]
  OBVIOUS
<1>5. IsFiniteSet(P)
  BY <1>3, <1>4, FiniteImage
<1>6. {StorageKey(r) : r \in P} = T
  OBVIOUS
<1>7. g \in Surjection(R, T)
  BY DEF Surjection
<1>8. Cardinality(R) = Cardinality(T)
  BY <1>1, <1>6
<1>9. g \in Injection(R, T)
  <2>. HIDE DEF g, T
  <2>. QED  BY <1>3, <1>7, <1>8, FS_SurjSameCardinalityImpliesInj
<1>10. KeysDiffer(P)
  <2>. SUFFICES ASSUME NEW r \in R, NEW s \in R, StorageKey(f[r]) = StorageKey(f[s])
                PROVE  f[r] = f[s]
    BY DEF KeysDiffer
  <2>1. g[r] = g[s]
    OBVIOUS
  <2>. HIDE DEF g, T
  <2>2. r = s
    BY <1>9, <2>1 DEF Injection, IsInjective
  <2>. QED  BY <2>2
<1>11. ValsDiffer(P)
  BY <1>1 DEF ValsDiffer
<1>12. /\ ~keyless => \A r \in P : r.id = 0
       /\ keyless /\ ~raced => \A r \in P : r.id < nextRowId'
  BY <1>1, <1>2, <1>4
<1>. HIDE DEF P
<1>. QED  BY <1>1, <1>2, <1>4, <1>5, <1>10, <1>11, <1>12, AutocommitStep

LEMMA AutoSetValStep ==
  ASSUME IInv, NEW K, NEW v \in Vals,
         AutoUpdate(Matching(K), {SetVal(r, v) : r \in Matching(K)})
  PROVE  IInv'
<1>. DEFINE R == Matching(K)
            f == [r \in R |-> SetVal(r, v)]
<1>1. R \in SUBSET table /\ R \subseteq Row
  BY DEF Matching, IInv, TypeOK
<1>. HIDE DEF R
<1>2. f \in [R -> Row] /\ \A r \in R : f[r].id = r.id /\ f[r] = SetVal(r, v)
  BY <1>1, SetValType
<1>. HIDE DEF f
<1>3. {SetVal(r, v) : r \in R} = {f[r] : r \in R}
  BY <1>2
<1>4. AutoUpdate(R, {f[r] : r \in R})
  BY <1>3 DEF R
<1>. QED  BY <1>1, <1>2, <1>4, AutoUpdateStep

LEMMA AutoNextKeyStep ==
  ASSUME IInv, NEW K, AutoUpdate(Matching(K), {NextKey(r) : r \in Matching(K)})
  PROVE  IInv'
<1>. DEFINE R == Matching(K)
            f == [r \in R |-> NextKey(r)]
<1>1. R \in SUBSET table /\ R \subseteq Row
  BY DEF Matching, IInv, TypeOK
<1>. HIDE DEF R
<1>2. f \in [R -> Row] /\ \A r \in R : f[r].id = r.id /\ f[r] = NextKey(r)
  BY <1>1, NextKeyType
<1>. HIDE DEF f
<1>3. {NextKey(r) : r \in R} = {f[r] : r \in R}
  BY <1>2
<1>4. AutoUpdate(R, {f[r] : r \in R})
  BY <1>3 DEF R
<1>. QED  BY <1>1, <1>2, <1>4, AutoUpdateStep

\* The statements read what they change.
LEMMA ScanStatements ==
  ASSUME IInv, NEW K, NEW v \in Vals, UpdateVal(K, v) \/ UpdateKey(K) \/ Delete(K)
  PROVE  IInv'
<1>1. Statement /\ phase = "active"
  BY DEF UpdateVal, UpdateKey, Delete, Statement
<1>2. pend \in Pending /\ Balanced(pend)
  BY <1>1, LoadedStep
<1>. DEFINE sel == Selected(K)
<1>3. Seen(sel, pend)
  BY <1>2, SelectedSeen DEF IInv
<1>4. sel \in Seq(Row)
  BY <1>3 DEF Seen
<1>5. \/ UpdateSelected(SetVals(sel, v)) \/ UpdateSelected(NextKeys(sel)) \/ DeleteSelected(sel)
  BY DEF UpdateVal, UpdateKey, Delete
<1>. HIDE DEF sel
<1>6. CASE UpdateSelected(SetVals(sel, v))
  BY <1>1, <1>3, <1>4, <1>6, SetValsFacts, UpdateStep
<1>7. CASE UpdateSelected(NextKeys(sel))
  BY <1>1, <1>3, <1>4, <1>7, NextKeysFacts, UpdateStep
<1>8. CASE DeleteSelected(sel)
  BY <1>1, <1>3, <1>8, DeleteStep
<1>. QED  BY <1>5, <1>6, <1>7, <1>8

LEMMA PointStatements ==
  ASSUME IInv, NEW k, NEW v \in Vals, UpdatePoint(k, v) \/ DeletePoint(k)
  PROVE  IInv'
<1>1. Statement /\ phase = "active"
  BY DEF UpdatePoint, DeletePoint, Statement
<1>2. pend \in Pending /\ Balanced(pend)
  BY <1>1, LoadedStep
<1>. DEFINE sel == PointRead(pend, k)
<1>3. Seen(sel, pend)
  BY <1>2, PointReadSeen DEF IInv
<1>4. sel \in Seq(Row)
  BY <1>3 DEF Seen
<1>5. UpdateSelected(SetVals(sel, v)) \/ DeleteSelected(sel)
  BY DEF UpdatePoint, DeletePoint
<1>. HIDE DEF sel
<1>6. CASE UpdateSelected(SetVals(sel, v))
  BY <1>1, <1>3, <1>4, <1>6, SetValsFacts, UpdateStep
<1>7. CASE DeleteSelected(sel)
  BY <1>1, <1>3, <1>7, DeleteStep
<1>. QED  BY <1>5, <1>6, <1>7

\* Nothing happens.
LEMMA StutterStep ==
  ASSUME IInv, UNCHANGED vars
  PROVE  IInv'
<1>1. /\ phase' = phase /\ dbVars' = dbVars /\ snapshot' = snapshot /\ pend' = pend
      /\ image' = image /\ batch' = batch /\ statements' = statements
      /\ autos' = autos /\ raced' = raced
  BY DEF vars
<1>2. /\ keyless' = keyless /\ table' = table /\ uniques' = uniques
      /\ nextRowId' = nextRowId
  BY <1>1 DEF dbVars
<1>3. TypeOK'
  BY <1>1, <1>2 DEF IInv, TypeOK
<1>4. TableInv' /\ RecordsInv' /\ RowIdsFresh'
  BY <1>1, StoredAlone
<1>5. SnapshotInv'
  BY <1>1, <1>2, SnapshotAlone DEF IInv
<1>6. PreparedInv'
  BY <1>1, <1>2 DEF IInv, PreparedInv, ValsDiffer, HasUnique, Occupied, StorageKey
<1>7. StatementInv' /\ RestInv'
  BY <1>1, <1>2 DEF IInv, StatementInv, RestInv, Matches, Balanced, Net, Taken, Made, Here, Gap
<1>. QED  BY <1>3, <1>4, <1>5, <1>6, <1>7 DEF IInv

LEMMA InitInv ==
  ASSUME Init
  PROVE  IInv
<1>1. PICK f \in InitialTables :
         /\ table = {[id |-> IF keyless THEN k ELSE 0, key |-> k, val |-> f[k]] : k \in DOMAIN f}
         /\ ~UniqueVal \/ \A j, k \in DOMAIN f : j # k /\ f[j] # Null => f[j] # f[k]
  BY DEF Init
<1>2. /\ keyless \in BOOLEAN /\ phase = "idle" /\ uniques = UniqueRecords(table)
      /\ nextRowId = (IF keyless THEN KeyCount + 1 ELSE 1) /\ snapshot = {}
      /\ pend = NoPending /\ image = EmptyBag /\ batch = NoBatch
      /\ statements = 0 /\ autos = 0 /\ raced = FALSE
  BY DEF Init
<1>. DEFINE D == DOMAIN f
            g == [k \in D |-> [id |-> IF keyless THEN k ELSE 0, key |-> k, val |-> f[k]]]
<1>3. D \in SUBSET Keys /\ f \in [D -> Vals]
  BY <1>1 DEF InitialTables
<1>4. Keys \subseteq Nat /\ IsFiniteSet(Keys) /\ \A k \in Keys : k <= KeyCount
  BY ImageAssumption, FS_Interval DEF Keys
<1>5. KeyCount \in Nat \ {0} /\ UniqueVal \in BOOLEAN
  BY ImageAssumption
<1>. HIDE DEF D
<1>6. table = {g[k] : k \in D}
  BY <1>1 DEF D
<1>7. ASSUME NEW k \in D
      PROVE  /\ g[k] \in Row /\ g[k].key = k /\ g[k].val = f[k] /\ g[k].val \in Vals
             /\ g[k].id = IF keyless THEN k ELSE 0
             /\ StorageKey(g[k]) = k
  BY <1>3, <1>4 DEF Row, StorageKey
<1>8. g \in [D -> {g[k] : k \in D}]
  OBVIOUS
<1>. HIDE DEF g
<1>9. IsFiniteSet(table)
  <2>1. IsFiniteSet(D)
    BY <1>3, <1>4, FS_Subset
  <2>. QED  BY <1>6, <1>8, <2>1, FiniteImage
<1>10. KeysDiffer(table)
  <2>. SUFFICES ASSUME NEW j \in D, NEW k \in D, StorageKey(g[j]) = StorageKey(g[k])
                PROVE  g[j] = g[k]
    BY <1>6 DEF KeysDiffer
  <2>. QED  BY <1>7
<1>11. table \subseteq Row
  BY <1>6, <1>7
<1>12. ValsDiffer(table)
  <2>. SUFFICES ASSUME NEW j \in D, NEW k \in D, HasUnique(g[j]), g[j].val = g[k].val
                PROVE  g[j] = g[k]
    BY <1>6 DEF ValsDiffer
  <2>1. UniqueVal /\ f[j] # Null /\ f[j] = f[k]
    BY <1>7 DEF HasUnique
  <2>2. j = k
    BY <1>1, <2>1 DEF D
  <2>. QED  BY <2>2
<1>13. Records
  BY <1>2, <1>10, <1>12, RecordsOfRows DEF Records
<1>14. /\ ~keyless => \A r \in table : r.id = 0
       /\ keyless => \A r \in table : r.id < nextRowId
  <2>. SUFFICES ASSUME NEW k \in D
                PROVE  (~keyless => g[k].id = 0) /\ (keyless => g[k].id < nextRowId)
    BY <1>6
  <2>1. k \in Nat /\ k <= KeyCount
    BY <1>3, <1>4
  <2>. QED  BY <1>2, <1>5, <1>7, <2>1
<1>15. nextRowId \in Nat \ {0}
  BY <1>2, <1>5
<1>16. uniques \subseteq [val : Vals \ {Null}, ref : Nat]
  BY <1>2, <1>11, UniqueRecordsType
<1>17. /\ pend \in Pending /\ IsABag(image) /\ BagToSet(image) = {}
       /\ batch \in [removed : SUBSET Row, puts : SUBSET Row, nextRowId : Nat]
       /\ batch.puts = {}
  BY <1>2, EmptyFacts
<1>18. TypeOK
  BY <1>2, <1>11, <1>14, <1>15, <1>16, <1>17 DEF TypeOK
<1>19. TableInv
  BY <1>9, <1>10, <1>17, FS_EmptySet DEF TableInv, KeysDiffer
<1>20. SnapshotInv
  BY <1>2, FS_EmptySet DEF SnapshotInv, KeysDiffer
<1>21. RecordsInv /\ RowIdsFresh /\ PreparedInv /\ StatementInv /\ RestInv
  BY <1>2, <1>13, <1>14 DEF RecordsInv, RowIdsFresh, PreparedInv, StatementInv, RestInv
<1>. QED  BY <1>18, <1>19, <1>20, <1>21 DEF IInv

LEMMA NextInv ==
  ASSUME IInv, [Next]_vars
  PROVE  IInv'
<1>1. CASE Begin
  BY <1>1, BeginStep
<1>2. CASE \E k \in Keys, v \in Vals : Insert(k, v)
  BY <1>2, InsertStep
<1>3. CASE \E K \in Predicates, v \in Vals : UpdateVal(K, v)
  BY <1>3, ScanStatements
<1>4. CASE \E K \in Predicates : UpdateKey(K)
  BY <1>4, ScanStatements, ImageAssumption
<1>5. CASE \E K \in Predicates : Delete(K)
  BY <1>5, ScanStatements, ImageAssumption
<1>6. CASE \E k \in Keys, v \in Vals : UpdatePoint(k, v)
  BY <1>6, PointStatements
<1>7. CASE \E k \in Keys : DeletePoint(k)
  BY <1>7, PointStatements, ImageAssumption
<1>8. CASE \E k \in Keys, v \in Vals : Upsert(k, v)
  BY <1>8, InsertStep, PointStatements DEF Upsert
<1>9. CASE Rollback \/ CommitRefused \/ CommitFail
  BY <1>9, RestStep DEF Rollback, CommitRefused, CommitFail
<1>10. CASE CommitPrepare
  BY <1>10, CommitPrepareStep
<1>11. CASE CommitWrite
  BY <1>11, CommitWriteStep
<1>12. CASE \E k \in Keys, v \in Vals : AutoInsert(k, v)
  BY <1>12, AutoInsertStep
<1>13. CASE \E K \in Predicates, v \in Vals :
              AutoUpdate(Matching(K), {SetVal(r, v) : r \in Matching(K)})
  BY <1>13, AutoSetValStep
<1>14. CASE \E K \in Predicates :
              AutoUpdate(Matching(K), {NextKey(r) : r \in Matching(K)})
  BY <1>14, AutoNextKeyStep
<1>15. CASE \E K \in Predicates : AutoDelete(K)
  BY <1>15, AutoDeleteStep
<1>16. CASE Terminated \/ UNCHANGED vars
  BY <1>16, StutterStep DEF Terminated
<1>. QED  BY <1>1, <1>2, <1>3, <1>4, <1>5, <1>6, <1>7, <1>8, <1>9, <1>10, <1>11,
             <1>12, <1>13, <1>14, <1>15, <1>16 DEF Next

\* The invariant in every reachable state.
LEMMA InvAlways == Spec => []IInv
<1>1. Init => IInv
  BY InitInv
<1>2. IInv /\ [Next]_vars => IInv'
  BY NextInv
<1>. QED  BY <1>1, <1>2, PTL DEF Spec

-----------------------------------------------------------------------------
(***************************************************************************)
(* What a commit publishes.                                                *)
(***************************************************************************)

\* Where the family f over X has the value e, and a value of E.
Fibre(X, f, e) == {x \in X : f[x] = e}
Over(X, f, E) == {x \in X : f[x] \in E}

\* Two families that have every value equally often have the values of any set
\* equally often.
LEMMA SameFibres ==
  ASSUME NEW X, NEW Y, NEW f, NEW g, NEW E, IsFiniteSet(X), IsFiniteSet(Y),
         \A e : Cardinality(Fibre(X, f, e)) = Cardinality(Fibre(Y, g, e))
  PROVE  Cardinality(Over(X, f, E)) = Cardinality(Over(Y, g, E))
<1>. DEFINE FX(e) == Fibre(X, f, e)
            FY(e) == Fibre(Y, g, e)
            h(e) == CHOOSE b : b \in Bijection(FX(e), FY(e))
            A == Over(X, f, E)
            B == Over(Y, g, E)
            F == [x \in A |-> h(f[x])[x]]
<1>1. ASSUME NEW e PROVE h(e) \in Bijection(FX(e), FY(e))
  <2>1. FX(e) \in SUBSET X /\ FY(e) \in SUBSET Y /\ Cardinality(FX(e)) = Cardinality(FY(e))
    BY DEF Fibre
  <2>. HIDE DEF FX, FY
  <2>2. IsFiniteSet(FX(e)) /\ IsFiniteSet(FY(e))
    BY <2>1, FS_Subset
  <2>3. \E b : b \in Bijection(FX(e), FY(e))
    BY <2>1, <2>2, FS_SameCardinalityBij DEF ExistsBijection
  <2>. QED  BY <2>3
<1>. HIDE DEF h
<1>2. ASSUME NEW e
      PROVE  /\ h(e) \in [FX(e) -> FY(e)]
             /\ \A x, y \in FX(e) : h(e)[x] = h(e)[y] => x = y
             /\ \A y \in FY(e) : \E x \in FX(e) : h(e)[x] = y
  <2>1. h(e) \in Bijection(FX(e), FY(e))
    BY <1>1
  <2>. HIDE DEF FX, FY
  <2>. QED  BY <2>1 DEF Bijection, Injection, Surjection, IsInjective
<1>. HIDE DEF FX, FY
<1>3. ASSUME NEW x \in A PROVE F[x] = h(f[x])[x] /\ F[x] \in Y /\ g[F[x]] = f[x]
  <2>. DEFINE e == f[x]
  <2>1. x \in FX(e)
    BY DEF FX, Fibre, Over
  <2>2. F[x] = h(e)[x]
    OBVIOUS
  <2>. HIDE DEF e, F
  <2>3. h(e)[x] \in FY(e)
    BY <1>2, <2>1
  <2>4. h(e)[x] \in Y /\ g[h(e)[x]] = e
    BY <2>3 DEF FY, Fibre
  <2>. QED  BY <2>2, <2>4 DEF e
<1>4. F \in [A -> B]
  <2>1. \A x \in A : f[x] \in E
    BY DEF Over
  <2>2. \A x \in A : F[x] \in B
    BY <1>3, <2>1 DEF Over
  <2>. QED  BY <2>2
<1>5. ASSUME NEW x \in A, NEW y \in A, F[x] = F[y] PROVE x = y
  <2>. DEFINE e == f[x]
  <2>1. f[x] = f[y] /\ F[x] = h(f[x])[x] /\ F[y] = h(f[y])[y]
    BY <1>3, <1>5
  <2>2. x \in FX(e) /\ y \in FX(e)
    BY <2>1 DEF FX, Fibre, Over
  <2>3. h(e)[x] = h(e)[y]
    BY <1>5, <2>1
  <2>. HIDE DEF F, e
  <2>. QED  BY <1>2, <2>2, <2>3
<1>6. ASSUME NEW y \in B PROVE \E x \in A : F[x] = y
  <2>. DEFINE e == g[y]
  <2>1. y \in FY(e) /\ e \in E
    BY DEF FY, Fibre, Over
  <2>. HIDE DEF e
  <2>2. PICK x \in FX(e) : h(e)[x] = y
    BY <1>2, <2>1
  <2>3. x \in A /\ f[x] = e
    BY <2>1 DEF FX, Fibre, Over
  <2>. QED  BY <2>2, <2>3
<1>7. IsFiniteSet(A)
  <2>1. A \in SUBSET X
    BY DEF Over
  <2>. QED  BY <2>1, FS_Subset
<1>. HIDE DEF A, B, F
<1>8. F \in Bijection(A, B)
  BY <1>4, <1>5, <1>6 DEF Bijection, Injection, Surjection, IsInjective
<1>9. ExistsBijection(A, B)
  BY <1>8 DEF ExistsBijection
<1>10. Cardinality(A) = Cardinality(B)
  BY <1>7, <1>9, FS_Bijection
<1>. QED  BY <1>10 DEF A, B

\* The number of places of rows of E in q.
CountIn(q, E) == Cardinality(Over(DOMAIN q, q, E))

LEMMA CountInConcat ==
  ASSUME NEW a \in Seq(Row), NEW d \in Seq(Row), NEW E
  PROVE  /\ CountIn(a, E) \in Nat /\ CountIn(d, E) \in Nat
         /\ CountIn(a \o d, E) = CountIn(a, E) + CountIn(d, E)
<1>. DEFINE M(q) == [i \in 1..Len(q) |-> q[i] \in E]
<1>1. ASSUME NEW q \in Seq(Row)
      PROVE  /\ M(q) \in Seq(BOOLEAN) /\ Len(M(q)) = Len(q)
             /\ \A i \in 1..Len(q) : M(q)[i] = (q[i] \in E)
             /\ CountIn(q, E) = Count(M(q), TRUE)
  <2>1. Len(q) \in Nat /\ DOMAIN q = 1..Len(q)
    OBVIOUS
  <2>2. M(q) \in Seq(BOOLEAN) /\ Len(M(q)) = Len(q) /\ DOMAIN M(q) = 1..Len(q)
    BY <2>1
  <2>3. {i \in DOMAIN q : q[i] \in E} = {i \in DOMAIN M(q) : M(q)[i] = TRUE}
    BY <2>1
  <2>. QED  BY <2>2, <2>3 DEF CountIn, Count, PlacesOf, Over
<1>2. /\ a \o d \in Seq(Row) /\ Len(a) \in Nat /\ Len(d) \in Nat
      /\ Len(a \o d) = Len(a) + Len(d)
      /\ \A x \in 1..(Len(a) + Len(d)) :
           (a \o d)[x] = IF x <= Len(a) THEN a[x] ELSE d[x - Len(a)]
  BY ConcatFacts
<1>. DEFINE A == M(a)
            D == M(d)
            C == M(a \o d)
<1>3. /\ A \in Seq(BOOLEAN) /\ D \in Seq(BOOLEAN) /\ C \in Seq(BOOLEAN)
      /\ Len(A) = Len(a) /\ Len(D) = Len(d) /\ Len(C) = Len(a) + Len(d)
      /\ \A i \in 1..Len(a) : A[i] = (a[i] \in E)
      /\ \A i \in 1..Len(d) : D[i] = (d[i] \in E)
      /\ \A i \in 1..(Len(a) + Len(d)) : C[i] = ((a \o d)[i] \in E)
  <2>. HIDE DEF M
  <2>. QED  BY <1>1, <1>2
<1>4. /\ CountIn(a, E) = Count(A, TRUE) /\ CountIn(d, E) = Count(D, TRUE)
      /\ CountIn(a \o d, E) = Count(C, TRUE)
  <2>. HIDE DEF M
  <2>. QED  BY <1>1, <1>2
<1>. HIDE DEF A, D, C, M
<1>5. /\ A \o D \in Seq(BOOLEAN) /\ Len(A \o D) = Len(A) + Len(D)
      /\ \A x \in 1..(Len(A) + Len(D)) :
           (A \o D)[x] = IF x <= Len(A) THEN A[x] ELSE D[x - Len(A)]
  BY <1>3, ConcatFacts
<1>6. ASSUME NEW x \in 1..(Len(a) + Len(d)) PROVE C[x] = (A \o D)[x]
  <2>1. CASE x <= Len(a)
    <3>1. x \in 1..Len(a)
      BY <1>2, <2>1
    <3>. QED  BY <1>2, <1>3, <1>5, <2>1, <3>1
  <2>2. CASE ~(x <= Len(a))
    <3>1. x - Len(a) \in 1..Len(d)
      BY <1>2, <2>2
    <3>. QED  BY <1>2, <1>3, <1>5, <2>2, <3>1
  <2>. QED  BY <2>1, <2>2
<1>7. C = A \o D
  BY <1>3, <1>5, <1>6, SameElements
<1>8. Count(A \o D, TRUE) = Count(A, TRUE) + Count(D, TRUE)
  BY <1>3, CountConcat
<1>9. Count(A, TRUE) \in Nat /\ Count(D, TRUE) \in Nat
  BY <1>3, CountType
<1>. QED  BY <1>4, <1>7, <1>8, <1>9

\* Sequences that have every row equally often have the rows of E equally often.
LEMMA SameCountsIn ==
  ASSUME NEW a \in Seq(Row), NEW d \in Seq(Row), NEW E, \A e : Count(a, e) = Count(d, e)
  PROVE  CountIn(a, E) = CountIn(d, E)
<1>1. Len(a) \in Nat /\ Len(d) \in Nat /\ DOMAIN a = 1..Len(a) /\ DOMAIN d = 1..Len(d)
  OBVIOUS
<1>2. IsFiniteSet(DOMAIN a) /\ IsFiniteSet(DOMAIN d)
  BY <1>1, FS_Interval
<1>3. \A e : Cardinality(Fibre(DOMAIN a, a, e)) = Cardinality(Fibre(DOMAIN d, d, e))
  BY DEF Count, PlacesOf, Fibre
<1>. QED  BY <1>2, <1>3, SameFibres DEF CountIn

\* The rows that are stored as s.
StoredAs(s) == {r \in Row : Stored(r) = s}

\* What the image has of s is what a scan has of it.
LEMMA ImageTimesScan ==
  ASSUME NEW q \in Seq(Row), IsABag(image), BagToSet(image) \subseteq Row,
         \A e : Copies(e, image) = Count(q, e), NEW s
  PROVE  ImageTimes(s) = CountIn(q, StoredAs(s))
<1>. DEFINE D == BagToSet(image)
            X == UNION {{<<r, i>> : i \in 1..image[r]} : r \in D}
            f == [x \in X |-> x[1]]
            E == StoredAs(s)
<1>1. D = DOMAIN image /\ \A r \in D : image[r] \in Nat /\ image[r] > 0 /\ image[r] = Count(q, r)
  BY CopiesFacts DEF BagToSet
<1>2. ASSUME NEW x PROVE x \in X <=> \E r \in D : \E i \in 1..image[r] : x = <<r, i>>
  OBVIOUS
<1>3. ASSUME NEW e
      PROVE  IsFiniteSet(Fibre(X, f, e)) /\ Cardinality(Fibre(X, f, e)) = Count(q, e)
  <2>. DEFINE Z == {x \in X : f[x] = e}
  <2>. SUFFICES IsFiniteSet(Z) /\ Cardinality(Z) = Count(q, e)
    BY DEF Fibre
  <2>1. CASE e \in D
    <3>. DEFINE n == image[e]
                b == [i \in 1..n |-> <<e, i>>]
    <3>1. n \in Nat /\ n = Count(q, e)
      BY <1>1, <2>1
    <3>2. ASSUME NEW i \in 1..n PROVE b[i] \in Z
      <4>1. <<e, i>> \in X
        BY <1>2, <2>1
      <4>. QED  BY <4>1
    <3>3. ASSUME NEW x \in Z PROVE \E i \in 1..n : b[i] = x
      <4>1. x \in X /\ x[1] = e
        OBVIOUS
      <4>2. PICK r \in D : \E i \in 1..image[r] : x = <<r, i>>
        BY <1>2, <4>1
      <4>3. r = e
        BY <4>1, <4>2
      <4>. QED  BY <4>2, <4>3
    <3>4. \A i, j \in 1..n : b[i] = b[j] => i = j
      OBVIOUS
    <3>5. b \in [1..n -> Z]
      BY <3>2
    <3>. HIDE DEF b, Z, n
    <3>6. b \in Bijection(1..n, Z)
      BY <3>3, <3>4, <3>5 DEF Bijection, Injection, Surjection, IsInjective
    <3>7. ExistsBijection(1..n, Z)
      BY <3>6 DEF ExistsBijection
    <3>8. Cardinality(Z) = n /\ IsFiniteSet(Z)
      BY <3>1, <3>7, FS_CountingElements, FS_NatBijection
    <3>. QED  BY <3>1, <3>8
  <2>2. CASE e \notin D
    <3>1. Z = {}
      <4>. SUFFICES ASSUME NEW x \in Z PROVE FALSE
        OBVIOUS
      <4>1. x \in X /\ x[1] = e
        OBVIOUS
      <4>2. PICK r \in D : \E i \in 1..image[r] : x = <<r, i>>
        BY <1>2, <4>1
      <4>. QED  BY <2>2, <4>1, <4>2
    <3>2. Count(q, e) = 0
      BY <1>1, <2>2 DEF Copies
    <3>. QED  BY <3>1, <3>2, FS_EmptySet
  <2>. QED  BY <2>1, <2>2
<1>. QED
  <2>1. IsFiniteSet(D)
    <3>1. D \subseteq {q[i] : i \in 1..Len(q)}
      <4>. SUFFICES ASSUME NEW r \in D PROVE \E i \in 1..Len(q) : r = q[i]
        OBVIOUS
      <4>1. Count(q, r) > 0
        BY <1>1
      <4>2. PlacesOf(q, r) # {}
        BY <4>1, CountType
      <4>. QED  BY <4>2 DEF PlacesOf
    <3>2. IsFiniteSet({q[i] : i \in 1..Len(q)})
      <4>. DEFINE n == Len(q)
      <4>1. n \in Nat /\ 0 \in Int /\ 1 \in Int
        OBVIOUS
      <4>2. q \in [1..n -> {q[i] : i \in 1..n}]
        OBVIOUS
      <4>. HIDE DEF D, X, f, E, n
      <4>3. n \in Int
        BY <4>1
      <4>4. IsFiniteSet(1..n)
        BY <4>1, <4>3, FS_Interval
      <4>5. IsFiniteSet({q[i] : i \in 1..n})
        BY <4>2, <4>4, FiniteImage
      <4>. QED  BY <4>5 DEF n
    <3>. HIDE DEF D
    <3>. QED  BY <3>1, <3>2, FS_Subset
  <2>2. IsFiniteSet(X)
    <3>. DEFINE c == [r \in D |-> Fibre(X, f, r)]
                W == {c[r] : r \in D}
    <3>1. IsFiniteSet(W)
      <4>1. c \in [D -> W]
        OBVIOUS
      <4>. HIDE DEF c, D
      <4>. QED  BY <2>1, <4>1, FiniteImage
    <3>2. \A T \in W : IsFiniteSet(T)
      BY <1>3
    <3>3. X \subseteq UNION W
      <4>. SUFFICES ASSUME NEW x \in X PROVE \E r \in D : x \in c[r]
        OBVIOUS
      <4>1. PICK r \in D : \E i \in 1..image[r] : x = <<r, i>>
        BY <1>2
      <4>2. f[x] = r
        BY <4>1
      <4>. QED  BY <4>2 DEF Fibre
    <3>. HIDE DEF W, X
    <3>4. IsFiniteSet(UNION W)
      BY <3>1, <3>2, FS_UNION
    <3>. QED  BY <3>3, <3>4, FS_Subset
  <2>3. Len(q) \in Nat /\ DOMAIN q = 1..Len(q)
    OBVIOUS
  <2>4. IsFiniteSet(DOMAIN q)
    BY <2>3, FS_Interval
  <2>5. \A e : Cardinality(Fibre(X, f, e)) = Cardinality(Fibre(DOMAIN q, q, e))
    <3>. HIDE DEF X, f
    <3>1. \A e : Fibre(DOMAIN q, q, e) = PlacesOf(q, e)
      BY DEF Fibre, PlacesOf
    <3>. QED  BY <1>3, <3>1 DEF Count
  <2>6. UNION {{<<r, i>> : i \in 1..image[r]} : r \in {x \in D : Stored(x) = s}}
          = Over(X, f, E)
    <3>1. ASSUME NEW x
          PROVE  x \in UNION {{<<r, i>> : i \in 1..image[r]} : r \in {y \in D : Stored(y) = s}}
                 <=> \E r \in D : Stored(r) = s /\ \E i \in 1..image[r] : x = <<r, i>>
      OBVIOUS
    <3>2. ASSUME NEW x \in X, NEW r, NEW i, x = <<r, i>> PROVE f[x] = r
      BY <3>2
    <3>3. \A r \in D : r \in E <=> Stored(r) = s
      BY DEF StoredAs
    <3>. HIDE DEF E, D, f, X
    <3>. QED  BY <1>2, <3>1, <3>2, <3>3 DEF Over
  <2>7. ImageTimes(s) = Cardinality(Over(X, f, E))
    BY <2>6 DEF ImageTimes
  <2>. HIDE DEF X, f, E, D
  <2>8. Cardinality(Over(X, f, E)) = Cardinality(Over(DOMAIN q, q, E))
    BY <2>2, <2>4, <2>5, SameFibres
  <2>. QED  BY <2>7, <2>8 DEF CountIn, E

\* Rows in different places have different storage keys: what they are stored
\* as is a set, every row of it once.
LEMMA OnePlace ==
  ASSUME NEW q \in Seq(Row), NEW s,
         \A i, j \in DOMAIN q : StorageKey(q[i]) = StorageKey(q[j]) => i = j
  PROVE  CountIn(q, StoredAs(s)) = Times(s, {Stored(r) : r \in ToSet(q)})
<1>. DEFINE E == StoredAs(s)
            O == Over(DOMAIN q, q, E)
            T == {Stored(r) : r \in ToSet(q)}
<1>1. \A i \in DOMAIN q : q[i] \in Row /\ (q[i] \in E <=> Stored(q[i]) = s)
  BY DEF StoredAs
<1>2. \A i \in DOMAIN q : StorageKey(Stored(q[i])) = StorageKey(q[i])
  BY <1>1, StoredFacts
<1>3. CASE s \in T
  <2>1. PICK i \in DOMAIN q : Stored(q[i]) = s
    BY <1>3 DEF ToSet
  <2>2. \A j \in DOMAIN q : Stored(q[j]) = s => j = i
    BY <1>2, <2>1
  <2>. HIDE DEF E
  <2>3. O = {i}
    BY <1>1, <2>1, <2>2 DEF Over
  <2>4. Cardinality({i}) = 1
    BY FS_Singleton
  <2>. QED  BY <1>3, <2>3, <2>4 DEF CountIn, Times, E
<1>4. CASE s \notin T
  <2>1. \A i \in DOMAIN q : Stored(q[i]) # s
    BY <1>4 DEF ToSet
  <2>. HIDE DEF E
  <2>2. O = {}
    BY <1>1, <2>1 DEF Over
  <2>. QED  BY <1>4, <2>2, FS_EmptySet DEF CountIn, Times, E
<1>. QED  BY <1>3, <1>4

LEMMA BaseOnce ==
  ASSUME SnapshotInv, ~keyless => \A r \in snapshot : r.id = 0, NEW s
  PROVE  CountIn(Base, StoredAs(s)) = Times(s, snapshot)
<1>. DEFINE q == Base
<1>1. q \in Seq(Row) /\ KeyOrdered(q) /\ \A e : Count(q, e) = Here(e)
  BY BaseFacts, BaseCount
<1>. HIDE DEF q
<1>2. ASSUME NEW i \in DOMAIN q, NEW j \in DOMAIN q, StorageKey(q[i]) = StorageKey(q[j])
      PROVE  i = j
  <2>1. i \in Nat /\ j \in Nat /\ q[i] \in Row /\ q[j] \in Row
    BY <1>1
  <2>2. StorageKey(q[i]) \in Nat /\ StorageKey(q[j]) \in Nat
    BY <2>1, KeyType
  <2>3. /\ i < j => StorageKey(q[i]) < StorageKey(q[j])
        /\ j < i => StorageKey(q[j]) < StorageKey(q[i])
    BY <1>1 DEF KeyOrdered
  <2>. QED  BY <1>2, <2>1, <2>2, <2>3
<1>3. ToSet(q) = snapshot
  <2>1. ASSUME NEW e PROVE e \in ToSet(q) <=> Count(q, e) > 0
    <3>1. e \in ToSet(q) <=> PlacesOf(q, e) # {}
      BY DEF ToSet, PlacesOf
    <3>. QED  BY <1>1, <3>1, CountType
  <2>2. ASSUME NEW e PROVE Here(e) > 0 <=> e \in snapshot
    BY DEF Here
  <2>. QED  BY <1>1, <2>1, <2>2
<1>4. \A r \in snapshot : Stored(r) = r
  BY DEF SnapshotInv, Row, Stored
<1>5. {Stored(r) : r \in ToSet(q)} = snapshot
  BY <1>3, <1>4
<1>6. CountIn(q, StoredAs(s)) = Times(s, {Stored(r) : r \in ToSet(q)})
  BY <1>1, <1>2, OnePlace
<1>. QED  BY <1>5, <1>6 DEF q

\* A batch that is not refused puts and removes what the statements have added
\* to the snapshot and taken from it.
LEMMA BatchChanges ==
  ASSUME SnapshotInv, ~keyless => \A r \in snapshot : r.id = 0,
         NEW p \in Pending, ~Refused(p), Matches(p, image), BagToSet(image) \subseteq Row,
         NEW s
  PROVE  Times(s, BatchOf(p).puts) - Times(s, BatchOf(p).removed)
           = ImageTimes(s) - Times(s, snapshot)
<1>. DEFINE E == StoredAs(s)
            S == Scan(p)
            D == Base
            B == Befores(p)
            A == Afters(p)
<1>1. S \in Seq(Row) /\ D \in Seq(Row) /\ B \in Seq(Row) /\ A \in Seq(Row)
  BY ScanType, BaseFacts, BeforesFacts, AftersFacts
<1>2. /\ Balanced(p) /\ IsABag(image)
      /\ \A e : Copies(e, image) = Net(p, e) /\ Count(S, e) = Net(p, e) /\ Count(D, e) = Here(e)
  BY ScanCount, BaseCount DEF Matches
<1>3. ASSUME NEW e PROVE Count(B, e) = Taken(p, e) /\ Count(A, e) = Made(p, e)
  <2>1. /\ p.rows \in Seq(Row) /\ p.deletes \in Seq(Row) /\ p.updates \in Seq(Mutation)
    BY DEF Pending
  <2>2. BeforesOf(p.updates) \in Seq(Row) /\ AftersOf(p.updates) \in Seq(Row)
    BY <2>1, ProjectionType
  <2>3. B = BeforesOf(p.updates) \o p.deletes /\ A = AftersOf(p.updates) \o p.rows
    BY DEF Befores, Afters, BeforesOf, AftersOf
  <2>. HIDE DEF A, B
  <2>. QED  BY <2>1, <2>2, <2>3, CountConcat DEF Taken, Made
<1>4. /\ IsInjective([i \in DOMAIN B |-> StorageKey(B[i])])
      /\ ~DuplicateInBatch(A)
  BY DEF Refused
<1>5. /\ \A i, j \in DOMAIN B : StorageKey(B[i]) = StorageKey(B[j]) => i = j
      /\ \A i, j \in DOMAIN A : StorageKey(A[i]) = StorageKey(A[j]) => i = j
  <2>. HIDE DEF A, B
  <2>. QED  BY <1>4 DEF IsInjective, DuplicateInBatch
<1>6. /\ BatchOf(p).puts = {Stored(r) : r \in ToSet(A)}
      /\ BatchOf(p).removed = {Stored(r) : r \in ToSet(B)}
  BY DEF BatchOf
<1>7. CountIn(D, E) = Times(s, snapshot)
  BY BaseOnce
<1>. HIDE DEF A, B, S, D
<1>8. CountIn(A, E) = Times(s, BatchOf(p).puts) /\ CountIn(B, E) = Times(s, BatchOf(p).removed)
  BY <1>1, <1>5, <1>6, OnePlace
<1>9. CountIn(S, E) = ImageTimes(s)
  <2>1. \A e : Copies(e, image) = Count(S, e)
    BY <1>2
  <2>. QED  BY <1>1, <1>2, <2>1, ImageTimesScan
<1>. HIDE DEF E
<1>10. ASSUME NEW e PROVE Count(S \o B, e) = Count(D \o A, e)
  <2>1. Count(S \o B, e) = Count(S, e) + Count(B, e) /\ Count(D \o A, e) = Count(D, e) + Count(A, e)
    BY <1>1, CountConcat
  <2>2. Here(e) \in Int /\ Taken(p, e) \in Int /\ Made(p, e) \in Int
    BY NetType
  <2>3. Count(S, e) = Here(e) - Taken(p, e) + Made(p, e) /\ Count(D, e) = Here(e)
    BY <1>2 DEF Net
  <2>. QED  BY <1>3, <2>1, <2>2, <2>3
<1>11. S \o B \in Seq(Row) /\ D \o A \in Seq(Row)
  BY <1>1
<1>12. CountIn(S \o B, E) = CountIn(D \o A, E)
  BY <1>10, <1>11, SameCountsIn
<1>13. /\ CountIn(S \o B, E) = CountIn(S, E) + CountIn(B, E)
       /\ CountIn(D \o A, E) = CountIn(D, E) + CountIn(A, E)
       /\ CountIn(S, E) \in Nat /\ CountIn(B, E) \in Nat
       /\ CountIn(D, E) \in Nat /\ CountIn(A, E) \in Nat
  BY <1>1, CountInConcat
<1>14. CountIn(A, E) - CountIn(B, E) = CountIn(S, E) - CountIn(D, E)
  <2>. DEFINE a == CountIn(A, E)
              b == CountIn(B, E)
              c == CountIn(S, E)
              d == CountIn(D, E)
  <2>1. c + b = d + a
    BY <1>12, <1>13
  <2>2. a \in Nat /\ b \in Nat /\ c \in Nat /\ d \in Nat
    BY <1>13
  <2>. HIDE DEF a, b, c, d
  <2>3. a - b = c - d
    BY <2>1, <2>2
  <2>. QED  BY <2>3 DEF a, b, c, d
<1>15. CountIn(A, E) - CountIn(B, E)
         = Times(s, BatchOf(p).puts) - Times(s, BatchOf(p).removed)
  BY <1>8
<1>16. CountIn(S, E) - CountIn(D, E) = ImageTimes(s) - Times(s, snapshot)
  BY <1>7, <1>9
<1>. QED  BY <1>14, <1>15, <1>16

\* Writing a batch whose removed rows are stored and whose puts are free changes
\* the table by exactly these rows.
LEMMA WriteChanges ==
  ASSUME NEW R, NEW P, table \subseteq Row, KeysDiffer(table), R \subseteq table,
         \A r \in P : ~Occupied(r, R), WriteBatch(R, P), NEW s
  PROVE  Times(s, table') - Times(s, table) = Times(s, P) - Times(s, R)
<1>1. table' = {r \in table : StorageKey(r) \notin {StorageKey(x) : x \in R \cup P}} \cup P
  BY DEF WriteBatch
<1>2. ASSUME NEW r \in table, NEW x \in P, StorageKey(r) = StorageKey(x) PROVE r \in R
  <2>1. PICK y \in R : StorageKey(y) = StorageKey(x)
    BY <1>2 DEF Occupied
  <2>. QED  BY <1>2, <2>1 DEF KeysDiffer
<1>3. ASSUME NEW r \in table, NEW x \in R, StorageKey(r) = StorageKey(x) PROVE r \in R
  BY <1>3 DEF KeysDiffer
<1>4. table' = (table \ R) \cup P
  BY <1>1, <1>2, <1>3
<1>5. s \in P /\ s \in table => s \in R
  BY <1>2
<1>. QED  BY <1>4, <1>5 DEF Times


\* The snapshot is a table as it was stored, and the batch of a prepared commit
\* holds what the statements have changed in it.
PublishInv ==
  /\ ~keyless => \A r \in snapshot : r.id = 0
  /\ phase = "prepared" =>
       \A s : Times(s, batch.puts) - Times(s, batch.removed)
                = ImageTimes(s) - Times(s, snapshot)

\* A step of the open transaction that prepares nothing.
LEMMA PublishStatement ==
  ASSUME PublishInv, Statement
  PROVE  PublishInv'
BY DEF PublishInv, Statement, dbVars

LEMMA PublishRest ==
  ASSUME Rest
  PROVE  PublishInv'
BY DEF PublishInv, Rest

\* A step that leaves snapshot, image and batch alone.
LEMMA PublishAlone ==
  ASSUME PublishInv, phase' = phase, keyless' = keyless, snapshot' = snapshot,
         image' = image, batch' = batch
  PROVE  PublishInv'
BY DEF PublishInv, ImageTimes, Stored, Times

LEMMA PublishPrepare ==
  ASSUME IInv, PublishInv, CommitPrepare
  PROVE  PublishInv'
<1>1. /\ phase = "active" /\ ~Refused(pend) /\ batch' = BatchOf(pend)
      /\ snapshot' = snapshot /\ image' = image /\ keyless' = keyless
  BY DEF CommitPrepare, dbVars
<1>2. /\ SnapshotInv /\ pend \in Pending /\ Matches(pend, image)
      /\ BagToSet(image) \subseteq Row /\ (~keyless => \A r \in snapshot : r.id = 0)
  BY <1>1 DEF IInv, TypeOK, StatementInv, PublishInv
<1>3. \A s : Times(s, BatchOf(pend).puts) - Times(s, BatchOf(pend).removed)
               = ImageTimes(s) - Times(s, snapshot)
  BY <1>1, <1>2, BatchChanges
<1>4. \A s : ImageTimes(s)' = ImageTimes(s)
  BY <1>1 DEF ImageTimes, Stored
<1>5. \A s : Times(s, batch'.puts) - Times(s, batch'.removed)
               = ImageTimes(s)' - Times(s, snapshot')
  BY <1>1, <1>3, <1>4
<1>. QED  BY <1>1, <1>2, <1>5 DEF PublishInv, Times

LEMMA NextPublish ==
  ASSUME IInv, PublishInv, [Next]_vars
  PROVE  PublishInv'
<1>1. CASE Begin
  BY <1>1 DEF Begin, PublishInv, IInv, TypeOK, dbVars
<1>2. CASE \/ \E k \in Keys, v \in Vals : Insert(k, v)
           \/ \E K \in Predicates, v \in Vals : UpdateVal(K, v)
           \/ \E K \in Predicates : UpdateKey(K)
           \/ \E K \in Predicates : Delete(K)
           \/ \E k \in Keys, v \in Vals : UpdatePoint(k, v)
           \/ \E k \in Keys : DeletePoint(k)
           \/ \E k \in Keys, v \in Vals : Upsert(k, v)
  <2>1. Statement
    BY <1>2 DEF Insert, UpdateVal, UpdateKey, Delete, UpdatePoint, DeletePoint, Upsert
  <2>. QED  BY <2>1, PublishStatement
<1>3. CASE Rollback \/ CommitRefused \/ CommitWrite \/ CommitFail
  BY <1>3, PublishRest DEF Rollback, CommitRefused, CommitWrite, CommitFail
<1>4. CASE CommitPrepare
  BY <1>4, PublishPrepare
<1>5. CASE \/ \E k \in Keys, v \in Vals : AutoInsert(k, v)
           \/ \E K \in Predicates, v \in Vals :
                AutoUpdate(Matching(K), {SetVal(r, v) : r \in Matching(K)})
           \/ \E K \in Predicates :
                AutoUpdate(Matching(K), {NextKey(r) : r \in Matching(K)})
           \/ \E K \in Predicates : AutoDelete(K)
  <2>1. Autocommit
    BY <1>5 DEF AutoInsert, AutoUpdate, AutoDelete
  <2>. QED  BY <2>1, PublishAlone DEF Autocommit
<1>6. CASE Terminated \/ UNCHANGED vars
  BY <1>6, PublishAlone DEF Terminated, vars, dbVars
<1>. QED  BY <1>1, <1>2, <1>3, <1>4, <1>5, <1>6 DEF Next


-----------------------------------------------------------------------------
(***************************************************************************)
(* The theorems.                                                           *)
(***************************************************************************)

\* The pending table, the batch and the stored rows keep their shape: among
\* others an update merged into another keeps the id of its row (updateRows)
\* and no commit stores an id in a primary-key table.
THEOREM PendingTypeCorrect == Spec => []TypeOK
<1>1. IInv => TypeOK
  BY DEF IInv
<1>. QED  BY <1>1, InvAlways, PTL

\* scanRows returns exactly what the statements of the transaction have made
\* of its snapshot, for any table and any number of statements: merging a
\* mutation into the pending insert or update that produced its row loses,
\* duplicates and resurrects nothing.
THEOREM ScanAlwaysImage == Spec => []ScanIsImage
<1>1. IInv => ScanIsImage
  <2>. SUFFICES ASSUME IInv, phase = "active" PROVE BagOf(Scan(pend)) = image
    BY DEF ScanIsImage
  <2>1. pend \in Pending /\ SnapshotInv /\ Matches(pend, image)
    BY DEF IInv, TypeOK, StatementInv
  <2>2. Balanced(pend) /\ IsABag(image) /\ \A e : Copies(e, image) = Net(pend, e)
    BY <2>1 DEF Matches
  <2>. DEFINE s == Scan(pend)
  <2>3. s \in Seq(Row) /\ \A e : Count(s, e) = Net(pend, e)
    BY <2>1, <2>2, ScanType, ScanCount
  <2>. HIDE DEF s
  <2>4. IsABag(BagOf(s)) /\ \A e : Copies(e, BagOf(s)) = Count(s, e)
    BY <2>3, BagOfFacts
  <2>5. \A e : Copies(e, BagOf(s)) = Copies(e, image)
    BY <2>2, <2>3, <2>4
  <2>6. BagOf(s) = image
    BY <2>2, <2>4, <2>5, SameCopies
  <2>. QED  BY <2>6 DEF s
<1>. QED  BY <1>1, InvAlways, PTL

\* getRowByKey never returns a row the transaction does not see, nor one under
\* another key: no deleted row and no stale before-image, whatever chain of
\* updates and key moves the pending table holds.
THEOREM PointReadAlwaysSound == Spec => []PointReadSound
<1>1. IInv => PointReadSound
  <2>. SUFFICES ASSUME IInv, phase = "active", ~keyless, NEW k \in Keys,
                       NEW r \in ToSet(PointRead(pend, k))
                PROVE  r.key = k /\ BagIn(r, image)
    BY DEF PointReadSound
  <2>1. pend \in Pending /\ SnapshotInv /\ Matches(pend, image)
    BY DEF IInv, TypeOK, StatementInv
  <2>2. Balanced(pend) /\ IsABag(image) /\ \A e : Copies(e, image) = Net(pend, e)
    BY <2>1 DEF Matches
  <2>3. PICK x \in Row : PointRead(pend, k) = <<x>>
    <3>1. PointRead(pend, k) # <<>>
      <4>. SUFFICES ASSUME PointRead(pend, k) = <<>> PROVE FALSE
        OBVIOUS
      <4>1. r \in ToSet(<<>>)
        OBVIOUS
      <4>. QED  BY <4>1 DEF ToSet
    <3>. QED  BY <2>1, <3>1, PointReadType DEF SnapshotInv
  <2>4. r = x
    <3>1. r \in ToSet(<<x>>)
      BY <2>3
    <3>. QED  BY <3>1 DEF ToSet
  <2>5. Net(pend, x) >= 1 /\ StorageKey(x) = k
    BY <2>1, <2>2, <2>3, PointReadNet
  <2>6. x.key = k
    BY <2>5 DEF StorageKey
  <2>7. Copies(x, image) > 0
    <3>1. Copies(x, image) = Net(pend, x) /\ Net(pend, x) \in Int
      BY <2>1, <2>2, NetType
    <3>. QED  BY <2>5, <3>1
  <2>8. BagIn(x, image)
    BY <2>2, <2>7, CopiesFacts DEF BagIn, BagToSet
  <2>. QED  BY <2>4, <2>6, <2>8
<1>. QED  BY <1>1, InvAlways, PTL

\* Commits and autocommit writes leave every storage key to one row and the
\* UNIQUE records exactly those of the stored rows, no UNIQUE value twice,
\* unless a write fell between the checks of a commit and its physical write
\* (appendPendingMutationsAtomic, buildRowRecords).
THEOREM RecordsAlwaysMatch == Spec => []RecordsMatchRows
<1>1. IInv => RecordsMatchRows
  BY DEF IInv, RecordsMatchRows, TableInv, KeysDiffer, RecordsInv, Records
<1>. QED  BY <1>1, InvAlways, PTL

\* Under the same condition no stored row of a keyless table has an id the
\* catalog's counter has still to give.
THEOREM RowIdsStayFresh == Spec => []RowIdsFresh
<1>1. IInv => RowIdsFresh
  BY DEF IInv
<1>. QED  BY <1>1, InvAlways, PTL

\* "lite keyless row-id allocation changed while transaction was active" is
\* only true of a transaction that met another session's write, or that has
\* deleted one of its own inserts.
THEOREM RowIdsMovedOnlyByOthers == Spec => []RowIdsMovedByOthers
<1>1. IInv => RowIdsMovedByOthers
  <2>. SUFFICES ASSUME IInv, phase = "active", RowIdsMoved(pend), ~(autos > 0),
                       ~(Len(pend.rows) < pend.nextRowId - nextRowId)
                PROVE  FALSE
    BY DEF RowIdsMovedByOthers
  <2>. DEFINE s == pend.rows
              n == Len(s)
              N == pend.nextRowId
  <2>1. pend \in Pending /\ nextRowId \in Nat /\ autos \in Nat
    BY DEF IInv, TypeOK
  <2>2. pend = NoPending \/ Gap(pend)
    <3>1. autos = 0
      BY <2>1
    <3>. QED  BY <3>1 DEF IInv, StatementInv
  <2>3. /\ s \in Seq(Row) /\ n \in Nat /\ N \in Nat /\ DOMAIN s = 1..n
        /\ \A i \in 1..n : s[i].id \in Nat
    BY <2>1, RowsType
  <2>4. PICK i \in 1..n : s[i].id # nextRowId + i - 1
    BY <2>3 DEF RowIdsMoved
  <2>5. CASE pend = NoPending
    <3>1. n = 0
      BY <2>5 DEF NoPending
    <3>. QED  BY <2>4, <3>1
  <2>6. CASE Gap(pend)
    <3>1. N >= nextRowId + n /\ s[i].id >= nextRowId + i - 1 /\ s[i].id < N - n + i
      BY <2>4, <2>6 DEF Gap
    <3>2. ~(n < N - nextRowId) /\ s[i].id \in Nat
      BY <2>3, <2>4
    <3>. HIDE DEF n, N, s
    <3>. QED  BY <2>1, <2>3, <2>4, <3>1, <3>2
  <2>. QED  BY <2>2, <2>5, <2>6
<1>. QED  BY <1>1, InvAlways, PTL

\* A commit that no autocommit write has overtaken changes the table by what the
\* statements of the transaction have changed in its snapshot, row by row and
\* copy by copy, whatever other sessions have written since the snapshot was
\* taken (appendPendingMutationsAtomic).
THEOREM CommitAlwaysPublishes == Spec => CommitPublishesImage
<1>. DEFINE Both == IInv /\ PublishInv
            Publishes == CommitWrite /\ ~raced =>
                           \A s \in table \cup table' \cup snapshot
                                     \cup {Stored(r) : r \in BagToSet(image)} :
                             Times(s, table') - Times(s, table)
                               = ImageTimes(s) - Times(s, snapshot)
<1>1. Init => Both
  BY InitInv DEF Init, PublishInv
<1>2. Both /\ [Next]_vars => Both'
  BY NextInv, NextPublish
<1>3. Both => Publishes
  <2>. SUFFICES ASSUME Both, CommitWrite, ~raced, NEW s
                PROVE  Times(s, table') - Times(s, table) = ImageTimes(s) - Times(s, snapshot)
    OBVIOUS
  <2>1. phase = "prepared" /\ WriteBatch(batch.removed, batch.puts)
    BY DEF CommitWrite
  <2>2. /\ table \subseteq Row /\ KeysDiffer(table) /\ batch.removed \subseteq table
        /\ \A r \in batch.puts : ~Occupied(r, batch.removed)
    BY <2>1 DEF IInv, TypeOK, TableInv, PreparedInv
  <2>3. Times(s, table') - Times(s, table) = Times(s, batch.puts) - Times(s, batch.removed)
    BY <2>1, <2>2, WriteChanges
  <2>4. Times(s, batch.puts) - Times(s, batch.removed) = ImageTimes(s) - Times(s, snapshot)
    BY <2>1 DEF PublishInv
  <2>. QED  BY <2>3, <2>4
<1>4. Both /\ [Next]_vars => [Publishes]_vars
  BY <1>3
<1>5. CommitPublishesImage <=> [][Publishes]_vars
  BY DEF CommitPublishesImage
<1>. HIDE DEF Both, Publishes
<1>. QED  BY <1>1, <1>2, <1>4, <1>5, PTL DEF Spec
=============================================================================
