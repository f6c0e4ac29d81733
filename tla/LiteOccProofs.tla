--------------------------- MODULE LiteOccProofs ---------------------------
(***************************************************************************)
(* Proofs about LiteOcc, for every set of contexts, objects and choices    *)
(* and every bound.                                                        *)
(***************************************************************************)
EXTENDS LiteOcc, LiteFacts, FiniteSetTheorems, TLAPS

(***************************************************************************)
(* The one candidate per read that readWriteConflict looks at (the DDL     *)
(* marker, else lower_bound) decides whether any write intersects it.      *)
(***************************************************************************)
THEOREM ReadWriteConflictExact ==
  ASSUME NEW rs \in SUBSET ReadRange, NEW ws \in SUBSET WriteKey
  PROVE  ReadWriteConflict(rs, ws) <=> Overlap(rs, ws)
<1>. USE MaxKeyAssumption DEF Key
<1>1. ASSUME ReadWriteConflict(rs, ws) PROVE Overlap(rs, ws)
  <2>1. PICK r \in rs : \/ <<r.obj, 0>> \in ws
                       \/ \E w \in LowerBound(r, ws) :
                            \/ r.full
                            \/ r.lo = r.hi /\ w[2] = r.lo
                            \/ r.lo # r.hi /\ (r.hi = 0 \/ w[2] < r.hi)
    BY <1>1 DEF ReadWriteConflict
  <2>2. CASE <<r.obj, 0>> \in ws
    BY <2>2 DEF Overlap, Intersects
  <2>3. CASE \E w \in LowerBound(r, ws) :
               \/ r.full
               \/ r.lo = r.hi /\ w[2] = r.lo
               \/ r.lo # r.hi /\ (r.hi = 0 \/ w[2] < r.hi)
    <3>1. PICK w \in ws : /\ w[1] = r.obj
                          /\ w[2] >= IF r.full THEN 0 ELSE r.lo
                          /\ \/ r.full
                             \/ r.lo = r.hi /\ w[2] = r.lo
                             \/ r.lo # r.hi /\ (r.hi = 0 \/ w[2] < r.hi)
      BY <2>3 DEF LowerBound
    <3>2. Intersects(r, w)
      BY <3>1 DEF Intersects
    <3>. QED  BY <3>2 DEF Overlap
  <2>. QED  BY <2>1, <2>2, <2>3
<1>2. ASSUME Overlap(rs, ws) PROVE ReadWriteConflict(rs, ws)
  <2>1. PICK r \in rs, w \in ws : Intersects(r, w)
    BY <1>2 DEF Overlap
  <2>. DEFINE from == IF r.full THEN 0 ELSE r.lo
  <2>2. r.lo \in Nat /\ r.hi \in Nat /\ r.full \in BOOLEAN /\ from \in Nat
    BY DEF ReadRange
  <2>3. w \in Objects \X Nat
    BY DEF WriteKey
  <2>4. CASE w[2] = 0
    <3>1. w = <<r.obj, 0>>
      BY <2>1, <2>3, <2>4 DEF Intersects
    <3>. QED  BY <3>1 DEF ReadWriteConflict
  <2>5. CASE w[2] # 0
    <3>. DEFINE S == {n \in Nat : \E v \in ws : v[1] = r.obj /\ v[2] = n /\ n >= from}
    <3>1. w[1] = r.obj /\ w[2] \in S
      BY <2>1, <2>2, <2>3, <2>5 DEF Intersects
    <3>2. PICK m \in S : \A n \in S : m <= n
      <4>1. S \in SUBSET Nat /\ S # {}
        BY <3>1
      <4>. HIDE DEF S
      <4>. QED  BY <4>1, LeastExists
    <3>3. PICK v \in ws : v[1] = r.obj /\ v[2] = m /\ m >= from
      OBVIOUS
    <3>4. \A u \in ws : u[1] = r.obj /\ u[2] >= from => v[2] <= u[2]
      <4>1. \A u \in ws : u[2] \in Nat
        BY DEF WriteKey
      <4>. QED  BY <3>2, <3>3, <4>1
    <3>5. v \in LowerBound(r, ws)
      BY <3>3, <3>4 DEF LowerBound
    <3>6. m <= w[2]
      BY <3>1, <3>2
    <3>7. \/ r.full
          \/ r.lo = r.hi /\ v[2] = r.lo
          \/ r.lo # r.hi /\ (r.hi = 0 \/ v[2] < r.hi)
      BY <2>1, <2>2, <2>3, <2>5, <3>3, <3>6 DEF Intersects
    <3>. QED  BY <3>5, <3>7 DEF ReadWriteConflict
  <2>. QED  BY <2>4, <2>5
<1>. QED  BY <1>1, <1>2

-----------------------------------------------------------------------------
\* A history, index and overflow sequence that are well formed and not ahead
\* of the database.
CoordinatorOK(h, ix, ov) ==
  /\ h \in Seq(CommittedWriteSet)
  /\ \A i \in DOMAIN h : h[i].seq <= Len(log)
  /\ ix \in SUBSET CommittedWriteRef
  /\ ov \in Nat /\ ov <= Len(log)

\* Replacing ix and ov by ix2 and ov2 hides no write from a context of act.
Keeps(act, ix, ov, ix2, ov2) ==
  /\ \A c \in act : ov > start[c] => ov2 > start[c]
  /\ \A c \in act, ref \in ix :
       ref.seq > start[c] => ref \in ix2 \/ ov2 > start[c]

(***************************************************************************)
(* What collect() keeps: the history stays well formed, and a reference    *)
(* that a registered transaction still needs stays in the index unless the *)
(* overflow sequence rises above that transaction's start.                 *)
(***************************************************************************)
LEMMA CollectOK ==
  ASSUME start \in [Contexts -> Nat], Len(log) \in Nat,
         NEW act \in SUBSET Contexts, NEW h, NEW ix, NEW ov,
         CoordinatorOK(h, ix, ov), NEW r, r = Collect(h, ix, ov, act)
  PROVE  /\ CoordinatorOK(r.history, r.index, r.overflow)
         /\ Keeps(act, ix, ov, r.index, r.overflow)
<1>. DEFINE n == Len(log)
<1>0. /\ h \in Seq(CommittedWriteSet) /\ ix \in SUBSET CommittedWriteRef
      /\ n \in Nat /\ ov \in Nat /\ ov <= n
      /\ \A i \in DOMAIN h : h[i].seq <= n
  BY DEF CoordinatorOK
<1>. HIDE DEF n
<1>. DEFINE over    == Overflowed(h, act)
            dropped == Expired(h, act) \cup over
            seqs    == {ov} \cup {h[i].seq : i \in over}
            k       == Cardinality(dropped)
<1>1. over \subseteq DOMAIN h /\ dropped \subseteq DOMAIN h
  BY DEF Overflowed, Expired
<1>2. DOMAIN h = 1..Len(h) /\ Len(h) \in Nat
  BY <1>0
<1>3. \A i \in DOMAIN h : h[i] \in CommittedWriteSet /\ h[i].seq \in Nat
  <2>1. \A i \in DOMAIN h : h[i] \in CommittedWriteSet
    BY <1>0
  <2>2. \A e \in CommittedWriteSet : e.seq \in Nat
    BY DEF CommittedWriteSet
  <2>. QED  BY <2>1, <2>2
<1>4. k \in Nat
  <2>1. IsFiniteSet(1..Len(h))
    <3>1. 1 \in Int /\ Len(h) \in Int
      BY <1>2
    <3>. QED  BY <3>1, FS_Interval
  <2>2. IsFiniteSet(dropped)
    BY <1>1, <1>2, <2>1, FS_Subset
  <2>. QED  BY <2>2, FS_CardinalityType
<1>5. Max(seqs) \in seqs /\ \A x \in seqs : x <= Max(seqs)
  <2>1. seqs \in SUBSET Nat /\ seqs # {} /\ \A x \in seqs : x <= n
    BY <1>0, <1>1, <1>3
  <2>. HIDE DEF seqs
  <2>. QED  BY <1>0, <2>1, MaxIsGreatest
<1>6. Max(seqs) \in Nat /\ Max(seqs) <= n /\ Max(seqs) >= ov
      /\ \A i \in over : Max(seqs) >= h[i].seq
  <2>1. seqs \in SUBSET Nat /\ \A x \in seqs : x <= n
    BY <1>0, <1>1, <1>3
  <2>2. ov \in seqs /\ \A i \in over : h[i].seq \in seqs
    OBVIOUS
  <2>. HIDE DEF seqs
  <2>. QED  BY <1>0, <1>5, <2>1, <2>2
<1>7. /\ r.history = SubSeq(h, k + 1, Len(h))
      /\ r.index = {ref \in ix : \A i \in dropped : ref.seq # h[i].seq}
      /\ r.overflow = IF act = {} THEN 0 ELSE Max(seqs)
  BY DEF Collect
<1>. HIDE DEF seqs, k
<1>8. r.history \in Seq(CommittedWriteSet)
      /\ \A i \in DOMAIN r.history : r.history[i].seq <= n
  <2>1. \A i \in (k + 1)..Len(h) : i \in DOMAIN h
    BY <1>2, <1>4
  <2>2. /\ SubSeq(h, k + 1, Len(h)) \in Seq(CommittedWriteSet)
        /\ \A i \in DOMAIN SubSeq(h, k + 1, Len(h)) :
              /\ SubSeq(h, k + 1, Len(h))[i] = h[k + i]
              /\ k + i \in DOMAIN h
    BY <1>0, <1>2, <1>3, <1>4, <2>1
  <2>. QED  BY <1>0, <1>7, <2>2
<1>9. r.index \subseteq ix
  BY <1>7
<1>10. r.overflow \in Nat /\ r.overflow <= n
       /\ \A c \in act : ov > start[c] => r.overflow > start[c]
  BY <1>0, <1>6, <1>7
<1>11. ASSUME NEW c \in act, NEW ref \in ix, ref.seq > start[c], ref \notin r.index
       PROVE  r.overflow > start[c]
  <2>1. PICK i \in dropped : ref.seq = h[i].seq
    BY <1>7, <1>11
  <2>2. i \in over
    <3>1. i \in Expired(h, act) => h[i].seq <= start[c]
      BY <1>1, <1>2 DEF Expired
    <3>2. h[i].seq \in Nat /\ start[c] \in Nat
      BY <1>0, <1>1, <1>3
    <3>. QED  BY <1>11, <2>1, <3>1, <3>2
  <2>3. Max(seqs) >= h[i].seq /\ h[i].seq \in Nat /\ start[c] \in Nat
    BY <1>1, <1>3, <1>6, <2>2
  <2>. QED  BY <1>6, <1>7, <1>11, <2>1, <2>3
<1>. QED  BY <1>0, <1>8, <1>9, <1>10, <1>11 DEF CoordinatorOK, Keeps, n

\* What publish() does for the transactions that are registered.
LEMMA PublishedOK ==
  ASSUME start \in [Contexts -> Nat], Len(log) \in Nat,
         active \in SUBSET Contexts,
         CoordinatorOK(history, index, overflow),
         NEW owner \in Contexts \cup {NoOne}, NEW ws \in SUBSET WriteKey,
         NEW r, r = Published(owner, Len(log), ws)
  PROVE  /\ CoordinatorOK(r.history, r.index, r.overflow)
         /\ Keeps(active, index, overflow, r.index, r.overflow)
         /\ \A c \in active, w \in ws : start[c] < Len(log) =>
              \/ [owner |-> owner, seq |-> Len(log), key |-> w] \in r.index
              \/ r.overflow > start[c]
<1>1. CASE ws = {}
  BY <1>1 DEF Published, Keeps
<1>2. CASE ws # {}
  <2>. DEFINE set == [owner |-> owner, seq |-> Len(log), writes |-> ws]
              refs == {[owner |-> owner, seq |-> Len(log), key |-> w] : w \in ws}
              h == Append(history, set)
              ix == index \cup refs
  <2>1. set \in CommittedWriteSet /\ set.seq = Len(log)
    BY DEF CommittedWriteSet
  <2>2. refs \subseteq CommittedWriteRef
    BY DEF CommittedWriteRef
  <2>3. CoordinatorOK(h, ix, overflow)
    <3>1. history \in Seq(CommittedWriteSet) /\ index \subseteq CommittedWriteRef
          /\ \A i \in DOMAIN history : history[i].seq <= Len(log)
          /\ overflow \in Nat /\ overflow <= Len(log)
      BY DEF CoordinatorOK
    <3>. HIDE DEF set, refs
    <3>2. h \in Seq(CommittedWriteSet)
      BY <2>1, <3>1
    <3>3. ASSUME NEW i \in DOMAIN h PROVE h[i].seq <= Len(log)
      <4>1. h[i] = set \/ (i \in DOMAIN history /\ h[i] = history[i])
        BY <2>1, <3>1
      <4>. QED  BY <2>1, <3>1, <4>1
    <3>. HIDE DEF h
    <3>. QED  BY <2>2, <3>1, <3>2, <3>3 DEF CoordinatorOK
  <2>4. r = Collect(h, ix, overflow, active)
    BY <1>2 DEF Published
  <2>. HIDE DEF h, ix
  <2>5. /\ CoordinatorOK(r.history, r.index, r.overflow)
        /\ Keeps(active, ix, overflow, r.index, r.overflow)
    BY <2>3, <2>4, CollectOK
  <2>6. Keeps(active, index, overflow, r.index, r.overflow)
    BY <2>5 DEF Keeps, ix
  <2>7. ASSUME NEW c \in active, NEW w \in ws, start[c] < Len(log)
        PROVE  \/ [owner |-> owner, seq |-> Len(log), key |-> w] \in r.index
               \/ r.overflow > start[c]
    <3>. DEFINE ref == [owner |-> owner, seq |-> Len(log), key |-> w]
    <3>1. ref \in ix /\ ref.seq = Len(log)
      BY DEF ix
    <3>2. ref.seq > start[c]
      BY <2>7, <3>1
    <3>. HIDE DEF ref
    <3>3. ref \in r.index \/ r.overflow > start[c]
      BY <2>5, <3>1, <3>2 DEF Keeps
    <3>. QED  BY <3>3 DEF ref
  <2>. QED  BY <2>5, <2>6, <2>7
<1>. QED  BY <1>1, <1>2

\* What end() does for the transactions that stay registered.
LEMMA EndOccOK ==
  ASSUME start \in [Contexts -> Nat], Len(log) \in Nat,
         active \in SUBSET Contexts, NEW c, NEW h, NEW ix, NEW ov,
         CoordinatorOK(h, ix, ov), EndOcc(c, h, ix, ov)
  PROVE  /\ active' = active \ {c}
         /\ CoordinatorOK(history', index', overflow')
         /\ Keeps(active \ {c}, ix, ov, index', overflow')
<1>. DEFINE r == Collect(h, ix, ov, active \ {c})
<1>1. /\ active' = active \ {c} /\ history' = r.history
      /\ index' = r.index /\ overflow' = r.overflow
  BY DEF EndOcc
<1>. HIDE DEF r
<1>2. CoordinatorOK(r.history, r.index, r.overflow)
      /\ Keeps(active \ {c}, ix, ov, r.index, r.overflow)
  BY CollectOK DEF r
<1>. QED  BY <1>1, <1>2

-----------------------------------------------------------------------------
(***************************************************************************)
(* Types and bounds.                                                       *)
(***************************************************************************)
LEMMA TypeInit == Init => TypeOK /\ SequencesBounded
<1>. USE ChoicesAssumption
<1>1. ASSUME Init PROVE TypeOK
  BY <1>1 DEF Init, TypeOK, Registered, HoldsIntent, Phases
<1>2. ASSUME Init PROVE SequencesBounded
  BY <1>2 DEF Init, SequencesBounded
<1>. QED  BY <1>1, <1>2

\* The parts of the type invariant the coordinator lemmas ask for.
LEMMA CoordinatorTyped ==
  ASSUME TypeOK, SequencesBounded
  PROVE  /\ start \in [Contexts -> Nat] /\ Len(log) \in Nat
         /\ active \in SUBSET Contexts
         /\ CoordinatorOK(history, index, overflow)
BY DEF TypeOK, SequencesBounded, CoordinatorOK

\* A context leaves a registered phase through end().
LEMMA EndTypeStep ==
  ASSUME TypeOK, SequencesBounded, NEW c \in Contexts,
         NEW h, NEW ix, NEW ov, CoordinatorOK(h, ix, ov), EndOcc(c, h, ix, ov),
         NEW to, \/ to = "idle" /\ pc[c] = "active"
                 \/ to = "release" /\ pc[c] \in {"validate", "publish", "failed"},
         pc' = [pc EXCEPT ![c] = to],
         UNCHANGED <<latch, txnVars, intents, ddl, log, begun>>
  PROVE  TypeOK' /\ SequencesBounded'
<1>1. /\ active' = active \ {c}
      /\ CoordinatorOK(history', index', overflow')
  BY CoordinatorTyped, EndOccOK
<1>2. TypeOK'
  BY <1>1 DEF TypeOK, CoordinatorOK, Registered, HoldsIntent, Phases, txnVars
<1>3. SequencesBounded'
  BY <1>1 DEF TypeOK, SequencesBounded, CoordinatorOK, Registered, txnVars
<1>. QED  BY <1>2, <1>3

\* The database's sequence only grows.
LEMMA BoundsGrow ==
  ASSUME TypeOK, SequencesBounded, Len(log') \in Nat, Len(log') >= Len(log),
         UNCHANGED <<txnVars, occVars>>
  PROVE  SequencesBounded'
<1>1. Len(log) \in Nat /\ active \subseteq Contexts
  BY DEF TypeOK
<1>2. \A c \in Contexts : start[c] \in Nat /\ snap[c] \in Nat
  BY DEF TypeOK
<1>3. \A i \in DOMAIN history : history[i].seq \in Nat
  <2>1. \A i \in DOMAIN history : history[i] \in CommittedWriteSet
    BY DEF TypeOK
  <2>. QED  BY <2>1 DEF CommittedWriteSet
<1>4. overflow \in Nat
  BY DEF TypeOK
<1>5. \A c \in Contexts : start[c] <= Len(log')
  BY <1>1, <1>2 DEF SequencesBounded
<1>6. \A c \in active : start[c] <= snap[c] /\ snap[c] <= Len(log')
  BY <1>1, <1>2 DEF SequencesBounded
<1>7. \A i \in DOMAIN history : history[i].seq <= Len(log')
  BY <1>1, <1>3 DEF SequencesBounded
<1>8. overflow <= Len(log')
  BY <1>1, <1>4 DEF SequencesBounded
<1>. QED  BY <1>5, <1>6, <1>7, <1>8 DEF SequencesBounded, txnVars, occVars

LEMMA TypeStep ==
  ASSUME TypeOK, SequencesBounded, [Next]_vars
  PROVE  TypeOK' /\ SequencesBounded'
<1>. USE ChoicesAssumption
<1>1. ASSUME NEW c \in Contexts, BeginSequence(c)
      PROVE  TypeOK' /\ SequencesBounded'
  BY <1>1 DEF BeginSequence, TypeOK, SequencesBounded, Registered, HoldsIntent,
              Phases, LatchFree, occVars
<1>2. ASSUME NEW c \in Contexts, BeginSnapshot(c)
      PROVE  TypeOK' /\ SequencesBounded'
  BY <1>2 DEF BeginSnapshot, TypeOK, SequencesBounded, Registered, HoldsIntent,
              Phases
<1>3. ASSUME NEW c \in Contexts, NEW r \in ReadChoices, Read(c, r)
      PROVE  TypeOK' /\ SequencesBounded'
  BY <1>3 DEF Read, TypeOK, SequencesBounded, Registered, HoldsIntent, occVars
<1>4. ASSUME NEW c \in Contexts, NEW w \in WriteChoices, Write(c, w)
      PROVE  TypeOK' /\ SequencesBounded'
  <2>1. w \in WriteKey /\ Point(w[1], w[2]) \in ReadRange
    BY DEF Point, ReadRange, WriteKey
  <2>. QED  BY <1>4, <2>1 DEF Write, TypeOK, SequencesBounded, Registered,
                              HoldsIntent, occVars
<1>5. ASSUME NEW c \in Contexts, CommitRequest(c)
      PROVE  TypeOK' /\ SequencesBounded'
  BY <1>5 DEF CommitRequest, TypeOK, SequencesBounded, Registered, HoldsIntent,
              Phases, txnVars, occVars
<1>6. ASSUME NEW c \in Contexts, AcquireIntent(c)
      PROVE  TypeOK' /\ SequencesBounded'
  BY <1>6 DEF AcquireIntent, TypeOK, SequencesBounded, Registered, HoldsIntent,
              Phases, txnVars, occVars
<1>7. ASSUME NEW c \in Contexts, Validate(c)
      PROVE  TypeOK' /\ SequencesBounded'
  BY <1>7 DEF Validate, TypeOK, SequencesBounded, Registered, HoldsIntent,
              Phases, txnVars, occVars
<1>8. ASSUME NEW c \in Contexts, Refuse(c) \/ FailEnd(c) \/ Rollback(c)
      PROVE  TypeOK' /\ SequencesBounded'
  <2>. DEFINE to == IF pc[c] = "active" THEN "idle" ELSE "release"
  <2>1. /\ EndOcc(c, history, index, overflow)
        /\ \/ to = "idle" /\ pc[c] = "active"
           \/ to = "release" /\ pc[c] \in {"validate", "publish", "failed"}
        /\ pc' = [pc EXCEPT ![c] = to]
        /\ UNCHANGED <<latch, txnVars, intents, ddl, log, begun>>
    <3>1. CASE Refuse(c)
      BY <3>1 DEF Refuse
    <3>2. CASE FailEnd(c)
      BY <3>2 DEF FailEnd
    <3>3. CASE Rollback(c)
      BY <3>3 DEF Rollback
    <3>. QED  BY <1>8, <3>1, <3>2, <3>3
  <2>2. CoordinatorOK(history, index, overflow)
    BY CoordinatorTyped
  <2>. HIDE DEF to
  <2>. QED  BY <2>1, <2>2, EndTypeStep
<1>9. ASSUME NEW c \in Contexts, PhysicalWrite(c)
      PROVE  TypeOK' /\ SequencesBounded'
  <2>1. [kind |-> "txn", owner |-> c, reads |-> reads[c],
         writes |-> writes[c], snap |-> snap[c]] \in LogEntry
    BY DEF TypeOK, LogEntry, Kinds
  <2>2. log' \in Seq(LogEntry) /\ Len(log') >= Len(log) /\ Len(log) \in Nat
        /\ Len(log') \in Nat
    BY <1>9, <2>1 DEF PhysicalWrite, TypeOK
  <2>4. TypeOK'
    BY <1>9, <2>2 DEF PhysicalWrite, TypeOK, Registered, HoldsIntent, Phases, txnVars,
                         occVars
  <2>5. SequencesBounded'
    BY <1>9, <2>2, BoundsGrow DEF PhysicalWrite
  <2>. QED  BY <2>4, <2>5
<1>10. ASSUME NEW c \in Contexts, PhysicalFail(c)
       PROVE  TypeOK' /\ SequencesBounded'
  BY <1>10 DEF PhysicalFail, TypeOK, SequencesBounded, Registered, HoldsIntent,
               Phases, txnVars, occVars
<1>11. ASSUME NEW c \in Contexts, Publish(c)
       PROVE  TypeOK' /\ SequencesBounded'
  <2>. DEFINE pub == Published(c, Len(log), writes[c])
  <2>1. EndOcc(c, pub.history, pub.index, pub.overflow) /\ writes[c] \in SUBSET WriteKey
    BY <1>11 DEF Publish, TypeOK
  <2>2. CoordinatorOK(pub.history, pub.index, pub.overflow)
    BY <2>1, CoordinatorTyped, PublishedOK
  <2>. HIDE DEF pub
  <2>. QED  BY <1>11, <2>1, <2>2, EndTypeStep DEF Publish
<1>12. ASSUME NEW c \in Contexts, ReleaseIntent(c)
       PROVE  TypeOK' /\ SequencesBounded'
  BY <1>12 DEF ReleaseIntent, TypeOK, SequencesBounded, Registered, HoldsIntent,
               Phases, txnVars, occVars
<1>13. ASSUME NEW c \in Contexts, NEW w \in WriteChoices, Autocommit(c, w)
       PROVE  TypeOK' /\ SequencesBounded'
  <2>1. [kind |-> "auto", owner |-> c, reads |-> {},
         writes |-> {w}, snap |-> Len(log)] \in LogEntry
    BY DEF TypeOK, LogEntry, Kinds
  <2>2. log' \in Seq(LogEntry) /\ Len(log') >= Len(log) /\ Len(log) \in Nat
        /\ Len(log') \in Nat
    BY <1>13, <2>1 DEF Autocommit, TypeOK
  <2>4. TypeOK'
    BY <1>13, <2>2 DEF Autocommit, TypeOK, Registered, HoldsIntent, txnVars,
                         occVars
  <2>5. SequencesBounded'
    BY <1>13, <2>2, BoundsGrow DEF Autocommit
  <2>. QED  BY <2>4, <2>5
<1>14. ASSUME NEW c \in Contexts, NEW o \in Objects, NEW owner \in {c, NoOne},
              DdlWrite(c, o, owner)
       PROVE  TypeOK' /\ SequencesBounded'
  <2>1. [kind |-> "ddl", owner |-> owner, reads |-> {},
         writes |-> {<<o, 0>>}, snap |-> Len(log)] \in LogEntry
    BY MaxKeyAssumption DEF TypeOK, LogEntry, Kinds, WriteKey, Key
  <2>2. log' \in Seq(LogEntry) /\ Len(log') >= Len(log) /\ Len(log) \in Nat
        /\ Len(log') \in Nat
    BY <1>14, <2>1 DEF DdlWrite, TypeOK
  <2>3. ddl' \in DdlStatement
    BY <1>14, <2>2 DEF DdlWrite, DdlStatement
  <2>4. TypeOK'
    BY <1>14, <2>2, <2>3 DEF DdlWrite, TypeOK, Registered, HoldsIntent, txnVars,
                         occVars
  <2>5. SequencesBounded'
    BY <1>14, <2>2, BoundsGrow DEF DdlWrite
  <2>. QED  BY <2>4, <2>5
<1>15. ASSUME DdlPublish
       PROVE  TypeOK' /\ SequencesBounded'
  <2>. DEFINE ws == {<<ddl.obj, 0>>}
              pub == Published(ddl.owner, Len(log), ws)
  <2>1. ddl.owner \in Contexts \cup {NoOne} /\ ws \in SUBSET WriteKey
    BY <1>15, MaxKeyAssumption DEF DdlPublish, TypeOK, DdlStatement, WriteKey, Key
  <2>2. history' = pub.history /\ index' = pub.index /\ overflow' = pub.overflow
    BY <1>15 DEF DdlPublish
  <2>3. CoordinatorOK(pub.history, pub.index, pub.overflow)
    <3>. HIDE DEF ws
    <3>. QED  BY <2>1, CoordinatorTyped, PublishedOK
  <2>. HIDE DEF pub
  <2>. QED  BY <1>15, <2>2, <2>3 DEF DdlPublish, TypeOK, SequencesBounded,
                  CoordinatorOK, Registered, HoldsIntent, txnVars
<1>16. CASE UNCHANGED vars
  BY <1>16 DEF vars, txnVars, occVars, TypeOK, SequencesBounded, Registered,
               HoldsIntent
<1>. QED  BY <1>1, <1>2, <1>3, <1>4, <1>5, <1>6, <1>7, <1>8, <1>9, <1>10, <1>11,
             <1>12, <1>13, <1>14, <1>15, <1>16 DEF Next, Step, Terminated

\* The state always has its type, and every sequence is within the database's.
THEOREM TypeCorrect == Spec => []TypeOK
<1>1. Init => TypeOK /\ SequencesBounded
  BY TypeInit
<1>2. TypeOK /\ SequencesBounded /\ [Next]_vars => TypeOK' /\ SequencesBounded'
  BY TypeStep
<1>. QED  BY <1>1, <1>2, PTL DEF Spec
-----------------------------------------------------------------------------
(***************************************************************************)
(* The inductive invariant, one lemma per kind of step.  Relations is the  *)
(* part of it that TypeStep does not cover.                                *)
(***************************************************************************)
Relations ==
  /\ IntentsDisjoint
  /\ HistoryComplete
  /\ BeginMissesNothing
  /\ OwnEntries
  /\ DdlEntry
  /\ ValidatedSinceStart
  /\ Serializable

LEMMA RelationsInit == Init => Relations
BY DEF Init, Relations, IntentsDisjoint, HistoryComplete, BeginMissesNothing,
       OwnEntries, DdlEntry, ValidatedSinceStart, Serializable

\* What the log looks like after one more write.
LEMMA LogAppend ==
  ASSUME TypeOK, NEW e, log' = Append(log, e)
  PROVE  /\ DOMAIN log' = DOMAIN log \cup {Len(log) + 1}
         /\ \A i \in DOMAIN log : log'[i] = log[i] /\ i \in Nat /\ i <= Len(log)
         /\ log'[Len(log) + 1] = e
         /\ Len(log) \in Nat /\ Len(log) + 1 \notin DOMAIN log
BY DEF TypeOK

\* The first half of begin: no other context is inside begin, and nothing
\* in the log is after the new start.
LEMMA BeginSequenceStep ==
  ASSUME TypeOK, SequencesBounded, Relations, NEW c \in Contexts, BeginSequence(c)
  PROVE  Relations'
<1>. USE DEF BeginSequence, TypeOK, occVars
<1>1. c \notin active /\ c \notin intents /\ \A d \in Contexts : pc[d] # "begin"
  BY ChoicesAssumption DEF Registered, HoldsIntent, LatchFree
<1>2. DOMAIN log = 1..Len(log) /\ Len(log) \in Nat
  OBVIOUS
<1>3. IntentsDisjoint'
  BY <1>1 DEF Relations, IntentsDisjoint, Overlap
<1>4. \A i \in DOMAIN log : Unpublished(i) => Unpublished(i)'
  BY <1>1 DEF Unpublished
<1>5. HistoryComplete'
  <2>. SUFFICES ASSUME NEW d \in active', NEW i \in DOMAIN log',
                       log'[i].kind # "auto", i > start'[d], log'[i].owner # d
                PROVE  Findable(d, i)'
    BY DEF HistoryComplete
  <2>1. d \in active /\ d # c /\ start'[d] = start[d]
    BY <1>1
  <2>2. Findable(d, i) => Findable(d, i)'
    BY <1>4, <2>1 DEF Findable
  <2>. QED  BY <2>1, <2>2 DEF Relations, HistoryComplete
<1>6. BeginMissesNothing'
  BY <1>1, <1>2 DEF BeginMissesNothing
<1>7. OwnEntries'
  BY <1>1, <1>2 DEF Relations, OwnEntries
<1>8. DdlEntry'
  BY DEF Relations, DdlEntry
<1>9. ValidatedSinceStart'
  BY DEF Relations, ValidatedSinceStart
<1>10. Serializable'
  BY DEF Relations, Serializable
<1>. QED  BY <1>3, <1>5, <1>6, <1>7, <1>8, <1>9, <1>10 DEF Relations

\* The second half: whatever it may have missed is still to be published.
LEMMA BeginSnapshotStep ==
  ASSUME TypeOK, SequencesBounded, Relations, NEW c \in Contexts, BeginSnapshot(c)
  PROVE  Relations'
<1>. USE DEF BeginSnapshot, TypeOK
<1>1. \A i \in DOMAIN log : Unpublished(i) => Unpublished(i)'
  BY DEF Unpublished
<1>2. HistoryComplete'
  <2>. SUFFICES ASSUME NEW d \in active', NEW i \in DOMAIN log',
                       log'[i].kind # "auto", i > start'[d], log'[i].owner # d
                PROVE  Findable(d, i)'
    BY DEF HistoryComplete
  <2>1. Findable(d, i) => Findable(d, i)'
    BY <1>1 DEF Findable
  <2>2. CASE d \in active
    BY <2>1, <2>2 DEF Relations, HistoryComplete
  <2>3. CASE d = c
    BY <1>1, <2>3 DEF Relations, BeginMissesNothing, Findable
  <2>. QED  BY <2>2, <2>3
<1>3. IntentsDisjoint'
  BY DEF Relations, IntentsDisjoint
<1>4. BeginMissesNothing'
  BY <1>1 DEF Relations, BeginMissesNothing
<1>5. OwnEntries'
  BY DEF Relations, OwnEntries
<1>6. DdlEntry' /\ Serializable'
  BY DEF Relations, DdlEntry, Serializable
<1>7. ValidatedSinceStart'
  BY DEF Relations, ValidatedSinceStart
<1>. QED  BY <1>2, <1>3, <1>4, <1>5, <1>6, <1>7 DEF Relations

\* Recording a read or a write concerns a context without an intent.
LEMMA RecordStep ==
  ASSUME TypeOK, SequencesBounded, Relations, NEW c \in Contexts,
         \/ \E r \in ReadChoices : Read(c, r)
         \/ \E w \in WriteChoices : Write(c, w)
  PROVE  Relations'
<1>1. /\ pc[c] = "active"
      /\ UNCHANGED <<pc, latch, start, snap, occVars, intents, ddl, log>>
      /\ \A d \in Contexts : d # c => reads'[d] = reads[d] /\ writes'[d] = writes[d]
  BY DEF Read, Write, TypeOK
<1>. USE <1>1 DEF occVars
<1>2. c \notin intents
  BY DEF TypeOK, HoldsIntent
<1>3. IntentsDisjoint'
  BY <1>2 DEF TypeOK, Relations, IntentsDisjoint
<1>4. \A i \in DOMAIN log : Unpublished(i)' <=> Unpublished(i)
  BY DEF Unpublished
<1>5. HistoryComplete'
  <2>. SUFFICES ASSUME NEW d \in active', NEW i \in DOMAIN log',
                       log'[i].kind # "auto", i > start'[d], log'[i].owner # d
                PROVE  Findable(d, i)'
    BY DEF HistoryComplete
  <2>1. Findable(d, i) => Findable(d, i)'
    BY <1>4 DEF Findable
  <2>. QED  BY <2>1 DEF Relations, HistoryComplete
<1>6. BeginMissesNothing'
  BY <1>4 DEF Relations, BeginMissesNothing
<1>7. OwnEntries'
  BY DEF Relations, OwnEntries
<1>8. DdlEntry' /\ Serializable'
  BY DEF Relations, DdlEntry, Serializable
<1>9. ValidatedSinceStart'
  BY DEF Relations, ValidatedSinceStart
<1>. QED  BY <1>3, <1>5, <1>6, <1>7, <1>8, <1>9 DEF Relations

\* A step that only moves a context between phases (and may release its
\* intent), none of which is a validation or the write.
LEMMA MoveStep ==
  ASSUME TypeOK, SequencesBounded, Relations, NEW c \in Contexts,
         CommitRequest(c) \/ PhysicalFail(c) \/ ReleaseIntent(c)
  PROVE  Relations'
<1>1. /\ pc[c] \in {"active", "physical", "release"}
      /\ pc'[c] \in {"acquire", "failed", "idle"}
      /\ pc[c] = "active" <=> pc'[c] = "acquire"
      /\ \A d \in Contexts : d # c => pc'[d] = pc[d]
      /\ UNCHANGED <<latch, txnVars, occVars, ddl, log>>
      /\ intents' \subseteq intents
  BY DEF CommitRequest, PhysicalFail, ReleaseIntent, TypeOK
<1>. USE <1>1 DEF occVars, txnVars
<1>2. IntentsDisjoint'
  BY DEF Relations, IntentsDisjoint
<1>3. \A i \in DOMAIN log : Unpublished(i) => Unpublished(i)'
  BY DEF Unpublished
<1>4. HistoryComplete'
  <2>. SUFFICES ASSUME NEW d \in active', NEW i \in DOMAIN log',
                       log'[i].kind # "auto", i > start'[d], log'[i].owner # d
                PROVE  Findable(d, i)'
    BY DEF HistoryComplete
  <2>1. Findable(d, i) => Findable(d, i)'
    BY <1>3 DEF Findable
  <2>. QED  BY <2>1 DEF Relations, HistoryComplete
<1>5. BeginMissesNothing'
  BY <1>3 DEF Relations, BeginMissesNothing
<1>6. OwnEntries'
  BY DEF Relations, OwnEntries
<1>7. DdlEntry' /\ Serializable'
  BY DEF Relations, DdlEntry, Serializable
<1>8. ValidatedSinceStart'
  BY DEF Relations, ValidatedSinceStart
<1>. QED  BY <1>2, <1>4, <1>5, <1>6, <1>7, <1>8 DEF Relations

\* The intent is granted only beside intents it does not conflict with.
LEMMA AcquireStep ==
  ASSUME TypeOK, SequencesBounded, Relations, NEW c \in Contexts, AcquireIntent(c)
  PROVE  Relations'
<1>. USE DEF AcquireIntent, occVars, txnVars
<1>1. IntentsDisjoint'
  <2>1. ASSUME NEW d \in intents
        PROVE  ~Overlap(reads[c], writes[d]) /\ ~Overlap(reads[d], writes[c])
    <3>1. /\ reads[c] \in SUBSET ReadRange /\ writes[c] \in SUBSET WriteKey
          /\ reads[d] \in SUBSET ReadRange /\ writes[d] \in SUBSET WriteKey
      BY DEF TypeOK
    <3>2. ~ReadWriteConflict(reads[c], writes[d]) /\ ~ReadWriteConflict(reads[d], writes[c])
      BY DEF CommitConflict
    <3>. QED  BY <3>1, <3>2, ReadWriteConflictExact
  <2>. QED  BY <2>1 DEF Relations, IntentsDisjoint
<1>2. \A i \in DOMAIN log : Unpublished(i) => Unpublished(i)'
  BY DEF Unpublished, TypeOK
<1>3. HistoryComplete'
  <2>. SUFFICES ASSUME NEW d \in active', NEW i \in DOMAIN log',
                       log'[i].kind # "auto", i > start'[d], log'[i].owner # d
                PROVE  Findable(d, i)'
    BY DEF HistoryComplete
  <2>1. Findable(d, i) => Findable(d, i)'
    BY <1>2 DEF Findable
  <2>. QED  BY <2>1 DEF Relations, HistoryComplete
<1>4. BeginMissesNothing'
  BY <1>2 DEF Relations, BeginMissesNothing, TypeOK
<1>5. OwnEntries'
  BY DEF Relations, OwnEntries, TypeOK
<1>6. DdlEntry' /\ Serializable'
  BY DEF Relations, DdlEntry, Serializable
<1>7. ValidatedSinceStart'
  BY DEF Relations, ValidatedSinceStart, TypeOK
<1>. QED  BY <1>1, <1>3, <1>4, <1>5, <1>6, <1>7 DEF Relations

\* The heart of the argument.  A transaction's write after c's start that
\* intersects a read of c is either in the index, where validate finds it,
\* or hidden by an overflow, which validate refuses, or still unpublished;
\* but then its owner holds an intent, and so does c.
LEMMA ValidateIsCurrent ==
  ASSUME TypeOK, SequencesBounded, Relations, NEW c \in Contexts, Validate(c),
         writes[c] # {}, NEW i \in DOMAIN log, log[i].kind = "txn", i > start[c]
  PROVE  ~Overlap(reads[c], log[i].writes)
<1>. SUFFICES ASSUME Overlap(reads[c], log[i].writes) PROVE FALSE
  OBVIOUS
<1>1. pc[c] = "validate" /\ c \in active /\ c \in intents
  BY DEF Validate, TypeOK, Registered, HoldsIntent
<1>2. start[c] \in Nat /\ i \in Nat /\ overflow \in Nat
  BY DEF TypeOK
<1>3. log[i].owner # c
  BY <1>1, <1>2 DEF Relations, OwnEntries
<1>4. Findable(c, i)
  BY <1>1, <1>3 DEF Relations, HistoryComplete
<1>5. ~(overflow > start[c]) /\ ~ReadConflict(c)
  BY <1>2 DEF Validate, Validated, HistoryLost
<1>6. CASE Unpublished(i)
  <2>. DEFINE d == log[i].owner
  <2>1. d \in Contexts /\ pc[d] = "publish" /\ i > start[d]
    BY <1>6 DEF Unpublished
  <2>2. d \in intents /\ log[i].writes = writes[d]
    BY <2>1 DEF TypeOK, HoldsIntent, Relations, OwnEntries
  <2>. QED  BY <1>1, <1>3, <2>2 DEF Relations, IntentsDisjoint
<1>7. CASE \A w \in log[i].writes : \E ref \in index :
             ref.owner = log[i].owner /\ ref.key = w /\ ref.seq >= i
  <2>1. PICK r \in reads[c], w \in log[i].writes : Intersects(r, w)
    BY DEF Overlap
  <2>2. PICK ref \in index : ref.owner = log[i].owner /\ ref.key = w /\ ref.seq >= i
    BY <1>7
  <2>3. ref.seq \in Nat
    BY DEF TypeOK, CommittedWriteRef
  <2>4. ref.seq > start[c]
    BY <1>2, <2>2, <2>3
  <2>. QED  BY <1>3, <1>5, <2>1, <2>2, <2>4 DEF ReadConflict
<1>. QED  BY <1>4, <1>5, <1>6, <1>7 DEF Findable

LEMMA ValidateStep ==
  ASSUME TypeOK, SequencesBounded, Relations, NEW c \in Contexts, Validate(c)
  PROVE  Relations'
<1>1. /\ pc' = [pc EXCEPT ![c] = "physical"] /\ pc[c] = "validate"
      /\ UNCHANGED <<latch, txnVars, occVars, intents, ddl, log>>
  BY DEF Validate
<1>. USE <1>1 DEF occVars, txnVars
<1>2. ValidatedSinceStart'
  <2>. SUFFICES ASSUME NEW d \in Contexts, pc'[d] = "physical", NEW i \in DOMAIN log,
                       writes[d] # {}, log[i].kind = "txn", i > start[d]
                PROVE  ~Overlap(reads[d], log[i].writes)
    BY DEF ValidatedSinceStart
  <2>1. CASE d = c
    BY <2>1, ValidateIsCurrent
  <2>2. CASE d # c
    BY <2>2 DEF TypeOK, Relations, ValidatedSinceStart
  <2>. QED  BY <2>1, <2>2
<1>3. \A i \in DOMAIN log : Unpublished(i) => Unpublished(i)'
  BY DEF Unpublished, TypeOK
<1>4. HistoryComplete'
  <2>. SUFFICES ASSUME NEW d \in active', NEW i \in DOMAIN log',
                       log'[i].kind # "auto", i > start'[d], log'[i].owner # d
                PROVE  Findable(d, i)'
    BY DEF HistoryComplete
  <2>1. Findable(d, i) => Findable(d, i)'
    BY <1>3 DEF Findable
  <2>. QED  BY <2>1 DEF Relations, HistoryComplete
<1>5. BeginMissesNothing'
  BY <1>3 DEF Relations, BeginMissesNothing, TypeOK
<1>6. OwnEntries'
  BY DEF Relations, OwnEntries, TypeOK
<1>7. IntentsDisjoint' /\ DdlEntry' /\ Serializable'
  BY DEF Relations, IntentsDisjoint, DdlEntry, Serializable
<1>. QED  BY <1>2, <1>4, <1>5, <1>6, <1>7 DEF Relations

\* References that Keeps preserves still make an entry findable.
LEMMA KeptReferences ==
  ASSUME TypeOK, NEW act \in SUBSET Contexts, NEW d \in act, NEW i \in DOMAIN log,
         NEW ix2, NEW ov2, Keeps(act, index, overflow, ix2, ov2),
         i > start[d], Findable(d, i), ~Unpublished(i), ~(ov2 > start[d]),
         NEW w \in log[i].writes
  PROVE  \E ref \in ix2 : ref.owner = log[i].owner /\ ref.key = w /\ ref.seq >= i
<1>1. PICK ref \in index : ref.owner = log[i].owner /\ ref.key = w /\ ref.seq >= i
  BY DEF Findable, Keeps
<1>2. ref.seq \in Nat /\ start[d] \in Nat /\ i \in Nat
  BY DEF TypeOK, CommittedWriteRef
<1>3. ref.seq > start[d]
  BY <1>1, <1>2
<1>. QED  BY <1>1, <1>3 DEF Keeps

\* A transaction that ends without having written: collect() may drop what
\* only it needed.
LEMMA EndStep ==
  ASSUME TypeOK, SequencesBounded, Relations, NEW c \in Contexts,
         Refuse(c) \/ FailEnd(c) \/ Rollback(c)
  PROVE  Relations'
<1>1. /\ pc[c] \in {"validate", "failed", "active"} /\ pc'[c] \in {"release", "idle"}
      /\ \A d \in Contexts : d # c => pc'[d] = pc[d]
      /\ UNCHANGED <<latch, txnVars, intents, ddl, log>>
      /\ EndOcc(c, history, index, overflow)
  BY DEF Refuse, FailEnd, Rollback, TypeOK
<1>. USE <1>1 DEF txnVars
<1>2. active' = active \ {c} /\ Keeps(active \ {c}, index, overflow, index', overflow')
  BY CoordinatorTyped, EndOccOK
<1>3. \A i \in DOMAIN log : Unpublished(i) => Unpublished(i)'
  BY DEF Unpublished
<1>4. HistoryComplete'
  <2>. SUFFICES ASSUME NEW d \in active', NEW i \in DOMAIN log',
                       log'[i].kind # "auto", i > start'[d], log'[i].owner # d
                PROVE  Findable(d, i)'
    BY DEF HistoryComplete
  <2>1. d \in active \ {c} /\ Findable(d, i)
    BY <1>2 DEF Relations, HistoryComplete
  <2>. SUFFICES ASSUME ~Unpublished(i), ~(overflow' > start[d]), NEW w \in log[i].writes
                PROVE  \E ref \in index' : /\ ref.owner = log[i].owner
                                           /\ ref.key = w
                                           /\ ref.seq >= i
    BY <1>3 DEF Findable
  <2>2. active \ {c} \in SUBSET Contexts
    BY DEF TypeOK
  <2>. QED  BY <1>2, <2>1, <2>2, KeptReferences
<1>5. BeginMissesNothing'
  BY <1>3 DEF Relations, BeginMissesNothing
<1>6. OwnEntries'
  BY DEF Relations, OwnEntries
<1>7. IntentsDisjoint' /\ DdlEntry' /\ Serializable'
  BY DEF Relations, IntentsDisjoint, DdlEntry, Serializable
<1>8. ValidatedSinceStart'
  BY DEF Relations, ValidatedSinceStart
<1>. QED  BY <1>4, <1>5, <1>6, <1>7, <1>8 DEF Relations

\* The batch of a read-only transaction is empty.
LEMMA EmptyWriteStep ==
  ASSUME TypeOK, SequencesBounded, Relations, NEW c \in Contexts,
         PhysicalWrite(c), writes[c] = {}
  PROVE  Relations'
<1>1. /\ pc' = [pc EXCEPT ![c] = "publish"] /\ pc[c] = "physical"
      /\ UNCHANGED <<latch, txnVars, occVars, intents, ddl, log>>
  BY DEF PhysicalWrite
<1>. USE <1>1 DEF occVars, txnVars
<1>2. \A i \in DOMAIN log : Unpublished(i) => Unpublished(i)'
  BY DEF Unpublished, TypeOK
<1>3. HistoryComplete'
  <2>. SUFFICES ASSUME NEW d \in active', NEW i \in DOMAIN log',
                       log'[i].kind # "auto", i > start'[d], log'[i].owner # d
                PROVE  Findable(d, i)'
    BY DEF HistoryComplete
  <2>1. Findable(d, i) => Findable(d, i)'
    BY <1>2 DEF Findable
  <2>. QED  BY <2>1 DEF Relations, HistoryComplete
<1>4. BeginMissesNothing'
  BY <1>2 DEF Relations, BeginMissesNothing, TypeOK
<1>5. OwnEntries'
  <2>1. \A i \in DOMAIN log : log[i].kind = "txn" /\ log[i].owner = c => ~(i > start[c])
    BY DEF Relations, OwnEntries, TypeOK
  <2>. QED  BY <2>1 DEF Relations, OwnEntries, TypeOK
<1>6. IntentsDisjoint' /\ DdlEntry' /\ Serializable'
  BY DEF Relations, IntentsDisjoint, DdlEntry, Serializable
<1>7. ValidatedSinceStart'
  BY DEF Relations, ValidatedSinceStart, TypeOK
<1>. QED  BY <1>3, <1>4, <1>5, <1>6, <1>7 DEF Relations

\* A validated batch is applied.  It conflicts with no other validated
\* commit, for both hold intents.
LEMMA WriteStep ==
  ASSUME TypeOK, SequencesBounded, Relations, NEW c \in Contexts,
         PhysicalWrite(c), writes[c] # {}
  PROVE  Relations'
<1>. DEFINE e == [kind |-> "txn", owner |-> c, reads |-> reads[c],
                  writes |-> writes[c], snap |-> snap[c]]
<1>0. PICK n \in Nat : n = Len(log) + 1
  BY DEF TypeOK
<1>1. /\ pc' = [pc EXCEPT ![c] = "publish"] /\ pc[c] = "physical"
      /\ UNCHANGED <<latch, txnVars, occVars, intents, ddl>>
      /\ log' = Append(log, e)
  BY DEF PhysicalWrite
<1>2. /\ DOMAIN log' = DOMAIN log \cup {n} /\ log'[n] = e
      /\ \A i \in DOMAIN log : log'[i] = log[i] /\ i \in Nat /\ i < n
      /\ n \in Nat /\ n \notin DOMAIN log
  <2>. HIDE DEF e
  <2>. QED  BY <1>0, <1>1, LogAppend
<1>3. /\ e.kind = "txn" /\ e.owner = c /\ e.writes = writes[c]
      /\ e.reads = reads[c] /\ e.snap = snap[c]
  OBVIOUS
<1>4. \A d \in Contexts : start[d] \in Nat /\ start[d] < n
  BY <1>0 DEF SequencesBounded, TypeOK
<1>5. c \in active /\ c \in intents
  BY <1>1 DEF TypeOK, Registered, HoldsIntent
<1>. HIDE DEF e
<1>. USE <1>1 DEF occVars, txnVars
<1>6. \A i \in DOMAIN log : Unpublished(i) => Unpublished(i)'
  BY <1>2 DEF Unpublished, TypeOK
<1>7. Unpublished(n)'
  BY <1>2, <1>3, <1>4 DEF Unpublished, TypeOK
<1>8. HistoryComplete'
  <2>. SUFFICES ASSUME NEW d \in active', NEW i \in DOMAIN log',
                       log'[i].kind # "auto", i > start'[d], log'[i].owner # d
                PROVE  Findable(d, i)'
    BY DEF HistoryComplete
  <2>1. CASE i = n
    BY <1>7, <2>1 DEF Findable
  <2>2. CASE i \in DOMAIN log
    <3>1. Findable(d, i)
      BY <1>2, <2>2 DEF Relations, HistoryComplete
    <3>. QED  BY <1>2, <1>6, <2>2, <3>1 DEF Findable
  <2>. QED  BY <1>2, <2>1, <2>2
<1>9. BeginMissesNothing'
  BY <1>2, <1>6, <1>7 DEF Relations, BeginMissesNothing, TypeOK
<1>10. OwnEntries'
  <2>1. \A i \in DOMAIN log : log[i].kind = "txn" /\ log[i].owner = c => ~(i > start[c])
    BY DEF Relations, OwnEntries, TypeOK
  <2>2. ASSUME NEW d \in Contexts, NEW i \in DOMAIN log',
               log'[i].kind = "txn", log'[i].owner = d
        PROVE  /\ pc'[d] \in {"begin", "active", "acquire", "validate", "physical"}
                    => i <= start[d]
               /\ pc'[d] = "publish" /\ i > start[d] => log'[i].writes = writes[d]
    <3>1. CASE i = n
      BY <1>2, <1>3, <2>2, <3>1 DEF TypeOK
    <3>2. CASE i \in DOMAIN log /\ d = c
      BY <1>2, <2>1, <2>2, <3>2 DEF TypeOK
    <3>3. CASE i \in DOMAIN log /\ d # c
      BY <1>2, <2>2, <3>3 DEF Relations, OwnEntries, TypeOK
    <3>. QED  BY <1>2, <3>1, <3>2, <3>3
  <2>. QED  BY <2>2 DEF OwnEntries
<1>11. DdlEntry'
  BY <1>2 DEF Relations, DdlEntry
<1>12. IntentsDisjoint'
  BY DEF Relations, IntentsDisjoint
<1>13. ValidatedSinceStart'
  <2>. SUFFICES ASSUME NEW d \in Contexts, pc'[d] = "physical", NEW i \in DOMAIN log',
                       writes[d] # {}, log'[i].kind = "txn", i > start[d]
                PROVE  ~Overlap(reads[d], log'[i].writes)
    BY DEF ValidatedSinceStart
  <2>1. d # c /\ pc[d] = "physical" /\ d \in intents
    BY DEF TypeOK, HoldsIntent
  <2>2. CASE i = n
    BY <1>2, <1>3, <1>5, <2>1, <2>2 DEF Relations, IntentsDisjoint
  <2>3. CASE i \in DOMAIN log
    BY <1>2, <2>1, <2>3 DEF Relations, ValidatedSinceStart
  <2>. QED  BY <1>2, <2>2, <2>3
<1>14. Serializable'
  <2>. SUFFICES ASSUME NEW i \in DOMAIN log', log'[i].kind = "txn",
                       NEW j \in (log'[i].snap + 1)..(i - 1), log'[j].kind = "txn"
                PROVE  ~Overlap(log'[i].reads, log'[j].writes)
    BY DEF Serializable
  <2>1. DOMAIN log = 1..Len(log) /\ Len(log) \in Nat
    BY DEF TypeOK
  <2>2. CASE i = n
    <3>1. /\ log'[i].snap = snap[c] /\ log'[i].reads = reads[c]
          /\ snap[c] \in Nat /\ start[c] <= snap[c]
      BY <1>2, <1>3, <1>5, <2>2 DEF SequencesBounded, TypeOK
    <3>2. j \in DOMAIN log /\ j > start[c]
      BY <1>0, <1>4, <2>1, <2>2, <3>1
    <3>3. log'[j] = log[j]
      BY <1>2, <3>2
    <3>. QED  BY <3>1, <3>2, <3>3 DEF Relations, ValidatedSinceStart
  <2>3. CASE i \in DOMAIN log
    <3>1. log'[i] = log[i] /\ log[i].snap \in Nat
      <4>1. log[i] \in LogEntry
        BY <2>3 DEF TypeOK
      <4>. QED  BY <1>2, <2>3, <4>1 DEF LogEntry
    <3>2. j \in DOMAIN log
      BY <2>1, <2>3, <3>1
    <3>3. log'[j] = log[j]
      BY <1>2, <3>2
    <3>. QED  BY <2>3, <3>1, <3>3 DEF Relations, Serializable
  <2>. QED  BY <1>2, <2>2, <2>3
<1>. QED  BY <1>8, <1>9, <1>10, <1>11, <1>12, <1>13, <1>14 DEF Relations

\* Publication: what was unpublished becomes a reference at the database's
\* present sequence, which is not before the entry's own.
LEMMA PublishStep ==
  ASSUME TypeOK, SequencesBounded, Relations, NEW c \in Contexts, Publish(c)
  PROVE  Relations'
<1>. DEFINE pub == Published(c, Len(log), writes[c])
<1>1. /\ pc[c] = "publish" /\ pc' = [pc EXCEPT ![c] = "release"]
      /\ UNCHANGED <<latch, txnVars, intents, ddl, log>> /\ LatchFree
      /\ EndOcc(c, pub.history, pub.index, pub.overflow)
  BY DEF Publish
<1>2. /\ CoordinatorOK(pub.history, pub.index, pub.overflow)
      /\ Keeps(active, index, overflow, pub.index, pub.overflow)
      /\ \A d \in active, w \in writes[c] : start[d] < Len(log) =>
           \/ [owner |-> c, seq |-> Len(log), key |-> w] \in pub.index
           \/ pub.overflow > start[d]
  <2>1. writes[c] \in SUBSET WriteKey
    BY DEF TypeOK
  <2>. QED  BY <2>1, CoordinatorTyped, PublishedOK
<1>. HIDE DEF pub
<1>3. /\ active' = active \ {c}
      /\ Keeps(active \ {c}, pub.index, pub.overflow, index', overflow')
  BY <1>1, <1>2, CoordinatorTyped, EndOccOK
<1>. USE <1>1 DEF txnVars
<1>4. Keeps(active \ {c}, index, overflow, index', overflow')
  BY <1>2, <1>3 DEF Keeps
<1>5. \A i \in DOMAIN log : Unpublished(i) /\ log[i].kind # "txn" => Unpublished(i)'
  BY DEF Unpublished
<1>6. \A i \in DOMAIN log : Unpublished(i) /\ log[i].owner # c => Unpublished(i)'
  BY DEF Unpublished, TypeOK
<1>7. HistoryComplete'
  <2>. SUFFICES ASSUME NEW d \in active', NEW i \in DOMAIN log',
                       log'[i].kind # "auto", i > start'[d], log'[i].owner # d
                PROVE  Findable(d, i)'
    BY DEF HistoryComplete
  <2>1. d \in active \ {c} /\ d \in Contexts /\ Findable(d, i)
    BY <1>3 DEF Relations, HistoryComplete, TypeOK
  <2>2. CASE ~Unpublished(i)
    <3>. SUFFICES ASSUME ~(overflow' > start[d]), NEW w \in log[i].writes
                  PROVE  \E ref \in index' : /\ ref.owner = log[i].owner
                                             /\ ref.key = w
                                             /\ ref.seq >= i
      BY DEF Findable
    <3>1. active \ {c} \in SUBSET Contexts
      BY DEF TypeOK
    <3>. QED  BY <1>4, <2>1, <2>2, <3>1, KeptReferences
  <2>3. CASE Unpublished(i) /\ (log[i].kind # "txn" \/ log[i].owner # c)
    BY <1>5, <1>6, <2>3 DEF Findable
  <2>4. CASE Unpublished(i) /\ log[i].kind = "txn" /\ log[i].owner = c
    <3>1. log[i].writes = writes[c]
      BY <2>4 DEF Unpublished, Relations, OwnEntries
    <3>2. i \in Nat /\ i <= Len(log) /\ start[d] \in Nat /\ Len(log) \in Nat
      BY <2>1 DEF TypeOK
    <3>. SUFFICES ASSUME ~(overflow' > start[d]), NEW w \in log[i].writes
                  PROVE  \E ref \in index' : /\ ref.owner = log[i].owner
                                             /\ ref.key = w
                                             /\ ref.seq >= i
      BY DEF Findable
    <3>. DEFINE ref == [owner |-> c, seq |-> Len(log), key |-> w]
    <3>3. ref.owner = c /\ ref.key = w /\ ref.seq = Len(log)
      OBVIOUS
    <3>4. ref \in pub.index
      BY <1>2, <1>3, <2>1, <3>1, <3>2 DEF Keeps
    <3>. HIDE DEF ref
    <3>5. ref \in index'
      BY <1>3, <2>1, <3>2, <3>3, <3>4 DEF Keeps
    <3>. QED  BY <2>4, <3>2, <3>3, <3>5
  <2>. QED  BY <2>2, <2>3, <2>4
<1>8. BeginMissesNothing'
  BY ChoicesAssumption DEF BeginMissesNothing, TypeOK, LatchFree
<1>9. OwnEntries'
  BY DEF Relations, OwnEntries, TypeOK
<1>10. IntentsDisjoint' /\ DdlEntry' /\ Serializable'
  BY DEF Relations, IntentsDisjoint, DdlEntry, Serializable
<1>11. ValidatedSinceStart'
  BY DEF Relations, ValidatedSinceStart, TypeOK
<1>. QED  BY <1>7, <1>8, <1>9, <1>10, <1>11 DEF Relations

\* A write that is not a transaction's: an autocommit statement, or a DDL
\* statement, which stays unpublished until DdlPublish.
LEMMA OtherWriteStep ==
  ASSUME TypeOK, SequencesBounded, Relations, NEW c \in Contexts,
         \/ \E w \in WriteChoices : Autocommit(c, w)
         \/ \E o \in Objects, owner \in {c, NoOne} : DdlWrite(c, o, owner)
  PROVE  Relations'
<1>0. PICK n \in Nat : n = Len(log) + 1
  BY DEF TypeOK
<1>1. PICK e : /\ log' = Append(log, e)
               /\ e.kind # "txn"
               /\ \/ e.kind = "auto" /\ ddl' = ddl
                  \/ /\ ddl = NoDdl /\ ddl' # NoDdl /\ ddl'.at = n /\ e.kind = "ddl"
                     /\ e.owner = ddl'.owner /\ e.writes = {<<ddl'.obj, 0>>}
  <2>1. CASE \E w \in WriteChoices : Autocommit(c, w)
    BY <2>1 DEF Autocommit
  <2>2. ASSUME NEW o \in Objects, NEW owner \in {c, NoOne}, DdlWrite(c, o, owner)
        PROVE  \E e : /\ log' = Append(log, e)
                      /\ e.kind # "txn"
                      /\ /\ ddl = NoDdl /\ ddl' # NoDdl /\ ddl'.at = n /\ e.kind = "ddl"
                         /\ e.owner = ddl'.owner /\ e.writes = {<<ddl'.obj, 0>>}
    <3>1. ddl = NoDdl /\ ddl' = [ctx |-> c, owner |-> owner, obj |-> o, at |-> n]
      BY <1>0, <2>2 DEF DdlWrite
    <3>2. ddl' # NoDdl
      BY <3>1, ChoicesAssumption DEF NoDdl
    <3>. QED  BY <2>2, <3>1, <3>2 DEF DdlWrite
  <2>. QED  BY <2>1, <2>2
<1>2. UNCHANGED <<pc, latch, txnVars, occVars, intents>>
  BY DEF Autocommit, DdlWrite
<1>3. /\ DOMAIN log' = DOMAIN log \cup {n} /\ log'[n] = e
      /\ \A i \in DOMAIN log : log'[i] = log[i] /\ i \in Nat /\ i < n
      /\ n \in Nat /\ n \notin DOMAIN log
  BY <1>0, <1>1, LogAppend
<1>. USE <1>2 DEF occVars, txnVars
<1>4. \A i \in DOMAIN log : Unpublished(i) => Unpublished(i)'
  <2>1. ASSUME NEW i \in DOMAIN log, ddl = NoDdl PROVE i # ddl.at
    BY <2>1 DEF NoDdl, TypeOK
  <2>. QED  BY <1>1, <1>3, <2>1 DEF Unpublished
<1>5. e.kind = "auto" \/ Unpublished(n)'
  BY <1>1, <1>3 DEF Unpublished
<1>6. HistoryComplete'
  <2>. SUFFICES ASSUME NEW d \in active', NEW i \in DOMAIN log',
                       log'[i].kind # "auto", i > start'[d], log'[i].owner # d
                PROVE  Findable(d, i)'
    BY DEF HistoryComplete
  <2>1. CASE i = n
    BY <1>3, <1>5, <2>1 DEF Findable
  <2>2. CASE i \in DOMAIN log
    <3>1. Findable(d, i)
      BY <1>3, <2>2 DEF Relations, HistoryComplete
    <3>. QED  BY <1>3, <1>4, <2>2, <3>1 DEF Findable
  <2>. QED  BY <1>3, <2>1, <2>2
<1>7. BeginMissesNothing'
  BY <1>3, <1>4, <1>5 DEF Relations, BeginMissesNothing
<1>8. OwnEntries'
  BY <1>1, <1>3 DEF Relations, OwnEntries
<1>9. DdlEntry'
  BY <1>1, <1>3 DEF Relations, DdlEntry
<1>10. IntentsDisjoint'
  BY DEF Relations, IntentsDisjoint
<1>11. ValidatedSinceStart'
  BY <1>1, <1>3 DEF Relations, ValidatedSinceStart
<1>12. Serializable'
  <2>. SUFFICES ASSUME NEW i \in DOMAIN log', log'[i].kind = "txn",
                       NEW j \in (log'[i].snap + 1)..(i - 1), log'[j].kind = "txn"
                PROVE  ~Overlap(log'[i].reads, log'[j].writes)
    BY DEF Serializable
  <2>1. i \in DOMAIN log /\ log'[i] = log[i]
    BY <1>1, <1>3
  <2>2. DOMAIN log = 1..Len(log) /\ Len(log) \in Nat /\ log[i] \in LogEntry
    BY <2>1 DEF TypeOK
  <2>3. log[i].snap \in Nat
    BY <2>2 DEF LogEntry
  <2>4. j \in DOMAIN log /\ log'[j] = log[j]
    BY <1>3, <2>1, <2>2, <2>3
  <2>. QED  BY <2>1, <2>4 DEF Relations, Serializable
<1>. QED  BY <1>6, <1>7, <1>8, <1>9, <1>10, <1>11, <1>12 DEF Relations

\* The DDL statement publishes its object-wide marker.
LEMMA DdlPublishStep ==
  ASSUME TypeOK, SequencesBounded, Relations, DdlPublish
  PROVE  Relations'
<1>. DEFINE ws == {<<ddl.obj, 0>>}
            pub == Published(ddl.owner, Len(log), ws)
<1>1. /\ ddl # NoDdl /\ LatchFree /\ ddl' = NoDdl
      /\ UNCHANGED <<pc, latch, txnVars, active, intents, log>>
      /\ history' = pub.history /\ index' = pub.index /\ overflow' = pub.overflow
  BY DEF DdlPublish
<1>2. ddl.owner \in Contexts \cup {NoOne} /\ ws \in SUBSET WriteKey
  BY <1>1, MaxKeyAssumption DEF TypeOK, DdlStatement, WriteKey, Key
<1>3. <<ddl.obj, 0>> \in ws /\ \A w \in ws : w = <<ddl.obj, 0>>
  OBVIOUS
<1>. HIDE DEF ws
<1>4. /\ Keeps(active, index, overflow, pub.index, pub.overflow)
      /\ \A d \in active, w \in ws : start[d] < Len(log) =>
           \/ [owner |-> ddl.owner, seq |-> Len(log), key |-> w] \in pub.index
           \/ pub.overflow > start[d]
  BY <1>2, CoordinatorTyped, PublishedOK
<1>. HIDE DEF pub
<1>. USE <1>1 DEF txnVars
<1>5. \A i \in DOMAIN log : Unpublished(i) /\ i # ddl.at => Unpublished(i)'
  BY DEF Unpublished
<1>6. HistoryComplete'
  <2>. SUFFICES ASSUME NEW d \in active', NEW i \in DOMAIN log',
                       log'[i].kind # "auto", i > start'[d], log'[i].owner # d
                PROVE  Findable(d, i)'
    BY DEF HistoryComplete
  <2>1. d \in active /\ Findable(d, i) /\ active \in SUBSET Contexts
    BY DEF Relations, HistoryComplete, TypeOK
  <2>2. CASE Unpublished(i) /\ i # ddl.at
    BY <1>5, <2>2 DEF Findable
  <2>3. CASE i = ddl.at
    <3>1. log[i].owner = ddl.owner /\ \A w \in log[i].writes : w = <<ddl.obj, 0>>
      BY <2>3 DEF Relations, DdlEntry
    <3>2. i \in Nat /\ i <= Len(log) /\ start[d] \in Nat /\ Len(log) \in Nat
      BY <2>1 DEF TypeOK
    <3>. SUFFICES ASSUME ~(overflow' > start[d]), NEW w \in log[i].writes
                  PROVE  \E ref \in index' : /\ ref.owner = log[i].owner
                                             /\ ref.key = w
                                             /\ ref.seq >= i
      BY DEF Findable
    <3>. DEFINE ref == [owner |-> ddl.owner, seq |-> Len(log), key |-> w]
    <3>3. w \in ws /\ start[d] < Len(log)
      BY <1>3, <3>1, <3>2
    <3>4. ref \in index' /\ ref.owner = ddl.owner /\ ref.key = w /\ ref.seq = Len(log)
      BY <1>4, <2>1, <3>3
    <3>. QED  BY <3>1, <3>2, <3>4
  <2>4. CASE ~Unpublished(i)
    <3>. SUFFICES ASSUME ~(overflow' > start[d]), NEW w \in log[i].writes
                  PROVE  \E ref \in index' : /\ ref.owner = log[i].owner
                                             /\ ref.key = w
                                             /\ ref.seq >= i
      BY DEF Findable
    <3>. QED  BY <1>4, <2>1, <2>4, KeptReferences
  <2>. QED  BY <2>2, <2>3, <2>4
<1>7. BeginMissesNothing'
  BY ChoicesAssumption DEF BeginMissesNothing, TypeOK, LatchFree
<1>8. OwnEntries'
  BY DEF Relations, OwnEntries
<1>9. IntentsDisjoint' /\ DdlEntry' /\ Serializable'
  BY DEF Relations, IntentsDisjoint, DdlEntry, Serializable
<1>10. ValidatedSinceStart'
  BY DEF Relations, ValidatedSinceStart
<1>. QED  BY <1>6, <1>7, <1>8, <1>9, <1>10 DEF Relations

LEMMA RelationsStutter ==
  ASSUME Relations, UNCHANGED vars
  PROVE  Relations'
BY DEF vars, txnVars, occVars, Relations, IntentsDisjoint, HistoryComplete, Findable,
       Unpublished, BeginMissesNothing, OwnEntries, DdlEntry, ValidatedSinceStart,
       Serializable

LEMMA RelationsStep ==
  ASSUME TypeOK, SequencesBounded, Relations, [Next]_vars
  PROVE  Relations'
<1>1. ASSUME NEW c \in Contexts, PhysicalWrite(c) PROVE Relations'
  BY <1>1, EmptyWriteStep, WriteStep
<1>2. ASSUME NEW c \in Contexts, Step(c) PROVE Relations'
  BY <1>1, <1>2, BeginSequenceStep, BeginSnapshotStep, RecordStep, MoveStep,
     AcquireStep, ValidateStep, EndStep, PublishStep, OtherWriteStep DEF Step
<1>3. CASE DdlPublish
  BY <1>3, DdlPublishStep
<1>4. CASE UNCHANGED vars
  BY <1>4, RelationsStutter
<1>. QED  BY <1>2, <1>3, <1>4 DEF Next, Terminated

\* The inductive invariant holds in every reachable state.
THEOREM Invariance == Spec => []InductiveInvariant
<1>1. Init => TypeOK /\ SequencesBounded /\ Relations
  BY TypeInit, RelationsInit
<1>2. (TypeOK /\ SequencesBounded /\ Relations) /\ [Next]_vars
        => (TypeOK /\ SequencesBounded /\ Relations)'
  BY TypeStep, RelationsStep
<1>3. TypeOK /\ SequencesBounded /\ Relations => InductiveInvariant
  BY DEF Relations, InductiveInvariant
<1>. QED  BY <1>1, <1>2, <1>3, PTL DEF Spec

\* Transactions are serializable in the order RocksDB applies them, for any
\* number of sessions, tables, keys and any history limit, with commits
\* writing concurrently outside the storage mutex.
THEOREM TransactionsSerializable == Spec => []Serializable
<1>1. InductiveInvariant => Serializable
  BY DEF InductiveInvariant
<1>. QED  BY <1>1, Invariance, PTL

\* Concurrent commits hold disjoint intents.
THEOREM IntentsAreDisjoint == Spec => []IntentsDisjoint
<1>1. InductiveInvariant => IntentsDisjoint
  BY DEF InductiveInvariant
<1>. QED  BY <1>1, Invariance, PTL

\* No committed write is lost to the validation of a registered transaction.
THEOREM HistoryIsComplete == Spec => []HistoryComplete
<1>1. InductiveInvariant => HistoryComplete
  BY DEF InductiveInvariant
<1>. QED  BY <1>1, Invariance, PTL

\* The invariant holds from the snapshot on as it does from the start.
LEMMA InvariantIsCurrent == InductiveInvariant => ValidatedIsCurrent
<1>. SUFFICES ASSUME InductiveInvariant, NEW c \in Contexts, pc[c] = "physical",
                     NEW i \in DOMAIN log, writes[c] # {}, log[i].kind = "txn",
                     i > snap[c]
              PROVE  ~Overlap(reads[c], log[i].writes)
  BY DEF ValidatedIsCurrent
<1>1. c \in active /\ start[c] \in Nat /\ snap[c] \in Nat /\ i \in Nat
  BY DEF InductiveInvariant, TypeOK, Registered
<1>2. i > start[c]
  BY <1>1 DEF InductiveInvariant, SequencesBounded
<1>. QED  BY <1>2 DEF InductiveInvariant, ValidatedSinceStart

\* A validated commit stays valid until its batch is applied.
THEOREM ValidatedStaysCurrent == Spec => []ValidatedIsCurrent
BY InvariantIsCurrent, Invariance, PTL

=============================================================================
