------------------------ MODULE LiteOccSerialProofs ------------------------
(***************************************************************************)
(* The commit protocol of LiteOcc implements LiteSerial, for every value   *)
(* of the constants.  Only the physical write of a transaction changes the *)
(* mapped state; there ValidatedSinceStart says that the versions at its   *)
(* snapshot are still the latest ones.                                     *)
(***************************************************************************)
EXTENDS LiteOccSerial, LiteOccProofs

\* A transaction's snapshot is older than its place in the log.
SnapshotsPrecede == \A i \in Transactions : log[i].snap < i

\* The writers of w among the first n log entries, whose maximum is Version.
Writers(w, n) == {i \in Transactions : i <= n /\ w \in log[i].writes} \cup {0}

\* Version is the largest of them.
LEMMA VersionOfWriters ==
  ASSUME NEW w, NEW n PROVE Version(w, n) = Max(Writers(w, n))
BY DEF Version, Writers

\* What an append to the log does to the transactions in it.
LEMMA AppendTransactions ==
  ASSUME log \in Seq(LogEntry), NEW e \in LogEntry, log' = Append(log, e)
  PROVE  /\ Len(log) \in Nat /\ Len(log') = Len(log) + 1
         /\ Transactions \subseteq 1..Len(log)
         /\ \A i \in Transactions : log'[i] = log[i]
         /\ log'[Len(log) + 1] = e
         /\ Transactions' = Transactions \cup
              (IF e.kind = "txn" THEN {Len(log) + 1} ELSE {})
<1>1. /\ Len(log) \in Nat /\ Len(log') = Len(log) + 1
      /\ DOMAIN log = 1..Len(log) /\ DOMAIN log' = 1..(Len(log) + 1)
      /\ \A i \in 1..Len(log) : log'[i] = log[i]
      /\ log'[Len(log) + 1] = e
  OBVIOUS
<1>2. Transactions' = {i \in DOMAIN log' : log'[i].kind = "txn"}
  BY DEF Transactions
<1>3. ASSUME NEW i
      PROVE  i \in Transactions' <=> \/ i \in Transactions
                                     \/ e.kind = "txn" /\ i = Len(log) + 1
  BY <1>1, <1>2 DEF Transactions
<1>. QED  BY <1>1, <1>3 DEF Transactions

\* The writers among the entries that were there before stay the same.
LEMMA WritersStay ==
  ASSUME log \in Seq(LogEntry), NEW e \in LogEntry, log' = Append(log, e),
         NEW w, NEW n \in Nat, n <= Len(log) \/ e.kind # "txn"
  PROVE  Writers(w, n)' = Writers(w, n)
<1>1. ASSUME NEW i PROVE i \in Writers(w, n)' <=> i \in Writers(w, n)
  BY AppendTransactions DEF Writers
<1>. QED  BY <1>1

\* The new entry is the last writer of its keys and of no others.
LEMMA WritersGrow ==
  ASSUME log \in Seq(LogEntry), NEW e \in LogEntry, log' = Append(log, e),
         NEW w
  PROVE  Writers(w, Len(log))' = Writers(w, Len(log)) \cup
           (IF e.kind = "txn" /\ w \in e.writes THEN {Len(log) + 1} ELSE {})
<1>. DEFINE L == Len(log)
<1>1. ASSUME NEW i
      PROVE  i \in Writers(w, Len(log))' <=>
               \/ i \in Writers(w, L)
               \/ e.kind = "txn" /\ w \in e.writes /\ i = L + 1
  BY AppendTransactions DEF Writers
<1>. QED  BY <1>1

\* Snapshots are numbers.
LEMMA SnapTyped ==
  ASSUME log \in Seq(LogEntry)
  PROVE  \A i \in 1..Len(log) : log[i].snap \in Nat
<1>1. \A i \in 1..Len(log) : log[i] \in LogEntry
  OBVIOUS
<1>2. \A x \in LogEntry : x.snap \in Nat
  BY DEF LogEntry
<1>. QED  BY <1>1, <1>2

\* What was observed at a snapshot does not change.
LEMMA OutcomeStays ==
  ASSUME log \in Seq(LogEntry), NEW e \in LogEntry, log' = Append(log, e),
         NEW i \in Transactions, log[i].snap <= Len(log)
  PROVE  OutcomeOf(i)' = OutcomeOf(i)
<1>1. log'[i] = log[i] /\ i \in 1..Len(log) /\ log[i].snap \in Nat
  BY AppendTransactions, SnapTyped
<1>2. \A w : Version(w, log[i].snap)' = Version(w, log[i].snap)
  <2>. TAKE w
  <2>1. {j \in Transactions' : j <= log'[i].snap /\ w \in log'[j].writes}
          = {j \in Transactions : j <= log[i].snap /\ w \in log[j].writes}
    <3>1. ASSUME NEW j
          PROVE  j \in Transactions' /\ j <= log'[i].snap /\ w \in log'[j].writes
                 <=> j \in Transactions /\ j <= log[i].snap /\ w \in log[j].writes
      <4>1. j \in Transactions => j \in Transactions' /\ log'[j] = log[j]
        BY AppendTransactions
      <4>2. j \in Transactions' => j \in Transactions \/ j = Len(log) + 1
        BY AppendTransactions
      <4>3. Len(log) \in Nat /\ log'[i].snap = log[i].snap
        BY <1>1
      <4>4. ~(Len(log) + 1 <= log[i].snap)
        BY <1>1, <4>3
      <4>. QED  BY <4>1, <4>2, <4>3, <4>4
    <3>. QED  BY <3>1
  <2>. QED  BY <2>1 DEF Version
<1>3. Covered(log[i].reads)' = Covered(log[i].reads)
  BY <1>1 DEF Covered
<1>. QED  BY <1>1, <1>2, <1>3 DEF OutcomeOf

\* The mapped variables.
Latest == [w \in WriteKey |-> Version(w, Len(log))]
Committed == {OutcomeOf(i) : i \in Transactions}

\* Autocommit and DDL writes are not seen.
LEMMA OtherWriteStutters ==
  ASSUME log \in Seq(LogEntry), SnapshotsPrecede, NEW e \in LogEntry,
         log' = Append(log, e), e.kind # "txn"
  PROVE  Latest' = Latest /\ Committed' = Committed /\ SnapshotsPrecede'
<1>1. Transactions' = Transactions /\ Len(log)' = Len(log) + 1
  BY AppendTransactions
<1>2. \A i \in Transactions : log[i].snap <= Len(log) /\ log'[i] = log[i]
  <2>1. Transactions \subseteq 1..Len(log) /\ Len(log) \in Nat
        /\ \A i \in Transactions : log'[i] = log[i]
    BY AppendTransactions
  <2>2. \A i \in 1..Len(log) : log[i].snap \in Nat
    BY SnapTyped
  <2>. QED  BY <2>1, <2>2 DEF SnapshotsPrecede
<1>3. Committed' = Committed
  BY <1>1, <1>2, OutcomeStays DEF Committed
<1>4. ASSUME NEW w \in WriteKey
      PROVE  Version(w, Len(log))' = Version(w, Len(log))
  <2>1. Writers(w, Len(log))' = Writers(w, Len(log))
    BY WritersGrow
  <2>. QED  BY <2>1 DEF Version, Writers
<1>5. Latest' = Latest
  BY <1>4 DEF Latest
<1>6. SnapshotsPrecede'
  BY <1>1, <1>2 DEF SnapshotsPrecede
<1>. QED  BY <1>3, <1>5, <1>6

\* A transaction's batch is one step of LiteSerial.
LEMMA WriteIsTransaction ==
  ASSUME TypeOK, SequencesBounded, ValidatedIsCurrent, SnapshotsPrecede,
         NEW c \in Contexts, PhysicalWrite(c), writes[c] # {}
  PROVE  Serial!Next /\ SnapshotsPrecede'
<1>. DEFINE L == Len(log)
            e == [kind |-> "txn", owner |-> c, reads |-> reads[c],
                  writes |-> writes[c], snap |-> snap[c]]
            t == [stamp    |-> L + 1,
                  observed |-> [w \in Covered(reads[c]) |-> Version(w, L)],
                  written  |-> writes[c]]
<1>1. /\ log \in Seq(LogEntry) /\ e \in LogEntry /\ log' = Append(log, e)
      /\ e.kind = "txn"
  BY DEF TypeOK, PhysicalWrite, LogEntry, Kinds
<1>2. snap[c] \in Nat /\ snap[c] <= L /\ L \in Nat
  BY DEF TypeOK, Registered, PhysicalWrite, SequencesBounded
<1>3. /\ Transactions \subseteq 1..L /\ Transactions' = Transactions \cup {L + 1}
      /\ \A i \in Transactions : log'[i] = log[i]
      /\ log'[L + 1] = e /\ Len(log)' = L + 1
  BY <1>1, AppendTransactions
<1>4. \A i \in Transactions : log[i].snap <= L
  <2>1. \A i \in 1..L : log[i].snap \in Nat
    BY <1>1, SnapTyped
  <2>. QED  BY <1>2, <1>3, <2>1 DEF SnapshotsPrecede
<1>5. \A i \in Transactions : OutcomeOf(i)' = OutcomeOf(i)
  BY <1>1, <1>4, OutcomeStays
<1>6. PICK n \in Nat : n = snap[c]
  BY <1>2
\* What the transaction read at its snapshot is still the latest version.
<1>7. ASSUME NEW i, i = L + 1, NEW w \in Covered(reads[c])
      PROVE  Version(w, log[i].snap)' = Version(w, L)
  <2>1. log'[i].snap = n
    BY <1>3, <1>6, <1>7
  <2>2. ASSUME NEW j \in Transactions, w \in log[j].writes PROVE j <= n
    <3>1. j \in DOMAIN log /\ log[j].kind = "txn"
      BY DEF Transactions
    <3>2. Overlap(reads[c], log[j].writes)
      BY <1>7, <2>2 DEF Covered, Overlap
    <3>3. pc[c] = "physical"
      BY DEF PhysicalWrite
    <3>4. ~(j > n)
      BY <1>6, <3>1, <3>2, <3>3 DEF ValidatedIsCurrent
    <3>. QED  BY <1>2, <1>3, <3>4
  <2>3. {j \in Transactions' : j <= n /\ w \in log'[j].writes}
          = {j \in Transactions : j <= L /\ w \in log[j].writes}
    <3>1. ~(L + 1 <= n) /\ \A j \in Transactions : j <= L
      BY <1>2, <1>3, <1>6
    <3>. QED  BY <1>3, <2>2, <3>1
  <2>. QED  BY <2>1, <2>3 DEF Version
<1>8. ASSUME NEW i, i = L + 1 PROVE OutcomeOf(i)' = t
  <2>1. log'[i] = e
    BY <1>3, <1>8
  <2>2. Covered(log[i].reads)' = Covered(reads[c])
    BY <2>1 DEF Covered
  <2>. QED  BY <1>7, <1>8, <2>1, <2>2 DEF OutcomeOf
<1>9. Committed' = Committed \cup {t}
  BY <1>3, <1>5, <1>8 DEF Committed
<1>10. \A u \in Committed : u.stamp < t.stamp
  BY <1>2, <1>3 DEF Committed, OutcomeOf
<1>11. ASSUME NEW w \in WriteKey
       PROVE  Version(w, Len(log))'
                = IF w \in writes[c] THEN L + 1 ELSE Version(w, L)
  <2>1. Version(w, Len(log))' = Max(Writers(w, Len(log))')
    BY DEF Version, Writers
  <2>2. CASE w \in writes[c]
    <3>. DEFINE S == Writers(w, L) \cup {L + 1}
    <3>1. Writers(w, Len(log))' = S
      BY <1>1, <2>2, WritersGrow
    <3>2. S \in SUBSET Nat /\ S # {} /\ (\A x \in S : x <= L + 1) /\ L + 1 \in S
      <4>1. Writers(w, L) \subseteq Transactions \cup {0}
        BY DEF Writers
      <4>2. \A x \in S : x \in 1..L \/ x = 0 \/ x = L + 1
        BY <1>3, <4>1
      <4>3. \A x \in S : x \in Nat /\ x <= L + 1
        BY <1>2, <4>2
      <4>. QED  BY <4>3
    <3>. HIDE DEF S
    <3>3. Max(S) \in S /\ \A x \in S : x <= Max(S)
      BY <1>2, <3>2, MaxIsGreatest
    <3>4. Max(S) = L + 1
      <4>1. Max(S) \in Nat /\ Max(S) <= L + 1 /\ L + 1 <= Max(S)
        BY <3>2, <3>3
      <4>. QED  BY <1>2, <4>1
    <3>. QED  BY <2>1, <2>2, <3>1, <3>4
  <2>3. CASE w \notin writes[c]
    <3>1. ~(e.kind = "txn" /\ w \in e.writes)
      BY <2>3
    <3>. HIDE DEF e
    <3>2. Writers(w, Len(log))' = Writers(w, L)
      BY <1>1, <3>1, WritersGrow
    <3>. QED  BY <2>1, <2>3, <3>2, VersionOfWriters
  <2>. QED  BY <2>2, <2>3
<1>12. Latest' = [w \in WriteKey |-> IF w \in writes[c] THEN L + 1 ELSE Latest[w]]
  BY <1>11 DEF Latest
<1>13. t.observed = [w \in DOMAIN t.observed |-> Latest[w]]
  BY DEF Latest, Covered
<1>14. Serial!Transaction(t)
  BY <1>2, <1>9, <1>10, <1>12, <1>13 DEF Serial!Transaction, Latest, Committed
<1>15. t \in Committed' \ Committed
  BY <1>2, <1>9, <1>10
<1>16. Serial!Next
  BY <1>14, <1>15 DEF Serial!Next, Committed
<1>17. SnapshotsPrecede'
  <2>. SUFFICES ASSUME NEW i \in Transactions' PROVE log'[i].snap < i
    BY DEF SnapshotsPrecede
  <2>1. CASE i \in Transactions
    BY <1>3, <2>1 DEF SnapshotsPrecede
  <2>2. CASE i = L + 1
    <3>1. log'[i].snap = snap[c]
      BY <1>3, <2>2
    <3>. QED  BY <1>2, <2>2, <3>1
  <2>. QED  BY <1>3, <2>1, <2>2
<1>. QED  BY <1>16, <1>17

\* The mapped state changes only with the log.
LEMMA SameLogStutters ==
  ASSUME SnapshotsPrecede, log' = log
  PROVE  Latest' = Latest /\ Committed' = Committed /\ SnapshotsPrecede'
BY DEF Latest, Committed, SnapshotsPrecede, OutcomeOf, Covered, Version, Transactions

\* Every step of the protocol is a step of LiteSerial or none.
LEMMA SerialStep ==
  ASSUME TypeOK, SequencesBounded, ValidatedIsCurrent, SnapshotsPrecede,
         [Next]_vars
  PROVE  /\ Serial!Next \/ (Latest' = Latest /\ Committed' = Committed)
         /\ SnapshotsPrecede'
<1>1. log \in Seq(LogEntry) /\ Len(log) \in Nat
  BY DEF TypeOK
<1>2. CASE log' = log
  BY <1>2, SameLogStutters
<1>3. ASSUME NEW c \in Contexts, PhysicalWrite(c), log' # log
      PROVE  Serial!Next /\ SnapshotsPrecede'
  <2>1. writes[c] # {}
    BY <1>3 DEF PhysicalWrite
  <2>. QED  BY <1>3, <2>1, WriteIsTransaction
<1>4. ASSUME NEW c \in Contexts, NEW w \in WriteChoices, Autocommit(c, w)
      PROVE  Latest' = Latest /\ Committed' = Committed /\ SnapshotsPrecede'
  <2>. DEFINE e == [kind |-> "auto", owner |-> c, reads |-> {},
                    writes |-> {w}, snap |-> Len(log)]
  <2>1. e \in LogEntry /\ log' = Append(log, e) /\ e.kind # "txn"
    BY <1>1, <1>4, ChoicesAssumption DEF Autocommit, LogEntry, Kinds
  <2>. QED  BY <1>1, <2>1, OtherWriteStutters
<1>5. ASSUME NEW c \in Contexts, NEW o \in Objects, NEW owner \in {c, NoOne},
             DdlWrite(c, o, owner)
      PROVE  Latest' = Latest /\ Committed' = Committed /\ SnapshotsPrecede'
  <2>. DEFINE e == [kind |-> "ddl", owner |-> owner, reads |-> {},
                    writes |-> {<<o, 0>>}, snap |-> Len(log)]
  <2>1. <<o, 0>> \in WriteKey
    BY MaxKeyAssumption DEF WriteKey, Key
  <2>2. e \in LogEntry /\ log' = Append(log, e) /\ e.kind # "txn"
    BY <1>1, <1>5, <2>1 DEF DdlWrite, LogEntry, Kinds
  <2>. QED  BY <1>1, <2>2, OtherWriteStutters
<1>6. ASSUME NEW c \in Contexts, Step(c), log' # log
      PROVE  \/ PhysicalWrite(c)
             \/ \E w \in WriteChoices : Autocommit(c, w)
             \/ \E o \in Objects, owner \in {c, NoOne} : DdlWrite(c, o, owner)
  BY <1>6 DEF Step, BeginSequence, BeginSnapshot, Read, Write, CommitRequest,
              AcquireIntent, Validate, Refuse, PhysicalFail, Publish, FailEnd,
              ReleaseIntent, Rollback
<1>7. log' # log => \E c \in Contexts : Step(c)
  BY DEF Next, DdlPublish, Terminated, vars
<1>. QED  BY <1>2, <1>3, <1>4, <1>5, <1>6, <1>7

\* The optimistic commit protocol, with snapshots, validation against a
\* bounded history, intents and physical writes outside the storage mutex,
\* implements a store that runs its transactions one after the other, for any
\* sessions, tables, keys, limits and interleaving.
THEOREM OccImplementsSerial == Spec => ImplementsSerial
<1>1. Init => Serial!Init /\ SnapshotsPrecede
  <2>. SUFFICES ASSUME Init PROVE Serial!Init /\ SnapshotsPrecede
    OBVIOUS
  <2>1. Transactions = {} /\ Len(log) = 0
    BY DEF Init, Transactions
  <2>2. ASSUME NEW w PROVE Version(w, Len(log)) = 0
    <3>1. Version(w, Len(log)) = Max({0})
      BY <2>1 DEF Version
    <3>2. Max({0}) \in {0}
      BY MaxIsGreatest
    <3>. QED  BY <3>1, <3>2
  <2>. QED  BY <2>1, <2>2 DEF Serial!Init, SnapshotsPrecede
<1>2. InductiveInvariant => TypeOK /\ SequencesBounded /\ ValidatedIsCurrent
  BY InvariantIsCurrent DEF InductiveInvariant
<1>3. InductiveInvariant /\ SnapshotsPrecede /\ [Next]_vars
        => SnapshotsPrecede' /\ [Serial!Next]_<<Latest, Committed>>
  BY <1>2, SerialStep
<1>. QED  BY <1>1, <1>3, Invariance, PTL
          DEF Spec, ImplementsSerial, Serial!Spec, Latest, Committed
=============================================================================
