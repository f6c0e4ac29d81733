------------------------- MODULE LiteStartupProofs --------------------------
(***************************************************************************)
(* Proofs about LiteStartup, for every journal an earlier release may have *)
(* left and every number of errors, crashes and power failures.            *)
(***************************************************************************)
EXTENDS LiteStartup, LiteFacts, FiniteSetTheorems, TLAPS

(***************************************************************************)
(* The inductive invariant, in named parts.                                *)
(***************************************************************************)
Replaying == stage \in {"replay", "batch", "moved"}
AtBatch == stage \in {"batch", "moved"}

\* What each stage of acquire knows of the database and of the journal.
StageInv ==
  /\ stage = "format" => ~db.format
  /\ stage = "activate" => db.format
  /\ stage \in {"open", "migrate", "scan", "replay", "batch", "moved", "ready"} => db.active
  /\ Replaying => todo = journal
  /\ stage = "ready" => journal = {}
  /\ AtBatch => todo # {} /\ at <= Len(Records[First])
  /\ stage = "moved" => db.nextRow[Current.table] >= 1
  /\ ~wasOld => journal = {}

\* A combination of markers prepareTarget accepts.
Activated(m) ==
  /\ m.active => m.layout /\ m.format
  /\ m.layout => m.active
  /\ ~m.format => m = EmptyImage

ActiveInv ==
  /\ \A i \in DOMAIN images : Activated(images[i])
  /\ refused # "target"

\* Of the journalled records an image holds at most the first, and that one
\* with its markers.
Resumable(m) ==
  \A j \in journal, t \in Tables :
    /\ j \in m.rows[t] <=> j \in m.marks[t]
    /\ j \in m.rows[t] => \A k \in journal : j <= k

\* Records leave the journal in order.
JournalInv ==
  /\ \A j \in journal, k \in Ids : j <= k => k \in journal
  /\ \A i \in DOMAIN images : Resumable(images[i])

\* The row-id counter of table t, when j is the first record of the journal:
\* past j's row if the row is there; at it, or past it too if an attempt was
\* interrupted after its write of the catalog, if not.
CounterInv(j, t) ==
  \/ db.nextRow[t] = RowId(j, t) /\ j \notin db.marks[t]
  \/ db.nextRow[t] = RowId(j, t) + 1 /\ t \in ToSet(Records[j])

\* While the machine stays up.
ReplayInv ==
  blackouts = 0 =>
    /\ wasOld => \A j \in Ids \ journal : InAll(db, j)
    /\ \A j \in journal : (\A k \in journal : j <= k) => \A t \in Keyless : CounterInv(j, t)
    /\ Replaying /\ todo # {} =>
         \A i \in DOMAIN Records[First] : i < at => First \in db.rows[Records[First][i]]
    /\ AtBatch /\ Current.table \in Keyless =>
         db.nextRow[Current.table] = RowId(First, Current.table) + 1
    /\ AtBatch => First \notin db.marks[Current.table]
    /\ refused # "replay"

IInv == TypeOK /\ StageInv /\ ActiveInv /\ JournalInv /\ ReplayInv
-----------------------------------------------------------------------------
(***************************************************************************)
(* Facts about images, the journal and row ids.                            *)
(***************************************************************************)

\* What the database shows is its last image.
LEMMA DbFacts ==
  ASSUME images \in Seq(Image), images # <<>>
  PROVE  db \in Image /\ \E k \in DOMAIN images : images[k] = db
<1>1. Len(images) \in DOMAIN images
  OBVIOUS
<1>. QED  BY <1>1 DEF db, Last

\* The images after a write, synchronous or not.
LEMMA WriteFacts ==
  ASSUME images \in Seq(Image), NEW m \in Image, WriteAsync(m) \/ WriteSync(m)
  PROVE  /\ images' \in Seq(Image) /\ images' # <<>> /\ db' = m
         /\ \A i \in DOMAIN images' :
              images'[i] = m \/ \E k \in DOMAIN images : images'[i] = images[k]
<1>. HIDE DEF Image
<1>1. CASE WriteAsync(m)
  <2>1. images' = Append(images, m)
    BY <1>1 DEF WriteAsync
  <2>2. /\ images' \in Seq(Image) /\ Len(images) \in Nat /\ Len(images') = Len(images) + 1
        /\ DOMAIN images' = 1..(Len(images) + 1)
        /\ images'[Len(images) + 1] = m
        /\ \A i \in DOMAIN images : images'[i] = images[i]
        /\ \A i \in DOMAIN images' : i \in DOMAIN images \/ i = Len(images) + 1
    BY <2>1, AppendFacts
  <2>3. images' # <<>>
    BY <2>2
  <2>. QED  BY <2>2, <2>3 DEF db, Last
<1>2. CASE WriteSync(m)
  <2>1. images' = <<m>>
    BY <1>2 DEF WriteSync
  <2>. QED  BY <2>1 DEF db, Last
<1>. QED  BY <1>1, <1>2

\* The records are numbered from 1.
LEMMA IdsFacts == Ids = 1..Len(Records) /\ Len(Records) \in Nat /\ Ids \subseteq Nat \ {0}
                  /\ \A j \in Ids : Records[j] \in Seq(Tables)
  BY StartupAssumption DEF Ids

\* The record at hand is the first of those that remain.
LEMMA FirstFacts ==
  ASSUME journal \subseteq Ids, todo \subseteq journal, todo # {}
  PROVE  /\ First \in todo /\ First \in journal /\ First \in Ids /\ First \in Nat
         /\ \A k \in todo : First <= k
         /\ Records[First] \in Seq(Tables)
<1>1. todo \in SUBSET Nat
  BY IdsFacts
<1>2. First \in todo /\ \A k \in todo : First <= k
  BY <1>1, MinIsLeast DEF First
<1>. QED  BY <1>2, IdsFacts

\* The table at hand is one of the record's tables.
LEMMA CurrentFacts ==
  ASSUME journal \subseteq Ids, todo \subseteq journal, todo # {}, at \in Nat \ {0},
         at <= Len(Records[First])
  PROVE  /\ Current.id = First /\ Current.table \in Tables
         /\ Current.table = Records[First][at] /\ at \in DOMAIN Records[First]
         /\ Current.table \in ToSet(Records[First])
<1>1. Records[First] \in Seq(Tables)
  BY FirstFacts
<1>2. at \in DOMAIN Records[First]
  BY <1>1
<1>3. Records[First][at] \in Tables
  BY <1>1, <1>2
<1>. QED  BY <1>2, <1>3 DEF Current, ToSet

\* The updates of an image.
LEMMA MarkerUpdates ==
  ASSUME NEW m \in Image
  PROVE  /\ [m EXCEPT !.format = TRUE] \in Image
         /\ [m EXCEPT !.active = TRUE, !.layout = TRUE] \in Image
         /\ [m EXCEPT !.keys2 = TRUE] \in Image
  BY DEF Image

\* An empty database is an image.
LEMMA EmptyImageFacts ==
  /\ EmptyImage \in Image
  /\ \A k \in BOOLEAN : [EmptyImage EXCEPT !.format = TRUE, !.active = TRUE,
                                           !.layout = TRUE, !.keys2 = k] \in Image
  BY DEF EmptyImage, Image

\* Row ids count the earlier records of a table.
LEMMA RowIdFacts ==
  ASSUME NEW j \in Ids, NEW t \in Tables
  PROVE  /\ RowId(j, t) \in Nat \ {0}
         /\ j = 1 => RowId(j, t) = 1
         /\ j + 1 \in Ids =>
              RowId(j + 1, t) = IF t \in ToSet(Records[j]) THEN RowId(j, t) + 1 ELSE RowId(j, t)
<1>. DEFINE S(i) == {k \in 1..(i - 1) : t \in ToSet(Records[k])}
<1>1. j \in Nat \ {0}
  BY IdsFacts
<1>2. \A i \in Nat \ {0} : IsFiniteSet(S(i)) /\ Cardinality(S(i)) \in Nat
  <2>. SUFFICES ASSUME NEW i \in Nat \ {0}
       PROVE  IsFiniteSet(S(i)) /\ Cardinality(S(i)) \in Nat
    OBVIOUS
  <2>1. i - 1 \in Int /\ IsFiniteSet(1..(i - 1))
    BY FS_Interval
  <2>2. S(i) \subseteq 1..(i - 1)
    OBVIOUS
  <2>3. IsFiniteSet(S(i))
    BY <2>1, <2>2, FS_Subset
  <2>. QED  BY <2>3, FS_CardinalityType
<1>3. RowId(j, t) = 1 + Cardinality(S(j)) /\ RowId(j + 1, t) = 1 + Cardinality(S(j + 1))
  BY DEF RowId
<1>4. j = 1 => S(j) = {}
  OBVIOUS
<1>5. t \in ToSet(Records[j]) => S(j + 1) = S(j) \cup {j} /\ j \notin S(j)
  BY <1>1
<1>6. t \notin ToSet(Records[j]) => S(j + 1) = S(j)
  BY <1>1
<1>7. IsFiniteSet(S(j)) /\ Cardinality(S(j)) \in Nat
  BY <1>1, <1>2
<1>. HIDE DEF S
<1>8. t \in ToSet(Records[j]) => Cardinality(S(j + 1)) = Cardinality(S(j)) + 1
  BY <1>5, <1>7, FS_AddElement
<1>9. j = 1 => Cardinality(S(j)) = 0
  BY <1>4, FS_EmptySet
<1>. QED  BY <1>3, <1>6, <1>7, <1>8, <1>9
-----------------------------------------------------------------------------
(***************************************************************************)
(* Steps of a kind.                                                        *)
(***************************************************************************)

\* Nothing is written.
LEMMA ImagesKept ==
  ASSUME ActiveInv, JournalInv, UNCHANGED <<images, journal, refused>>
  PROVE  ActiveInv' /\ JournalInv' /\ db' = db
  BY DEF ActiveInv, JournalInv, Resumable, Activated, db

\* One image is written that can be activated and resumed from.
LEMMA ImageWritten ==
  ASSUME TypeOK, ActiveInv, JournalInv, NEW m \in Image, WriteAsync(m) \/ WriteSync(m),
         Activated(m), Resumable(m), UNCHANGED <<journal, refused>>
  PROVE  /\ ActiveInv' /\ JournalInv' /\ db' = m
         /\ images' \in Seq(Image) /\ images' # <<>>
<1>1. /\ images' \in Seq(Image) /\ images' # <<>> /\ db' = m
      /\ \A i \in DOMAIN images' :
           images'[i] = m \/ \E k \in DOMAIN images : images'[i] = images[k]
  BY WriteFacts DEF TypeOK
<1>2. ASSUME NEW i \in DOMAIN images' PROVE Activated(images'[i]) /\ Resumable(images'[i])
  <2>1. CASE images'[i] = m
    BY <2>1
  <2>2. ASSUME NEW k \in DOMAIN images, images'[i] = images[k]
        PROVE  Activated(images'[i]) /\ Resumable(images'[i])
    BY <2>2 DEF ActiveInv, JournalInv
  <2>. QED  BY <1>1, <2>1, <2>2
<1>3. ActiveInv'
  BY <1>2 DEF ActiveInv, Activated
<1>4. JournalInv'
  BY <1>2 DEF JournalInv, Resumable
<1>. QED  BY <1>1, <1>3, <1>4

\* What the database shows can be activated and resumed from.
LEMMA DbGood ==
  ASSUME TypeOK, ActiveInv, JournalInv
  PROVE  db \in Image /\ Activated(db) /\ Resumable(db)
  BY DbFacts DEF TypeOK, ActiveInv, JournalInv

\* acquire gives up, or the last user leaves, and nothing is written.
LEMMA GiveUpStep ==
  ASSUME IInv, GiveUp, UNCHANGED <<images, journal, wasOld, refused, blackouts>>,
         faults' \in 0..MaxFaults, crashes' \in 0..MaxCrashes
  PROVE  IInv'
<1>1. ActiveInv' /\ JournalInv' /\ db' = db
  BY ImagesKept DEF IInv
<1>2. TypeOK'
  BY DEF IInv, TypeOK, GiveUp, Stages
<1>3. StageInv'
  BY DEF IInv, StageInv, GiveUp, Replaying, AtBatch
<1>4. ReplayInv'
  BY <1>1 DEF IInv, ReplayInv, GiveUp, Replaying, AtBatch, CounterInv, InAll
<1>. QED  BY <1>1, <1>2, <1>3, <1>4 DEF IInv

\* acquire gives up after a write that leaves rows and markers alone.
LEMMA WriteAndGiveUpStep ==
  ASSUME IInv, NEW m \in Image, WriteAsync(m), Activated(m),
         m.rows = db.rows, m.marks = db.marks,
         \A j \in journal : blackouts = 0 /\ (\A k \in journal : j <= k) =>
           \A t \in Keyless : \/ m.nextRow[t] = db.nextRow[t]
                              \/ m.nextRow[t] = RowId(j, t) /\ j \notin m.marks[t],
         GiveUp, UNCHANGED <<journal, wasOld, refused, blackouts>>,
         faults' \in 0..MaxFaults, crashes' \in 0..MaxCrashes
  PROVE  IInv'
<1>1. Resumable(m)
  <2>1. Resumable(db)
    BY DbGood DEF IInv
  <2>. QED  BY <2>1 DEF Resumable
<1>2. /\ ActiveInv' /\ JournalInv' /\ db' = m
      /\ images' \in Seq(Image) /\ images' # <<>>
  BY <1>1, ImageWritten DEF IInv
<1>3. TypeOK'
  BY <1>2 DEF IInv, TypeOK, GiveUp, Stages
<1>4. StageInv'
  BY DEF IInv, StageInv, GiveUp, Replaying, AtBatch
<1>5. ReplayInv'
  <2>. SUFFICES ASSUME blackouts = 0 PROVE ReplayInv'
    BY DEF ReplayInv
  <2>1. wasOld => \A j \in Ids \ journal : InAll(m, j)
    BY DEF IInv, ReplayInv, InAll
  <2>2. ASSUME NEW j \in journal, \A k \in journal : j <= k, NEW t \in Keyless
        PROVE  CounterInv(j, t)'
    <3>1. CounterInv(j, t)
      BY <2>2 DEF IInv, ReplayInv
    <3>2. m.nextRow[t] = db.nextRow[t] \/ (m.nextRow[t] = RowId(j, t) /\ j \notin m.marks[t])
      BY <2>2
    <3>. QED  BY <3>1, <3>2, <1>2 DEF CounterInv
  <2>. QED
    BY <1>2, <2>1, <2>2 DEF IInv, ReplayInv, GiveUp, Replaying, AtBatch, InAll
<1>. QED  BY <1>2, <1>3, <1>4, <1>5 DEF IInv
-----------------------------------------------------------------------------
(***************************************************************************)
(* The invariant, action by action.                                        *)
(***************************************************************************)

\* A new store, and one an earlier release left.
LEMMA InitInv == Init => IInv
<1>. SUFFICES ASSUME Init PROVE IInv
  OBVIOUS
<1>1. PICK m \in Image :
        /\ images = <<m>> /\ Activated(m)
        /\ m.rows = [t \in Tables |-> {}] /\ m.marks = [t \in Tables |-> {}]
        /\ m.nextRow = [t \in Tables |-> 1]
  <2>1. PICK k \in BOOLEAN :
          images = IF wasOld THEN <<[EmptyImage EXCEPT !.format = TRUE, !.active = TRUE,
                                                       !.layout = TRUE, !.keys2 = k]>>
                   ELSE <<EmptyImage>>
    BY DEF Init
  <2>. DEFINE e == [EmptyImage EXCEPT !.format = TRUE, !.active = TRUE,
                                      !.layout = TRUE, !.keys2 = k]
  <2>2. CASE wasOld
    <3>1. e \in Image /\ Activated(e)
      BY EmptyImageFacts DEF EmptyImage, Activated
    <3>2. /\ e.rows = [t \in Tables |-> {}] /\ e.marks = [t \in Tables |-> {}]
          /\ e.nextRow = [t \in Tables |-> 1]
      BY DEF EmptyImage
    <3>3. images = <<e>>
      BY <2>1, <2>2
    <3>. HIDE DEF e
    <3>. QED  BY <3>1, <3>2, <3>3
  <2>3. CASE ~wasOld
    <3>1. EmptyImage \in Image /\ Activated(EmptyImage)
      BY EmptyImageFacts DEF EmptyImage, Activated
    <3>2. /\ EmptyImage.rows = [t \in Tables |-> {}] /\ EmptyImage.marks = [t \in Tables |-> {}]
          /\ EmptyImage.nextRow = [t \in Tables |-> 1]
      BY DEF EmptyImage
    <3>3. images = <<EmptyImage>>
      BY <2>1, <2>3
    <3>. QED  BY <3>1, <3>2, <3>3
  <2>. QED  BY <2>2, <2>3
<1>2. /\ wasOld \in BOOLEAN /\ journal = (IF wasOld THEN Ids ELSE {})
      /\ stage = "closed" /\ todo = {} /\ at = 1 /\ refCount = 0
      /\ refused = "no" /\ faults = 0 /\ crashes = 0 /\ blackouts = 0
  BY DEF Init
<1>3. images \in Seq(Image) /\ images # <<>> /\ db = m /\ \A i \in DOMAIN images : images[i] = m
  BY <1>1 DEF db, Last
<1>4. TypeOK
  BY <1>2, <1>3, StartupAssumption DEF TypeOK, Stages
<1>5. StageInv
  BY <1>2 DEF StageInv, Replaying, AtBatch
<1>6. ActiveInv
  BY <1>1, <1>2, <1>3 DEF ActiveInv
<1>7. JournalInv
  BY <1>1, <1>2, <1>3 DEF JournalInv, Resumable
<1>8. ReplayInv
  <2>1. ASSUME NEW j \in journal, \A k \in journal : j <= k, NEW t \in Keyless
        PROVE  CounterInv(j, t)
    <3>1. j \in Ids /\ journal = Ids /\ t \in Tables
      BY <1>2, <2>1, StartupAssumption
    <3>2. 1 \in Ids /\ j \in Nat \ {0}
      BY <3>1, IdsFacts
    <3>3. j = 1
      BY <2>1, <3>1, <3>2
    <3>4. RowId(j, t) = 1
      BY <3>1, <3>3, RowIdFacts
    <3>. QED  BY <1>1, <1>3, <3>1, <3>4 DEF CounterInv
  <2>2. wasOld => \A j \in Ids \ journal : InAll(db, j)
    BY <1>2
  <2>. QED  BY <1>2, <2>1, <2>2 DEF ReplayInv, Replaying, AtBatch
<1>. QED  BY <1>4, <1>5, <1>6, <1>7, <1>8 DEF IInv

\* prepareTarget's writes, by WriteFormat and Activate and by a commit whose
\* flush fails.
LEMMA MarkerSteps ==
  ASSUME TypeOK, StageInv, ActiveInv, JournalInv
  PROVE  /\ stage = "format" => LET m == [db EXCEPT !.format = TRUE] IN
              /\ m \in Image /\ Activated(m) /\ Resumable(m) /\ m.format
              /\ m.rows = db.rows /\ m.marks = db.marks /\ m.nextRow = db.nextRow
         /\ stage = "activate" => LET m == [db EXCEPT !.active = TRUE, !.layout = TRUE] IN
              /\ m \in Image /\ Activated(m) /\ Resumable(m) /\ m.active
              /\ m.rows = db.rows /\ m.marks = db.marks /\ m.nextRow = db.nextRow
<1>1. db \in Image /\ Activated(db) /\ Resumable(db)
  BY DbGood
<1>2. ASSUME NEW m, m.rows = db.rows, m.marks = db.marks PROVE Resumable(m)
  BY <1>1, <1>2 DEF Resumable
<1>3. ASSUME stage = "format"
      PROVE  LET m == [db EXCEPT !.format = TRUE] IN
              /\ m \in Image /\ Activated(m) /\ Resumable(m) /\ m.format
              /\ m.rows = db.rows /\ m.marks = db.marks /\ m.nextRow = db.nextRow
  <2>. DEFINE m == [db EXCEPT !.format = TRUE]
  <2>1. m \in Image
    BY <1>1, MarkerUpdates
  <2>2. /\ m.rows = db.rows /\ m.marks = db.marks /\ m.nextRow = db.nextRow
        /\ m.format = TRUE /\ m.active = db.active /\ m.layout = db.layout
    BY <1>1 DEF Image
  <2>3. db = EmptyImage
    BY <1>1, <1>3 DEF StageInv, Activated
  <2>4. ~db.active /\ ~db.layout
    BY <2>3 DEF EmptyImage
  <2>5. m.format /\ ~m.active /\ ~m.layout
    BY <2>2, <2>4
  <2>. HIDE DEF m
  <2>6. Activated(m) /\ Resumable(m)
    BY <1>2, <2>2, <2>5 DEF Activated
  <2>7. /\ m \in Image /\ Activated(m) /\ Resumable(m) /\ m.format
        /\ m.rows = db.rows /\ m.marks = db.marks /\ m.nextRow = db.nextRow
    BY <2>1, <2>2, <2>5, <2>6
  <2>. QED  BY <2>7 DEF m
<1>4. ASSUME stage = "activate"
      PROVE  LET m == [db EXCEPT !.active = TRUE, !.layout = TRUE] IN
              /\ m \in Image /\ Activated(m) /\ Resumable(m) /\ m.active
              /\ m.rows = db.rows /\ m.marks = db.marks /\ m.nextRow = db.nextRow
  <2>. DEFINE m == [db EXCEPT !.active = TRUE, !.layout = TRUE]
  <2>1. m \in Image
    BY <1>1, MarkerUpdates
  <2>2. /\ m.rows = db.rows /\ m.marks = db.marks /\ m.nextRow = db.nextRow
        /\ m.format = db.format /\ m.active = TRUE /\ m.layout = TRUE
    BY <1>1 DEF Image
  <2>3. db.format
    BY <1>4 DEF StageInv
  <2>4. m.format /\ m.active /\ m.layout
    BY <2>2, <2>3
  <2>. HIDE DEF m
  <2>5. Activated(m) /\ Resumable(m)
    BY <1>2, <2>2, <2>4 DEF Activated
  <2>6. /\ m \in Image /\ Activated(m) /\ Resumable(m) /\ m.active
        /\ m.rows = db.rows /\ m.marks = db.marks /\ m.nextRow = db.nextRow
    BY <2>1, <2>2, <2>4, <2>5
  <2>. QED  BY <2>6 DEF m
<1>. QED  BY <1>3, <1>4

\* A step outside the replay that leaves rows, markers and counters alone.
LEMMA OutsideReplay ==
  ASSUME ReplayInv, UNCHANGED <<journal, wasOld, refused, blackouts>>,
         db'.rows = db.rows, db'.marks = db.marks, db'.nextRow = db.nextRow,
         stage' \notin {"replay", "batch", "moved"}
  PROVE  ReplayInv'
  BY DEF ReplayInv, Replaying, AtBatch, CounterInv, InAll

\* acquire before the replay, and the life of an open store.
LEMMA OpeningSteps ==
  ASSUME IInv,
         \/ Acquire \/ ReadTarget \/ WriteFormat \/ Activate \/ OpenTarget \/ Migrate
         \/ Share \/ Release \/ SyncCommit
  PROVE  IInv'
<1>0. /\ TypeOK /\ StageInv /\ ActiveInv /\ JournalInv /\ ReplayInv
      /\ db \in Image /\ Activated(db) /\ Resumable(db)
      /\ faults \in 0..MaxFaults /\ crashes \in 0..MaxCrashes
  BY DbGood DEF IInv, TypeOK
<1>1. ASSUME UNCHANGED <<images, journal, wasOld, refused, bounds>>, TypeOK', StageInv',
             stage' \notin {"replay", "batch", "moved"}
      PROVE  IInv'
  <2>1. ActiveInv' /\ JournalInv' /\ db' = db
    BY <1>0, <1>1, ImagesKept
  <2>2. ReplayInv'
    BY <1>0, <1>1, <2>1, OutsideReplay DEF bounds
  <2>. QED  BY <1>1, <2>1, <2>2 DEF IInv
<1>2. ASSUME NEW m \in Image, WriteSync(m), Activated(m), Resumable(m),
             m.rows = db.rows, m.marks = db.marks, m.nextRow = db.nextRow,
             UNCHANGED <<journal, todo, at, refCount, wasOld, refused, bounds>>,
             stage' \in Stages \ {"closed", "target", "replay", "batch", "moved"},
             stage' = "ready" => stage = "ready", stage = "ready" => stage' = "ready",
             stage' # "format", stage' = "activate" => m.format,
             stage' # "activate" => m.active
      PROVE  IInv'
  <2>1. /\ ActiveInv' /\ JournalInv' /\ db' = m
        /\ images' \in Seq(Image) /\ images' # <<>>
    BY <1>0, <1>2, ImageWritten
  <2>2. ReplayInv'
    BY <1>0, <1>2, <2>1, OutsideReplay DEF bounds
  <2>3. TypeOK'
    <3>1. refCount' \in 0..2 /\ (refCount' > 0 <=> stage' = "ready")
      BY <1>0, <1>2 DEF TypeOK
    <3>2. stage' \in Stages
      BY <1>2
    <3>. QED  BY <1>0, <1>2, <2>1, <3>1, <3>2 DEF TypeOK, bounds
  <2>4. StageInv'
    BY <1>0, <1>2, <2>1 DEF StageInv, Replaying, AtBatch
  <2>. QED  BY <2>1, <2>2, <2>3, <2>4 DEF IInv
<1>3. CASE Acquire
  <2>1. TypeOK'
    BY <1>0, <1>3 DEF Acquire, TypeOK, Stages, bounds
  <2>2. StageInv'
    BY <1>0, <1>3 DEF Acquire, StageInv, Replaying, AtBatch
  <2>. QED  BY <1>1, <1>3, <2>1, <2>2 DEF Acquire
<1>4. CASE ReadTarget
  <2>1. ~TargetRefused(db)
    BY <1>0 DEF TargetRefused, Activated
  <2>2. /\ stage = "target"
        /\ stage' = (IF db.active THEN "open" ELSE IF db.format THEN "activate" ELSE "format")
        /\ UNCHANGED <<images, journal, todo, at, refCount, wasOld, refused, bounds>>
    BY <1>4, <2>1 DEF ReadTarget
  <2>3. stage' \in {"open", "activate", "format"} /\ db' = db
    BY <2>2 DEF db
  <2>4. TypeOK'
    BY <1>0, <2>2, <2>3 DEF TypeOK, Stages, bounds
  <2>5. StageInv'
    BY <1>0, <2>2, <2>3 DEF StageInv, Replaying, AtBatch
  <2>. QED  BY <1>1, <2>2, <2>3, <2>4, <2>5
<1>5. CASE WriteFormat
  <2>. DEFINE m == [db EXCEPT !.format = TRUE]
  <2>1. /\ m \in Image /\ Activated(m) /\ Resumable(m) /\ m.format
        /\ m.rows = db.rows /\ m.marks = db.marks /\ m.nextRow = db.nextRow
    BY <1>0, <1>5, MarkerSteps DEF WriteFormat
  <2>2. WriteSync(m)
    BY <1>5 DEF WriteFormat
  <2>3. /\ stage = "format" /\ stage' = "activate"
        /\ UNCHANGED <<journal, todo, at, refCount, wasOld, refused, bounds>>
    BY <1>5 DEF WriteFormat
  <2>4. "activate" \in Stages \ {"closed", "target", "replay", "batch", "moved"}
    BY DEF Stages
  <2>. HIDE DEF m
  <2>. QED  BY <1>2, <2>1, <2>2, <2>3, <2>4
<1>6. CASE Activate
  <2>. DEFINE m == [db EXCEPT !.active = TRUE, !.layout = TRUE]
  <2>1. /\ m \in Image /\ Activated(m) /\ Resumable(m) /\ m.active
        /\ m.rows = db.rows /\ m.marks = db.marks /\ m.nextRow = db.nextRow
    BY <1>0, <1>6, MarkerSteps DEF Activate
  <2>2. WriteSync(m)
    BY <1>6 DEF Activate
  <2>3. /\ stage = "activate" /\ stage' = "open"
        /\ UNCHANGED <<journal, todo, at, refCount, wasOld, refused, bounds>>
    BY <1>6 DEF Activate
  <2>4. "open" \in Stages \ {"closed", "target", "replay", "batch", "moved"}
    BY DEF Stages
  <2>. HIDE DEF m
  <2>. QED  BY <1>2, <2>1, <2>2, <2>3, <2>4
<1>7. CASE OpenTarget
  <2>1. TypeOK'
    BY <1>0, <1>7 DEF OpenTarget, TypeOK, Stages, bounds
  <2>2. StageInv'
    BY <1>0, <1>7 DEF OpenTarget, StageInv, Replaying, AtBatch, db
  <2>. QED  BY <1>1, <1>7, <2>1, <2>2 DEF OpenTarget
<1>8. CASE Migrate
  <2>1. CASE db.keys2
    <3>0. /\ stage = "migrate" /\ stage' = "scan"
          /\ UNCHANGED <<images, journal, todo, at, refCount, wasOld, refused, bounds>>
      BY <1>8, <2>1 DEF Migrate
    <3>1. TypeOK'
      BY <1>0, <3>0 DEF TypeOK, Stages, bounds
    <3>2. StageInv'
      BY <1>0, <3>0 DEF StageInv, Replaying, AtBatch, db
    <3>. QED  BY <1>1, <3>0, <3>1, <3>2
  <2>2. CASE ~db.keys2
    <3>. DEFINE m == [db EXCEPT !.keys2 = TRUE]
    <3>1. m \in Image
      BY <1>0, MarkerUpdates
    <3>2. /\ m.rows = db.rows /\ m.marks = db.marks /\ m.nextRow = db.nextRow
          /\ m.active = db.active /\ m.layout = db.layout /\ m.format = db.format
      BY <1>0 DEF Image
    <3>3. WriteSync(m)
      BY <1>8, <2>2 DEF Migrate
    <3>4. /\ stage = "migrate" /\ stage' = "scan"
          /\ UNCHANGED <<journal, todo, at, refCount, wasOld, refused, bounds>>
      BY <1>8 DEF Migrate
    <3>5. "scan" \in Stages \ {"closed", "target", "replay", "batch", "moved"}
      BY DEF Stages
    <3>. HIDE DEF m
    <3>6. db.active /\ db.layout /\ db.format
      BY <1>0, <3>4 DEF StageInv, Activated
    <3>7. Activated(m) /\ Resumable(m) /\ m.active
      BY <1>0, <3>2, <3>6 DEF Activated, Resumable
    <3>. QED  BY <1>2, <3>1, <3>2, <3>3, <3>4, <3>5, <3>7
  <2>. QED  BY <2>1, <2>2
<1>9. CASE Share
  <2>0. stage = "ready" /\ stage' = "ready" /\ refCount' = 2
        /\ UNCHANGED <<images, journal, todo, at, wasOld, refused, bounds>>
    BY <1>9 DEF Share
  <2>1. TypeOK'
    BY <1>0, <2>0 DEF TypeOK, bounds
  <2>2. StageInv'
    BY <1>0, <2>0 DEF StageInv, Replaying, AtBatch, db
  <2>. QED  BY <1>1, <2>0, <2>1, <2>2
<1>10. CASE Release
  <2>1. CASE refCount = 1
    BY <1>0, <1>10, <2>1, GiveUpStep DEF Release, bounds
  <2>2. CASE refCount # 1
    <3>0. stage = "ready" /\ stage' = "ready" /\ refCount' = refCount - 1
          /\ UNCHANGED <<images, journal, todo, at, wasOld, refused, bounds>>
      BY <1>10, <2>2 DEF Release
    <3>1. refCount' \in 0..2 /\ refCount' > 0
      BY <1>0, <2>2, <3>0 DEF TypeOK
    <3>2. TypeOK'
      BY <1>0, <3>0, <3>1 DEF TypeOK, bounds
    <3>3. StageInv'
      BY <1>0, <3>0 DEF StageInv, Replaying, AtBatch, db
    <3>. QED  BY <1>1, <3>0, <3>2, <3>3
  <2>. QED  BY <2>1, <2>2
<1>11. CASE SyncCommit
  <2>1. db.active
    BY <1>0, <1>11 DEF SyncCommit, StageInv
  <2>2. "ready" \in Stages \ {"closed", "target", "replay", "batch", "moved"}
    BY DEF Stages
  <2>3. stage = "ready" /\ stage' = "ready" /\ WriteSync(db)
        /\ UNCHANGED <<journal, todo, at, refCount, wasOld, refused, bounds>>
    BY <1>11 DEF SyncCommit
  <2>. QED  BY <1>0, <1>2, <2>1, <2>2, <2>3
<1>. QED
  BY <1>3, <1>4, <1>5, <1>6, <1>7, <1>8, <1>9, <1>10, <1>11

\* The journal is read.
LEMMA ScanStep ==
  ASSUME IInv, ScanJournal
  PROVE  IInv'
<1>0. TypeOK /\ StageInv /\ ActiveInv /\ JournalInv /\ ReplayInv
  BY DEF IInv
<1>1. /\ stage = "scan" /\ stage' = "replay" /\ todo' = journal /\ at' = 1
      /\ UNCHANGED <<images, journal, refCount, wasOld, refused, bounds>>
  BY DEF ScanJournal
<1>2. ActiveInv' /\ JournalInv' /\ db' = db
  BY <1>0, <1>1, ImagesKept
<1>3. TypeOK'
  BY <1>0, <1>1 DEF TypeOK, Stages, bounds
<1>4. StageInv'
  BY <1>0, <1>1, <1>2 DEF StageInv, Replaying, AtBatch
<1>5. ReplayInv'
  <2>1. ASSUME todo' # {}, NEW i \in DOMAIN Records[First'] PROVE ~(i < at')
    <3>1. First' = Min(journal)
      BY <1>1 DEF First
    <3>2. journal \in SUBSET Nat /\ journal # {}
      BY <1>0, <1>1, <2>1, IdsFacts DEF TypeOK
    <3>3. Min(journal) \in Ids
      BY <1>0, <3>2, MinIsLeast DEF TypeOK
    <3>4. Records[First'] \in Seq(Tables)
      BY <3>1, <3>3, IdsFacts
    <3>5. i \in Nat \ {0}
      BY <2>1, <3>4
    <3>. QED  BY <1>1, <3>5
  <2>. QED
    BY <1>0, <1>1, <1>2, <2>1 DEF ReplayInv, Replaying, AtBatch, CounterInv, InAll, bounds
<1>. QED  BY <1>2, <1>3, <1>4, <1>5 DEF IInv

\* The table has the record already, or not: what is known at a table.
LEMMA AtTableFacts ==
  ASSUME IInv, todo # {}, Replaying, at <= Len(Records[First])
  PROVE  /\ Current.id = First /\ Current.table \in Tables
         /\ Current.table = Records[First][at] /\ at \in DOMAIN Records[First]
         /\ Current.table \in ToSet(Records[First])
         /\ First \in journal /\ First \in Ids /\ First \in Nat
         /\ todo = journal /\ \A k \in journal : First <= k
         /\ \A j \in journal : (\A k \in journal : j <= k) => j = First
         /\ First \in db.rows[Current.table] <=> First \in db.marks[Current.table]
         /\ db \in Image /\ db.active /\ db.layout /\ db.format
         /\ RowId(First, Current.table) \in Nat
<1>1. /\ journal \subseteq Ids /\ todo \subseteq journal /\ at \in Nat \ {0}
      /\ todo = journal /\ db.active
  BY DEF IInv, TypeOK, StageInv, Replaying
<1>2. /\ Current.id = First /\ Current.table \in Tables
      /\ Current.table = Records[First][at] /\ at \in DOMAIN Records[First]
      /\ Current.table \in ToSet(Records[First])
  BY <1>1, CurrentFacts
<1>3. /\ First \in todo /\ First \in journal /\ First \in Ids /\ First \in Nat
      /\ \A k \in todo : First <= k
  BY <1>1, FirstFacts
<1>4. \A j \in journal : j \in Nat
  BY <1>1, IdsFacts
<1>5. \A j \in journal : (\A k \in journal : j <= k) => j = First
  BY <1>1, <1>3, <1>4
<1>6. db \in Image /\ Activated(db) /\ Resumable(db)
  BY DbGood DEF IInv
<1>7. First \in db.rows[Current.table] <=> First \in db.marks[Current.table]
  BY <1>2, <1>3, <1>6 DEF Resumable
<1>8. db.layout /\ db.format
  BY <1>1, <1>6 DEF Activated
<1>9. RowId(First, Current.table) \in Nat
  BY <1>2, <1>3, RowIdFacts
<1>. QED  BY <1>1, <1>2, <1>3, <1>5, <1>6, <1>7, <1>8, <1>9

\* A table whose marker is there is passed over.
LEMMA SkipStep ==
  ASSUME IInv, ReplaySkip
  PROVE  IInv'
<1>0. TypeOK /\ StageInv /\ ActiveInv /\ JournalInv /\ ReplayInv
  BY DEF IInv
<1>1. /\ stage = "replay" /\ todo # {} /\ at <= Len(Records[First])
      /\ Current.id \in db.marks[Current.table] /\ at' = at + 1
      /\ UNCHANGED <<images, journal, stage, todo, refCount, wasOld, refused, bounds>>
  BY DEF ReplaySkip, AtTable
<1>2. /\ Current.id = First /\ Current.table = Records[First][at]
      /\ at \in DOMAIN Records[First] /\ First \in Ids
      /\ First \in db.rows[Current.table] <=> First \in db.marks[Current.table]
  BY <1>1, AtTableFacts DEF Replaying
<1>3. ActiveInv' /\ JournalInv' /\ db' = db /\ First' = First
  BY <1>0, <1>1, ImagesKept DEF First
<1>4. TypeOK'
  BY <1>0, <1>1 DEF TypeOK, bounds
<1>5. StageInv'
  BY <1>0, <1>1, <1>3 DEF StageInv, Replaying, AtBatch
<1>6. ReplayInv'
  <2>1. ASSUME blackouts = 0, NEW i \in DOMAIN Records[First], i < at + 1
        PROVE  First \in db.rows[Records[First][i]]
    <3>1. i \in Nat /\ at \in Nat
      BY <1>0, <1>2, IdsFacts DEF TypeOK
    <3>2. CASE i = at
      BY <1>1, <1>2, <3>2
    <3>3. CASE i < at
      BY <1>0, <1>1, <2>1, <3>3 DEF ReplayInv, Replaying
    <3>. QED  BY <2>1, <3>1, <3>2, <3>3
  <2>. QED
    BY <1>0, <1>1, <1>3, <2>1 DEF ReplayInv, Replaying, AtBatch, CounterInv, InAll, bounds
<1>. QED  BY <1>3, <1>4, <1>5, <1>6 DEF IInv

\* A table refuses a record only after a power failure.
LEMMA RefuseStep ==
  ASSUME IInv, ReplayRefuse
  PROVE  IInv'
<1>0. TypeOK /\ StageInv /\ ActiveInv /\ JournalInv /\ ReplayInv
  BY DEF IInv
<1>1. /\ stage = "replay" /\ todo # {} /\ at <= Len(Records[First])
      /\ Current.id \notin db.marks[Current.table]
      /\ RowRefused(Current.id, Current.table) /\ refused' = "replay"
      /\ stage' = "closed" /\ todo' = {} /\ at' = 1 /\ refCount' = 0
      /\ UNCHANGED <<images, journal, wasOld, bounds>>
  BY DEF ReplayRefuse, AtTable, GiveUp
<1>2. blackouts # 0
  <2>. SUFFICES ASSUME blackouts = 0 PROVE FALSE
    OBVIOUS
  <2>1. /\ Current.id = First /\ First \in journal /\ \A k \in journal : First <= k
        /\ First \in db.rows[Current.table] <=> First \in db.marks[Current.table]
    BY <1>1, AtTableFacts DEF Replaying
  <2>2. Current.table \in Keyless => CounterInv(First, Current.table)
    BY <1>0, <2>1 DEF ReplayInv
  <2>. QED  BY <1>1, <2>1, <2>2 DEF RowRefused, Advanced, CounterInv
<1>3. ActiveInv' /\ JournalInv'
  BY <1>0, <1>1 DEF ActiveInv, JournalInv, Resumable, Activated
<1>4. TypeOK'
  BY <1>0, <1>1 DEF TypeOK, Stages, bounds
<1>5. StageInv'
  BY <1>0, <1>1 DEF StageInv, Replaying, AtBatch
<1>6. ReplayInv'
  BY <1>1, <1>2 DEF ReplayInv, bounds
<1>. QED  BY <1>3, <1>4, <1>5, <1>6 DEF IInv

\* The counter is moved past the row, unless an earlier attempt has done so.
LEMMA CatalogStep ==
  ASSUME IInv, ReplayCatalog
  PROVE  IInv'
<1>. DEFINE t == Current.table
            v == db.nextRow[t] + 1
            m == [db EXCEPT !.nextRow[t] = v]
<1>0. TypeOK /\ StageInv /\ ActiveInv /\ JournalInv /\ ReplayInv
  BY DEF IInv
<1>1. /\ stage = "replay" /\ todo # {} /\ at <= Len(Records[First])
      /\ Current.id \notin db.marks[t] /\ ~RowRefused(Current.id, t)
      /\ UNCHANGED <<journal, todo, at, refCount, wasOld, refused, bounds>>
  BY DEF ReplayCatalog, AtTable
<1>2. /\ Current.id = First /\ t \in Tables
      /\ t = Records[First][at] /\ at \in DOMAIN Records[First]
      /\ t \in ToSet(Records[First])
      /\ First \in journal /\ First \in Ids /\ First \in Nat
      /\ todo = journal /\ \A k \in journal : First <= k
      /\ \A j \in journal : (\A k \in journal : j <= k) => j = First
      /\ db \in Image /\ db.active /\ db.layout /\ db.format
      /\ RowId(First, t) \in Nat
  BY <1>1, AtTableFacts DEF Replaying
<1>3. First' = First /\ t' = t
  BY <1>1 DEF First, Current
<1>4. CASE t \in Keyless /\ ~Advanced(First, t)
  <2>1. WriteAsync(m) /\ stage' = "moved"
    BY <1>2, <1>4 DEF ReplayCatalog
  <2>2. v \in Nat /\ v >= 1
    BY <1>2 DEF Image
  <2>3. /\ m \in Image /\ m.rows = db.rows /\ m.marks = db.marks
        /\ m.format = db.format /\ m.active = db.active /\ m.layout = db.layout
        /\ m.nextRow[t] = v /\ \A u \in Tables : u # t => m.nextRow[u] = db.nextRow[u]
    <3>. HIDE DEF t, v
    <3>1. t \in Tables /\ v \in Nat /\ db \in Image
      BY <1>2, <2>2
    <3>. QED  BY <3>1 DEF Image
  <2>4. v = RowId(First, t) + 1
    BY <1>1, <1>2, <1>4 DEF RowRefused
  <2>. HIDE DEF m, v, t
  <2>5. Activated(m) /\ Resumable(m)
    <3>1. Resumable(db)
      BY <1>0, DbGood
    <3>. QED  BY <1>2, <2>3, <3>1 DEF Activated, Resumable
  <2>6. /\ ActiveInv' /\ JournalInv' /\ db' = m
        /\ images' \in Seq(Image) /\ images' # <<>>
    BY <1>0, <1>1, <2>1, <2>3, <2>5, ImageWritten
  <2>7. TypeOK'
    BY <1>0, <1>1, <2>1, <2>6 DEF TypeOK, Stages, bounds
  <2>8. StageInv'
    <3>1. db'.nextRow[Current'.table] >= 1
      BY <1>3, <2>2, <2>3, <2>6 DEF t
    <3>. QED  BY <1>0, <1>1, <1>2, <1>3, <2>1, <2>3, <2>6, <3>1 DEF StageInv, Replaying, AtBatch
  <2>9. ReplayInv'
    <3>. SUFFICES ASSUME blackouts = 0 PROVE ReplayInv'
      BY <1>1 DEF ReplayInv, bounds
    <3>1. ASSUME wasOld, NEW j \in Ids \ journal PROVE InAll(m, j)
      BY <1>0, <2>3, <3>1 DEF ReplayInv, InAll
    <3>2. ASSUME NEW j \in journal, \A k \in journal : j <= k, NEW u \in Keyless
          PROVE  CounterInv(j, u)'
      <4>1. j = First /\ u \in Tables
        BY <1>2, <3>2, StartupAssumption
      <4>2. CASE u = t
        BY <1>2, <2>3, <2>4, <2>6, <4>1, <4>2 DEF CounterInv
      <4>3. CASE u # t
        <5>1. CounterInv(j, u)
          BY <1>0, <3>2 DEF ReplayInv
        <5>. QED  BY <2>3, <2>6, <4>1, <4>3, <5>1 DEF CounterInv
      <4>. QED  BY <4>2, <4>3
    <3>3. \A i \in DOMAIN Records[First] : i < at => First \in m.rows[Records[First][i]]
      BY <1>0, <1>1, <2>3 DEF ReplayInv, Replaying
    <3>4. m.nextRow[t] = RowId(First, t) + 1 /\ First \notin m.marks[t]
      BY <1>1, <1>2, <2>3, <2>4
    <3>5. refused # "replay"
      BY <1>0 DEF ReplayInv
    <3>6. Current'.table = t
      BY <1>3 DEF t
    <3>. QED
      BY <1>1, <1>3, <2>6, <3>1, <3>2, <3>3, <3>4, <3>5, <3>6
      DEF ReplayInv, InAll, bounds
  <2>. QED  BY <2>6, <2>7, <2>8, <2>9 DEF IInv
<1>5. CASE ~(t \in Keyless /\ ~Advanced(First, t))
  <2>1. images' = images /\ stage' = "batch"
    BY <1>2, <1>5 DEF ReplayCatalog
  <2>. HIDE DEF m, v, t
  <2>2. ActiveInv' /\ JournalInv' /\ db' = db
    BY <1>0, <1>1, <2>1, ImagesKept
  <2>3. TypeOK'
    BY <1>0, <1>1, <2>1 DEF TypeOK, Stages, bounds
  <2>4. StageInv'
    BY <1>0, <1>1, <1>2, <1>3, <2>1, <2>2 DEF StageInv, Replaying, AtBatch
  <2>5. ReplayInv'
    <3>. SUFFICES ASSUME blackouts = 0 PROVE ReplayInv'
      BY <1>1 DEF ReplayInv, bounds
    <3>1. /\ wasOld => \A j \in Ids \ journal : InAll(db, j)
          /\ \A j \in journal : (\A k \in journal : j <= k) => \A u \in Keyless : CounterInv(j, u)
          /\ \A i \in DOMAIN Records[First] : i < at => First \in db.rows[Records[First][i]]
          /\ refused # "replay"
      BY <1>0, <1>1 DEF ReplayInv, Replaying
    <3>2. t \in Keyless => db.nextRow[t] = RowId(First, t) + 1
      BY <1>5 DEF Advanced
    <3>3. First \notin db.marks[t]
      BY <1>1, <1>2
    <3>4. Current'.table = t
      BY <1>3 DEF t
    <3>5. \A j \in journal, u \in Keyless : CounterInv(j, u)' <=> CounterInv(j, u)
      BY <2>2 DEF CounterInv
    <3>. QED
      BY <1>1, <1>3, <2>2, <3>1, <3>2, <3>3, <3>4, <3>5 DEF ReplayInv, InAll, bounds
  <2>. QED  BY <2>2, <2>3, <2>4, <2>5 DEF IInv
<1>. QED  BY <1>4, <1>5

\* The row and its marker are written together.
LEMMA BatchStep ==
  ASSUME IInv, ReplayBatch
  PROVE  IInv'
<1>. DEFINE t == Current.table
            m == [db EXCEPT !.rows[t] = @ \cup {First}, !.marks[t] = {First}]
<1>0. TypeOK /\ StageInv /\ ActiveInv /\ JournalInv /\ ReplayInv
  BY DEF IInv
<1>1. /\ stage \in {"batch", "moved"} /\ todo # {} /\ at <= Len(Records[First])
      /\ stage' = "replay" /\ at' = at + 1
      /\ UNCHANGED <<journal, todo, refCount, wasOld, refused, bounds>>
  BY <1>0 DEF ReplayBatch, StageInv, AtBatch
<1>2. /\ Current.id = First /\ t \in Tables
      /\ t = Records[First][at] /\ at \in DOMAIN Records[First]
      /\ t \in ToSet(Records[First])
      /\ First \in journal /\ First \in Ids /\ First \in Nat
      /\ todo = journal /\ \A k \in journal : First <= k
      /\ \A j \in journal : (\A k \in journal : j <= k) => j = First
      /\ db \in Image /\ db.active /\ db.layout /\ db.format
  BY <1>1, AtTableFacts DEF Replaying
<1>3. First' = First
  BY <1>1 DEF First
<1>4. WriteAsync(m)
  BY <1>2 DEF ReplayBatch
<1>5. /\ m \in Image /\ m.nextRow = db.nextRow
      /\ m.format = db.format /\ m.active = db.active /\ m.layout = db.layout
      /\ m.rows[t] = db.rows[t] \cup {First} /\ m.marks[t] = {First}
      /\ \A u \in Tables : u # t => m.rows[u] = db.rows[u] /\ m.marks[u] = db.marks[u]
  <2>. HIDE DEF t
  <2>1. t \in Tables /\ First \in Ids /\ db \in Image
    BY <1>2
  <2>. QED  BY <2>1 DEF Image
<1>. HIDE DEF m, t
<1>6. Activated(m) /\ Resumable(m)
  <2>1. Resumable(db)
    BY <1>0, DbGood
  <2>2. Activated(m)
    BY <1>2, <1>5 DEF Activated
  <2>3. ASSUME NEW j \in journal, NEW u \in Tables
        PROVE  /\ j \in m.rows[u] <=> j \in m.marks[u]
               /\ j \in m.rows[u] => \A k \in journal : j <= k
    <3>1. CASE u # t
      BY <1>5, <2>1, <3>1 DEF Resumable
    <3>2. CASE u = t /\ j = First
      BY <1>2, <1>5, <3>2
    <3>3. CASE u = t /\ j # First
      BY <1>2, <1>5, <2>1, <3>3 DEF Resumable
    <3>. QED  BY <3>1, <3>2, <3>3
  <2>. QED  BY <2>2, <2>3 DEF Resumable
<1>7. /\ ActiveInv' /\ JournalInv' /\ db' = m
      /\ images' \in Seq(Image) /\ images' # <<>>
  BY <1>0, <1>1, <1>4, <1>5, <1>6, ImageWritten
<1>8. TypeOK'
  BY <1>0, <1>1, <1>7 DEF TypeOK, Stages, bounds
<1>9. StageInv'
  BY <1>0, <1>1, <1>2, <1>5, <1>7 DEF StageInv, Replaying, AtBatch
<1>10. ReplayInv'
  <2>. SUFFICES ASSUME blackouts = 0 PROVE ReplayInv'
    BY <1>1 DEF ReplayInv, bounds
  <2>0. \A u \in Tables : db.rows[u] \subseteq m.rows[u]
    BY <1>5
  <2>1. ASSUME wasOld, NEW j \in Ids \ journal PROVE InAll(m, j)
    <3>1. InAll(db, j)
      BY <1>0, <2>1 DEF ReplayInv
    <3>2. ToSet(Records[j]) \subseteq Tables
      BY IdsFacts DEF ToSet
    <3>. QED  BY <2>0, <3>1, <3>2 DEF InAll
  <2>2. ASSUME NEW j \in journal, \A k \in journal : j <= k, NEW u \in Keyless
        PROVE  CounterInv(j, u)'
    <3>1. j = First /\ u \in Tables
      BY <1>2, <2>2, StartupAssumption
    <3>2. CASE u = t
      <4>1. db.nextRow[t] = RowId(First, t) + 1
        BY <1>0, <1>1, <2>2, <3>2 DEF ReplayInv, AtBatch, t
      <4>. QED  BY <1>2, <1>5, <1>7, <3>1, <3>2, <4>1 DEF CounterInv
    <3>3. CASE u # t
      <4>1. CounterInv(j, u)
        BY <1>0, <2>2 DEF ReplayInv
      <4>. QED  BY <1>5, <1>7, <3>1, <3>3, <4>1 DEF CounterInv
    <3>. QED  BY <3>2, <3>3
  <2>3. ASSUME NEW i \in DOMAIN Records[First], i < at + 1
        PROVE  First \in m.rows[Records[First][i]]
    <3>1. i \in Nat /\ at \in Nat /\ Records[First][i] \in Tables
      BY <1>0, <1>2, IdsFacts DEF TypeOK
    <3>2. CASE i = at
      BY <1>2, <1>5, <3>2
    <3>3. CASE i < at
      <4>1. First \in db.rows[Records[First][i]]
        BY <1>0, <1>1, <3>3 DEF ReplayInv, Replaying
      <4>. QED  BY <2>0, <3>1, <4>1
    <3>. QED  BY <2>3, <3>1, <3>2, <3>3
  <2>4. refused # "replay"
    BY <1>0 DEF ReplayInv
  <2>. QED
    BY <1>1, <1>3, <1>7, <2>1, <2>2, <2>3, <2>4 DEF ReplayInv, InAll, AtBatch, bounds
<1>. QED  BY <1>7, <1>8, <1>9, <1>10 DEF IInv

\* The batch fails: the counter is put back, or stays where it is.
LEMMA BatchFailsStep ==
  ASSUME IInv, ReplayBatchFails
  PROVE  IInv'
<1>. DEFINE t == Current.table
            v == db.nextRow[t] - 1
            m == [db EXCEPT !.nextRow[t] = v]
<1>0. TypeOK /\ StageInv /\ ActiveInv /\ JournalInv /\ ReplayInv
  BY DEF IInv
<1>1. /\ stage \in {"batch", "moved"} /\ todo # {} /\ at <= Len(Records[First])
      /\ GiveUp /\ UNCHANGED <<journal, wasOld, refused, crashes, blackouts>>
      /\ images' = images \/ (stage = "moved" /\ WriteAsync(m))
  BY <1>0 DEF ReplayBatchFails, StageInv, AtBatch
<1>2. faults' \in 0..MaxFaults /\ crashes' \in 0..MaxCrashes
  <2>1. faults \in 0..MaxFaults /\ MaxFaults \in Nat /\ crashes \in 0..MaxCrashes
    BY <1>0, StartupAssumption DEF TypeOK
  <2>2. faults < MaxFaults /\ (faults' = faults + 1 \/ (faults' = faults + 2 /\ faults + 2 <= MaxFaults))
    BY DEF ReplayBatchFails
  <2>. QED  BY <1>1, <2>1, <2>2
<1>3. CASE images' = images
  BY <1>1, <1>2, <1>3, GiveUpStep
<1>4. CASE stage = "moved" /\ WriteAsync(m)
  <2>1. /\ t \in Tables /\ First \in journal
        /\ \A j \in journal : (\A k \in journal : j <= k) => j = First
        /\ db \in Image /\ db.active /\ db.layout /\ db.format
        /\ RowId(First, t) \in Nat
    BY <1>1, AtTableFacts DEF Replaying
  <2>2. db.nextRow[t] \in Nat /\ db.nextRow[t] >= 1
    BY <1>0, <1>4, <2>1 DEF StageInv, Image
  <2>3. v \in Nat
    BY <2>2
  <2>4. /\ m \in Image /\ m.rows = db.rows /\ m.marks = db.marks
        /\ m.format = db.format /\ m.active = db.active /\ m.layout = db.layout
        /\ m.nextRow[t] = v /\ \A u \in Tables : u # t => m.nextRow[u] = db.nextRow[u]
    <3>. HIDE DEF t, v
    <3>1. t \in Tables /\ v \in Nat /\ db \in Image
      BY <2>1, <2>3
    <3>. QED  BY <3>1 DEF Image
  <2>5. blackouts = 0 /\ t \in Keyless => v = RowId(First, t) /\ First \notin db.marks[t]
    BY <1>0, <1>4, <2>1, <2>2 DEF ReplayInv, AtBatch
  <2>. HIDE DEF m, v, t
  <2>6. Activated(m)
    BY <2>1, <2>4 DEF Activated
  <2>7. \A j \in journal : blackouts = 0 /\ (\A k \in journal : j <= k) =>
          \A u \in Keyless : \/ m.nextRow[u] = db.nextRow[u]
                             \/ m.nextRow[u] = RowId(j, u) /\ j \notin m.marks[u]
    BY <2>1, <2>4, <2>5, StartupAssumption
  <2>. QED  BY <1>1, <1>2, <1>4, <2>4, <2>6, <2>7, WriteAndGiveUpStep
<1>. QED  BY <1>1, <1>3, <1>4

\* A replayed record leaves the journal: the next one finds every counter where
\* the earlier release had it.
LEMMA RecordRemoved ==
  ASSUME IInv, stage = "replay", todo # {}, at > Len(Records[First]),
         journal' = journal \ {First}, UNCHANGED <<images, wasOld, refused, blackouts>>
  PROVE  /\ ActiveInv' /\ JournalInv' /\ db' = db
         /\ blackouts = 0 =>
              /\ wasOld => \A j \in Ids \ journal' : InAll(db, j)
              /\ \A j \in journal' : (\A k \in journal' : j <= k) =>
                   \A t \in Keyless : CounterInv(j, t)
<1>0. TypeOK /\ StageInv /\ ActiveInv /\ JournalInv /\ ReplayInv
  BY DEF IInv
<1>1. journal \subseteq Ids /\ todo \subseteq journal /\ todo = journal /\ at \in Nat
  BY <1>0 DEF TypeOK, StageInv, Replaying
<1>2. /\ First \in journal /\ First \in Ids /\ First \in Nat /\ \A k \in journal : First <= k
      /\ Records[First] \in Seq(Tables)
  BY <1>1, FirstFacts
<1>3. Ids \subseteq Nat /\ Ids = 1..Len(Records) /\ Len(Records) \in Nat
  BY IdsFacts
<1>4. ActiveInv' /\ db' = db
  BY <1>0 DEF ActiveInv, Activated, db
<1>5. JournalInv'
  <2>1. ASSUME NEW j \in journal', NEW k \in Ids, j <= k PROVE k \in journal'
    <3>1. k \in journal
      BY <1>0, <2>1 DEF JournalInv
    <3>2. k # First
      BY <1>1, <1>2, <1>3, <2>1
    <3>. QED  BY <3>1, <3>2
  <2>2. \A i \in DOMAIN images : Resumable(images[i])'
    BY <1>0 DEF JournalInv, Resumable
  <2>. QED  BY <2>1, <2>2 DEF JournalInv
<1>6. ASSUME blackouts = 0, wasOld, NEW j \in Ids \ journal' PROVE InAll(db, j)
  <2>1. CASE j # First
    BY <1>0, <1>6, <2>1 DEF ReplayInv
  <2>2. CASE j = First
    <3>1. \A i \in DOMAIN Records[First] : i < at
      BY <1>1, <1>2
    <3>2. \A i \in DOMAIN Records[First] : First \in db.rows[Records[First][i]]
      BY <1>0, <1>6, <3>1 DEF ReplayInv, Replaying
    <3>. QED  BY <2>2, <3>2 DEF InAll, ToSet
  <2>. QED  BY <2>1, <2>2
<1>7. ASSUME blackouts = 0, NEW j \in journal', \A k \in journal' : j <= k, NEW t \in Keyless
      PROVE  CounterInv(j, t)
  <2>1. j \in journal /\ j # First /\ j \in Ids /\ j \in Nat /\ First <= j /\ t \in Tables
    BY <1>1, <1>2, <1>3, <1>7, StartupAssumption
  <2>2. First + 1 \in Ids /\ First + 1 <= j
    BY <1>2, <1>3, <2>1
  <2>3. First + 1 \in journal /\ First + 1 # First
    BY <1>0, <1>2, <2>2 DEF JournalInv
  <2>4. j <= First + 1
    BY <1>7, <2>3
  <2>5. j = First + 1
    BY <1>2, <2>1, <2>2, <2>4
  <2>6. CounterInv(First, t)
    BY <1>0, <1>2, <1>7 DEF ReplayInv
  <2>7. RowId(j, t) = IF t \in ToSet(Records[First]) THEN RowId(First, t) + 1 ELSE RowId(First, t)
    BY <1>2, <2>1, <2>2, <2>5, RowIdFacts
  <2>8. db \in Image /\ Resumable(db)
    BY <1>0, DbGood
  <2>9. j \notin db.marks[t]
    <3>1. ~(j <= First)
      BY <1>2, <2>5
    <3>. QED  BY <1>2, <2>1, <2>8, <3>1 DEF Resumable
  <2>10. t \in ToSet(Records[First]) => First \in db.marks[t]
    <3>1. \A i \in DOMAIN Records[First] : i < at
      BY <1>1, <1>2
    <3>2. \A i \in DOMAIN Records[First] : First \in db.rows[Records[First][i]]
      BY <1>0, <1>7, <3>1 DEF ReplayInv, Replaying
    <3>3. t \in ToSet(Records[First]) => First \in db.rows[t]
      BY <3>2 DEF ToSet
    <3>. QED  BY <1>2, <2>1, <2>8, <3>3 DEF Resumable
  <2>. QED  BY <2>6, <2>7, <2>9, <2>10 DEF CounterInv
<1>. QED  BY <1>4, <1>5, <1>6, <1>7

\* removeJournal, and the end of the replay.
LEMMA RemoveStep ==
  ASSUME IInv, RemoveJournal \/ Ready
  PROVE  IInv'
<1>0. TypeOK /\ StageInv /\ ActiveInv /\ JournalInv /\ ReplayInv
  BY DEF IInv
<1>1. CASE RemoveJournal
  <2>1. /\ stage = "replay" /\ stage' = "replay" /\ todo # {} /\ at > Len(Records[First])
        /\ journal' = journal \ {First} /\ todo' = todo \ {First} /\ at' = 1
        /\ UNCHANGED <<images, refCount, wasOld, refused, bounds>>
        /\ blackouts' = blackouts
    BY <1>1 DEF RemoveJournal, bounds
  <2>2. /\ ActiveInv' /\ JournalInv' /\ db' = db
        /\ blackouts = 0 =>
             /\ wasOld => \A j \in Ids \ journal' : InAll(db, j)
             /\ \A j \in journal' : (\A k \in journal' : j <= k) =>
                  \A t \in Keyless : CounterInv(j, t)
    BY <2>1, RecordRemoved
  <2>3. TypeOK'
    BY <1>0, <2>1 DEF TypeOK, bounds
  <2>4. StageInv'
    BY <1>0, <2>1, <2>2 DEF StageInv, Replaying, AtBatch
  <2>5. ReplayInv'
    <3>1. ASSUME todo' # {}, NEW i \in DOMAIN Records[First'] PROVE ~(i < at')
      <4>1. todo' \in SUBSET Nat /\ todo' \subseteq Ids
        BY <1>0, <2>1, IdsFacts DEF TypeOK
      <4>2. First' = Min(todo')
        BY DEF First
      <4>3. First' \in Ids
        BY <3>1, <4>1, <4>2, MinIsLeast
      <4>4. Records[First'] \in Seq(Tables)
        BY <4>3, IdsFacts
      <4>5. i \in Nat \ {0}
        BY <3>1, <4>4
      <4>. QED  BY <2>1, <4>5
    <3>2. \A j \in journal', t \in Keyless : CounterInv(j, t)' <=> CounterInv(j, t)
      BY <2>2 DEF CounterInv
    <3>3. blackouts = 0 => refused # "replay"
      BY <1>0 DEF ReplayInv
    <3>. QED  BY <2>1, <2>2, <3>1, <3>2, <3>3 DEF ReplayInv, AtBatch, InAll
  <2>. QED  BY <2>2, <2>3, <2>4, <2>5 DEF IInv
<1>2. CASE Ready
  <2>1. /\ stage = "replay" /\ todo = {} /\ stage' = "ready" /\ refCount' = 1
        /\ UNCHANGED <<images, journal, todo, at, wasOld, refused, bounds>>
        /\ blackouts' = blackouts
    BY <1>2 DEF Ready, bounds
  <2>2. ActiveInv' /\ JournalInv' /\ db' = db
    BY <1>0, <2>1, ImagesKept
  <2>3. TypeOK'
    BY <1>0, <2>1 DEF TypeOK, Stages, bounds
  <2>4. StageInv'
    BY <1>0, <2>1, <2>2 DEF StageInv, Replaying, AtBatch
  <2>5. ReplayInv'
    BY <1>0, <2>1, <2>2, OutsideReplay
  <2>. QED  BY <2>2, <2>3, <2>4, <2>5 DEF IInv
<1>. QED  BY <1>1, <1>2

\* Errors, crashes and power failures.
LEMMA FailureSteps ==
  ASSUME IInv, Fault \/ FlushFails \/ Crash \/ Blackout
  PROVE  IInv'
<1>0. TypeOK /\ StageInv /\ ActiveInv /\ JournalInv /\ ReplayInv
  BY DEF IInv
<1>1. /\ faults \in 0..MaxFaults /\ crashes \in 0..MaxCrashes /\ blackouts \in 0..MaxBlackouts
      /\ MaxFaults \in Nat /\ MaxCrashes \in Nat /\ MaxBlackouts \in Nat
  BY <1>0, StartupAssumption DEF TypeOK
<1>2. CASE Fault
  <2>1. faults' \in 0..MaxFaults /\ crashes' \in 0..MaxCrashes
    BY <1>1, <1>2 DEF Fault
  <2>. QED  BY <1>2, <2>1, GiveUpStep DEF Fault
<1>3. CASE Crash
  <2>1. faults' \in 0..MaxFaults /\ crashes' \in 0..MaxCrashes
    BY <1>1, <1>3 DEF Crash
  <2>. QED  BY <1>3, <2>1, GiveUpStep DEF Crash
<1>4. CASE FlushFails
  <2>1. faults' \in 0..MaxFaults /\ crashes' \in 0..MaxCrashes
    BY <1>1, <1>4 DEF FlushFails
  <2>2. /\ GiveUp /\ UNCHANGED <<wasOld, refused, blackouts>>
    BY <1>4 DEF FlushFails
  <2>3. CASE /\ stage = "format" /\ WriteAsync([db EXCEPT !.format = TRUE])
             /\ UNCHANGED journal
    <3>. DEFINE m == [db EXCEPT !.format = TRUE]
    <3>1. /\ m \in Image /\ Activated(m)
          /\ m.rows = db.rows /\ m.marks = db.marks /\ m.nextRow = db.nextRow
      BY <1>0, <2>3, MarkerSteps
    <3>2. WriteAsync(m)
      BY <2>3
    <3>. HIDE DEF m
    <3>. QED  BY <2>1, <2>2, <2>3, <3>1, <3>2, WriteAndGiveUpStep
  <2>4. CASE /\ stage = "activate"
             /\ WriteAsync([db EXCEPT !.active = TRUE, !.layout = TRUE])
             /\ UNCHANGED journal
    <3>. DEFINE m == [db EXCEPT !.active = TRUE, !.layout = TRUE]
    <3>1. /\ m \in Image /\ Activated(m)
          /\ m.rows = db.rows /\ m.marks = db.marks /\ m.nextRow = db.nextRow
      BY <1>0, <2>4, MarkerSteps
    <3>2. WriteAsync(m)
      BY <2>4
    <3>. HIDE DEF m
    <3>. QED  BY <2>1, <2>2, <2>4, <3>1, <3>2, WriteAndGiveUpStep
  <2>5. CASE /\ stage = "replay" /\ todo # {} /\ at > Len(Records[First])
             /\ journal' = journal \ {First} /\ UNCHANGED images
    <3>1. /\ ActiveInv' /\ JournalInv' /\ db' = db
          /\ blackouts = 0 =>
               /\ wasOld => \A j \in Ids \ journal' : InAll(db, j)
               /\ \A j \in journal' : (\A k \in journal' : j <= k) =>
                    \A t \in Keyless : CounterInv(j, t)
      BY <2>2, <2>5, RecordRemoved
    <3>2. /\ stage' = "closed" /\ todo' = {} /\ at' = 1 /\ refCount' = 0
      BY <2>2 DEF GiveUp
    <3>3. TypeOK'
      BY <1>0, <2>1, <2>2, <2>5, <3>2 DEF TypeOK, Stages
    <3>4. StageInv'
      BY <1>0, <2>2, <2>5, <3>2 DEF StageInv, Replaying, AtBatch
    <3>5. \A j \in journal', t \in Keyless : CounterInv(j, t)' <=> CounterInv(j, t)
      BY <3>1 DEF CounterInv
    <3>6. blackouts = 0 => refused # "replay"
      BY <1>0 DEF ReplayInv
    <3>7. ReplayInv'
      BY <2>2, <3>1, <3>2, <3>5, <3>6 DEF ReplayInv, AtBatch, Replaying, InAll
    <3>. QED  BY <3>1, <3>3, <3>4, <3>7 DEF IInv
  <2>. QED  BY <1>4, <2>3, <2>4, <2>5 DEF FlushFails
<1>5. CASE Blackout
  <2>1. PICK i \in DOMAIN images : images' = <<images[i]>>
    BY <1>5 DEF Blackout
  <2>2. /\ stage' = "closed" /\ todo' = {} /\ at' = 1 /\ refCount' = 0
        /\ UNCHANGED <<journal, wasOld, refused, faults, crashes>>
        /\ blackouts' = blackouts + 1 /\ blackouts < MaxBlackouts
    BY <1>5 DEF Blackout, GiveUp
  <2>3. blackouts' \in 0..MaxBlackouts /\ blackouts' # 0
    BY <1>1, <2>2
  <2>4. images[i] \in Image
    BY <1>0 DEF TypeOK
  <2>5. /\ images' \in Seq(Image) /\ images' # <<>>
        /\ \A k \in DOMAIN images' : images'[k] = images[i]
    <3>. DEFINE m == images[i]
    <3>1. m \in Image /\ images' = <<m>>
      BY <2>1, <2>4
    <3>. HIDE DEF m, Image
    <3>2. images' \in Seq(Image) /\ images' # <<>> /\ \A k \in DOMAIN images' : images'[k] = m
      BY <3>1
    <3>. QED  BY <3>2 DEF m
  <2>6. TypeOK'
    BY <1>0, <2>2, <2>3, <2>5 DEF TypeOK, Stages
  <2>7. StageInv'
    BY <1>0, <2>2 DEF StageInv, Replaying, AtBatch
  <2>8. ActiveInv'
    BY <1>0, <2>2, <2>5 DEF ActiveInv, Activated
  <2>9. JournalInv'
    BY <1>0, <2>2, <2>5 DEF JournalInv, Resumable
  <2>10. ReplayInv'
    BY <2>3 DEF ReplayInv
  <2>. QED  BY <2>6, <2>7, <2>8, <2>9, <2>10 DEF IInv
<1>. QED  BY <1>2, <1>3, <1>4, <1>5
-----------------------------------------------------------------------------
(***************************************************************************)
(* The theorems.                                                           *)
(***************************************************************************)

\* The inductive invariant holds at every step of acquire, whatever errors,
\* crashes and power failures interrupt it.
THEOREM StartupInvariant == Spec => []IInv
<1>1. Init => IInv
  BY InitInv
<1>2. IInv /\ [Next]_vars => IInv'
  <2>. SUFFICES ASSUME IInv, [Next]_vars PROVE IInv'
    OBVIOUS
  <2>1. CASE UNCHANGED vars
    BY <2>1 DEF vars, IInv, TypeOK, StageInv, ActiveInv, JournalInv, ReplayInv, Replaying,
                AtBatch, Activated, Resumable, CounterInv, InAll, db, First, Current
  <2>2. CASE Opening
    BY <2>2, OpeningSteps, ScanStep, SkipStep, RefuseStep, CatalogStep, BatchStep, RemoveStep
    DEF Opening
  <2>3. CASE Share \/ Release \/ SyncCommit
    BY <2>3, OpeningSteps
  <2>4. CASE Fault \/ FlushFails \/ ReplayBatchFails \/ Crash \/ Blackout
    BY <2>4, FailureSteps, BatchFailsStep
  <2>. QED  BY <2>1, <2>2, <2>3, <2>4 DEF Next
<1>. QED  BY <1>1, <1>2, PTL DEF Spec

\* Types; acquire works on journalled records only, and the store is referenced
\* exactly while it is open.
THEOREM StartupTypeOK == Spec => []TypeOK
<1>1. IInv => TypeOK
  BY DEF IInv
<1>. QED  BY <1>1, StartupInvariant, PTL

\* prepareTarget can be retried after any interruption of the activation.
THEOREM ActivationAlwaysRetryable == Spec => []ActivationIsRetryable
<1>1. IInv => ActivationIsRetryable
  BY DEF IInv, ActiveInv, ActivationIsRetryable
<1>. QED  BY <1>1, StartupInvariant, PTL

\* Whatever a power failure leaves, each table has both the row and the marker
\* of a journalled record, or neither.
THEOREM MarkersAlwaysFollowRows == Spec => []MarkersFollowRows
<1>1. IInv => MarkersFollowRows
  BY DEF IInv, JournalInv, Resumable, MarkersFollowRows
<1>. QED  BY <1>1, StartupInvariant, PTL

\* Without a power failure no table refuses a record because of what an
\* interrupted replay has left, for any number of records and tables.
THEOREM ReplayAlwaysRetryable == Spec => []ReplayIsRetryable
<1>1. IInv => ReplayIsRetryable
  BY DEF IInv, ReplayInv, ReplayIsRetryable
<1>. QED  BY <1>1, StartupInvariant, PTL

\* Without a power failure an open store holds every journalled transaction
\* in all its tables.
THEOREM OpenAlwaysReplayed == Spec => []OpenMeansReplayed
<1>1. IInv => OpenMeansReplayed
  BY DEF IInv, StageInv, ReplayInv, OpenMeansReplayed
<1>. QED  BY <1>1, StartupInvariant, PTL
=============================================================================
