-------------------------- MODULE LitePendingImage --------------------------
(***************************************************************************)
(* The private image of a transaction on one table: the pending inserts,   *)
(* updates and deletes of LiteTxnContext::PendingTable, the three ways a   *)
(* statement reads through them (scanRows, scanPhysicalRange, getRowByKey) *)
(* and the batch appendPendingMutationsAtomic makes of them at commit.     *)
(*                                                                         *)
(* A row has an id, a key column and a value column.  With a primary key   *)
(* the key column is the storage key and a stored row has id 0; a keyless  *)
(* table stores the row under its id.  The value column may be UNIQUE.     *)
(*                                                                         *)
(* image is what the statements of the transaction have made of its        *)
(* snapshot, one after the other: the reference the code is compared with. *)
(* As in the code, a duplicate key is an error of the commit, not of the   *)
(* statement, so image is a bag.                                           *)
(***************************************************************************)
EXTENDS Integers, Sequences, SequencesExt, Bags

CONSTANTS
  KeyCount,       \* keys are 1..KeyCount
  Vals,           \* values of the other column
  Null,           \* the SQL null, one of Vals: never in a UNIQUE record
  UniqueVal,      \* the value column is UNIQUE
  MaxRows,        \* bound: rows in the table at the start
  MaxStatements,  \* bound: transactional statements in a behaviour
  MaxAuto         \* bound: autocommit writes in a behaviour

ASSUME ImageAssumption ==
  /\ KeyCount \in Nat \ {0}
  /\ Null \in Vals
  /\ UniqueVal \in BOOLEAN
  /\ MaxRows \in Nat /\ MaxStatements \in Nat /\ MaxAuto \in Nat

Keys == 1..KeyCount
Row == [id : Nat, key : Keys, val : Vals]

\* A mutation of updateRows: it keeps the id of its row.
Mutation == {m \in [before : Row, after : Row] : m.after.id = m.before.id}
Pending == [initialized : BOOLEAN, nextRowId : Nat, rows : Seq(Row),
            updates : Seq(Mutation), deletes : Seq(Row)]
VARIABLES
  keyless,     \* the table was created without primary key
  phase,       \* "idle", "active" or "prepared" (batch built, not written)
  table,       \* the rows in RocksDB
  uniques,     \* the UNIQUE records in RocksDB
  nextRowId,   \* of the catalog entry
  snapshot,    \* the rows the transaction's snapshot shows
  pend,        \* the PendingTable
  image,       \* reference: the bag of rows the statements have produced
  batch,       \* the write batch of a prepared commit
  statements,  \* statements executed
  autos,       \* autocommit writes executed
  raced        \* one fell between the checks of a commit and its write

dbVars == <<keyless, table, uniques, nextRowId>>
vars == <<phase, dbVars, snapshot, pend, image, batch, statements, autos, raced>>

StorageKey(r) == IF keyless THEN r.id ELSE r.key

\* Mutant: a committed row keeps the id of its pending insert.
StoredKeepsId(r) == r

\* What is stored of a row: a primary-key table does not keep its id.
Stored(r) == IF keyless THEN r ELSE [r EXCEPT !.id = 0]

\* The UNIQUE records of buildRowRecords: value to storage key.
UniqueRecords(S) ==
  {[val |-> r.val, ref |-> StorageKey(r)] :
     r \in {s \in S : UniqueVal /\ s.val # Null}}

BagOf(s) == [r \in ToSet(s) |-> Cardinality({i \in DOMAIN s : s[i] = r})]

NoPending == [initialized |-> FALSE, nextRowId |-> 0, rows |-> <<>>,
              updates |-> <<>>, deletes |-> <<>>]
NoBatch == [removed |-> {}, puts |-> {}, nextRowId |-> 0]

\* The first use of a table in a transaction loads its catalog entry.
Loaded(p) ==
  IF p.initialized THEN p
  ELSE [p EXCEPT !.initialized = TRUE, !.nextRowId = nextRowId]

\* The places of row r in a sequence of rows, and among the after-images of a
\* sequence of updates.
PlacesOf(s, r) == {i \in DOMAIN s : s[i] = r}
ProducersOf(updates, r) == {i \in DOMAIN updates : updates[i].after = r}
-----------------------------------------------------------------------------
(***************************************************************************)
(* LiteTxnContext::insertRow, updateRows, deleteRows.                      *)
(***************************************************************************)

\* Only the pending inserts are searched for the new key and value.
DuplicateInsert(p, k, v) ==
  \E i \in DOMAIN p.rows :
    \/ ~keyless /\ p.rows[i].key = k
    \/ UniqueVal /\ v # Null /\ p.rows[i].val = v

\* Mutant: the next row gets the same id.
InsertRowSameId(p, k, v) ==
  [p EXCEPT !.rows = Append(@, [id |-> p.nextRowId, key |-> k, val |-> v])]

InsertRow(p, k, v) ==
  [p EXCEPT !.rows = Append(@, [id |-> p.nextRowId, key |-> k, val |-> v]),
            !.nextRowId = @ + 1]

\* One mutation of updateRows: into the pending insert or the pending update
\* that produced its before-image, or a new pending update.
MergeUpdate(p, m) ==
  LET inRows    == PlacesOf(p.rows, m.before)
      inUpdates == ProducersOf(p.updates, m.before)
  IN  IF inRows # {}
        THEN [p EXCEPT !.rows[Min(inRows)] = m.after]
      ELSE IF inUpdates # {}
        THEN [p EXCEPT !.updates[Min(inUpdates)].after = m.after]
        ELSE [p EXCEPT !.updates = Append(@, m)]

\* Mutant: the row an update produced is deleted instead of the stored one.
MergeDeleteAfterImage(p, r) ==
  LET inRows    == PlacesOf(p.rows, r)
      inUpdates == ProducersOf(p.updates, r)
  IN  IF inRows # {}
        THEN [p EXCEPT !.rows = RemoveAt(@, Min(inRows))]
      ELSE IF inUpdates # {}
        THEN [p EXCEPT !.deletes = Append(@, r),
                       !.updates = RemoveAt(@, Min(inUpdates))]
        ELSE [p EXCEPT !.deletes = Append(@, r)]

\* One row of deleteRows: forget the pending insert, turn the pending update
\* into a delete of its before-image, or add a pending delete.
MergeDelete(p, r) ==
  LET inRows    == PlacesOf(p.rows, r)
      inUpdates == ProducersOf(p.updates, r)
  IN  IF inRows # {}
        THEN [p EXCEPT !.rows = RemoveAt(@, Min(inRows))]
      ELSE IF inUpdates # {}
        THEN [p EXCEPT !.deletes = Append(@, p.updates[Min(inUpdates)].before),
                       !.updates = RemoveAt(@, Min(inUpdates))]
        ELSE [p EXCEPT !.deletes = Append(@, r)]

\* The pending table after each of the mutations, after each of the rows.
Updating(p, mutations) ==
  LET q[i \in 0..Len(mutations)] ==
        IF i = 0 THEN p ELSE MergeUpdate(q[i - 1], mutations[i])
  IN  q
Deleting(p, sel) ==
  LET q[i \in 0..Len(sel)] == IF i = 0 THEN p ELSE MergeDelete(q[i - 1], sel[i])
  IN  q

\* deleteRows ends with an error at the first row that no merge finds and
\* that is deleted already; the rows before it stay merged.
DeleteErrors(p, sel) ==
  {i \in DOMAIN sel :
     LET q == Deleting(p, sel)[i - 1]
     IN  /\ PlacesOf(q.rows, sel[i]) = {}
         /\ ProducersOf(q.updates, sel[i]) = {}
         /\ PlacesOf(q.deletes, sel[i]) # {}}
-----------------------------------------------------------------------------
(***************************************************************************)
(* The reads.                                                              *)
(***************************************************************************)
\* The rows of the snapshot in the order of an iterator.
Base ==
  CHOOSE s \in [1..Cardinality(snapshot) -> snapshot] :
    \A i, j \in DOMAIN s : i < j => StorageKey(s[i]) < StorageKey(s[j])

\* scanRows: the snapshot, then every update on the first row equal to its
\* before-image, every delete on the first row equal to it, then the inserts.
ReplaceRow(s, u) ==
  LET at == PlacesOf(s, u.before)
  IN  IF at = {} THEN s ELSE [s EXCEPT ![Min(at)] = u.after]
DropRow(s, r) ==
  LET at == PlacesOf(s, r)
  IN  IF at = {} THEN s ELSE RemoveAt(s, Min(at))

Replacing(s, updates) ==
  LET q[i \in 0..Len(updates)] ==
        IF i = 0 THEN s ELSE ReplaceRow(q[i - 1], updates[i])
  IN  q
Dropping(s, deletes) ==
  LET q[i \in 0..Len(deletes)] ==
        IF i = 0 THEN s ELSE DropRow(q[i - 1], deletes[i])
  IN  q

Scan(p) ==
  LET updated == Replacing(Base, p.updates)[Len(p.updates)]
  IN  Dropping(updated, p.deletes)[Len(p.deletes)] \o p.rows

\* scanPhysicalRange on the primary key, lo <= key < hi: the visible map.
RangeScan(p, lo, hi) ==
  LET erased(S, r)  == {s \in S : StorageKey(s) # StorageKey(r)}
      put(S, r)     == IF StorageKey(r) >= lo /\ StorageKey(r) < hi
                       THEN erased(S, r) \cup {r} ELSE S
      updated(S, u) == put(erased(S, u.before), u.after)
      base == {r \in snapshot : StorageKey(r) >= lo /\ StorageKey(r) < hi}
  IN  FoldLeft(put,
               FoldLeft(updated, FoldLeft(erased, base, p.deletes), p.updates),
               p.rows)

\* The updates that have key k before or after them.
Touching(updates, k) ==
  {i \in DOMAIN updates : k \in {StorageKey(updates[i].before),
                                 StorageKey(updates[i].after)}}

\* The row of the snapshot under key k.
StoredUnder(k) ==
  IF \E r \in snapshot : StorageKey(r) = k
    THEN <<CHOOSE r \in snapshot : StorageKey(r) = k>> ELSE <<>>

\* Mutant: the updates are searched oldest first.
PointReadOldestFirst(p, k) ==
  LET touched == Touching(p.updates, k)
      first == p.updates[Min(touched)]
      inserted == {i \in DOMAIN p.rows : StorageKey(p.rows[i]) = k}
  IN  IF \E i \in DOMAIN p.deletes : StorageKey(p.deletes[i]) = k THEN <<>>
      ELSE IF touched # {}
        THEN IF StorageKey(first.before) = k THEN <<first.before>>
             ELSE <<first.after>>
      ELSE IF inserted # {} THEN <<p.rows[Min(inserted)]>>
      ELSE StoredUnder(k)

\* getRowByKey: <<>> or the row.  A pending delete of the key ends the search,
\* then the newest update that has the key before or after it, then the
\* inserts, then the snapshot.
PointRead(p, k) ==
  LET touched == Touching(p.updates, k)
      newest == p.updates[Max(touched)]
      inserted == {i \in DOMAIN p.rows : StorageKey(p.rows[i]) = k}
  IN  IF \E i \in DOMAIN p.deletes : StorageKey(p.deletes[i]) = k THEN <<>>
      ELSE IF touched # {}
        THEN IF StorageKey(newest.after) = k THEN <<newest.after>> ELSE <<>>
      ELSE IF inserted # {} THEN <<p.rows[Min(inserted)]>>
      ELSE StoredUnder(k)
-----------------------------------------------------------------------------
(***************************************************************************)
(* appendPendingMutationsAtomic.                                           *)
(***************************************************************************)
Befores(p) == [i \in DOMAIN p.updates |-> p.updates[i].before] \o p.deletes
Afters(p) == [i \in DOMAIN p.updates |-> p.updates[i].after] \o p.rows

HasUnique(r) == UniqueVal /\ r.val # Null

\* Two rows of the batch have the same record key.
DuplicateInBatch(s) ==
  \E i, j \in DOMAIN s :
    /\ i # j
    /\ \/ StorageKey(s[i]) = StorageKey(s[j])
       \/ HasUnique(s[i]) /\ s[i].val = s[j].val

\* A record of row r is in the database and the batch does not remove it.
Occupied(r, removed) ==
  \/ /\ StorageKey(r) \in {StorageKey(s) : s \in table}
     /\ StorageKey(r) \notin {StorageKey(s) : s \in removed}
  \/ /\ HasUnique(r)
     /\ r.val \in {u.val : u \in uniques}
     /\ r.val \notin {s.val : s \in removed}

RowIdsMoved(p) ==
  keyless /\ \E i \in DOMAIN p.rows : p.rows[i].id # nextRowId + i - 1

\* Mutant: the before-images are not compared with the stored rows.
RefusedWithoutBeforeImage(p) ==
  LET removed == ToSet(Befores(p))
  IN  \/ ~IsInjective([i \in DOMAIN Befores(p) |-> StorageKey(Befores(p)[i])])
      \/ RowIdsMoved(p)
      \/ DuplicateInBatch(Afters(p))
      \/ \E r \in ToSet(Afters(p)) : Occupied(r, removed)

\* The errors that refuse the commit.
Refused(p) ==
  LET removed == ToSet(Befores(p))
  IN  \/ ~IsInjective([i \in DOMAIN Befores(p) |-> StorageKey(Befores(p)[i])])
      \/ \E r \in removed : Stored(r) \notin table
      \/ RowIdsMoved(p)
      \/ DuplicateInBatch(Afters(p))
      \/ \E r \in ToSet(Afters(p)) : Occupied(r, removed)

\* Mutant: the catalog entry is not rewritten.
BatchKeepsRowId(p) ==
  [removed   |-> {Stored(r) : r \in ToSet(Befores(p))},
   puts      |-> {Stored(r) : r \in ToSet(Afters(p))},
   nextRowId |-> 0]

\* Mutant: the pending deletes do not get into the batch.
BatchWithoutDeletes(p) ==
  [removed   |-> {Stored(p.updates[i].before) : i \in DOMAIN p.updates},
   puts      |-> {Stored(r) : r \in ToSet(Afters(p))},
   nextRowId |-> IF keyless /\ p.rows # <<>> THEN nextRowId + Len(p.rows) ELSE 0]

\* The batch: removed records, put records and, for keyless inserts, the
\* catalog entry with the new nextRowId.
BatchOf(p) ==
  [removed   |-> {Stored(r) : r \in ToSet(Befores(p))},
   puts      |-> {Stored(r) : r \in ToSet(Afters(p))},
   nextRowId |-> IF keyless /\ p.rows # <<>> THEN nextRowId + Len(p.rows) ELSE 0]

\* Mutant: the deletes of the batch follow its puts.
WriteBatchPutsFirst(removed, puts) ==
  /\ table' = {r \in table \cup puts :
                 StorageKey(r) \notin {StorageKey(s) : s \in removed \ puts}}
  /\ uniques' = {u \in uniques \cup UniqueRecords(puts) :
                   u.val \notin {v.val : v \in UniqueRecords(removed)}}

\* A batch is applied atomically, its deletes before its puts; each record
\* overwrites the one under its key.
WriteBatch(removed, puts) ==
  LET gone == UniqueRecords(removed) \cup UniqueRecords(puts)
  IN  /\ table' = {r \in table : StorageKey(r) \notin
                     {StorageKey(s) : s \in removed \cup puts}} \cup puts
      /\ uniques' = {u \in uniques : u.val \notin {v.val : v \in gone}}
                      \cup UniqueRecords(puts)
-----------------------------------------------------------------------------
(***************************************************************************)
(* The transaction.                                                        *)
(***************************************************************************)

\* A table some earlier statements have filled.
InitialTables ==
  UNION {[S -> Vals] : S \in {T \in SUBSET Keys : Cardinality(T) <= MaxRows}}

Init ==
  /\ keyless \in BOOLEAN
  /\ phase = "idle"
  /\ \E f \in InitialTables :
       /\ table = {[id |-> IF keyless THEN k ELSE 0, key |-> k, val |-> f[k]] :
                     k \in DOMAIN f}
       /\ ~UniqueVal \/ \A j, k \in DOMAIN f :
                           j # k /\ f[j] # Null => f[j] # f[k]
  /\ uniques = UniqueRecords(table)
  /\ nextRowId = IF keyless THEN KeyCount + 1 ELSE 1
  /\ snapshot = {}
  /\ pend = NoPending
  /\ image = EmptyBag
  /\ batch = NoBatch
  /\ statements = 0
  /\ autos = 0
  /\ raced = FALSE

Begin ==
  /\ phase = "idle"
  /\ statements < MaxStatements
  /\ phase' = "active"
  /\ snapshot' = table
  /\ image' = SetToBag(table)
  /\ UNCHANGED <<dbVars, pend, batch, statements, autos, raced>>

Statement ==
  /\ phase = "active"
  /\ statements < MaxStatements
  /\ statements' = statements + 1
  /\ UNCHANGED <<phase, dbVars, snapshot, batch, autos, raced>>

\* INSERT; an error leaves the pending rows as they are.
Insert(k, v) ==
  /\ Statement
  /\ LET p == Loaded(pend)
     IN  IF DuplicateInsert(p, k, v)
           THEN pend' = p /\ UNCHANGED image
           ELSE /\ pend' = InsertRow(p, k, v)
                /\ image' = image (+) BagOf(<<Last(pend'.rows)>>)

\* UPDATE: the mutations of the rows a read returned.
UpdateSelected(mutations) ==
  /\ mutations # <<>>
  /\ pend' = Updating(Loaded(pend), mutations)[Len(mutations)]
  /\ image' = (image (-) BagOf([i \in DOMAIN mutations |-> mutations[i].before]))
                (+) BagOf([i \in DOMAIN mutations |-> mutations[i].after])

\* DELETE of the rows sel a read returned.
DeleteSelected(sel) ==
  LET p == Loaded(pend)
      errors == DeleteErrors(p, sel)
  IN  /\ sel # <<>>
      /\ IF errors = {}
           THEN /\ pend' = Deleting(p, sel)[Len(sel)]
                /\ image' = image (-) BagOf(sel)
           ELSE /\ pend' = Deleting(p, sel)[Min(errors) - 1]
                /\ UNCHANGED image

\* The rows a scan with a predicate on the key column returns.
KeepRow(s, r, K) == IF r.key \in K THEN Append(s, r) ELSE s
Selecting(s, K) ==
  LET q[i \in 0..Len(s)] == IF i = 0 THEN <<>> ELSE KeepRow(q[i - 1], s[i], K)
  IN  q
Selected(K) == Selecting(Scan(pend), K)[Len(Scan(pend))]

\* SET key = key + 1 (the last key becomes the first).
NextKey(r) == [r EXCEPT !.key = (@ % KeyCount) + 1]

\* SET val = v.
SetVal(r, v) == [r EXCEPT !.val = v]

\* The mutations that make these changes to the rows sel.
NextKeys(sel) ==
  [i \in DOMAIN sel |-> [before |-> sel[i], after |-> NextKey(sel[i])]]
SetVals(sel, v) ==
  [i \in DOMAIN sel |-> [before |-> sel[i], after |-> SetVal(sel[i], v)]]

UpdateVal(K, v) ==
  Statement /\ UpdateSelected(SetVals(Selected(K), v))
UpdateKey(K) == Statement /\ UpdateSelected(NextKeys(Selected(K)))
Delete(K) == Statement /\ DeleteSelected(Selected(K))

\* UPDATE and DELETE whose predicate gives the whole primary key.
UpdatePoint(k, v) ==
  /\ ~keyless
  /\ Statement
  /\ UpdateSelected(SetVals(PointRead(pend, k), v))
DeletePoint(k) == ~keyless /\ Statement /\ DeleteSelected(PointRead(pend, k))

\* LiteTxn::upsertRow: a point read, then an update or an insert.
Upsert(k, v) ==
  /\ ~keyless
  /\ IF PointRead(pend, k) = <<>> THEN Insert(k, v) ELSE UpdatePoint(k, v)

Rest == /\ phase' = "idle"
        /\ pend' = NoPending
        /\ image' = EmptyBag
        /\ snapshot' = {}
        /\ batch' = NoBatch

Rollback ==
  phase = "active" /\ Rest /\ UNCHANGED <<dbVars, statements, autos, raced>>

\* COMMIT: the checks refuse it, or make the batch.
CommitRefused ==
  /\ phase = "active"
  /\ Refused(pend)
  /\ Rest
  /\ UNCHANGED <<dbVars, statements, autos, raced>>

CommitPrepare ==
  /\ phase = "active"
  /\ ~Refused(pend)
  /\ phase' = "prepared"
  /\ batch' = BatchOf(pend)
  /\ UNCHANGED <<dbVars, snapshot, pend, image, statements, autos, raced>>

\* The physical write, after the storage mutex was released.
CommitWrite ==
  /\ phase = "prepared"
  /\ WriteBatch(batch.removed, batch.puts)
  /\ nextRowId' = IF batch.nextRowId # 0 THEN batch.nextRowId ELSE nextRowId
  /\ Rest
  /\ UNCHANGED <<keyless, statements, autos, raced>>

CommitFail ==
  phase = "prepared" /\ Rest /\ UNCHANGED <<dbVars, statements, autos, raced>>
-----------------------------------------------------------------------------
(***************************************************************************)
(* A statement of another session outside a transaction: LiteStorageManager*)
(* checks and writes under the storage mutex, without regard to any        *)
(* transaction.  The sessions that use transactions are kept away from     *)
(* these rows by their commit intents (LiteOcc).                           *)
(***************************************************************************)
Autocommit ==
  /\ autos < MaxAuto
  /\ phase \in {"active", "prepared"}
  /\ autos' = autos + 1
  /\ raced' = (raced \/ phase = "prepared")
  /\ UNCHANGED <<keyless, phase, snapshot, pend, image, batch, statements>>

\* LiteStorageManager::insertRow.
AutoInsert(k, v) ==
  LET row == [id |-> IF keyless THEN nextRowId ELSE 0, key |-> k, val |-> v]
  IN  /\ Autocommit
      /\ ~Occupied(row, {})
      /\ WriteBatch({}, {row})
      /\ nextRowId' = IF keyless THEN nextRowId + 1 ELSE nextRowId

Matching(K) == {r \in table : r.key \in K}

\* LiteStorageManager::updateRows of the stored rows old to the rows new.
AutoUpdate(old, new) ==
  /\ Autocommit
  /\ old # {}
  /\ Cardinality({StorageKey(r) : r \in new}) = Cardinality(old)
  /\ \A r, s \in new : r # s /\ HasUnique(r) => r.val # s.val
  /\ \A r \in new : ~Occupied(r, old)
  /\ WriteBatch(old, new)
  /\ UNCHANGED nextRowId

\* LiteStorageManager::deleteRows.
AutoDelete(K) ==
  /\ Autocommit
  /\ Matching(K) # {}
  /\ WriteBatch(Matching(K), {})
  /\ UNCHANGED nextRowId
-----------------------------------------------------------------------------
\* A predicate is an equality on the key column or none.
Predicates == {{k} : k \in Keys} \cup {Keys}

\* The statements are used up and no transaction is open.
Terminated ==
  phase = "idle" /\ statements = MaxStatements /\ UNCHANGED vars

Next ==
  \/ Begin
  \/ \E k \in Keys, v \in Vals : Insert(k, v)
  \/ \E K \in Predicates, v \in Vals : UpdateVal(K, v)
  \/ \E K \in Predicates : UpdateKey(K)
  \/ \E K \in Predicates : Delete(K)
  \/ \E k \in Keys, v \in Vals : UpdatePoint(k, v)
  \/ \E k \in Keys : DeletePoint(k)
  \/ \E k \in Keys, v \in Vals : Upsert(k, v)
  \/ Rollback
  \/ CommitRefused
  \/ CommitPrepare
  \/ CommitWrite
  \/ CommitFail
  \/ \E k \in Keys, v \in Vals : AutoInsert(k, v)
  \/ \E K \in Predicates, v \in Vals :
        AutoUpdate(Matching(K), {SetVal(r, v) : r \in Matching(K)})
  \/ \E K \in Predicates :
        AutoUpdate(Matching(K), {NextKey(r) : r \in Matching(K)})
  \/ \E K \in Predicates : AutoDelete(K)
  \/ Terminated

Spec == Init /\ [][Next]_vars
-----------------------------------------------------------------------------
(***************************************************************************)
(* Properties.                                                             *)
(***************************************************************************)

\* The state has the shape the declarations say; a stored row of a
\* primary-key table has no id of its own, an update keeps its row's.
TypeOK ==
  /\ keyless \in BOOLEAN
  /\ phase \in {"idle", "active", "prepared"}
  /\ table \subseteq Row /\ snapshot \subseteq Row
  /\ ~keyless => \A r \in table \cup batch.puts : r.id = 0
  /\ uniques \subseteq [val : Vals \ {Null}, ref : Nat]
  /\ nextRowId \in Nat \ {0}
  /\ pend \in Pending
  /\ IsABag(image) /\ BagToSet(image) \subseteq Row
  /\ batch \in [removed : SUBSET Row, puts : SUBSET Row, nextRowId : Nat]
  /\ statements \in Nat /\ autos \in Nat
  /\ raced \in BOOLEAN

\* A full scan inside a transaction returns exactly what its statements have
\* made of the snapshot: the order of the overlay and the merging of
\* mutations lose, duplicate and resurrect nothing (scanRows).
ScanIsImage == phase = "active" => BagOf(Scan(pend)) = image

\* A point read never returns a row the transaction does not see: no deleted
\* row, no stale before-image (getRowByKey).
PointReadSound ==
  phase = "active" /\ ~keyless =>
    \A k \in Keys : \A r \in ToSet(PointRead(pend, k)) :
      r.key = k /\ BagIn(r, image)

\* No two stored rows share a storage key and the UNIQUE records are exactly
\* those of the stored rows: no orphan after key moves, swaps and reinserts
\* (appendPendingMutationsAtomic, buildRowRecords).  Hence no UNIQUE value
\* twice, unless an autocommit write fell between the checks of a commit and
\* its physical write, which hold no lock in common.
RecordsMatchRows ==
  ~raced =>
    /\ \A r, s \in table : StorageKey(r) = StorageKey(s) => r = s
    /\ uniques = UniqueRecords(table)
    /\ \A u, w \in uniques : u.val = w.val => u = w

\* How often row s is in the table T, and how often the image has a row that is
\* stored as s, every copy of it counted.
Times(s, T) == IF s \in T THEN 1 ELSE 0
ImageTimes(s) ==
  Cardinality(UNION {{<<r, i>> : i \in 1..image[r]} :
                       r \in {x \in BagToSet(image) : Stored(x) = s}})

\* A commit publishes what the transaction changed and nothing else: it adds
\* to the table and takes from it exactly what the statements have added to
\* the snapshot and taken from it; every other row stays as an autocommit
\* write may have left it since (appendPendingMutationsAtomic).
CommitPublishesImage ==
  [][CommitWrite /\ ~raced =>
       \A s \in table \cup table' \cup snapshot
                 \cup {Stored(r) : r \in BagToSet(image)} :
         Times(s, table') - Times(s, table)
           = ImageTimes(s) - Times(s, snapshot)]_vars

\* Every stored row id is below the catalog's counter, so that the next
\* allocation cannot meet one (keyless commits and autocommit inserts; a write
\* between the checks and the physical write may leave the counter behind).
RowIdsFresh == keyless /\ ~raced => \A r \in table : r.id < nextRowId

\* "lite keyless row-id allocation changed while transaction was active;
\* restart and retry the transaction": a commit is refused for its row ids
\* only when another session has written, or when the transaction has deleted
\* one of its own inserts, which leaves a gap in the ids it was given.
RowIdsMovedByOthers ==
  phase = "active" /\ RowIdsMoved(pend) =>
    autos > 0 \/ Len(pend.rows) < pend.nextRowId - nextRowId

(***************************************************************************)
(* What the documentation says beyond that.                                *)
(***************************************************************************)

\* "A transaction can read its own writes": with no key twice in the image, a
\* point read finds every row of it and a range read the rows in the range
\* (getRowByKey, scanPhysicalRange).
OwnWritesAreRead ==
  (phase = "active" /\ ~keyless /\ IsInjective(
     [r \in BagToSet(image) |-> r.key])) =>
    /\ \A r \in BagToSet(image) : PointRead(pend, r.key) = <<r>>
    /\ \A lo, hi \in 1..(KeyCount + 1) :
         RangeScan(pend, lo, hi)
           = {r \in BagToSet(image) : r.key >= lo /\ r.key < hi}
=============================================================================
