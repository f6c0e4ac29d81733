# Verification of the Trafodion Lite storage engine

This directory holds TLA+ models of the storage engine of Trafodion Lite, the
single-node build of this repository that keeps all tables in one embedded
RocksDB TransactionDB, together with TLC configurations that model-check them
and TLAPS proofs about them. It documents what is modelled, what is checked and
proved, and what is left out.

    tlc -workers 2 -config occ_serializable.cfg MCLiteOcc
    tlapm LiteOccProofs.tla

and likewise for the other configurations and the other `...Proofs` modules.

## 1. The system

Trafodion Lite is a server process (`core/sql/bin/TrafodionLiteServerMain.cpp`)
whose sessions are threads, an SQL compiler and executor inherited from
Trafodion, and a storage engine (`core/sql/litestore/`).

| Component | Where | State it keeps | Operations |
|---|---|---|---|
| Transaction contexts | `LiteRocksDBStore.cpp` `LiteTxnContext` | begin sequence, recorded read ranges and write keys, pending rows, updates and deletes per table | begin, read, write, commit, rollback, reset, prepareDDL |
| OCC coordinator | `LiteOccCoordinator` | registered transactions, history of committed write sets, index of it by key, overflow sequence | begin, end, validate, publish, collect |
| Commit coordinator | `LiteCommitCoordinator` | intents of the commits in progress | acquire, release |
| Pending image | `LiteTxnContext` insert/update/delete/scan/get, `appendPendingMutationsAtomic` | pending inserts, updates, deletes of a transaction | the row operations and their merge into one batch |
| Storage manager | `LiteStorageManager` | open tables, statement snapshots, reference count, catalog, journal | acquire/release, snapshots, autocommit rows, sequence generators, journal recovery |
| Unified database | `LiteUnifiedRocksDB.cpp` | one TransactionDB, legacy WAL shards, group-commit queues, activation markers | prepare, recover, group commit, checkpoint, shutdown |
| Storage contract | `LiteStorage.cpp`, `LiteStorageSQLite.cpp` | a key-value transaction per session | begin, get, put, erase, commit, rollback |
| Row codec | `LiteRowCodec.cpp` | none | encoding of rows and order-preserving keys |
| DDL | `LiteRocksDBStore` createTable ... alterTable | catalog records | create, drop, alter, index builds |
| Referential integrity | `validatePendingReferentialIntegrity`, `validateLiteChildRI`, `validateLiteParentRI` | none | checks at commit and per autocommit statement |
| Server | `TrafodionLiteEngine`, `TrafodionLiteServer` | sessions, plan caches, cancel flags | createSession, execute, cancel, destroySession, stop |
| Bulk loader, SQLCI client | `TrafodionLiteBulkLoaderMain.cpp`, `TrafodionLiteSqlciClientMain.cpp` | load progress | load, resume |

### How they interact

A statement runs in the executor of its session. It reads and writes rows
through `LiteTxn`, which hands it to the session's `LiteTxnContext`. Outside a
transaction the context passes the call on to `LiteRocksDBStore`, and
`LiteStorageManager` checks and writes at once under one process-wide recursive
mutex (the *storage mutex*). Inside a transaction the context keeps the change
in its pending image and records what was read and written.

A commit takes these steps (`LiteTxnContext::commit`):

1. acquire a *commit intent*, waiting while an intent of another commit
   overlaps its reads or writes;
2. under the storage mutex: validate the reads against the history of committed
   writes, check referential integrity, build one write batch;
3. without the mutex: hand the batch to the group commit of its durable-writer
   shard (`LiteUnifiedWriteBatchCommit`), whose leader writes the batches of
   several sessions to RocksDB at once;
4. under the mutex again: publish the written keys to the history at the current
   database sequence, leave the set of registered transactions, collect history;
5. release the intent.

DDL statements rewrite tables under the storage mutex and publish a marker that
conflicts with every read of the table; they take no intent. A restart replays
what the physical WAL lanes still hold and the older M12 journal.

### What is hard, and what correctness means

| Component | Hard behaviour | What must hold |
|---|---|---|
| OCC, intents | validation and write are not one critical section; begin takes its sequence and its snapshot in two steps; history is collected and capped while transactions run; autocommit and DDL bypass the intents | committed transactions are serializable in the order RocksDB applies them; no committed write is hidden from a validation; commits end |
| Pending image | statements over the rows of earlier statements; four structures overlaid in three different orders by three kinds of read; commit checks that are stale when the batch is written | a read shows what the statements did; a commit publishes exactly that; no orphan UNIQUE record; row ids are never given twice |
| Group commit, WAL lanes | leader hand-off, several leaders at once, errors between the writes of a group, crashes in the protocol and in recovery | nobody waits for ever; an acknowledged commit survives; a failed one leaves no trace; nothing is applied twice |
| Referential integrity | checks read other tables without recording it | no child without parent |
| Snapshots, reference counts | overlapping executions, close while in use | every open statement has its snapshot, none leaks |
| Journal, activation | crash between two writes, replay of a partly applied record | recovery is idempotent and always possible |
| Sequences | end of the range, cycle, 64-bit arithmetic; ALTER validates one copy of the attributes and changes another; ALTER and DROP take no mutex while a block is allocated | no value is given twice before the cycle, none lies beyond MAXVALUE |
| DDL | scan and rewrite in two steps, other sessions' plans and transactions | no row lost, no row in the old layout |
| Server | cancel against completion, session end against running statements, stale plans | a cancel hits its own statement or nothing; a reported outcome is the real one |

`PROJECT.json` lists these hazards at their lines, with the properties that
cover them.

## 2. Modules

| Module | Models | Used by |
|---|---|---|
| `LiteOccRanges` | read ranges, write keys and the conflict tests of `LiteOccCoordinator` and `LiteCommitCoordinator` as operators | `LiteOcc` |
| `LiteOcc` | contexts, coordinators, storage mutex, database sequence | `MCLiteOcc`, `LiteOccProofs` |
| `LiteSerial` | the abstract specification: a store that runs transactions one after the other | `LiteOccSerial` |
| `LiteOccSerial` | the refinement mapping from `LiteOcc` to `LiteSerial` | `MCLiteOcc` |
| `LiteFacts` | lemmas about numbers and sequences that several proofs cite | the `...Proofs` modules |
| `LiteOccProofs`, `LiteOccSerialProofs` | theorems about `LiteOcc`, the refinement among them | |
| `LitePendingImage` | the pending image of one table and its commit batch | `MCLitePendingImage`, `LitePendingImageProofs` |
| `LiteRefIntegrity` | the referential checks of commits and autocommit statements | `MCLiteRefIntegrity`, `LiteRefIntegrityProofs` |
| `LiteGroupCommit` | group commit, WAL lanes, crash and recovery | `MCLiteGroupCommit`, `LiteGroupCommitProofs` |
| `LiteStartup` | opening a store: activation markers, migration, journal replay | `MCLiteStartup`, `LiteStartupProofs` |
| `LiteSequence` | sequence generators, their caches and ALTER SEQUENCE | `MCLiteSequence`, `LiteSequenceProofs` |

The detailed modules of a commit meet at the physical write. `LiteOcc` takes it
as one step of a commit that may fail (`PhysicalWrite`, `PhysicalFail`);
`LiteGroupCommit` opens that step up, and assumes of its callers what
`IntentsDisjoint` says of them: no two commits in flight write the same key.
`LiteRefIntegrity` assumes the same (`IntentsAdmit`). `LitePendingImage` details
what the batch of that step holds and opens the window between checking and
writing. `LiteStartup` comes before all of them: the step `OpenTarget` stands
for the recovery that `LiteGroupCommit` details.

Definitions that start with a comment "Mutant" are deliberately wrong variants
of the definition after them; no specification uses them. They show that the
properties notice a plausible mistake.

### 2.1 LiteOcc

One variable per piece of state: `pc` (where a context is in the protocol),
`latch` (owner of the storage mutex where it is held over several steps),
`start` and `snap` (the sequence and the snapshot of begin), `reads` and
`writes`, `active`, `history`, `index`, `overflow` (`LiteOccCoordinator`),
`intents` (`LiteCommitCoordinator`) and `log`, the writes in the order RocksDB
applied them, so that `Len(log)` is the database sequence. `ddl` is the DDL
statement between its rewrite and its marker. What a log entry says besides its
keys (who, with which reads, at which snapshot) is there for the properties.

| Action | Code |
|---|---|
| `BeginSequence`, `BeginSnapshot` | `begin`: register at the sequence, then take the snapshot, both under the storage mutex, which physical writes do not take |
| `Read`, `Write` | `recordReadPointLocked`, `recordFullScanLocked`, range recording, `recordRowWriteLocked` |
| `CommitRequest`, `AcquireIntent` | `commit` up to and with `LiteCommitCoordinator::acquire` |
| `Validate`, `Refuse` | validation, referential check, batch building under the mutex |
| `PhysicalWrite`, `PhysicalFail` | the group commit, without the mutex |
| `Publish`, `FailEnd`, `ReleaseIntent` | publication or clean-up, then the guard's destructor |
| `Rollback` | `rollback` |
| `Autocommit` | the row operations of `LiteRocksDBStore` outside a transaction |
| `DdlWrite`, `DdlPublish` | a table rewrite, `publishOccTableChange` |

Keys are integers, an object is a table or an index, and `WriteKey` 0 is the
DDL marker. The history limit of 1 000 000 keys in the code is the constant
`HistoryLimit`.

`LiteSerial` says what all this is for. Its only action, `Transaction`, sees the
latest version of every item it reads and gives a new version to every item it
writes. `LiteOccSerial` maps `LiteOcc` to it: an item is a write key, its version
is the place in `log` of the last transaction that wrote it, and a transaction
has observed, for each key its recorded ranges cover, the version its snapshot
shows. Every step of the protocol but the physical write is a stuttering step.
Autocommit and DDL writes are not transactions in this sense and stutter too;
`occ_autocommit` shows what that leaves out.

### 2.2 LitePendingImage

`pend` is the `PendingTable`, `table` and `uniques` are the row and UNIQUE
records in RocksDB, `nextRowId` is in the catalog; whether the table has a
primary key (`keyless`) is chosen at the start. `image` is the reference: the
bag of rows the statements of the transaction have made of its snapshot. The
loops over mutations, deletes and rows are recursive functions of the number of
elements done (`Updating`, `Deleting`, `Replacing`, `Dropping`, `Selecting`), so
that the states between two elements have a name: `deleteRows` can end with an
error at any of them (`DeleteErrors`). UPDATE
and DELETE first read (a scan with a predicate, or a point read when the
predicate gives the primary key) and then mutate the rows read, as the executor
does. A commit is two steps, `CommitPrepare` or `CommitRefused` for the checks
and `CommitWrite` or `CommitFail` for the write. Another session's autocommit
statements fall between the statements and between check and write; `raced`
remembers the second case, because the storage mutex is free then and nothing
protects the checks any more.

### 2.3 LiteGroupCommit

Per shard a queue (`pending`), a `leader`, the group it detached and the stage
it is in; per thread its batch and what its request returned. The unified
database and every lane are sequences of writes with the length that is on disk:
a synchronous write puts everything before it on disk, a crash keeps any longer
prefix. `config` holds the two settings of the process, `writeGroup`'s path and
synchronous commit, both chosen at the start. With the legacy path the commit
marker of a batch is in the unified database exactly when the batch is, because
one write holds both: `t \in Applied` is the test for the marker.

WAL ids start from the clock when a process allocates its first one; the model
lets them go on from where they were, that is, it assumes the clock is past the
ids of earlier processes.

### 2.4 LiteRefIntegrity

`parent` and `child` are the stored rows of two tables, `ops` the row changes of
a session. A transaction records its changes (`Statement`), checks them under the
storage mutex (`CommitCheck`, `CommitRefuse`) and writes them after it has left
the mutex (`PhysicalWrite`, `PhysicalFail`). A statement outside a transaction
scans for parents and children without the mutex (`AutoStatement`) and takes it
for the write (`AutoWrite`). `OverlaidRefs` is the child table as
`validateRemovedParentReferences` sees it: overlaid by row id, which is 0 for
every row of a table with a primary key (`keyed`). `contested` is a ghost
variable that holds the keys for which one of the two windows was used. One
transaction changes a row once; how changes of one row merge is the subject of
`LitePendingImage`.

### 2.5 LiteStartup

`stage` is how far `acquire` has got. `images` is the unified database as a
sequence of states, the first one on disk, the last one current: a write without
sync appends, a synchronous one leaves only itself, a crash of the process keeps
the last state and a power failure any of them. The journal is a second database
whose commits are synchronous. A journal record inserts one row into each of its
tables; a table may be keyless, and then the counter in the catalog moves in a
write of its own before the rows (`ReplayCatalog`, `ReplayBatch`). `todo` holds
the records still to be replayed; the scan of `recoverJournals` is in key order,
so the next one is its least element (`First`). Errors
(`Fault`, `FlushFails`, `ReplayBatchFails`), crashes and power failures happen
at every stage, and every error path of `acquire` closes the store again.

### 2.6 LiteSequence

The record of a sequence and the rows that keep its values are in one database,
with `images` as above. Every session has a `plan` (the attributes its compiled
statement carries, possibly older than the last ALTER) and a `cache` (its
`SeqGenEntry`). `allocateSequence` is two steps, because ALTER and DROP take no
storage mutex: `FetchRead` reads the record into `fetching`, and `NextFetched` or
`CurrentValue` (both through `FetchRange`) put the whole record back with its
counter moved (`PutCounter`). `NextCached` and `NextFetched` give out a value and
decide in the same step what becomes of the row that takes it. An image has the
record (`live`) and, apart from it, the key that leads from the UID to it (`uid`):
a put brings back the one after a DROP, not the other.

`Legal` is what CREATE lets pass; increments are positive, as the parser demands.
ALTER is modelled as the code does it, on two copies. The binder takes the
attributes of a table descriptor, possibly an old one (`base`), puts the options
into it (`Validated`, where NO MAXVALUE leaves the old MAXVALUE) and validates
that (`AlterValid`, which looks at CACHE only when it is among the options).
`alterSeabaseSequence` then puts the options as parsed into the record it loads
(`Merged`, where NO MAXVALUE is 0) and writes it back: `AlterLoad`, then
`AlterWrite` or `AlterFails`. What the catalog then holds need not be legal;
`Storable` says what can be relied on. Integers wrap beyond `MaxInt`, the largest
Int64. `clash`, `excuse`, `top` and `wide` are ghost variables: a value was given
out that a row already has, the reasons that may explain it, and the largest
MAXVALUE (`MaxInt` for NO MAXVALUE) and INCREMENT so far.

## 3. What the runs show

Bounds are constants, named in the module that uses them.

| Run | Question | Bounds | Result |
|---|---|---|---|
| `occ_serializable` | Are transactions serializable, and does the protocol implement `LiteSerial`, with point and range reads, failures, rollbacks and a history that overflows after one key? | 3 sessions, 3 transactions, 2 keys | holds |
| `occ_progress` | Does every requested commit end, with an autocommit write and a DDL statement in between, and is the invariant of the proofs invariant there? | 2 sessions, 2 transactions that write one key | holds |
| `occ_autocommit` | Do autocommit writes take part in validation (`README.md:130`)? | 2 sessions | violated |
| `occ_ddl_race` | Does DDL keep a transaction that read the old table from committing after it? | 2 sessions | violated |
| `pending_image` | Do scans, point reads, commits, UNIQUE records and row ids agree with the statements, with and without primary key, and who can move row ids under a transaction? | 3 keys, 2 values, 2 rows to start with, 3 statements, 1 autocommit write | holds |
| `pending_own_writes` | Do point and range reads find the transaction's own writes? | 2 keys, 1 statement | violated |
| `ri_check` | Does the commit check accept exactly what leaves no orphan, and where do orphans come from? | 2 sessions, 2 keys, 2 child rows, 3 pending changes | holds |
| `wal_safety` | Are waiters served, acknowledged commits durable, WAL ids unique, batches applied once and failed native commits absent? | 3 threads, 2 shards, both paths, 1 error, 2 crashes | holds |
| `wal_liveness` | Does every commit return? | 3 threads, 1 shard, 1 error | holds |
| `wal_legacy_error` | Is a commit that failed absent for ever on the legacy path too? | 3 threads, 1 shard, 1 error, 1 crash | violated |
| `startup` | Can an interrupted activation or replay always be retried, does it complete, and does the store open in the end? | 2 tables, 2 journalled transactions, 3 errors, 3 crashes, 1 power failure | holds |
| `sequence` | Are values in range and given out once, with caches, CYCLE, ALTER, RESET, DROP and power failures? | 2 sessions, 4-bit integers, 3 definitions, 7 alterations, 3 allocations, 2 ALTERs, DROPs or power failures | holds |

Why the bounds are enough to be interesting. Three sessions are what a commit
needs to be overtaken between its validation and its publication by a second one
while a third begins. Two keys are a point, an interval without end and a
phantom. A history limit of one key makes almost every publication overflow.
Three statements are an insert, update or key move, its undoing, and one more;
every known failure of the overlay shows with three. Two crashes let the second
one hit the recovery from the first. Three changes in two sessions are a parent
removed, a child of it added elsewhere and a child changed in the same
transaction. Two journal records that share their tables in opposite order make
every replayed table meet the counter and the marker of another record. With
four bits a sequence reaches the end of its range, the end of the integers and a
second cycle within three allocations, and the alterations leave a CACHE beyond
the range, an INCREMENT that does not fit and a MAXVALUE of 0; nothing is explored beyond the first
overflow (`BeforeOverflow`), whose state is still checked. The proofs of
section 4 have no such limit.

`occ_progress` reads nothing, to keep the state graph small enough for liveness;
reads and their conflicts are in `occ_serializable`, and `InductiveInvariant` is
proved for both. Several questions share a run where they concern the same
instance: an invariant of the proofs and liveness in `occ_progress`; UNIQUE
values, row ids and the reads in `pending_image`.

**Fairness.** `occ_progress` assumes weak fairness of each step of a commit:
threads that can run do run (`pthread` mutexes and condition variables, a
broadcast on every release), and a physical write returns. It assumes nothing of
begins, reads, writes and commit requests. `wal_liveness` assumes the same of
leaders, woken followers and recovery, and `startup` of the steps of `acquire`,
which waits for nobody. The first two runs have finitely many commits. With
an endless stream the code gives no such promise: `acquire` has no queue, and a
group leader serves its queue as long as requests arrive.

**Disagreements found.** Each violated run has an entry under `findings` with
the sentence of the repository it contradicts:

- An autocommit statement takes no intent and publishes nothing, so a
  transaction can overwrite it unseen (`occ_autocommit`).
- A DDL statement takes no intent: a validated commit of another session applies
  its old-layout batch after the rewrite (`occ_ddl_race`).
- Point and range reads miss own writes after `UPDATE t SET k = k + 1`
  (`pending_own_writes`); a point read also misses a row inserted again after a
  DELETE of its key.
- With the legacy WAL protocol a commit reported as failed can come back at the
  next start (`wal_legacy_error`).

**Exceptions the properties name.** Some passing properties hold only with an
exception, and each exception is a behaviour of the code:

- `RecordsMatchRows`, `RowIdsFresh` and `CommitPublishesImage` except when an
  autocommit statement falls between the checks and the write of a commit
  (`raced`). It can then take the same UNIQUE value or the same row id; the
  roadmap (`plan/lite-transaction-roadmap.md:287`) says duplicate keys are
  rejected.
- `RowIdsMovedByOthers` except when the transaction deletes a keyless row it has
  inserted itself. Deleting the first of two such rows makes its commit
  impossible, with an error (`LiteRocksDBStore.cpp:4255`) that blames another
  session and asks for a retry that fails again.
- `OrphansWereContested` has two exceptions. A child and the removal of its
  parent may both be checked before either is written, because the reads of the
  check are not recorded. And the overlay by row id (`LiteRocksDBStore.cpp:6812`)
  takes one pending change of a child table with a primary key for a change of
  every row: a transaction that updates some child and deletes a parent that
  other children reference is accepted. `CheckIsExact` therefore excludes it.
- `ReplayIsRetryable` and `OpenMeansReplayed` except after a power failure. The
  rows of a replay are written without sync and the removal of the record with
  it: a power failure may keep the removal and lose the rows, although the
  journal is "the durable commit decision" (`README.md:80-83`). When it
  loses the row-id counter of a keyless table too, the next record is refused
  and the store does not open; `StoreOpens` names this case.
- `NoValueTwice` except after CYCLE, RESET, an overflow of the counter, or an
  allocation that falls between the load and the write of an ALTER SEQUENCE and
  is undone by it.
- `ValuesInRange` only while MAXVALUE plus the increment fits in 64 bits: beyond
  that the counter wraps and the test for exhaustion no longer sees the end. And
  only while nobody has asked for NO MAXVALUE: with CYCLE, the MAXVALUE of 0 it
  leaves makes `available` (`LiteRocksDBStore.cpp:4575`) a huge number, and blocks
  are not cut at all.

Seen while modelling and not stated as a property: a commit published after
another one was applied gets the later sequence, so transactions whose snapshot
already shows it are refused for it; the leader returns the error text of its
last group with the result of its own request; autocommit writes are never
synchronous, whatever `liteSynchronousCommit` says; a scan without end key
returns nothing on the SQLite backend (`LiteStorageSQLite.cpp:613`); an ALTER or
DROP SEQUENCE that falls between the read and the put of an allocation is undone
by it, and after the DROP the record is back without its UID key, so that nobody
can take a value but the name is still taken; `ALTER SEQUENCE ... NO MAXVALUE`
stores 0 (`CmpSeabaseDDLcommon.cpp:7796`), so that a sequence without CYCLE is
used up at once, although the SQL reference (`sql_statements.adoc:2987`) promises
the largest value of the data type; on the legacy WAL path a failed clean-up
(`LiteUnifiedRocksDB.cpp:985`) is reported as a failed commit after the batch was
applied, a case that `LiteGroupCommit` has and `LiteOcc`, where a failed physical
write leaves nothing, has not.

## 4. What is proved

Every theorem is proved for all values of the constants: any number of sessions,
threads, shards, tables, keys and rows, any limits, and any bound on errors,
crashes and statements. All but the refinement and the action property have the same shape: an inductive
invariant, called `IInv` in each module (`InductiveInvariant` in `LiteOcc`), that
holds at the start, is kept by every step, one lemma per action, and implies the
property. TLC has checked each of these invariants on the instance of the
component's run before it was proved.

| Module | Theorem | Statement |
|---|---|---|
| `LiteOccProofs` | `TypeCorrect` | `Spec => []TypeOK` |
| | `ReadWriteConflictExact` | inspecting only the first write at or after the start of a range decides exactly whether some write lies in it |
| | `Invariance` | `Spec => []InductiveInvariant` |
| | `TransactionsSerializable` | `Spec => []Serializable` |
| | `IntentsAreDisjoint` | `Spec => []IntentsDisjoint` |
| | `HistoryIsComplete` | `Spec => []HistoryComplete` |
| | `ValidatedStaysCurrent` | `Spec => []ValidatedIsCurrent` |
| `LiteOccSerialProofs` | `OccImplementsSerial` | `Spec => ImplementsSerial`, the refinement of `LiteSerial` |
| `LitePendingImageProofs` | `PendingTypeCorrect` | `Spec => []TypeOK` |
| | `ScanAlwaysImage` | `Spec => []ScanIsImage` |
| | `PointReadAlwaysSound` | `Spec => []PointReadSound` |
| | `RecordsAlwaysMatch` | `Spec => []RecordsMatchRows` |
| | `RowIdsStayFresh` | `Spec => []RowIdsFresh` |
| | `RowIdsMovedOnlyByOthers` | `Spec => []RowIdsMovedByOthers` |
| | `CommitAlwaysPublishes` | `Spec => CommitPublishesImage`, an action property |
| `LiteGroupCommitProofs` | `GroupCommitTypeOK` | `Spec => []TypeOK` |
| | `WaitersAlwaysServed` | `Spec => []WaitersAreServed` |
| | `WalIdsStayUnique` | `Spec => []WalIdsAreUnique` |
| | `AcknowledgedStaysDurable` | `Spec => []AcknowledgedIsDurable` |
| | `BatchesAppliedOnce` | `Spec => []AppliedOnce` |
| | `NativeFailureIsFinal` | `Spec => []NativeFailureLeavesNothing` |
| `LiteStartupProofs` | `StartupTypeOK` | `Spec => []TypeOK` |
| | `ActivationAlwaysRetryable` | `Spec => []ActivationIsRetryable` |
| | `MarkersAlwaysFollowRows` | `Spec => []MarkersFollowRows` |
| | `ReplayAlwaysRetryable` | `Spec => []ReplayIsRetryable` |
| | `OpenAlwaysReplayed` | `Spec => []OpenMeansReplayed` |
| `LiteRefIntegrityProofs` | `RefIntegrityTypeOK` | `Spec => []TypeOK` |
| | `CheckAlwaysExact` | `Spec => []CheckIsExact` |
| | `OrphansAlwaysContested` | `Spec => []OrphansWereContested` |
| `LiteSequenceProofs` | `SequenceTypeOK` | `Spec => []TypeOK` |
| | `ValuesStayInRange` | `Spec => []ValuesInRange` |
| | `NoValueGivenTwice` | `Spec => []NoValueTwice` |
| | `BlocksStayApart` | `Spec => []BlocksApart` |

Assumptions: only those named `...Assumption` in the modules of the components.
They give the constants their types, say that `NoOne`, `NoThread`, `NoRef` and
`Absent` are none of the values they stand apart from, that there is a key to
write (`LiteGroupCommit`), that null is one of the values (`LitePendingImage`) and
that CREATE SEQUENCE gets legal definitions and ALTER SEQUENCE options the grammar
has.

### 4.1 Optimistic transactions

`Serializable` says that nothing a transaction read was
overwritten by another transaction between its snapshot and its own place in
`log`. It is not inductive: it says nothing of transactions that have not yet
written. `InductiveInvariant` adds, step by step backwards through a commit:

- `ValidatedSinceStart`: a commit that waits for its physical write has no
  overlapping write after its start. This is `Serializable` one step earlier.
- `IntentsDisjoint`: while it waits, only commits with disjoint intents can
  write, so the previous clause survives their writes.
- `HistoryComplete`: whatever was written after the start of a registered
  transaction is in the history, or its loss is remembered by `overflow`, or its
  writer has not published it yet and still holds its intent. So a validation
  that passes establishes `ValidatedSinceStart`.
- `BeginMissesNothing`, `SequencesBounded`, `OwnEntries`, `DdlEntry`: begin
  registers before anything later can be published, sequences never run ahead of
  the database, and a context's own earlier entries are not in its way.

`CollectOK`, `PublishedOK` and `EndOccOK` are the lemmas about the history;
`ValidateIsCurrent` joins `HistoryComplete` and `ReadWriteConflictExact`; there
is one lemma per action, and `RelationsStep` puts them together.

The refinement needs one fact more, `SnapshotsPrecede`: the snapshot of a log
entry is older than its place. Then the outcome of a committed transaction does
not change when the log grows (`OutcomeStays`), autocommit and DDL writes change
nothing that is mapped (`OtherWriteStutters`), and for the physical write of a
transaction `ValidatedIsCurrent` says that the versions at its snapshot are the
latest ones, which is the guard of `Transaction` (`WriteIsTransaction`).

### 4.2 Pending image

*Loops.* What a loop computes is proved without the library's induction
theorems, which take an operator as parameter and are out of reach of the
provers. `IterationExists` (`LiteFacts`) says that a function defined by its
value at 0 and a step exists, and `IntervalInduction` that a *set* which holds
0 and with each number the next one holds the whole interval, by its least
counterexample. Each of the five loops has a lemma that gives its value at every
place (`UpdatingSteps`, `DroppingSteps`, ...), and all that follows cites these.

*Balance.* `ScanIsImage` compares the result of three overlays with a bag that
knows nothing of them. The invariant `Matches(pend, image)` says it row by row:
for every row, the copies in `image` are those in the snapshot, minus the
before-images and deletes of the pending table, plus its after-images and
inserts (`Net`), and no row is taken more often than the snapshot has it
(`Balanced`). One merge changes `Net` exactly as the statement changes the image
(`MergeUpdateNet`, `MergeDeleteNet`), provided the row it works on is visible;
that it is follows from the read before it (`SelectedSeen`, `PointReadSeen`).
Conversely a scan returns `Net` (`ScanCount`): an overlay finds every
before-image and every deleted row because of `Balanced`. `Balanced` also is why
the overlay order of `getRowByKey` returns nothing the transaction does not see,
though it may miss rows (`pending_own_writes`).

*Commit.* `TableInv` and `RecordsInv` describe the stored records, `PreparedInv`
what the checks of a commit have found and its write relies on, as long as no
autocommit write came between. `StatementInv` adds that the row ids of the
pending inserts ascend from the counter, with a gap only where an insert was
deleted (`Gap`); it is what `RowIdsMovedByOthers` needs.

`CommitPublishesImage` needs one fact more about a prepared commit, `PublishInv`:
its batch puts and removes what the image and the snapshot differ by. The batch
is a set of rows *as they are stored*, the image a bag of rows as the statements
see them, and several of these may be stored as the same row. `SameFibres` bridges
the two: sequences that have every row equally often have the rows of any set
equally often. So the scan together with the before-images counts as the
snapshot together with the after-images, for the rows stored as `s`; that the
batch is not refused makes each of its counts 0 or 1 (`OnePlace`).

### 4.3 Group commit

The properties speak of requests that have an answer; the invariant has to
follow a request before it. `QueueInv` says where a thread can be: in the queue
of its shard exactly while it waits there, in the detached group of its leader,
and nowhere twice; a shard with a queue has a leader. `WalIdInv` says that the
ids of all batches in flight are below the next id and differ, which survives
the numbering of a whole queue in one step (`Detach`) because the ids follow the
places in the queue. `WriteInv` relates the stage of a leader to what its group
has on disk: on the native path nothing is in a lane (`NativeInv`), the entries
of a lane belong to threads that have submitted a batch (`LaneInv`), and a batch that
is still queued, or whose group has not reached its canonical write, is in no
write of the unified database (`UnwrittenInv`), so the write that follows applies
it once. `DurableInv` and `FailureInv` are then one step from the properties.

### 4.4 Start-up

Two chains of writes have to be resumable from any image a power failure may
bring back, so the invariant quantifies over `images`. `ActiveInv` says that the
activation markers of every image are ones `prepareTarget` accepts. `JournalInv`
says of the replay that records leave the journal in order and that, in every
image, at most the first record still in it has been applied, its row if and only
if its marker (`Resumable`). That is why an interrupted replay is never refused by
its own rows: a row that is there has its marker, and the replay skips it.
`ReplayInv` adds, as long as the machine has not gone down, where the running
replay is: the records that left the journal are applied everywhere, the tables
before `at` are done, and the row counter of a table is at or just past the row
of the first record.

### 4.5 Referential integrity

`OrphansWereContested` is not inductive, because it says nothing of sessions
that have checked and not written. The invariant adds what such a session still
knows when its write comes: each key it refers to is there after its write
(`AddedInv`) and no child refers to a key it removes (`RemovedInv`), unless the
key is contested. Another session's write can break either fact only for a key
that it adds and the first one removes, or the other way round, and
`NowContested` records exactly those. Freshness of the rows is not needed for
that, which is why the argument covers autocommit writes too. `OverlayExact` is
the lemma about `validateRemovedParentReferences`: where the overlay by row id
applies, the child rows it sees refer to a removed key if and only if a child
row does after the write. `CheckAlwaysExact` follows from it for transactions of
any length.

### 4.6 Sequences

`BlockFacts` is the arithmetic of `allocateSequence`: from a counter that is not
below MINVALUE, the block lies within MINVALUE and MAXVALUE, and the counter
moves behind it or wraps to a negative number. From there two invariants go
separate ways. `RangeInv` needs that nothing can wrap and then holds through
CYCLE, RESET and stale plans. `UniqueInv` needs that no excuse has occurred: the
rows of every image are below its counter, and what a session still holds is
below the counter, apart from what the others hold, and in no row. Both speak of
every image, because a power failure may bring back any of them, together with
the counter it had: that is why an allocation without sync does no harm.

No ALTER makes the record legal, so the proofs rest on `Storable` alone.
`MergedFacts` is why every record is storable: options that are valid when put
into one definition give a storable one when put into any other with the same
MINVALUE and START WITH, which no ALTER can change (`SameBase`). `MutexInv` says
that at most one allocation is between its read and its put, from which
`UniqueInv` has that the counter it read is still the record's unless an excuse
has occurred: its put cannot take the counter back. `Bounded` and the ghost `Ceiling` let NO MAXVALUE
count as the largest integer, which is what puts it outside `ValuesInRange`.

### 4.7 Only model-checked

- `CommitEnds`, `CommitReturns` and `StoreOpens`: liveness under fairness is
  outside the prover.
- The violated properties of section 3, and with `OwnWritesAreRead` the range
  read `RangeScan`, which no other property uses.

## 5. Plan

Done: `LiteOcc`, `LitePendingImage`, `LiteGroupCommit`, `LiteRefIntegrity`,
`LiteStartup` and `LiteSequence` with their runs, and the proofs of section 4.
In this order to come:

1. `LiteDdl`: create, drop, alter, index build and `prepareDDL`, with scan and
   rewrite as two steps. Property: no row lost, all rows in the current layout.
2. `LiteStorageTxn`: the contract of `LiteStorage.h` as an abstract
   specification, the RocksDB and SQLite transactions implementing it, with
   failures of commit and flush, cancel and rollback.
3. `LiteSnapshots`: statement snapshots over overlapping executions. Property:
   an open statement has its snapshot, none leaks.
4. `LiteServer`: sessions, execute, cancel, destroySession, plan cache against
   DDL. Properties: a cancel hits its statement or nothing, the outcome reported
   is the outcome, sessions end.

## 6. What is not modelled

- `LiteRowCodec.cpp`: byte encodings over unbounded domains. The models take
  from it that keys are ordered and that encoding is injective.
- Secondary-index scans and MERGE in `LitePendingImage`, and the bulk-load switch
  `TRAF_LITE_BULK_LOAD` that skips duplicate checks for trusted input.
- Replayed updates and deletes of the M12 journal; composite, multiple and
  self-referencing constraints in `LiteRefIntegrity`.
- Statement snapshots, the detail of DDL, the storage contract by itself and the
  server: planned in section 5. Their hazards are listed in `PROJECT.json`.
- Metrics, tracing, fault-injection switches (the faults themselves are actions:
  `PhysicalFail`, `CommitFail`, `WriteError`, `Crash`).
- The SQL compiler and executor inherited from Trafodion, the distributed
  services (monitor, transaction manager, DCS, REST, WMS) and the client
  drivers: the Lite build uses the first unchanged and does not start the
  others.
