---------------------------- MODULE LiteStartup ----------------------------
(***************************************************************************)
(* Opening a Trafodion Lite store: LiteStorageManager::acquire, with the   *)
(* activation of the unified RocksDB (prepareTarget), the migration of the *)
(* metadata keys and the replay of the M12 transaction journal, against    *)
(* errors and crashes at every step.                                       *)
(*                                                                         *)
(* Two databases are written.  The journal commits synchronously.  In the  *)
(* unified database some writes are synchronous and some are not: images   *)
(* holds what is on disk, first, and what the database would show after    *)
(* each later write; the last one is what it shows now.  A process that    *)
(* dies leaves the last image, a machine that dies any of them.            *)
(*                                                                         *)
(* This build never writes a journal record (persistJournal has no caller) *)
(* but replays what an earlier release left, several records included.     *)
(* A record inserts one row into each of its tables.                       *)
(***************************************************************************)
EXTENDS Integers, Sequences, SequencesExt, FiniteSetsExt

CONSTANTS
  Tables,
  Keyless,        \* the tables without primary key
  Records,        \* the journal of an old store: per id, its tables in order
  MaxFaults,      \* bound: errors RocksDB reports
  MaxCrashes,     \* bound: crashes of the process
  MaxBlackouts    \* bound: crashes of the machine

ASSUME StartupAssumption ==
  /\ Keyless \subseteq Tables
  /\ Records \in Seq(Seq(Tables))
  /\ MaxFaults \in Nat /\ MaxCrashes \in Nat /\ MaxBlackouts \in Nat

Ids == DOMAIN Records

VARIABLES
  images,      \* of the unified database, see above
  journal,     \* ids of the records in the journal database
  stage,       \* where acquire is (see Stages)
  todo,        \* the ids of the records it has read and not finished
  at,          \* the next table of the first of them (see First)
  refCount,    \* refCount_
  wasOld,      \* the store held a journal when it was first opened
  refused,     \* why an acquire failed that met no error of RocksDB
  faults, crashes, blackouts

vars == <<images, journal, stage, todo, at, refCount, wasOld, refused, faults,
          crashes, blackouts>>

\* "target" reads the markers, "format" and "activate" write them, "open"
\* opens the unified database (with its WAL lanes, LiteGroupCommit); "batch"
\* and "moved" are about to write a table's batch, "moved" after the catalog.
Stages == {"closed", "target", "format", "activate", "open", "migrate", "scan",
           "replay", "batch", "moved", "ready"}

\* What the unified database holds.
Image == [format : BOOLEAN, active : BOOLEAN, layout : BOOLEAN,
          keys2 : BOOLEAN,                   \* format|metadata-key
          rows : [Tables -> SUBSET Ids],     \* inserted rows, by their record
          marks : [Tables -> SUBSET Ids],    \* transactionTableMarker
          nextRow : [Tables -> Nat]]         \* nextRowId in the catalog

db == Last(images)

WriteAsync(image) == images' = Append(images, image)
WriteSync(image) == images' = <<image>>

\* The row id the earlier release gave to record j's row in table t.
RowId(j, t) == 1 + Cardinality({i \in 1..(j - 1) : t \in ToSet(Records[i])})

EmptyImage ==
  [format |-> FALSE, active |-> FALSE, layout |-> FALSE, keys2 |-> FALSE,
   rows |-> [t \in Tables |-> {}], marks |-> [t \in Tables |-> {}],
   nextRow |-> [t \in Tables |-> 1]]

\* A new store, or one an earlier release left with its journal.
Init ==
  /\ wasOld \in BOOLEAN
  /\ \E k \in BOOLEAN :
       images = IF wasOld
                  THEN <<[EmptyImage EXCEPT !.format = TRUE, !.active = TRUE,
                                            !.layout = TRUE, !.keys2 = k]>>
                  ELSE <<EmptyImage>>
  /\ journal = IF wasOld THEN Ids ELSE {}
  /\ stage = "closed" /\ todo = {} /\ at = 1 /\ refCount = 0
  /\ refused = "no" /\ faults = 0 /\ crashes = 0 /\ blackouts = 0

bounds == <<faults, crashes, blackouts>>
-----------------------------------------------------------------------------
\* The first acquire of a process; further ones only count.
Acquire ==
  /\ stage = "closed" /\ refCount = 0
  /\ stage' = "target"
  /\ UNCHANGED <<images, journal, todo, at, refCount, wasOld, refused, bounds>>

Share ==
  /\ stage = "ready" /\ refCount = 1
  /\ refCount' = 2
  /\ UNCHANGED <<images, journal, stage, todo, at, wasOld, refused, bounds>>

\* Every error path of acquire shuts the store down again.
GiveUp ==
  /\ stage' = "closed" /\ todo' = {} /\ at' = 1 /\ refCount' = 0

\* prepareTarget's tests on the three markers.
TargetRefused(image) ==
  \/ image.active /\ ~(image.format /\ image.layout)
  \/ image.layout /\ ~image.active
  \/ ~image.format /\ image # EmptyImage

ReadTarget ==
  /\ stage = "target"
  /\ IF TargetRefused(db)
       THEN refused' = "target" /\ GiveUp
       ELSE /\ stage' = IF db.active THEN "open"
                        ELSE IF db.format THEN "activate" ELSE "format"
            /\ UNCHANGED <<todo, at, refCount, refused>>
  /\ UNCHANGED <<images, journal, wasOld, bounds>>

\* Mutant: the layout is written with the format, the activation later.
WriteFormatAndLayout ==
  /\ stage = "format"
  /\ WriteSync([db EXCEPT !.format = TRUE, !.layout = TRUE])
  /\ stage' = "activate"
  /\ UNCHANGED <<journal, todo, at, refCount, wasOld, refused, bounds>>

\* prepareTarget's two commits.
WriteFormat ==
  /\ stage = "format"
  /\ WriteSync([db EXCEPT !.format = TRUE])
  /\ stage' = "activate"
  /\ UNCHANGED <<journal, todo, at, refCount, wasOld, refused, bounds>>

Activate ==
  /\ stage = "activate"
  /\ WriteSync([db EXCEPT !.active = TRUE, !.layout = TRUE])
  /\ stage' = "open"
  /\ UNCHANGED <<journal, todo, at, refCount, wasOld, refused, bounds>>

OpenTarget ==
  /\ stage = "open"
  /\ stage' = "migrate"
  /\ UNCHANGED <<images, journal, todo, at, refCount, wasOld, refused, bounds>>

\* migrateLiteMetadataKeys: one synchronous batch with its own marker.
Migrate ==
  /\ stage = "migrate"
  /\ IF db.keys2 THEN UNCHANGED images ELSE WriteSync([db EXCEPT !.keys2 = TRUE])
  /\ stage' = "scan"
  /\ UNCHANGED <<journal, todo, at, refCount, wasOld, refused, bounds>>

\* recoverJournals reads all records, then replays them in the order of
\* their keys.
ScanJournal ==
  /\ stage = "scan"
  /\ todo' = journal
  /\ at' = 1
  /\ stage' = "replay"
  /\ UNCHANGED <<images, journal, refCount, wasOld, refused, bounds>>
-----------------------------------------------------------------------------
(***************************************************************************)
(* commitPendingMutations for table t of record j.                         *)
(***************************************************************************)
First == Min(todo)
Current == [id |-> First, table |-> Records[First][at]]
AtTable == stage = "replay" /\ todo # {} /\ at <= Len(Records[First])

Advanced(j, t) == t \in Keyless /\ db.nextRow[t] = RowId(j, t) + 1

\* Its row-id and duplicate tests.
RowRefused(j, t) ==
  \/ t \in Keyless /\ db.nextRow[t] # RowId(j, t) /\ ~Advanced(j, t)
  \/ j \in db.rows[t]

\* The marker says that the table has it already.
ReplaySkip ==
  /\ AtTable
  /\ Current.id \in db.marks[Current.table]
  /\ at' = at + 1
  /\ UNCHANGED <<images, journal, stage, todo, refCount, wasOld, refused, bounds>>

ReplayRefuse ==
  /\ AtTable
  /\ Current.id \notin db.marks[Current.table]
  /\ RowRefused(Current.id, Current.table)
  /\ refused' = "replay"
  /\ GiveUp
  /\ UNCHANGED <<images, journal, wasOld, bounds>>

\* The row-id counter in the catalog goes first, in a write of its own.
ReplayCatalog ==
  /\ AtTable
  /\ Current.id \notin db.marks[Current.table]
  /\ ~RowRefused(Current.id, Current.table)
  /\ IF Current.table \in Keyless /\ ~Advanced(Current.id, Current.table)
       THEN /\ WriteAsync([db EXCEPT !.nextRow[Current.table] = @ + 1])
            /\ stage' = "moved"
       ELSE /\ stage' = "batch"
            /\ UNCHANGED images
  /\ UNCHANGED <<journal, todo, at, refCount, wasOld, refused, bounds>>

\* Mutant: the rows are written without their marker.
ReplayBatchUnmarked ==
  /\ stage \in {"batch", "moved"}
  /\ WriteAsync([db EXCEPT !.rows[Current.table] = @ \cup {Current.id}])
  /\ stage' = "replay" /\ at' = at + 1
  /\ UNCHANGED <<journal, todo, refCount, wasOld, refused, bounds>>

\* The batch: the row and this record's marker; the markers of others are
\* records it does not keep.
ReplayBatch ==
  /\ stage \in {"batch", "moved"}
  /\ WriteAsync([db EXCEPT !.rows[Current.table] = @ \cup {Current.id},
                           !.marks[Current.table] = {Current.id}])
  /\ stage' = "replay" /\ at' = at + 1
  /\ UNCHANGED <<journal, todo, refCount, wasOld, refused, bounds>>

\* The batch fails: a counter this call has moved is put back, if that write
\* does not fail as well (its error is not looked at).
ReplayBatchFails ==
  /\ stage \in {"batch", "moved"} /\ faults < MaxFaults
  /\ \/ /\ faults' = faults + 1
        /\ IF stage = "moved"
             THEN WriteAsync([db EXCEPT !.nextRow[Current.table] = @ - 1])
             ELSE UNCHANGED images
     \/ /\ stage = "moved" /\ faults + 2 <= MaxFaults
        /\ faults' = faults + 2
        /\ UNCHANGED images
  /\ GiveUp
  /\ UNCHANGED <<journal, wasOld, refused, crashes, blackouts>>

\* Mutant: the record goes before its tables are written.
RemoveJournalFirst ==
  /\ stage = "replay" /\ todo # {}
  /\ journal' = journal \ {First}
  /\ IF at > Len(Records[First])
       THEN todo' = todo \ {First} /\ at' = 1
       ELSE First \in journal /\ UNCHANGED <<todo, at>>
  /\ UNCHANGED <<images, stage, refCount, wasOld, refused, bounds>>

\* Mutant: all records are removed once the last one is replayed.
RemoveJournalLate ==
  /\ stage = "replay" /\ todo # {} /\ at > Len(Records[First])
  /\ journal' = IF Cardinality(todo) = 1 THEN {} ELSE journal
  /\ todo' = todo \ {First} /\ at' = 1
  /\ UNCHANGED <<images, stage, refCount, wasOld, refused, bounds>>

\* Mutant: the loop over the records does not advance.
RemoveJournalStays ==
  /\ stage = "replay" /\ todo # {} /\ at > Len(Records[First])
  /\ journal' = journal \ {First}
  /\ UNCHANGED <<images, stage, todo, at, refCount, wasOld, refused, bounds>>

\* removeJournal, synchronous, in the other database.
RemoveJournal ==
  /\ stage = "replay" /\ todo # {} /\ at > Len(Records[First])
  /\ journal' = journal \ {First}
  /\ todo' = todo \ {First} /\ at' = 1
  /\ UNCHANGED <<images, stage, refCount, wasOld, refused, bounds>>

\* The end of acquire.
Ready ==
  /\ stage = "replay" /\ todo = {}
  /\ stage' = "ready" /\ refCount' = 1
  /\ UNCHANGED <<images, journal, todo, at, wasOld, refused, bounds>>

\* Mutant: the last user leaves the store open.
ReleaseKeepsOpen ==
  /\ stage = "ready"
  /\ refCount' = refCount - 1
  /\ UNCHANGED <<images, journal, stage, todo, at, wasOld, refused, bounds>>

\* release: the last user closes the store.
Release ==
  /\ stage = "ready"
  /\ IF refCount = 1 THEN GiveUp
     ELSE refCount' = refCount - 1 /\ UNCHANGED <<stage, todo, at>>
  /\ UNCHANGED <<images, journal, wasOld, refused, bounds>>

\* A synchronous commit of a session puts everything before it on disk.
SyncCommit ==
  /\ stage = "ready" /\ Len(images) > 1
  /\ WriteSync(db)
  /\ UNCHANGED <<journal, stage, todo, at, refCount, wasOld, refused, bounds>>
-----------------------------------------------------------------------------
\* RocksDB reports an error and has written nothing; acquire gives up.
Fault ==
  /\ stage \in Stages \ {"closed", "batch", "moved", "ready"}
  /\ faults < MaxFaults
  /\ faults' = faults + 1
  /\ GiveUp
  /\ UNCHANGED <<images, journal, wasOld, refused, crashes, blackouts>>

\* A synchronous commit is applied, but the flush of its WAL fails: the error
\* is the same, what was written stays and is not on disk.  (That a power
\* failure brings the journal record back after this is left out.)
FlushFails ==
  /\ faults < MaxFaults
  /\ \/ /\ stage = "format"
        /\ WriteAsync([db EXCEPT !.format = TRUE])
        /\ UNCHANGED journal
     \/ /\ stage = "activate"
        /\ WriteAsync([db EXCEPT !.active = TRUE, !.layout = TRUE])
        /\ UNCHANGED journal
     \/ /\ stage = "replay" /\ todo # {} /\ at > Len(Records[First])
        /\ journal' = journal \ {First}
        /\ UNCHANGED images
  /\ faults' = faults + 1
  /\ GiveUp
  /\ UNCHANGED <<wasOld, refused, crashes, blackouts>>

Crash ==
  /\ stage # "closed" /\ crashes < MaxCrashes
  /\ crashes' = crashes + 1
  /\ GiveUp
  /\ UNCHANGED <<images, journal, wasOld, refused, faults, blackouts>>

Blackout ==
  /\ blackouts < MaxBlackouts
  /\ blackouts' = blackouts + 1
  /\ \E i \in DOMAIN images : images' = <<images[i]>>
  /\ GiveUp
  /\ UNCHANGED <<journal, wasOld, refused, faults, crashes>>

Opening ==
  \/ Acquire \/ ReadTarget \/ WriteFormat \/ Activate \/ OpenTarget \/ Migrate
  \/ ScanJournal \/ ReplaySkip \/ ReplayRefuse \/ ReplayCatalog \/ ReplayBatch
  \/ RemoveJournal \/ Ready

Next ==
  \/ Opening \/ Share \/ Release \/ SyncCommit
  \/ Fault \/ FlushFails \/ ReplayBatchFails \/ Crash \/ Blackout

Spec == Init /\ [][Next]_vars

\* Somebody opens the store and acquire, which waits for nobody, runs on.
FairSpec == Spec /\ WF_vars(Opening)
-----------------------------------------------------------------------------
(***************************************************************************)
(* Properties.                                                             *)
(***************************************************************************)

\* Types; acquire works on journalled records only, and the store is referenced
\* exactly while it is open.
TypeOK ==
  /\ images \in Seq(Image) /\ images # <<>>
  /\ journal \subseteq Ids
  /\ stage \in Stages
  /\ todo \subseteq journal
  /\ at \in Nat \ {0}
  /\ refCount \in 0..2 /\ (refCount > 0 <=> stage = "ready")
  /\ wasOld \in BOOLEAN
  /\ refused \in {"no", "target", "replay"}
  /\ faults \in 0..MaxFaults /\ crashes \in 0..MaxCrashes
  /\ blackouts \in 0..MaxBlackouts

\* Record j is in all its tables, as far as an image shows.
InAll(image, j) == \A t \in ToSet(Records[j]) : j \in image.rows[t]

\* However often activation is interrupted, by errors, crashes or power
\* failures, prepareTarget never meets a combination of markers it refuses
\* ("An interruption after the format marker is retryable", README.md).
ActivationIsRetryable == refused # "target"

\* As long as the machine stays up, an interrupted replay can be resumed: no
\* table refuses a record because an earlier attempt got as far as it did.
ReplayIsRetryable == blackouts = 0 => refused # "replay"

\* As long as the machine stays up, an open store holds every journalled
\* transaction in all its tables and no table is left with half of one.
OpenMeansReplayed ==
  (stage = "ready" /\ wasOld /\ blackouts = 0) =>
    journal = {} /\ \A j \in Ids : InAll(db, j)

\* While its record is in the journal a transaction can be completed from
\* whatever a power failure leaves: each of its tables has both the row and
\* the marker, or neither.
MarkersFollowRows ==
  \A j \in journal, i \in DOMAIN images, t \in Tables :
    j \in images[i].rows[t] <=> j \in images[i].marks[t]

\* Once the faults are over the store gets open, unless a power failure has
\* undone a replay whose record was already removed.
StoreOpens == (stage = "closed") ~> (stage = "ready" \/ refused # "no")
=============================================================================
