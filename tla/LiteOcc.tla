------------------------------ MODULE LiteOcc ------------------------------
(***************************************************************************)
(* Optimistic transactions of Trafodion Lite: the life of a LiteTxnContext *)
(* (begin, recorded reads and writes, commit, rollback, reset), the commit *)
(* intents of LiteCommitCoordinator and the committed-write history of     *)
(* LiteOccCoordinator (LiteRocksDBStore.cpp).                              *)
(*                                                                         *)
(* Contexts are threads of one process.  The storage mutex ("latch") is    *)
(* held across every history operation; it is NOT held while a commit      *)
(* writes its batch to RocksDB.  The log is the sequence of writes RocksDB *)
(* has applied: its length is rocksdb_get_latest_sequence_number, and a    *)
(* snapshot is a length of the log.                                        *)
(***************************************************************************)
EXTENDS LiteOccRanges, Sequences, FiniteSetsExt

CONSTANTS
  Contexts,      \* LiteTxnContext objects, one per session thread
  ReadChoices,   \* the read ranges a statement may record
  WriteChoices,  \* the write keys a row change may record
  NoOne,         \* no context: a free latch, the NULL owner of some DDL
  HistoryLimit,  \* write keys kept in the history (1000000 in the code)
  MaxBegins,     \* bound: transactions begun in a behaviour
  MaxAuto,       \* bound: autocommit writes in a behaviour
  MaxDdl         \* bound: DDL statements in a behaviour

ASSUME ChoicesAssumption ==
  /\ ReadChoices \subseteq ReadRange
  /\ WriteChoices \subseteq WriteKey
  /\ NoOne \notin Contexts

ASSUME BoundsAssumption ==
  HistoryLimit \in Nat /\ MaxBegins \in Nat /\ MaxAuto \in Nat /\ MaxDdl \in Nat

VARIABLES
  pc,        \* where each context is (see Phases)
  latch,     \* holder of the storage mutex between two steps of begin
  start,     \* beginSequence_ of each context
  snap,      \* length of the log its snapshot shows
  reads,     \* readRanges_
  writes,    \* writeKeys_
  active,    \* contexts registered in LiteOccCoordinator::active_
  intents,   \* owners in LiteCommitCoordinator::active_
  history,   \* history_: committed write sets in publication order
  index,     \* indexedHistory_: one reference per published write key
  overflow,  \* overflowSequence_
  ddl,       \* the DDL statement that has written and not yet published
  log,       \* what RocksDB has applied, in order
  begun      \* transactions begun so far

occVars == <<active, history, index, overflow>>
txnVars == <<start, snap, reads, writes>>
vars == <<pc, latch, txnVars, occVars, intents, ddl, log, begun>>

(***************************************************************************)
(* Phases of a context: "begin" has read the sequence and not yet taken    *)
(* its snapshot; "acquire" waits for a commit intent; "validate" holds it  *)
(* and waits for the latch; "physical" is validated and writes its batch;  *)
(* "publish" has written and "failed" has not, both wait for the latch;    *)
(* "release" has left the latch and still holds its intent.                *)
(***************************************************************************)
Phases == {"idle", "begin", "active", "acquire", "validate", "physical",
           "publish", "failed", "release"}

(***************************************************************************)
(* A write RocksDB applied.  Only the writes field is in the database;     *)
(* the others record, for the properties, who wrote it and what that       *)
(* transaction had read at which snapshot.                                 *)
(***************************************************************************)
Kinds == {"txn", "auto", "ddl"}
LogEntry == [kind : Kinds, owner : Contexts \cup {NoOne},
             reads : SUBSET ReadRange, writes : SUBSET WriteKey, snap : Nat]

\* OccCommittedWriteSet and OccCommittedWriteRef.
CommittedWriteSet ==
  [owner : Contexts \cup {NoOne}, seq : Nat, writes : SUBSET WriteKey]
CommittedWriteRef == [owner : Contexts \cup {NoOne}, seq : Nat, key : WriteKey]

\* The DDL statement of session ctx on obj, applied as log entry at.
DdlStatement ==
  [ctx : Contexts, owner : Contexts \cup {NoOne}, obj : Objects, at : Nat]
NoDdl == [ctx |-> NoOne, owner |-> NoOne, obj |-> NoOne, at |-> 0]

LatchFree == latch = NoOne
-----------------------------------------------------------------------------
(***************************************************************************)
(* LiteOccCoordinator: history, garbage collection, validation.            *)
(***************************************************************************)

\* Mutant: erases what any one registered transaction no longer needs.
ExpiredForSome(h, act) ==
  {i \in DOMAIN h : \A j \in 1..i :
                      act = {} \/ \E c \in act : h[j].seq <= start[c]}

\* The loop that erases the front of the history while no registered
\* transaction began before it.
Expired(h, act) ==
  {i \in DOMAIN h : \A j \in 1..i, c \in act : h[j].seq <= start[c]}

WriteCount(h, S) == MapThenSumSet(LAMBDA i : Cardinality(h[i].writes), S)

\* The loop that erases the front while more than HistoryLimit keys are left.
Overflowed(h, act) ==
  {i \in DOMAIN h \ Expired(h, act) : WriteCount(h, i..Len(h)) > HistoryLimit}

\* Mutant: an overflow is not remembered.
CollectForgetsOverflow(h, ix, ov, act) ==
  LET dropped == Expired(h, act) \cup Overflowed(h, act)
  IN  [history  |-> SubSeq(h, Cardinality(dropped) + 1, Len(h)),
       index    |-> {ref \in ix : \A i \in dropped : ref.seq # h[i].seq},
       overflow |-> IF act = {} THEN 0 ELSE ov]

(***************************************************************************)
(* collect(): both loops, removeIndexedSequence for every erased element   *)
(* (which removes the references of EVERY element with that sequence), and *)
(* the reset of the overflow sequence once nobody is registered.           *)
(***************************************************************************)
Collect(h, ix, ov, act) ==
  LET over    == Overflowed(h, act)
      dropped == Expired(h, act) \cup over
  IN  [history  |-> SubSeq(h, Cardinality(dropped) + 1, Len(h)),
       index    |-> {ref \in ix : \A i \in dropped : ref.seq # h[i].seq},
       overflow |-> IF act = {} THEN 0
                    ELSE Max({ov} \cup {h[i].seq : i \in over})]

\* end(): unregister, then collect.
EndOcc(c, h, ix, ov) ==
  LET after == Collect(h, ix, ov, active \ {c})
  IN  /\ active' = active \ {c}
      /\ history' = after.history
      /\ index' = after.index
      /\ overflow' = after.overflow

\* publish(): append to the history and to the index, then collect.
Published(owner, seq, ws) ==
  IF ws = {} THEN [history |-> history, index |-> index, overflow |-> overflow]
  ELSE Collect(Append(history, [owner |-> owner, seq |-> seq, writes |-> ws]),
               index \cup {[owner |-> owner, seq |-> seq, key |-> w] : w \in ws},
               overflow, active)

\* validate(): the reasons to refuse a commit.
HistoryLost(c) == overflow # 0 /\ start[c] < overflow

\* Mutant: the first write after the transaction's start is taken for seen.
ReadConflictOffByOne(c) ==
  \E ref \in index : /\ ref.seq > start[c] + 1
                     /\ ref.owner # c
                     /\ \E r \in reads[c] : Intersects(r, ref.key)

ReadConflict(c) ==
  \E ref \in index : /\ ref.seq > start[c]
                     /\ ref.owner # c
                     /\ \E r \in reads[c] : Intersects(r, ref.key)

Validated(c) == writes[c] = {} \/ ~(HistoryLost(c) \/ ReadConflict(c))
-----------------------------------------------------------------------------
(***************************************************************************)
(* LiteCommitCoordinator.                                                  *)
(***************************************************************************)
CommitConflict(c, d) ==
  \/ ReadWriteConflict(reads[c], writes[d])
  \/ ReadWriteConflict(reads[d], writes[c])
  \/ WriteWriteConflict(writes[c], writes[d])
-----------------------------------------------------------------------------
Init ==
  /\ pc = [c \in Contexts |-> "idle"]
  /\ latch = NoOne
  /\ start = [c \in Contexts |-> 0]
  /\ snap = [c \in Contexts |-> 0]
  /\ reads = [c \in Contexts |-> {}]
  /\ writes = [c \in Contexts |-> {}]
  /\ active = {}
  /\ intents = {}
  /\ history = <<>>
  /\ index = {}
  /\ overflow = 0
  /\ ddl = NoDdl
  /\ log = <<>>
  /\ begun = 0

(***************************************************************************)
(* LiteTxnContext::begin, first half: under the latch, read the sequence.  *)
(* A commit that is writing its batch does not hold the latch, so the log  *)
(* may grow before the snapshot is taken.                                  *)
(***************************************************************************)
BeginSequence(c) ==
  /\ pc[c] = "idle"
  /\ ddl.ctx # c
  /\ LatchFree
  /\ begun < MaxBegins
  /\ begun' = begun + 1
  /\ latch' = c
  /\ pc' = [pc EXCEPT ![c] = "begin"]
  /\ start' = [start EXCEPT ![c] = Len(log)]
  /\ reads' = [reads EXCEPT ![c] = {}]
  /\ writes' = [writes EXCEPT ![c] = {}]
  /\ UNCHANGED <<snap, occVars, intents, ddl, log>>

\* Second half: take the snapshot, register, leave the latch.
BeginSnapshot(c) ==
  /\ pc[c] = "begin"
  /\ snap' = [snap EXCEPT ![c] = Len(log)]
  /\ active' = active \cup {c}
  /\ latch' = NoOne
  /\ pc' = [pc EXCEPT ![c] = "active"]
  /\ UNCHANGED <<start, reads, writes, history, index, overflow, intents, ddl,
                 log, begun>>

\* A statement reads: getRowByKey, scanRows, scanIndexPrefix and
\* scanPhysicalRange each record the range they looked at.
Read(c, r) ==
  /\ pc[c] = "active"
  /\ ddl.ctx # c
  /\ reads' = [reads EXCEPT ![c] = @ \cup {r}]
  /\ UNCHANGED <<pc, latch, start, snap, writes, occVars, intents, ddl, log,
                 begun>>

\* recordWriteKeyLocked: a written key is also read.
Write(c, w) ==
  /\ pc[c] = "active"
  /\ ddl.ctx # c
  /\ writes' = [writes EXCEPT ![c] = @ \cup {w}]
  /\ reads' = [reads EXCEPT ![c] = @ \cup {Point(w[1], w[2])}]
  /\ UNCHANGED <<pc, latch, start, snap, occVars, intents, ddl, log, begun>>

\* LiteTxnContext::commit up to the intent: the context is no longer active
\* for its statements, its snapshot is released.
CommitRequest(c) ==
  /\ pc[c] = "active"
  /\ ddl.ctx # c
  /\ pc' = [pc EXCEPT ![c] = "acquire"]
  /\ UNCHANGED <<latch, txnVars, occVars, intents, ddl, log, begun>>

\* LiteCommitCoordinator::acquire returns once no conflicting intent is held.
AcquireIntent(c) ==
  /\ pc[c] = "acquire"
  /\ \A d \in intents : ~CommitConflict(c, d)
  /\ intents' = intents \cup {c}
  /\ pc' = [pc EXCEPT ![c] = "validate"]
  /\ UNCHANGED <<latch, txnVars, occVars, ddl, log, begun>>

\* Under the latch: validation, referential integrity and the batch succeed.
Validate(c) ==
  /\ pc[c] = "validate"
  /\ LatchFree
  /\ Validated(c)
  /\ pc' = [pc EXCEPT ![c] = "physical"]
  /\ UNCHANGED <<latch, txnVars, occVars, intents, ddl, log, begun>>

\* Mutant: a refused transaction stays registered.
RefuseStaysRegistered(c) ==
  /\ pc[c] = "validate"
  /\ LatchFree
  /\ pc' = [pc EXCEPT ![c] = "release"]
  /\ UNCHANGED <<latch, txnVars, occVars, intents, ddl, log, begun>>

(***************************************************************************)
(* Under the latch: the commit is refused.  Referential integrity and the  *)
(* construction of the batch depend on row data that is not modelled here: *)
(* they may refuse any commit, so no guard asks for a failed validation.   *)
(***************************************************************************)
Refuse(c) ==
  /\ pc[c] = "validate"
  /\ LatchFree
  /\ EndOcc(c, history, index, overflow)
  /\ pc' = [pc EXCEPT ![c] = "release"]
  /\ UNCHANGED <<latch, txnVars, intents, ddl, log, begun>>

\* Without the latch: the batch is applied atomically.
PhysicalWrite(c) ==
  /\ pc[c] = "physical"
  /\ pc' = [pc EXCEPT ![c] = "publish"]
  /\ log' = IF writes[c] = {} THEN log
            ELSE Append(log, [kind |-> "txn", owner |-> c, reads |-> reads[c],
                              writes |-> writes[c], snap |-> snap[c]])
  /\ UNCHANGED <<latch, txnVars, occVars, intents, ddl, begun>>

\* Without the latch: RocksDB reports an error and has applied nothing.
PhysicalFail(c) ==
  /\ pc[c] = "physical"
  /\ pc' = [pc EXCEPT ![c] = "failed"]
  /\ UNCHANGED <<latch, txnVars, occVars, intents, ddl, log, begun>>

\* Under the latch again: publish at the sequence the database has NOW,
\* then endOcc.
Publish(c) ==
  /\ pc[c] = "publish"
  /\ LatchFree
  /\ LET pub == Published(c, Len(log), writes[c])
     IN  EndOcc(c, pub.history, pub.index, pub.overflow)
  /\ pc' = [pc EXCEPT ![c] = "release"]
  /\ UNCHANGED <<latch, txnVars, intents, ddl, log, begun>>

\* The failure path of the physical commit.
FailEnd(c) ==
  /\ pc[c] = "failed"
  /\ LatchFree
  /\ EndOcc(c, history, index, overflow)
  /\ pc' = [pc EXCEPT ![c] = "release"]
  /\ UNCHANGED <<latch, txnVars, intents, ddl, log, begun>>

\* Mutant: the intent is never removed.
ReleaseIntentLeaks(c) ==
  /\ pc[c] = "release"
  /\ pc' = [pc EXCEPT ![c] = "idle"]
  /\ UNCHANGED <<latch, txnVars, occVars, intents, ddl, log, begun>>

\* The destructor of LiteCommitIntentGuard.
ReleaseIntent(c) ==
  /\ pc[c] = "release"
  /\ intents' = intents \ {c}
  /\ pc' = [pc EXCEPT ![c] = "idle"]
  /\ UNCHANGED <<latch, txnVars, occVars, ddl, log, begun>>

\* LiteTxnContext::rollback and, for an active transaction, reset.
Rollback(c) ==
  /\ pc[c] = "active"
  /\ ddl.ctx # c
  /\ LatchFree
  /\ EndOcc(c, history, index, overflow)
  /\ pc' = [pc EXCEPT ![c] = "idle"]
  /\ UNCHANGED <<latch, txnVars, intents, ddl, log, begun>>
-----------------------------------------------------------------------------
CountOf(kind) == Cardinality({i \in DOMAIN log : log[i].kind = kind})

(***************************************************************************)
(* A single-row INSERT, UPDATE or DELETE outside a transaction goes to     *)
(* LiteStorageManager directly: one write under the latch, no intent, no   *)
(* validation and no publication.                                          *)
(***************************************************************************)
Autocommit(c, w) ==
  /\ pc[c] = "idle"
  /\ ddl.ctx # c
  /\ LatchFree
  /\ CountOf("auto") < MaxAuto
  /\ log' = Append(log, [kind |-> "auto", owner |-> c, reads |-> {},
                         writes |-> {w}, snap |-> Len(log)])
  /\ UNCHANGED <<pc, latch, txnVars, occVars, intents, ddl, begun>>

(***************************************************************************)
(* DDL on object o by context c: the catalog (and row) rewrite first.  The *)
(* server's catalogMutex_ admits one DDL statement at a time; nothing      *)
(* keeps transactions out, and only alterTable holds the latch while it    *)
(* writes.  alterTable and createTable publish with the context as owner,  *)
(* the other DDL statements with NULL.  (The commit and the begin that     *)
(* alterTable performs first are those actions.)                           *)
(***************************************************************************)
DdlWrite(c, o, owner) ==
  /\ ddl = NoDdl
  /\ pc[c] \in {"idle", "active"}
  /\ CountOf("ddl") < MaxDdl
  /\ log' = Append(log, [kind |-> "ddl", owner |-> owner, reads |-> {},
                         writes |-> {<<o, 0>>}, snap |-> Len(log)])
  /\ ddl' = [ctx |-> c, owner |-> owner, obj |-> o, at |-> Len(log) + 1]
  /\ UNCHANGED <<pc, latch, txnVars, occVars, intents, begun>>

\* Mutant: a DDL statement that returns before publishing.
DdlPublishForgotten ==
  /\ ddl # NoDdl
  /\ LatchFree
  /\ ddl' = NoDdl
  /\ UNCHANGED <<pc, latch, txnVars, occVars, intents, log, begun>>

\* publishOccTableChange: the object-wide marker, at the sequence of now.
DdlPublish ==
  /\ ddl # NoDdl
  /\ LatchFree
  /\ LET pub == Published(ddl.owner, Len(log), {<<ddl.obj, 0>>})
     IN  /\ history' = pub.history
         /\ index' = pub.index
         /\ overflow' = pub.overflow
  /\ ddl' = NoDdl
  /\ UNCHANGED <<pc, latch, txnVars, active, intents, log, begun>>
-----------------------------------------------------------------------------
Step(c) ==
  \/ BeginSequence(c)
  \/ BeginSnapshot(c)
  \/ \E r \in ReadChoices : Read(c, r)
  \/ \E w \in WriteChoices : Write(c, w)
  \/ CommitRequest(c)
  \/ AcquireIntent(c)
  \/ Validate(c)
  \/ Refuse(c)
  \/ PhysicalWrite(c)
  \/ PhysicalFail(c)
  \/ Publish(c)
  \/ FailEnd(c)
  \/ ReleaseIntent(c)
  \/ Rollback(c)
  \/ \E w \in WriteChoices : Autocommit(c, w)
  \/ \E o \in Objects, owner \in {c, NoOne} : DdlWrite(c, o, owner)

\* Every bounded resource is used up and every session is at rest.
Terminated ==
  /\ begun = MaxBegins /\ CountOf("auto") = MaxAuto /\ CountOf("ddl") = MaxDdl
  /\ \A c \in Contexts : pc[c] = "idle"
  /\ ddl = NoDdl
  /\ UNCHANGED vars

Next == (\E c \in Contexts : Step(c)) \/ DdlPublish \/ Terminated

Spec == Init /\ [][Next]_vars
-----------------------------------------------------------------------------
(***************************************************************************)
(* Fairness.  A thread that can run runs on, and RocksDB answers: each     *)
(* step of a commit that stays possible is taken.  Nothing is assumed of   *)
(* a session's will to begin, read, write, commit or roll back.            *)
(***************************************************************************)
CommitStep(c) ==
  \/ BeginSnapshot(c) \/ AcquireIntent(c) \/ Validate(c) \/ Refuse(c)
  \/ PhysicalWrite(c) \/ PhysicalFail(c) \/ Publish(c) \/ FailEnd(c)
  \/ ReleaseIntent(c)

FairSpec ==
  Spec /\ WF_vars(DdlPublish) /\ \A c \in Contexts : WF_vars(CommitStep(c))
-----------------------------------------------------------------------------
(***************************************************************************)
(* Properties.                                                             *)
(***************************************************************************)

\* The phases between begin and endOcc, and those that hold an intent.
Registered(c) == pc[c] \in {"active", "acquire", "validate", "physical",
                            "publish", "failed"}
HoldsIntent(c) == pc[c] \in {"validate", "physical", "publish", "failed",
                             "release"}

\* The state has the shape the declarations say, the latch, the registered
\* transactions and the intents belong to the contexts in the right phase.
TypeOK ==
  /\ pc \in [Contexts -> Phases]
  /\ latch \in Contexts \cup {NoOne}
  /\ start \in [Contexts -> Nat]
  /\ snap \in [Contexts -> Nat]
  /\ reads \in [Contexts -> SUBSET ReadRange]
  /\ writes \in [Contexts -> SUBSET WriteKey]
  /\ active = {c \in Contexts : Registered(c)}
  /\ intents = {c \in Contexts : HoldsIntent(c)}
  /\ \A c \in Contexts : pc[c] = "begin" <=> latch = c
  /\ history \in Seq(CommittedWriteSet)
  /\ index \subseteq CommittedWriteRef
  /\ overflow \in Nat
  /\ ddl \in DdlStatement \cup {NoDdl}
  /\ log \in Seq(LogEntry)
  /\ begun \in Nat

\* Two commits that are between their intent and its release never write
\* what the other read, nor the same key: what LiteCommitCoordinator's
\* single-candidate search is for.
IntentsDisjoint ==
  \A c, d \in intents : c # d => ~Overlap(reads[c], writes[d])

\* Log entry i is applied and whoever wrote it has still to publish it.
Unpublished(i) ==
  \/ /\ log[i].kind = "txn"
     /\ log[i].owner \in Contexts
     /\ pc[log[i].owner] = "publish"
     /\ i > start[log[i].owner]
  \/ log[i].kind = "ddl" /\ i = ddl.at

\* What log entry i wrote is not lost to transaction c's validation: it is
\* referenced by the index at a sequence after c's start, or its writer has
\* still to publish it, or the overflow sequence will refuse c.
Findable(c, i) ==
  \/ overflow > start[c]
  \/ Unpublished(i)
  \/ \A w \in log[i].writes :
        \E ref \in index : /\ ref.owner = log[i].owner
                           /\ ref.key = w
                           /\ ref.seq >= i

\* No write of a transaction or a DDL statement that a registered transaction
\* may have missed is lost to its validation, whatever collect() dropped and
\* whenever begin read its sequence (collect, publish, begin).
HistoryComplete ==
  \A c \in active, i \in DOMAIN log :
    (log[i].kind # "auto" /\ i > start[c] /\ log[i].owner # c) => Findable(c, i)

\* A validated commit that is writing its batch outside the latch has read
\* nothing that another transaction wrote after its snapshot.
ValidatedIsCurrent ==
  \A c \in Contexts : pc[c] = "physical" =>
    \A i \in DOMAIN log :
      (writes[c] # {} /\ log[i].kind = "txn" /\ i > snap[c]) =>
        ~Overlap(reads[c], log[i].writes)

\* Serializability of the transactions in commit order: when a transaction's
\* batch is applied, no range it read has been written by a transaction
\* applied since its snapshot (no lost update, write skew or phantom).
Serializable ==
  \A i \in DOMAIN log : log[i].kind = "txn" =>
    \A j \in (log[i].snap + 1)..(i - 1) :
      log[j].kind = "txn" => ~Overlap(log[i].reads, log[j].writes)

(***************************************************************************)
(* The inductive invariant behind Serializable: what else is true of every *)
(* step of begin, commit and collect.                                      *)
(***************************************************************************)

\* No sequence the coordinator or a context holds is ahead of the database,
\* and a snapshot is never older than the sequence begin read.
SequencesBounded ==
  /\ \A c \in Contexts : start[c] <= Len(log)
  /\ \A c \in active : start[c] <= snap[c] /\ snap[c] <= Len(log)
  /\ \A i \in DOMAIN history : history[i].seq <= Len(log)
  /\ overflow <= Len(log)

\* Whatever is applied between begin's sequence and its snapshot cannot be
\* published before the transaction is registered: begin holds the latch.
BeginMissesNothing ==
  \A c \in Contexts : pc[c] = "begin" =>
    \A i \in DOMAIN log :
      (log[i].kind # "auto" /\ i > start[c]) => Unpublished(i)

\* A context's earlier transactions precede its start; what it has applied
\* and not yet published are the writes it recorded.
OwnEntries ==
  \A c \in Contexts, i \in DOMAIN log :
    (log[i].kind = "txn" /\ log[i].owner = c) =>
      /\ pc[c] \in {"begin", "active", "acquire", "validate", "physical"}
           => i <= start[c]
      /\ pc[c] = "publish" /\ i > start[c] => log[i].writes = writes[c]

\* The pending DDL statement is the log entry it says it is.
DdlEntry ==
  ddl # NoDdl =>
    /\ ddl.at \in DOMAIN log
    /\ log[ddl.at].owner = ddl.owner
    /\ log[ddl.at].writes = {<<ddl.obj, 0>>}

\* ValidatedIsCurrent, from the sequence begin read on.
ValidatedSinceStart ==
  \A c \in Contexts : pc[c] = "physical" =>
    \A i \in DOMAIN log :
      (writes[c] # {} /\ log[i].kind = "txn" /\ i > start[c]) =>
        ~Overlap(reads[c], log[i].writes)

\* The conjunction the proof of Serializable carries through every step.
InductiveInvariant ==
  /\ TypeOK
  /\ IntentsDisjoint
  /\ HistoryComplete
  /\ SequencesBounded
  /\ BeginMissesNothing
  /\ OwnEntries
  /\ DdlEntry
  /\ ValidatedSinceStart
  /\ Serializable

\* Every commit comes to an end once no new transactions arrive: intents,
\* latch and begin's two steps never wait for one another in a circle.
CommitEnds ==
  \A c \in Contexts : pc[c] = "acquire" ~> pc[c] = "idle"

(***************************************************************************)
(* What the documentation promises beyond that.                            *)
(***************************************************************************)

\* Serializability with the autocommit writes: "writes participate in commit
\* validation" (README.md).
AutocommitSerializable ==
  \A i \in DOMAIN log : log[i].kind = "txn" =>
    \A j \in (log[i].snap + 1)..(i - 1) :
      log[j].kind = "auto" => ~Overlap(log[i].reads, log[j].writes)

\* A DDL change of an object a transaction has read, by another session,
\* keeps it from committing afterwards: "an empty committed key is the
\* object-wide DDL/catalog invalidation marker and intersects every read on
\* that object" (validate).
DdlInvalidates ==
  \A i \in DOMAIN log : log[i].kind = "txn" =>
    \A j \in (log[i].snap + 1)..(i - 1) :
      (log[j].kind = "ddl" /\ log[j].owner # log[i].owner)
        => ~Overlap(log[i].reads, log[j].writes)
=============================================================================
