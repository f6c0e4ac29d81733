-------------------------- MODULE LiteGroupCommit ---------------------------
(***************************************************************************)
(* The physical commit of Trafodion Lite (LiteUnifiedRocksDB.cpp): one     *)
(* queue of requests per durable-writer shard, a leader that drains it,    *)
(* writeGroup with its two protocols, and the recovery of the physical WAL *)
(* lanes when the store is opened again.                                   *)
(*                                                                         *)
(* Native: the group is one write of the unified database.  Legacy: the    *)
(* batches go, with a commit marker each, to the WAL lane of the shard,    *)
(* then to the unified database, then the lane is cleaned; at the next     *)
(* open a batch found in a lane is written unless its marker is there.     *)
(*                                                                         *)
(* A database is the sequence of writes it has accepted and how many of    *)
(* them are on disk.  A synchronous write puts everything before it on     *)
(* disk; a crash keeps any prefix that holds what was on disk.             *)
(***************************************************************************)
EXTENDS Integers, Sequences, SequencesExt, FiniteSetsExt

CONSTANTS
  Threads,     \* sessions; each commits one batch in a behaviour
  ShardCount,  \* durable-writer shards (at most 8 in the code)
  Keys,        \* what batches write
  NoThread,    \* a queue without leader
  MaxFaults,   \* bound: RocksDB write errors
  MaxCrashes   \* bound: crashes

ASSUME GroupCommitAssumption ==
  /\ NoThread \notin Threads /\ Keys # {}
  /\ ShardCount \in Nat \ {0}
  /\ MaxFaults \in Nat /\ MaxCrashes \in Nat

Shards == 1..ShardCount

VARIABLES
  pc,           \* of a thread: see Phases
  batch,        \* its batch: shard and key
  walId,        \* walId of its batch, 0 before writeGroup gives it one
  nextWalId,    \* unifiedState.nextWalId
  pending,      \* per shard: GroupCommitState::pending
  leader,       \* per shard: who set processing, or NoThread
  stage,        \* per shard: where the leader is (see Stages)
  group,        \* per shard: the detached requests
  result,       \* per thread: "none" until done, then what writeGroup returned
  config,       \* of the process: nativeWalFastPathEnabled, liteSynchronousCommit
  canon,        \* writes of the unified database: sets of threads' batches
  canonOnDisk,  \* how many of them are on disk
  lane,         \* per shard: writes of the WAL database
  laneOnDisk,   \* how many of them are on disk
  open,         \* FALSE while recoverPhysicalWals runs
  faults, crashes

threadVars == <<pc, batch>>
queueVars == <<pending, leader, stage, group, result, walId, nextWalId>>
canonVars == <<canon, canonOnDisk>>
laneVars == <<lane, laneOnDisk>>
vars == <<threadVars, queueVars, config, canonVars, laneVars, open, faults,
          crashes>>

\* "queued" waits for its request to be done; "leading" drains the queue;
\* "passed" and "failed" have returned; "lost" died with the process.
Phases == {"idle", "queued", "leading", "passed", "failed", "lost"}
Stages == {"none", "drain", "intent", "canonical", "cleanup", "passed", "failed"}

Applied == UNION ToSet(canon)

\* The intents of a lane: put and not deleted since.
InLane(s) ==
  {t \in Threads : \E i \in DOMAIN lane[s] :
     /\ lane[s][i].op = "put" /\ t \in lane[s][i].of
     /\ \A j \in (i + 1)..Len(lane[s]) :
          lane[s][j].op = "del" => t \notin lane[s][j].of}

InFlight == {t \in Threads : pc[t] \in {"queued", "leading"}}

\* A write of the unified database and of a lane.
WriteUnified(ts, sy) ==
  /\ canon' = Append(canon, ts)
  /\ canonOnDisk' = IF sy THEN Len(canon) + 1 ELSE canonOnDisk

WriteLane(s, op, ts, sy) ==
  /\ lane' = [lane EXCEPT ![s] = Append(@, [op |-> op, of |-> ts])]
  /\ laneOnDisk' = IF sy THEN [laneOnDisk EXCEPT ![s] = Len(lane[s]) + 1]
                   ELSE laneOnDisk
-----------------------------------------------------------------------------
Init ==
  /\ pc = [t \in Threads |-> "idle"]
  /\ batch = [t \in Threads |-> [shard |-> 1, key |-> CHOOSE k \in Keys : TRUE]]
  /\ walId = [t \in Threads |-> 0]
  /\ nextWalId = 1
  /\ pending = [s \in Shards |-> <<>>]
  /\ leader = [s \in Shards |-> NoThread]
  /\ stage = [s \in Shards |-> "none"]
  /\ group = [s \in Shards |-> {}]
  /\ result = [t \in Threads |-> "none"]
  /\ config \in [native : BOOLEAN, sync : BOOLEAN]
  /\ canon = <<>> /\ canonOnDisk = 0
  /\ lane = [s \in Shards |-> <<>>]
  /\ laneOnDisk = [s \in Shards |-> 0]
  /\ open = TRUE
  /\ faults = 0 /\ crashes = 0

(***************************************************************************)
(* LiteUnifiedWriteBatchCommit up to the wait: enqueue, and lead if nobody *)
(* does.  The commit intents (LiteOcc) admit no two commits in flight that *)
(* write the same key.                                                     *)
(***************************************************************************)
Request(t, s, k) ==
  /\ open
  /\ pc[t] = "idle"
  /\ \A u \in InFlight : batch[u].key # k
  /\ batch' = [batch EXCEPT ![t] = [shard |-> s, key |-> k]]
  /\ pending' = [pending EXCEPT ![s] = Append(@, t)]
  /\ IF leader[s] = NoThread
       THEN /\ leader' = [leader EXCEPT ![s] = t]
            /\ stage' = [stage EXCEPT ![s] = "drain"]
            /\ pc' = [pc EXCEPT ![t] = "leading"]
       ELSE /\ pc' = [pc EXCEPT ![t] = "queued"]
            /\ UNCHANGED <<leader, stage>>
  /\ UNCHANGED <<group, result, walId, nextWalId, config, canonVars, laneVars,
                 open, faults, crashes>>

\* Where a thread's request is in the queue of a shard.
Place(s, t) == CHOOSE i \in DOMAIN pending[s] : pending[s][i] = t

\* allocateWalId for the batches of a shard's queue, in order.  The code
\* starts from the clock in every process; the model carries the counter on,
\* that is, the clock is taken to be past the ids of earlier processes.
NewWalIds(s) ==
  [t \in Threads |-> IF t \in ToSet(pending[s])
                       THEN nextWalId - 1 + Place(s, t)
                       ELSE walId[t]]

\* Mutant: one WAL id is allocated for a whole group.
DetachOneId(s) ==
  /\ stage[s] = "drain"
  /\ group' = [group EXCEPT ![s] = ToSet(pending[s])]
  /\ pending' = [pending EXCEPT ![s] = <<>>]
  /\ walId' = [t \in Threads |->
                 IF t \in ToSet(pending[s]) THEN nextWalId ELSE walId[t]]
  /\ nextWalId' = nextWalId + 1
  /\ stage' = [stage EXCEPT ![s] = IF config.native THEN "canonical" ELSE "intent"]
  /\ UNCHANGED <<threadVars, leader, result, config, canonVars, laneVars, open,
                 faults, crashes>>

\* The leader takes the whole queue and writeGroup numbers the batches.
Detach(s) ==
  /\ stage[s] = "drain"
  /\ group' = [group EXCEPT ![s] = ToSet(pending[s])]
  /\ pending' = [pending EXCEPT ![s] = <<>>]
  /\ walId' = NewWalIds(s)
  /\ nextWalId' = nextWalId + Len(pending[s])
  /\ stage' = [stage EXCEPT ![s] = IF config.native THEN "canonical" ELSE "intent"]
  /\ UNCHANGED <<threadVars, leader, result, config, canonVars, laneVars, open,
                 faults, crashes>>

\* Legacy: the intents, each with its marker, into the lane.
WriteIntents(s) ==
  /\ stage[s] = "intent"
  /\ WriteLane(s, "put", group[s], config.sync)
  /\ stage' = [stage EXCEPT ![s] = "canonical"]
  /\ UNCHANGED <<threadVars, pending, leader, group, result, walId, nextWalId,
                 config, canonVars, open, faults, crashes>>

\* Mutant: the group is committed without sync.
WriteCanonicalUnsynced(s) ==
  /\ stage[s] = "canonical"
  /\ WriteUnified(group[s], FALSE)
  /\ stage' = [stage EXCEPT ![s] = IF config.native THEN "passed" ELSE "cleanup"]
  /\ UNCHANGED <<threadVars, pending, leader, group, result, walId, nextWalId,
                 config, laneVars, open, faults, crashes>>

\* The write of the unified database that commits the group.
WriteCanonical(s) ==
  /\ stage[s] = "canonical"
  /\ WriteUnified(group[s], config.sync)
  /\ stage' = [stage EXCEPT ![s] = IF config.native THEN "passed" ELSE "cleanup"]
  /\ UNCHANGED <<threadVars, pending, leader, group, result, walId, nextWalId,
                 config, laneVars, open, faults, crashes>>

\* Legacy: the intents of the committed group are removed.
RemoveIntents(s) ==
  /\ stage[s] = "cleanup"
  /\ WriteLane(s, "del", group[s], config.sync)
  /\ stage' = [stage EXCEPT ![s] = "passed"]
  /\ UNCHANGED <<threadVars, pending, leader, group, result, walId, nextWalId,
                 config, canonVars, open, faults, crashes>>

\* Mutant: an error is noticed after the write took effect.
WriteErrorTooLate(s) ==
  /\ stage[s] \in {"intent", "canonical", "cleanup", "passed"}
  /\ faults < MaxFaults
  /\ faults' = faults + 1
  /\ stage' = [stage EXCEPT ![s] = "failed"]
  /\ UNCHANGED <<threadVars, pending, leader, group, result, walId, nextWalId,
                 config, canonVars, laneVars, open, crashes>>

\* RocksDB refuses one of the three writes: writeGroup returns false, the
\* intents stay where they are.
WriteError(s) ==
  /\ stage[s] \in {"intent", "canonical", "cleanup"}
  /\ faults < MaxFaults
  /\ faults' = faults + 1
  /\ stage' = [stage EXCEPT ![s] = "failed"]
  /\ UNCHANGED <<threadVars, pending, leader, group, result, walId, nextWalId,
                 config, canonVars, laneVars, open, crashes>>

\* Mutant: the leader steps down without looking at the queue again.
FinishStepsDown(s) ==
  /\ stage[s] \in {"passed", "failed"}
  /\ result' = [t \in Threads |-> IF t \in group[s] THEN stage[s] ELSE result[t]]
  /\ group' = [group EXCEPT ![s] = {}]
  /\ leader' = [leader EXCEPT ![s] = NoThread]
  /\ stage' = [stage EXCEPT ![s] = "none"]
  /\ pc' = [pc EXCEPT ![leader[s]] = result'[leader[s]]]
  /\ UNCHANGED <<batch, pending, walId, nextWalId, config, canonVars,
                 laneVars, open, faults, crashes>>

\* Mutant: the leader waits for further requests when the queue is empty.
FinishNeverStepsDown(s) ==
  /\ stage[s] \in {"passed", "failed"}
  /\ result' = [t \in Threads |-> IF t \in group[s] THEN stage[s] ELSE result[t]]
  /\ group' = [group EXCEPT ![s] = {}]
  /\ stage' = [stage EXCEPT ![s] = IF pending[s] = <<>> THEN @ ELSE "drain"]
  /\ UNCHANGED <<batch, leader, pc, pending, walId, nextWalId, config, canonVars,
                 laneVars, open, faults, crashes>>

\* Under the group mutex: every request of the group is done; the leader
\* returns the result of its own request once the queue is empty.
Finish(s) ==
  /\ stage[s] \in {"passed", "failed"}
  /\ result' = [t \in Threads |-> IF t \in group[s] THEN stage[s] ELSE result[t]]
  /\ group' = [group EXCEPT ![s] = {}]
  /\ IF pending[s] = <<>>
       THEN /\ leader' = [leader EXCEPT ![s] = NoThread]
            /\ stage' = [stage EXCEPT ![s] = "none"]
            /\ pc' = [pc EXCEPT ![leader[s]] = result'[leader[s]]]
       ELSE /\ stage' = [stage EXCEPT ![s] = "drain"]
            /\ UNCHANGED <<leader, pc>>
  /\ UNCHANGED <<batch, pending, walId, nextWalId, config, canonVars,
                 laneVars, open, faults, crashes>>

\* Mutant: a follower that wakes up does not look at its request again.
ReturnUnchecked(t) ==
  /\ pc[t] = "queued"
  /\ pc' = [pc EXCEPT ![t] = result[t]]
  /\ UNCHANGED <<batch, queueVars, config, canonVars, laneVars, open,
                 faults, crashes>>

\* A follower wakes up: its request is done.
Return(t) ==
  /\ pc[t] = "queued"
  /\ result[t] # "none"
  /\ pc' = [pc EXCEPT ![t] = result[t]]
  /\ UNCHANGED <<batch, queueVars, config, canonVars, laneVars, open,
                 faults, crashes>>

\* LiteRocksDBWrite: an autocommit write goes to the unified database at
\* once and without sync.
DirectWrite(t, k) ==
  /\ open
  /\ pc[t] = "idle"
  /\ batch' = [batch EXCEPT ![t].key = k]
  /\ WriteUnified({t}, FALSE)
  /\ pc' = [pc EXCEPT ![t] = "passed"]
  /\ UNCHANGED <<queueVars, config, laneVars, open, faults, crashes>>
-----------------------------------------------------------------------------
(***************************************************************************)
(* Crash and recovery.                                                     *)
(***************************************************************************)
Crash ==
  /\ crashes < MaxCrashes
  /\ crashes' = crashes + 1
  /\ open' = FALSE
  /\ \E n \in canonOnDisk..Len(canon) :
       canon' = SubSeq(canon, 1, n) /\ canonOnDisk' = n
  /\ \E f \in [Shards -> 0..Max({Len(lane[s]) : s \in Shards})] :
       /\ \A s \in Shards : f[s] \in laneOnDisk[s]..Len(lane[s])
       /\ lane' = [s \in Shards |-> SubSeq(lane[s], 1, f[s])]
       /\ laneOnDisk' = f
  /\ pc' = [t \in Threads |-> IF t \in InFlight THEN "lost" ELSE pc[t]]
  /\ pending' = [s \in Shards |-> <<>>]
  /\ leader' = [s \in Shards |-> NoThread]
  /\ stage' = [s \in Shards |-> "none"]
  /\ group' = [s \in Shards |-> {}]
  /\ UNCHANGED <<batch, result, walId, nextWalId, config, faults>>

\* The lane and the intent recovery looks at: shards in order, ids in order.
Recovering(s, t) ==
  /\ ~open
  /\ t \in InLane(s)
  /\ \A r \in 1..(s - 1) : InLane(r) = {}
  /\ \A u \in InLane(s) : walId[t] <= walId[u]

\* Mutant: the commit marker is not looked up.
ReplayAlways(s, t) ==
  /\ Recovering(s, t)
  /\ WriteUnified({t}, TRUE)
  /\ UNCHANGED <<threadVars, queueVars, config, laneVars, open, faults, crashes>>

\* No marker of the intent in the unified database: write the batch, synced.
Replay(s, t) ==
  /\ Recovering(s, t)
  /\ t \notin Applied
  /\ WriteUnified({t}, TRUE)
  /\ UNCHANGED <<threadVars, queueVars, config, laneVars, open, faults, crashes>>

\* The batch is in the unified database: remove the intent, synced.
DropIntent(s, t) ==
  /\ Recovering(s, t)
  /\ t \in Applied
  /\ WriteLane(s, "del", {t}, TRUE)
  /\ UNCHANGED <<threadVars, queueVars, config, canonVars, open, faults, crashes>>

Opened ==
  /\ ~open
  /\ \A s \in Shards : InLane(s) = {}
  /\ open' = TRUE
  /\ UNCHANGED <<threadVars, queueVars, config, canonVars, laneVars, faults,
                 crashes>>
-----------------------------------------------------------------------------
LeaderStep(s) ==
  \/ Detach(s)
  \/ WriteIntents(s)
  \/ WriteCanonical(s)
  \/ RemoveIntents(s)
  \/ WriteError(s)
  \/ Finish(s)

RecoveryStep ==
  \/ \E s \in Shards, t \in Threads : Replay(s, t)
  \/ \E s \in Shards, t \in Threads : DropIntent(s, t)
  \/ Opened

\* Every thread has committed or died and the store is open.
Terminated ==
  /\ open
  /\ \A t \in Threads : pc[t] \in {"passed", "failed", "lost"}
  /\ UNCHANGED vars

Next ==
  \/ \E t \in Threads, s \in Shards, k \in Keys : Request(t, s, k)
  \/ \E t \in Threads, k \in Keys : DirectWrite(t, k)
  \/ \E s \in Shards : LeaderStep(s)
  \/ \E t \in Threads : Return(t)
  \/ Crash
  \/ RecoveryStep
  \/ Terminated

Spec == Init /\ [][Next]_vars

\* A thread that can run runs on and RocksDB answers; nothing is assumed of
\* the arrival of commits, of errors or of crashes.
FairSpec ==
  /\ Spec
  /\ \A s \in Shards : WF_vars(LeaderStep(s))
  /\ \A t \in Threads : WF_vars(Return(t))
  /\ WF_vars(RecoveryStep)
-----------------------------------------------------------------------------
(***************************************************************************)
(* Properties.                                                             *)
(***************************************************************************)

\* The state has the shape the declarations say; what is on disk is part of
\* what was written.
TypeOK ==
  /\ pc \in [Threads -> Phases]
  /\ batch \in [Threads -> [shard : Shards, key : Keys]]
  /\ walId \in [Threads -> Nat] /\ nextWalId \in Nat \ {0}
  /\ pending \in [Shards -> Seq(Threads)]
  /\ leader \in [Shards -> Threads \cup {NoThread}]
  /\ stage \in [Shards -> Stages]
  /\ group \in [Shards -> SUBSET Threads]
  /\ result \in [Threads -> {"none", "passed", "failed"}]
  /\ config \in [native : BOOLEAN, sync : BOOLEAN] /\ open \in BOOLEAN
  /\ canon \in Seq(SUBSET Threads) /\ canonOnDisk \in 0..Len(canon)
  /\ lane \in [Shards -> Seq([op : {"put", "del"}, of : SUBSET Threads])]
  /\ laneOnDisk \in [Shards -> Nat]
  /\ \A s \in Shards : laneOnDisk[s] <= Len(lane[s])
  /\ faults \in Nat /\ crashes \in Nat

\* A request that waits is in the queue of a shard somebody leads, in the
\* group its leader writes, or done: the leader never steps down past a
\* request that arrived while it was writing.
WaitersAreServed ==
  \A t \in Threads : pc[t] = "queued" =>
    LET s == batch[t].shard
    IN  \/ result[t] # "none"
        \/ /\ leader[s] \in Threads
           /\ pc[leader[s]] = "leading"
           /\ t \in ToSet(pending[s]) \cup group[s]

\* An acknowledged synchronous commit is on disk, whatever crashes follow
\* and wherever recovery is interrupted.
AcknowledgedIsDurable ==
  \A t \in Threads :
    (config.sync /\ result[t] = "passed" /\ pc[t] = "passed") =>
      \E i \in 1..canonOnDisk : t \in canon[i]

\* No batch is written twice: a replay would undo what later commits wrote.
AppliedOnce ==
  \A i, j \in DOMAIN canon : i # j => canon[i] \cap canon[j] = {}

\* No two batches have the same WAL id, though the leaders of several shards
\* allocate them at the same time: markers and intents are found by id.
WalIdsAreUnique ==
  \A t, u \in Threads : t # u /\ walId[t] # 0 => walId[t] # walId[u]

\* On the native path a commit that reported an error is not in the database,
\* now or after any recovery (writeGroup).
NativeFailureLeavesNothing ==
  config.native => \A t \in Threads : pc[t] = "failed" => t \notin Applied

\* The same on both paths: "the canonical write below is still the atomic data
\* commit point" (writeGroup).
FailedIsNotApplied ==
  \A t \in Threads : pc[t] = "failed" => t \notin Applied

\* Every commit returns or dies with the process: no lost wake-up, no queue
\* without a leader.
CommitReturns ==
  \A t \in Threads :
    pc[t] \in {"queued", "leading"} ~> pc[t] \in {"passed", "failed", "lost"}
=============================================================================
