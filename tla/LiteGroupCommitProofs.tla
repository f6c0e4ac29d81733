----------------------- MODULE LiteGroupCommitProofs ------------------------
(***************************************************************************)
(* Proofs about LiteGroupCommit, for every set of threads and keys, every  *)
(* number of shards and every bound on errors and crashes.                 *)
(***************************************************************************)
EXTENDS LiteGroupCommit, LiteFacts, SequenceTheorems, TLAPS

(***************************************************************************)
(* The inductive invariant, in named parts.                                *)
(***************************************************************************)

\* A shard has a leader exactly while a group is being served; the leader is
\* a thread inside LiteUnifiedWriteBatchCommit for that shard.
LeaderInv ==
  \A s \in Shards :
    /\ stage[s] = "none" => leader[s] = NoThread /\ pending[s] = <<>>
    /\ stage[s] # "none" => /\ leader[s] \in Threads
                            /\ pc[leader[s]] = "leading"
                            /\ batch[leader[s]].shard = s
    /\ stage[s] \in {"none", "drain"} => group[s] = {}

\* Queued requests: distinct, of waiting threads of this shard, not served yet.
PendingInv ==
  \A s \in Shards : \A i \in DOMAIN pending[s] :
    /\ pc[pending[s][i]] \in {"queued", "leading"}
    /\ batch[pending[s][i]].shard = s
    /\ result[pending[s][i]] = "none"
    /\ walId[pending[s][i]] = 0
    /\ pending[s][i] \notin group[s]
    /\ \A j \in DOMAIN pending[s] : pending[s][i] = pending[s][j] => i = j

\* Requests of a detached group: of waiting threads of this shard, not done.
GroupInv ==
  \A s \in Shards : \A t \in group[s] :
    /\ pc[t] \in {"queued", "leading"}
    /\ batch[t].shard = s
    /\ result[t] = "none"

\* A thread inside the call is where its leader will serve it, or done.
WaiterInv ==
  \A t \in Threads : pc[t] \in {"queued", "leading"} =>
    /\ open
    /\ result[t] = "none" =>
         \/ \E i \in DOMAIN pending[batch[t].shard] : pending[batch[t].shard][i] = t
         \/ t \in group[batch[t].shard]
    /\ pc[t] = "leading" => leader[batch[t].shard] = t

\* What a thread outside the call has been told.
OutcomeInv ==
  \A t \in Threads :
    /\ pc[t] = "idle" => result[t] = "none" /\ walId[t] = 0
    /\ pc[t] = "failed" => result[t] = "failed"

QueueInv == LeaderInv /\ PendingInv /\ GroupInv /\ WaiterInv /\ OutcomeInv

\* The counter is past every id that was given out.
WalIdInv ==
  /\ \A t \in Threads : walId[t] < nextWalId
  /\ WalIdsAreUnique

\* The native path never uses a lane.
NativeInv ==
  config.native => \A s \in Shards :
    stage[s] \notin {"intent", "cleanup"} /\ lane[s] = <<>>

\* An intent is of a thread that has called commit.
LaneInv ==
  \A s \in Shards : \A i \in DOMAIN lane[s] : \A t \in lane[s][i].of :
    pc[t] # "idle"

\* The batches that are still to be written for the first time are in no write
\* of the unified database.
UnwrittenInv ==
  \A i \in DOMAIN canon :
    /\ \A t \in canon[i] : pc[t] # "idle"
    /\ \A s \in Shards : \A j \in DOMAIN pending[s] : pending[s][j] \notin canon[i]
    /\ \A s \in Shards : stage[s] \in {"intent", "canonical"} =>
         \A t \in group[s] : t \notin canon[i]

\* Native path: what failed, or is about to be reported so, was not written.
FailureInv ==
  config.native => \A i \in DOMAIN canon :
    /\ \A t \in canon[i] : result[t] # "failed"
    /\ \A s \in Shards : stage[s] = "failed" => \A t \in group[s] : t \notin canon[i]

\* Synchronous commit: what was acknowledged, or is about to be, is on disk.
DurableInv ==
  config.sync =>
    /\ \A t \in Threads : result[t] = "passed" => \E i \in 1..canonOnDisk : t \in canon[i]
    /\ \A s \in Shards : stage[s] \in {"cleanup", "passed"} =>
         \A t \in group[s] : \E i \in 1..canonOnDisk : t \in canon[i]

WriteInv == NativeInv /\ LaneInv /\ UnwrittenInv /\ AppliedOnce
            /\ FailureInv /\ DurableInv

IInv == TypeOK /\ QueueInv /\ WalIdInv /\ WriteInv

\* A thread of the queue has a place in it.
LEMMA PlaceFacts ==
  ASSUME NEW s, NEW t, t \in ToSet(pending[s])
  PROVE  Place(s, t) \in DOMAIN pending[s] /\ pending[s][Place(s, t)] = t
  BY DEF Place, ToSet
-----------------------------------------------------------------------------
(***************************************************************************)
(* Type correctness.                                                       *)
(***************************************************************************)

\* The initial state has the types the declarations say.
LEMMA InitType == Init => TypeOK
<1>. SUFFICES ASSUME Init PROVE TypeOK
  OBVIOUS
<1>1. (CHOOSE k \in Keys : TRUE) \in Keys
  BY GroupCommitAssumption
<1>2. 1 \in Shards
  BY GroupCommitAssumption DEF Shards
<1>. QED
  BY <1>1, <1>2, GroupCommitAssumption DEF Init, TypeOK, Phases, Stages

\* A request is enqueued by an idle thread: types are kept.
LEMMA RequestType ==
  ASSUME TypeOK, NEW t \in Threads, NEW s \in Shards, NEW k \in Keys, Request(t, s, k)
  PROVE  TypeOK'
<1>1. Append(pending[s], t) \in Seq(Threads)
  BY DEF TypeOK
<1>2. pending' \in [Shards -> Seq(Threads)]
  BY <1>1 DEF TypeOK, Request
<1>3. batch' \in [Threads -> [shard : Shards, key : Keys]]
  BY DEF TypeOK, Request
<1>4. /\ leader' \in [Shards -> Threads \cup {NoThread}]
      /\ stage' \in [Shards -> Stages] /\ pc' \in [Threads -> Phases]
  <2>1. CASE leader[s] = NoThread
    <3>1. /\ leader' = [leader EXCEPT ![s] = t]
          /\ stage' = [stage EXCEPT ![s] = "drain"]
          /\ pc' = [pc EXCEPT ![t] = "leading"]
      BY <2>1 DEF Request
    <3>. QED  BY <3>1 DEF TypeOK, Stages, Phases
  <2>2. CASE leader[s] # NoThread
    <3>1. leader' = leader /\ stage' = stage /\ pc' = [pc EXCEPT ![t] = "queued"]
      BY <2>2 DEF Request
    <3>. QED  BY <3>1 DEF TypeOK, Phases
  <2>. QED  BY <2>1, <2>2
<1>. QED
  BY <1>2, <1>3, <1>4 DEF TypeOK, Request, canonVars, laneVars

\* A write of a lane keeps the types of the lanes.
LEMMA WriteLaneType ==
  ASSUME TypeOK, NEW s \in Shards, NEW o \in {"put", "del"},
         NEW ts \in SUBSET Threads, NEW sy \in BOOLEAN, WriteLane(s, o, ts, sy)
  PROVE  /\ lane' \in [Shards -> Seq([op : {"put", "del"}, of : SUBSET Threads])]
         /\ laneOnDisk' \in [Shards -> Nat]
         /\ \A r \in Shards : laneOnDisk'[r] <= Len(lane'[r])
<1>. DEFINE W == [op : {"put", "del"}, of : SUBSET Threads]
            e == [op |-> o, of |-> ts]
<1>1. e \in W /\ lane[s] \in Seq(W)
  BY DEF TypeOK
<1>2. lane' = [lane EXCEPT ![s] = Append(@, e)]
  BY DEF WriteLane
<1>3. /\ Append(lane[s], e) \in Seq(W) /\ Len(lane[s]) \in Nat
      /\ Len(Append(lane[s], e)) = Len(lane[s]) + 1
  <2>. HIDE DEF W, e
  <2>. QED  BY <1>1, AppendFacts
<1>4. lane \in [Shards -> Seq(W)] /\ laneOnDisk \in [Shards -> Nat]
  BY DEF TypeOK
<1>5. /\ laneOnDisk' \in [Shards -> Nat]
      /\ \A r \in Shards : r # s => laneOnDisk'[r] = laneOnDisk[r]
      /\ laneOnDisk'[s] \in {laneOnDisk[s], Len(lane[s]) + 1}
  <2>. HIDE DEF W, e
  <2>1. CASE sy
    <3>1. laneOnDisk' = [laneOnDisk EXCEPT ![s] = Len(lane[s]) + 1]
      BY <2>1 DEF WriteLane
    <3>. QED  BY <3>1, <1>3, <1>4
  <2>2. CASE ~sy
    <3>1. laneOnDisk' = laneOnDisk
      BY <2>2 DEF WriteLane
    <3>. QED  BY <3>1, <1>4
  <2>. QED  BY <2>1, <2>2
<1>6. \A r \in Shards : laneOnDisk[r] <= Len(lane[r])
  BY DEF TypeOK
<1>7. \A r \in Shards : r # s => lane'[r] = lane[r]
  BY <1>2, <1>4
<1>8. lane'[s] = Append(lane[s], e)
  BY <1>2, <1>4
<1>9. lane' \in [Shards -> Seq(W)]
  <2>. HIDE DEF W, e
  <2>. QED  BY <1>2, <1>3, <1>4
<1>10. \A r \in Shards : laneOnDisk'[r] <= Len(lane'[r])
  <2>. HIDE DEF W, e
  <2>. SUFFICES ASSUME NEW r \in Shards PROVE laneOnDisk'[r] <= Len(lane'[r])
    OBVIOUS
  <2>1. CASE r = s
    BY <2>1, <1>3, <1>4, <1>5, <1>6, <1>8
  <2>2. CASE r # s
    BY <2>2, <1>5, <1>6, <1>7
  <2>. QED  BY <2>1, <2>2
<1>. QED  BY <1>5, <1>9, <1>10

\* The steps of a leader and of writeGroup keep types; Finish gives the leader
\* the result of its own request, which the queue invariant knows to be done.
LEMMA LeaderStepType ==
  ASSUME TypeOK, QueueInv, NEW s \in Shards, LeaderStep(s)
  PROVE  TypeOK'
<1>1. CASE Detach(s)
  <2>1. walId' \in [Threads -> Nat]
    <3>0. walId' = [t \in Threads |-> walId'[t]]
      BY <1>1 DEF Detach, NewWalIds
    <3>. SUFFICES ASSUME NEW t \in Threads PROVE walId'[t] \in Nat
      BY <3>0
    <3>1. CASE t \in ToSet(pending[s])
      <4>1. Place(s, t) \in DOMAIN pending[s]
        BY <3>1, PlaceFacts
      <4>2. Place(s, t) \in Nat \ {0}
        <5>1. pending[s] \in Seq(Threads)
          BY DEF TypeOK
        <5>. QED  BY <4>1, <5>1
      <4>3. NewWalIds(s)[t] = nextWalId - 1 + Place(s, t)
        BY <3>1 DEF NewWalIds
      <4>4. walId'[t] = NewWalIds(s)[t]
        BY <1>1 DEF Detach
      <4>. QED  BY <4>2, <4>3, <4>4 DEF TypeOK
    <3>2. CASE t \notin ToSet(pending[s])
      BY <1>1, <3>2 DEF Detach, NewWalIds, TypeOK
    <3>. QED  BY <3>1, <3>2
  <2>2. nextWalId' \in Nat \ {0}
    <3>1. Len(pending[s]) \in Nat
      BY DEF TypeOK
    <3>. QED  BY <1>1, <3>1 DEF Detach, TypeOK
  <2>3. group' \in [Shards -> SUBSET Threads]
    <3>1. ToSet(pending[s]) \in SUBSET Threads
      BY DEF ToSet, TypeOK
    <3>. QED  BY <1>1, <3>1 DEF Detach, TypeOK
  <2>4. pending' \in [Shards -> Seq(Threads)] /\ stage' \in [Shards -> Stages]
    BY <1>1 DEF Detach, TypeOK, Stages
  <2>. QED
    BY <1>1, <2>1, <2>2, <2>3, <2>4
    DEF Detach, TypeOK, threadVars, canonVars, laneVars
<1>3. CASE WriteIntents(s)
  <2>1. stage' \in [Shards -> Stages]
    BY <1>3 DEF WriteIntents, TypeOK, Stages
  <2>2. /\ lane' \in [Shards -> Seq([op : {"put", "del"}, of : SUBSET Threads])]
        /\ laneOnDisk' \in [Shards -> Nat]
        /\ \A r \in Shards : laneOnDisk'[r] <= Len(lane'[r])
    <3>1. group[s] \in SUBSET Threads /\ config.sync \in BOOLEAN
      BY DEF TypeOK
    <3>. QED  BY <1>3, <3>1, WriteLaneType DEF WriteIntents
  <2>. QED
    BY <1>3, <2>1, <2>2 DEF WriteIntents, TypeOK, threadVars, canonVars
<1>4. CASE RemoveIntents(s)
  <2>1. stage' \in [Shards -> Stages]
    BY <1>4 DEF RemoveIntents, TypeOK, Stages
  <2>2. /\ lane' \in [Shards -> Seq([op : {"put", "del"}, of : SUBSET Threads])]
        /\ laneOnDisk' \in [Shards -> Nat]
        /\ \A r \in Shards : laneOnDisk'[r] <= Len(lane'[r])
    <3>1. group[s] \in SUBSET Threads /\ config.sync \in BOOLEAN
      BY DEF TypeOK
    <3>. QED  BY <1>4, <3>1, WriteLaneType DEF RemoveIntents
  <2>. QED
    BY <1>4, <2>1, <2>2 DEF RemoveIntents, TypeOK, threadVars, canonVars
<1>5. CASE WriteCanonical(s)
  <2>1. stage' \in [Shards -> Stages]
    BY <1>5 DEF WriteCanonical, TypeOK, Stages
  <2>2. group[s] \in SUBSET Threads
    BY DEF TypeOK
  <2>3. canon' \in Seq(SUBSET Threads) /\ canonOnDisk' \in 0..Len(canon')
    BY <1>5, <2>2 DEF WriteCanonical, WriteUnified, TypeOK
  <2>. QED
    BY <1>5, <2>1, <2>3 DEF WriteCanonical, TypeOK, threadVars, laneVars
<1>6. CASE WriteError(s)
  <2>1. stage' \in [Shards -> Stages] /\ faults' \in Nat
    BY <1>6 DEF WriteError, TypeOK, Stages
  <2>. QED
    BY <1>6, <2>1 DEF WriteError, TypeOK, threadVars, canonVars, laneVars
<1>7. CASE Finish(s)
  <2>1. result' \in [Threads -> {"none", "passed", "failed"}]
    BY <1>7 DEF Finish, TypeOK
  <2>2. group' \in [Shards -> SUBSET Threads] /\ stage' \in [Shards -> Stages]
    BY <1>7 DEF Finish, TypeOK, Stages
  <2>3. leader' \in [Shards -> Threads \cup {NoThread}]
    BY <1>7 DEF Finish, TypeOK
  <2>4. pc' \in [Threads -> Phases]
    <3>1. CASE pending[s] = <<>>
      <4>1. leader[s] \in Threads /\ batch[leader[s]].shard = s
            /\ pc[leader[s]] = "leading"
        BY <1>7 DEF Finish, QueueInv, LeaderInv
      <4>2. result'[leader[s]] \in {"passed", "failed"}
        <5>1. result[leader[s]] = "none" => leader[s] \in group[s]
          BY <3>1, <4>1 DEF QueueInv, WaiterInv
        <5>. QED  BY <1>7, <4>1, <5>1 DEF Finish, TypeOK
      <4>3. pc' = [pc EXCEPT ![leader[s]] = result'[leader[s]]]
        BY <1>7, <3>1 DEF Finish
      <4>. QED  BY <4>1, <4>2, <4>3 DEF TypeOK, Phases
    <3>2. CASE pending[s] # <<>>
      BY <1>7, <3>2 DEF Finish, TypeOK
    <3>. QED  BY <3>1, <3>2
  <2>. QED
    BY <1>7, <2>1, <2>2, <2>3, <2>4 DEF Finish, TypeOK, canonVars, laneVars
<1>. QED
  BY <1>1, <1>3, <1>4, <1>5, <1>6, <1>7 DEF LeaderStep

\* The writes of a direct commit and of recovery keep the types.
LEMMA WriteUnifiedType ==
  ASSUME TypeOK, NEW ts \in SUBSET Threads, NEW sy \in BOOLEAN, WriteUnified(ts, sy)
  PROVE  canon' \in Seq(SUBSET Threads) /\ canonOnDisk' \in 0..Len(canon')
  BY DEF TypeOK, WriteUnified

\* The prefixes that a crash leaves have the types of databases.
LEMMA CrashType ==
  ASSUME TypeOK, Crash
  PROVE  TypeOK'
<1>1. canon' \in Seq(SUBSET Threads) /\ canonOnDisk' \in 0..Len(canon')
  <2>1. PICK n \in canonOnDisk..Len(canon) : canon' = SubSeq(canon, 1, n) /\ canonOnDisk' = n
    BY DEF Crash
  <2>2. canon \in Seq(SUBSET Threads) /\ n \in 0..Len(canon) /\ n \in Nat
    BY DEF TypeOK
  <2>3. SubSeq(canon, 1, n) \in Seq(SUBSET Threads) /\ Len(SubSeq(canon, 1, n)) = n
    BY <2>2, PrefixFacts
  <2>. QED  BY <2>1, <2>2, <2>3
<1>2. /\ lane' \in [Shards -> Seq([op : {"put", "del"}, of : SUBSET Threads])]
      /\ laneOnDisk' \in [Shards -> Nat]
      /\ \A s \in Shards : laneOnDisk'[s] <= Len(lane'[s])
  <2>. DEFINE W == [op : {"put", "del"}, of : SUBSET Threads]
              M == Max({Len(lane[s]) : s \in Shards})
  <2>1. PICK f \in [Shards -> 0..M] :
          /\ \A s \in Shards : f[s] \in laneOnDisk[s]..Len(lane[s])
          /\ lane' = [s \in Shards |-> SubSeq(lane[s], 1, f[s])]
          /\ laneOnDisk' = f
    BY DEF Crash
  <2>2. lane \in [Shards -> Seq(W)] /\ laneOnDisk \in [Shards -> Nat]
    BY DEF TypeOK
  <2>. HIDE DEF W, M
  <2>3. ASSUME NEW s \in Shards
        PROVE  SubSeq(lane[s], 1, f[s]) \in Seq(W) /\ Len(SubSeq(lane[s], 1, f[s])) = f[s]
               /\ f[s] \in Nat
    <3>1. lane[s] \in Seq(W) /\ Len(lane[s]) \in Nat /\ laneOnDisk[s] \in Nat
      BY <2>2
    <3>2. f[s] \in 0..Len(lane[s]) /\ f[s] \in Nat
      BY <2>1, <3>1
    <3>. QED  BY <3>1, <3>2, PrefixFacts
  <2>4. lane' \in [Shards -> Seq(W)]
    BY <2>1, <2>3
  <2>5. laneOnDisk' \in [Shards -> Nat]
    <3>1. f = [s \in Shards |-> f[s]]
      OBVIOUS
    <3>. QED  BY <2>1, <2>3, <3>1
  <2>6. \A s \in Shards : laneOnDisk'[s] <= Len(lane'[s])
    BY <2>1, <2>3
  <2>. QED  BY <2>4, <2>5, <2>6 DEF W
<1>3. pc' \in [Threads -> Phases]
  BY DEF Crash, TypeOK, Phases
<1>4. /\ pending' \in [Shards -> Seq(Threads)]
      /\ leader' \in [Shards -> Threads \cup {NoThread}]
      /\ stage' \in [Shards -> Stages] /\ group' \in [Shards -> SUBSET Threads]
  BY DEF Crash, TypeOK, Stages
<1>5. crashes' \in Nat /\ open' \in BOOLEAN
  <2>1. crashes \in Nat
    BY DEF TypeOK
  <2>2. crashes' = crashes + 1
    BY DEF Crash
  <2>3. crashes' \in Nat
    BY <2>1, <2>2
  <2>4. open' \in BOOLEAN
    BY DEF Crash
  <2>. QED  BY <2>3, <2>4
<1>. QED
  BY <1>1, <1>2, <1>3, <1>4, <1>5 DEF Crash, TypeOK

\* Every step keeps the types.
LEMMA NextType == TypeOK /\ QueueInv /\ [Next]_vars => TypeOK'
<1>. SUFFICES ASSUME TypeOK, QueueInv, [Next]_vars PROVE TypeOK'
  OBVIOUS
<1>1. ASSUME NEW t \in Threads, NEW s \in Shards, NEW k \in Keys, Request(t, s, k)
      PROVE  TypeOK'
  BY <1>1, RequestType
<1>2. ASSUME NEW t \in Threads, NEW k \in Keys, DirectWrite(t, k)
      PROVE  TypeOK'
  <2>1. canon' \in Seq(SUBSET Threads) /\ canonOnDisk' \in 0..Len(canon')
    BY <1>2, WriteUnifiedType DEF DirectWrite
  <2>2. batch' \in [Threads -> [shard : Shards, key : Keys]] /\ pc' \in [Threads -> Phases]
    BY <1>2 DEF DirectWrite, TypeOK, Phases
  <2>. QED  BY <1>2, <2>1, <2>2 DEF DirectWrite, TypeOK, queueVars, laneVars
<1>3. ASSUME NEW s \in Shards, LeaderStep(s)
      PROVE  TypeOK'
  BY <1>3, LeaderStepType
<1>4. ASSUME NEW t \in Threads, Return(t)
      PROVE  TypeOK'
  <2>1. pc' \in [Threads -> Phases]
    BY <1>4 DEF Return, TypeOK, Phases
  <2>. QED  BY <1>4, <2>1 DEF Return, TypeOK, queueVars, canonVars, laneVars
<1>5. CASE Crash
  BY <1>5, CrashType
<1>6. ASSUME NEW s \in Shards, NEW t \in Threads, Replay(s, t)
      PROVE  TypeOK'
  <2>1. canon' \in Seq(SUBSET Threads) /\ canonOnDisk' \in 0..Len(canon')
    BY <1>6, WriteUnifiedType DEF Replay
  <2>. QED  BY <1>6, <2>1 DEF Replay, TypeOK, threadVars, queueVars, laneVars
<1>7. ASSUME NEW s \in Shards, NEW t \in Threads, DropIntent(s, t)
      PROVE  TypeOK'
  <2>1. /\ lane' \in [Shards -> Seq([op : {"put", "del"}, of : SUBSET Threads])]
        /\ laneOnDisk' \in [Shards -> Nat]
        /\ \A r \in Shards : laneOnDisk'[r] <= Len(lane'[r])
    BY <1>7, WriteLaneType DEF DropIntent
  <2>. QED  BY <1>7, <2>1 DEF DropIntent, TypeOK, threadVars, queueVars, canonVars
<1>8. CASE Opened
  BY <1>8 DEF Opened, TypeOK, threadVars, queueVars, canonVars, laneVars
<1>9. CASE UNCHANGED vars
  BY <1>9 DEF vars, TypeOK, threadVars, queueVars, canonVars, laneVars
<1>. QED
  BY <1>1, <1>2, <1>3, <1>4, <1>5, <1>6, <1>7, <1>8, <1>9
  DEF Next, RecoveryStep, Terminated
-----------------------------------------------------------------------------
(***************************************************************************)
(* The queues.                                                             *)
(***************************************************************************)

\* The queues are empty at first.
LEMMA InitQueue == Init => QueueInv
<1>. SUFFICES ASSUME Init PROVE QueueInv
  OBVIOUS
<1>1. LeaderInv
  BY DEF Init, LeaderInv
<1>2. PendingInv
  BY DEF Init, PendingInv
<1>3. GroupInv /\ WaiterInv /\ OutcomeInv
  BY DEF Init, GroupInv, WaiterInv, OutcomeInv
<1>. QED  BY <1>1, <1>2, <1>3 DEF QueueInv

\* The elements of a queue are threads.
LEMMA PendingThreads ==
  ASSUME TypeOK, NEW s \in Shards
  PROVE  /\ pending[s] \in Seq(Threads)
         /\ \A i \in DOMAIN pending[s] : pending[s][i] \in Threads
<1>1. pending[s] \in Seq(Threads)
  BY DEF TypeOK
<1>. QED  BY <1>1

\* A new request is the last of its queue; its thread leads if nobody does.
LEMMA RequestQueue ==
  ASSUME TypeOK, QueueInv, NEW t \in Threads, NEW s \in Shards, NEW k \in Keys,
         Request(t, s, k)
  PROVE  QueueInv'
<1>1. /\ pending[s] \in Seq(Threads)
      /\ \A r \in Shards : \A i \in DOMAIN pending[r] : pending[r][i] \in Threads
  BY PendingThreads
<1>2. /\ pending'[s] = Append(pending[s], t)
      /\ \A r \in Shards : r # s => pending'[r] = pending[r]
  BY DEF Request, TypeOK
<1>3. /\ DOMAIN pending[s] = 1..Len(pending[s]) /\ Len(pending[s]) \in Nat
      /\ \A i \in DOMAIN pending'[s] : i \in DOMAIN pending[s] \/ i = Len(pending[s]) + 1
      /\ \A i \in DOMAIN pending[s] : i \in DOMAIN pending'[s] /\ pending'[s][i] = pending[s][i]
      /\ Len(pending[s]) + 1 \in DOMAIN pending'[s]
      /\ pending'[s][Len(pending[s]) + 1] = t
  BY <1>1, <1>2, AppendFacts
<1>4. /\ pc[t] = "idle" /\ open /\ open' = open /\ group' = group /\ result' = result
      /\ walId' = walId
  BY DEF Request
<1>5. batch'[t].shard = s /\ \A u \in Threads : u # t => batch'[u] = batch[u]
  BY DEF Request, TypeOK
<1>6. /\ pc'[t] \in {"queued", "leading"}
      /\ \A u \in Threads : u # t => pc'[u] = pc[u]
      /\ \A r \in Shards : r # s => leader'[r] = leader[r] /\ stage'[r] = stage[r]
      /\ leader[s] # NoThread => /\ leader'[s] = leader[s] /\ stage'[s] = stage[s]
                                 /\ pc'[t] = "queued"
      /\ leader[s] = NoThread => leader'[s] = t /\ stage'[s] = "drain" /\ pc'[t] = "leading"
  BY DEF Request, TypeOK
<1>7. \A r \in Shards : \A i \in DOMAIN pending[r] : pending[r][i] # t
  BY <1>4 DEF QueueInv, PendingInv
<1>8. \A r \in Shards : t \notin group[r]
  BY <1>4 DEF QueueInv, GroupInv
<1>9. \A r \in Shards : leader[r] # t
  <2>. SUFFICES ASSUME NEW r \in Shards, leader[r] = t PROVE FALSE
    OBVIOUS
  <2>1. stage[r] # "none"
    BY GroupCommitAssumption DEF QueueInv, LeaderInv
  <2>. QED  BY <2>1, <1>4 DEF QueueInv, LeaderInv
<1>10. result[t] = "none" /\ walId[t] = 0
  BY <1>4 DEF QueueInv, OutcomeInv
<1>11. LeaderInv'
  <2>. SUFFICES ASSUME NEW r \in Shards
       PROVE  /\ stage'[r] = "none" => leader'[r] = NoThread /\ pending'[r] = <<>>
              /\ stage'[r] # "none" => /\ leader'[r] \in Threads
                                       /\ pc'[leader'[r]] = "leading"
                                       /\ batch'[leader'[r]].shard = r
              /\ stage'[r] \in {"none", "drain"} => group'[r] = {}
    BY DEF LeaderInv
  <2>1. CASE r # s
    BY <2>1, <1>2, <1>4, <1>5, <1>6, <1>9 DEF QueueInv, LeaderInv
  <2>2. CASE r = s /\ leader[s] = NoThread
    <3>1. stage[s] = "none"
      BY <2>2, GroupCommitAssumption DEF QueueInv, LeaderInv
    <3>. QED  BY <2>2, <3>1, <1>4, <1>5, <1>6 DEF QueueInv, LeaderInv
  <2>3. CASE r = s /\ leader[s] # NoThread
    BY <2>3, <1>4, <1>5, <1>6, <1>9 DEF QueueInv, LeaderInv
  <2>. QED  BY <2>1, <2>2, <2>3
<1>12. PendingInv'
  <2>. SUFFICES ASSUME NEW r \in Shards, NEW i \in DOMAIN pending'[r]
       PROVE  /\ pc'[pending'[r][i]] \in {"queued", "leading"}
              /\ batch'[pending'[r][i]].shard = r
              /\ result'[pending'[r][i]] = "none"
              /\ walId'[pending'[r][i]] = 0
              /\ pending'[r][i] \notin group'[r]
              /\ \A j \in DOMAIN pending'[r] : pending'[r][i] = pending'[r][j] => i = j
    BY DEF PendingInv
  <2>1. CASE r # s
    BY <2>1, <1>1, <1>2, <1>4, <1>5, <1>6, <1>7 DEF QueueInv, PendingInv
  <2>2. CASE r = s /\ i \in DOMAIN pending[s]
    <3>1. pending'[s][i] = pending[s][i] /\ pending[s][i] # t /\ pending[s][i] \in Threads
      BY <2>2, <1>1, <1>3, <1>7
    <3>2. \A j \in DOMAIN pending'[s] : pending'[s][i] = pending'[s][j] => i = j
      BY <2>2, <3>1, <1>3 DEF QueueInv, PendingInv
    <3>. QED  BY <2>2, <3>1, <3>2, <1>4, <1>5, <1>6 DEF QueueInv, PendingInv
  <2>3. CASE r = s /\ i = Len(pending[s]) + 1
    <3>1. pending'[s][i] = t
      BY <2>3, <1>3
    <3>2. \A j \in DOMAIN pending'[s] : pending'[s][i] = pending'[s][j] => i = j
      BY <2>3, <3>1, <1>3, <1>7
    <3>. QED  BY <2>3, <3>1, <3>2, <1>4, <1>5, <1>6, <1>8, <1>10
  <2>. QED  BY <2>1, <2>2, <2>3, <1>3
<1>13. GroupInv'
  <2>1. \A r \in Shards : group[r] \in SUBSET Threads
    BY DEF TypeOK
  <2>. QED  BY <2>1, <1>4, <1>5, <1>6, <1>8 DEF QueueInv, GroupInv
<1>14. WaiterInv'
  <2>. SUFFICES ASSUME NEW u \in Threads, pc'[u] \in {"queued", "leading"}
       PROVE  /\ open'
              /\ result'[u] = "none" =>
                   \/ \E i \in DOMAIN pending'[batch'[u].shard] : pending'[batch'[u].shard][i] = u
                   \/ u \in group'[batch'[u].shard]
              /\ pc'[u] = "leading" => leader'[batch'[u].shard] = u
    BY DEF WaiterInv
  <2>1. CASE u = t
    BY <2>1, <1>3, <1>4, <1>5, <1>6
  <2>2. CASE u # t
    <3>1. batch[u].shard \in Shards /\ batch'[u] = batch[u] /\ pc'[u] = pc[u]
      BY <2>2, <1>5, <1>6 DEF TypeOK
    <3>2. result[u] = "none" =>
            \/ \E i \in DOMAIN pending[batch[u].shard] : pending[batch[u].shard][i] = u
            \/ u \in group[batch[u].shard]
      BY <3>1 DEF QueueInv, WaiterInv
    <3>3. result'[u] = "none" =>
            \/ \E i \in DOMAIN pending'[batch[u].shard] : pending'[batch[u].shard][i] = u
            \/ u \in group[batch[u].shard]
      BY <3>1, <3>2, <1>2, <1>3, <1>4
    <3>4. pc[u] = "leading" => leader'[batch[u].shard] = u
      <4>1. pc[u] = "leading" => leader[batch[u].shard] = u
        BY <3>1 DEF QueueInv, WaiterInv
      <4>. QED  BY <4>1, <3>1, <1>6, GroupCommitAssumption
    <3>. QED  BY <3>1, <3>3, <3>4, <1>4
  <2>. QED  BY <2>1, <2>2
<1>15. OutcomeInv'
  BY <1>4, <1>6 DEF QueueInv, OutcomeInv
<1>. QED  BY <1>11, <1>12, <1>13, <1>14, <1>15 DEF QueueInv

\* The whole queue becomes the group.
LEMMA DetachQueue ==
  ASSUME TypeOK, QueueInv, NEW s \in Shards, Detach(s)
  PROVE  QueueInv'
<1>1. \A r \in Shards : \A i \in DOMAIN pending[r] : pending[r][i] \in Threads
  BY PendingThreads
<1>2. /\ pending'[s] = <<>> /\ group'[s] = ToSet(pending[s])
      /\ \A r \in Shards : r # s => pending'[r] = pending[r] /\ group'[r] = group[r]
      /\ stage[s] = "drain"
      /\ stage'[s] \in {"canonical", "intent"}
      /\ \A r \in Shards : r # s => stage'[r] = stage[r]
  BY DEF Detach, TypeOK
<1>3. /\ pc' = pc /\ batch' = batch /\ leader' = leader /\ result' = result
      /\ open' = open /\ walId' = NewWalIds(s)
  BY DEF Detach, threadVars
<1>4. \A u \in Threads : (\A i \in DOMAIN pending[s] : pending[s][i] # u) => walId'[u] = walId[u]
  BY <1>3 DEF NewWalIds, ToSet
<1>5. ASSUME NEW r \in Shards, r # s, NEW i \in DOMAIN pending[r]
      PROVE  \A j \in DOMAIN pending[s] : pending[s][j] # pending[r][i]
  BY <1>5 DEF QueueInv, PendingInv
<1>6. LeaderInv'
  BY <1>2, <1>3 DEF QueueInv, LeaderInv
<1>7. PendingInv'
  <2>. SUFFICES ASSUME NEW r \in Shards, NEW i \in DOMAIN pending'[r]
       PROVE  /\ pc'[pending'[r][i]] \in {"queued", "leading"}
              /\ batch'[pending'[r][i]].shard = r
              /\ result'[pending'[r][i]] = "none"
              /\ walId'[pending'[r][i]] = 0
              /\ pending'[r][i] \notin group'[r]
              /\ \A j \in DOMAIN pending'[r] : pending'[r][i] = pending'[r][j] => i = j
    BY DEF PendingInv
  <2>1. r # s
    BY <1>2
  <2>2. pending'[r] = pending[r] /\ group'[r] = group[r]
    BY <2>1, <1>2
  <2>3. walId'[pending[r][i]] = walId[pending[r][i]]
    BY <1>1, <1>4, <1>5, <2>1, <2>2
  <2>. QED  BY <2>2, <2>3, <1>3 DEF QueueInv, PendingInv
<1>8. GroupInv'
  <2>1. \A t \in group'[s] : \E i \in DOMAIN pending[s] : pending[s][i] = t
    BY <1>2 DEF ToSet
  <2>. QED  BY <2>1, <1>2, <1>3 DEF QueueInv, GroupInv, PendingInv
<1>9. WaiterInv'
  <2>. SUFFICES ASSUME NEW u \in Threads, pc[u] \in {"queued", "leading"}
       PROVE  /\ open
              /\ result[u] = "none" =>
                   \/ \E i \in DOMAIN pending'[batch[u].shard] : pending'[batch[u].shard][i] = u
                   \/ u \in group'[batch[u].shard]
              /\ pc[u] = "leading" => leader[batch[u].shard] = u
    BY <1>3 DEF WaiterInv
  <2>1. batch[u].shard \in Shards
    BY DEF TypeOK
  <2>2. /\ open
        /\ result[u] = "none" =>
             \/ \E i \in DOMAIN pending[batch[u].shard] : pending[batch[u].shard][i] = u
             \/ u \in group[batch[u].shard]
        /\ pc[u] = "leading" => leader[batch[u].shard] = u
    BY DEF QueueInv, WaiterInv
  <2>3. group[s] = {}
    BY <1>2 DEF QueueInv, LeaderInv
  <2>4. \A i \in DOMAIN pending[s] : pending[s][i] \in group'[s]
    BY <1>2 DEF ToSet
  <2>. QED  BY <2>1, <2>2, <2>3, <2>4, <1>2
<1>10. OutcomeInv'
  <2>1. \A u \in Threads : pc[u] = "idle" => walId'[u] = walId[u]
    BY <1>4 DEF QueueInv, PendingInv
  <2>. QED  BY <2>1, <1>3 DEF QueueInv, OutcomeInv
<1>. QED  BY <1>6, <1>7, <1>8, <1>9, <1>10 DEF QueueInv

\* The writes of writeGroup, refused or not, only move the leader on.
LEMMA StageQueue ==
  ASSUME TypeOK, QueueInv, NEW s \in Shards, stage[s] \notin {"none", "drain"},
         NEW g, g \notin {"none", "drain"}, stage' = [stage EXCEPT ![s] = g],
         UNCHANGED <<pc, batch, pending, leader, group, result, walId, open>>
  PROVE  QueueInv'
<1>1. stage'[s] = g /\ \A r \in Shards : r # s => stage'[r] = stage[r]
  BY DEF TypeOK
<1>2. LeaderInv'
  BY <1>1 DEF QueueInv, LeaderInv
<1>3. PendingInv' /\ GroupInv'
  BY DEF QueueInv, PendingInv, GroupInv
<1>4. WaiterInv' /\ OutcomeInv'
  BY DEF QueueInv, WaiterInv, OutcomeInv
<1>. QED  BY <1>2, <1>3, <1>4 DEF QueueInv

\* Every request of the group is done; the leader leaves only an empty queue.
LEMMA FinishQueue ==
  ASSUME TypeOK, QueueInv, NEW s \in Shards, Finish(s)
  PROVE  QueueInv'
<1>1. /\ \A r \in Shards : \A i \in DOMAIN pending[r] : pending[r][i] \in Threads
      /\ \A r \in Shards : group[r] \in SUBSET Threads
  BY PendingThreads DEF TypeOK
<1>2. /\ stage[s] \in {"passed", "failed"}
      /\ group'[s] = {} /\ \A r \in Shards : r # s => group'[r] = group[r]
      /\ \A u \in Threads : u \in group[s] => result'[u] = stage[s]
      /\ \A u \in Threads : u \notin group[s] => result'[u] = result[u]
      /\ batch' = batch /\ pending' = pending /\ walId' = walId /\ open' = open
      /\ \A r \in Shards : r # s => leader'[r] = leader[r] /\ stage'[r] = stage[r]
  BY DEF Finish, TypeOK
<1>. DEFINE l == leader[s]
<1>3. l \in Threads /\ pc[l] = "leading" /\ batch[l].shard = s
  BY <1>2 DEF QueueInv, LeaderInv
<1>4. \A r \in Shards : r # s => leader[r] # l
  <2>. SUFFICES ASSUME NEW r \in Shards, r # s, leader[r] = l PROVE FALSE
    OBVIOUS
  <2>1. stage[r] # "none"
    BY <1>3, GroupCommitAssumption DEF QueueInv, LeaderInv
  <2>. QED  BY <2>1, <1>3 DEF QueueInv, LeaderInv
<1>5. pending[s] = <<>> =>
        /\ leader'[s] = NoThread /\ stage'[s] = "none"
        /\ pc'[l] = result'[l] /\ \A u \in Threads : u # l => pc'[u] = pc[u]
  BY <1>3 DEF Finish, TypeOK
<1>6. pending[s] # <<>> => leader'[s] = l /\ stage'[s] = "drain" /\ pc' = pc
  BY DEF Finish, TypeOK
<1>7. pending[s] = <<>> => result'[l] \in {"passed", "failed"}
  <2>1. pending[s] = <<>> /\ result[l] = "none" => l \in group[s]
    BY <1>3 DEF QueueInv, WaiterInv
  <2>. QED  BY <1>2, <1>3, <2>1 DEF TypeOK
<1>. HIDE DEF l
<1>8. \A r \in Shards : \A i \in DOMAIN pending[r] :
        pending[r][i] \notin group[s] /\ (pending[s] = <<>> => pending[r][i] # l)
  BY <1>1, <1>2, <1>3 DEF QueueInv, PendingInv, GroupInv
<1>9. \A r \in Shards : r # s => \A u \in group[r] : u \notin group[s] /\ u # l
  BY <1>1, <1>3 DEF QueueInv, GroupInv
<1>10. LeaderInv'
  <2>1. ASSUME NEW r \in Shards, r # s
        PROVE  /\ stage'[r] = "none" => leader'[r] = NoThread /\ pending'[r] = <<>>
               /\ stage'[r] # "none" => /\ leader'[r] \in Threads
                                        /\ pc'[leader'[r]] = "leading"
                                        /\ batch'[leader'[r]].shard = r
               /\ stage'[r] \in {"none", "drain"} => group'[r] = {}
    <3>1. stage[r] # "none" => pc'[leader[r]] = pc[leader[r]]
      BY <2>1, <1>4, <1>5, <1>6 DEF QueueInv, LeaderInv
    <3>. QED  BY <2>1, <3>1, <1>2 DEF QueueInv, LeaderInv
  <2>2. /\ stage'[s] = "none" => leader'[s] = NoThread /\ pending'[s] = <<>>
        /\ stage'[s] # "none" => /\ leader'[s] \in Threads
                                 /\ pc'[leader'[s]] = "leading"
                                 /\ batch'[leader'[s]].shard = s
        /\ stage'[s] \in {"none", "drain"} => group'[s] = {}
    BY <1>2, <1>3, <1>5, <1>6
  <2>. QED  BY <2>1, <2>2 DEF LeaderInv
<1>11. PendingInv'
  <2>. SUFFICES ASSUME NEW r \in Shards, NEW i \in DOMAIN pending[r]
       PROVE  /\ pc'[pending[r][i]] \in {"queued", "leading"}
              /\ batch[pending[r][i]].shard = r
              /\ result'[pending[r][i]] = "none"
              /\ walId[pending[r][i]] = 0
              /\ pending[r][i] \notin group'[r]
              /\ \A j \in DOMAIN pending[r] : pending[r][i] = pending[r][j] => i = j
    BY <1>2 DEF PendingInv
  <2>1. result'[pending[r][i]] = result[pending[r][i]] /\ pc'[pending[r][i]] = pc[pending[r][i]]
    BY <1>1, <1>2, <1>5, <1>6, <1>8
  <2>2. group'[r] \in {group[r], {}}
    BY <1>2
  <2>. QED  BY <2>1, <2>2 DEF QueueInv, PendingInv
<1>12. GroupInv'
  <2>. SUFFICES ASSUME NEW r \in Shards, NEW u \in group'[r]
       PROVE  pc'[u] \in {"queued", "leading"} /\ batch[u].shard = r /\ result'[u] = "none"
    BY <1>2 DEF GroupInv
  <2>1. r # s /\ u \in group[r] /\ u \in Threads
    BY <1>1, <1>2
  <2>2. result'[u] = result[u] /\ pc'[u] = pc[u]
    BY <2>1, <1>2, <1>5, <1>6, <1>9
  <2>. QED  BY <2>1, <2>2 DEF QueueInv, GroupInv
<1>13. WaiterInv'
  <2>. SUFFICES ASSUME NEW u \in Threads, pc'[u] \in {"queued", "leading"}
       PROVE  /\ open
              /\ result'[u] = "none" =>
                   \/ \E i \in DOMAIN pending[batch[u].shard] : pending[batch[u].shard][i] = u
                   \/ u \in group'[batch[u].shard]
              /\ pc'[u] = "leading" => leader'[batch[u].shard] = u
    BY <1>2 DEF WaiterInv
  <2>1. pc'[u] = pc[u] /\ (u = l => pending[s] # <<>>)
    BY <1>5, <1>6, <1>7
  <2>2. batch[u].shard \in Shards
    BY DEF TypeOK
  <2>3. /\ open
        /\ result[u] = "none" =>
             \/ \E i \in DOMAIN pending[batch[u].shard] : pending[batch[u].shard][i] = u
             \/ u \in group[batch[u].shard]
        /\ pc[u] = "leading" => leader[batch[u].shard] = u
    BY <2>1 DEF QueueInv, WaiterInv
  <2>4. result'[u] = "none" => u \notin group[s] /\ result[u] = "none"
    BY <1>2
  <2>5. pc[u] = "leading" => leader'[batch[u].shard] = u
    BY <2>1, <2>2, <2>3, <1>2, <1>6 DEF l
  <2>6. result'[u] = "none" /\ u \in group[batch[u].shard] => u \in group'[batch[u].shard]
    BY <2>2, <2>4, <1>2
  <2>. QED  BY <2>1, <2>3, <2>4, <2>5, <2>6
<1>14. OutcomeInv'
  <2>1. \A u \in Threads : u \in group[s] => pc[u] \in {"queued", "leading"} /\ result[u] = "none"
    BY DEF QueueInv, GroupInv
  <2>2. ASSUME NEW u \in Threads
        PROVE  /\ pc'[u] = "idle" => result'[u] = "none" /\ walId'[u] = 0
               /\ pc'[u] = "failed" => result'[u] = "failed"
    <3>1. CASE u = l /\ pending[s] = <<>>
      BY <3>1, <1>5, <1>7
    <3>2. CASE ~(u = l /\ pending[s] = <<>>)
      BY <3>2, <2>1, <1>2, <1>5, <1>6 DEF QueueInv, OutcomeInv
    <3>. QED  BY <3>1, <3>2
  <2>. QED  BY <2>2 DEF OutcomeInv
<1>. QED  BY <1>10, <1>11, <1>12, <1>13, <1>14 DEF QueueInv

\* Every step keeps the queue invariant.
LEMMA NextQueue == TypeOK /\ QueueInv /\ [Next]_vars => QueueInv'
<1>. SUFFICES ASSUME TypeOK, QueueInv, [Next]_vars PROVE QueueInv'
  OBVIOUS
<1>1. ASSUME NEW t \in Threads, NEW s \in Shards, NEW k \in Keys, Request(t, s, k)
      PROVE  QueueInv'
  BY <1>1, RequestQueue
<1>2. ASSUME NEW t \in Threads, NEW v \in {"passed", "failed"}, pc[t] \in {"idle", "queued"},
             pc[t] = "queued" => result[t] # "none", v = "failed" => result[t] = "failed",
             pc' = [pc EXCEPT ![t] = v],
             \A u \in Threads : u # t => batch'[u] = batch[u],
             UNCHANGED <<queueVars, open>>
      PROVE  QueueInv'
  <2>1. /\ pc'[t] = v /\ \A u \in Threads : u # t => pc'[u] = pc[u]
        /\ \A r \in Shards : \A i \in DOMAIN pending[r] : pending[r][i] \in Threads
        /\ \A r \in Shards : group[r] \in SUBSET Threads
    BY <1>2, PendingThreads DEF TypeOK
  <2>2. /\ \A r \in Shards : \A i \in DOMAIN pending[r] : pending[r][i] # t
        /\ \A r \in Shards : t \notin group[r]
        /\ \A r \in Shards : stage[r] # "none" => leader[r] # t
    BY <1>2 DEF QueueInv, PendingInv, GroupInv, LeaderInv
  <2>3. LeaderInv'
    BY <1>2, <2>1, <2>2 DEF QueueInv, LeaderInv, queueVars
  <2>4. PendingInv' /\ GroupInv'
    BY <1>2, <2>1, <2>2 DEF QueueInv, PendingInv, GroupInv, queueVars
  <2>5. WaiterInv'
    BY <1>2, <2>1 DEF QueueInv, WaiterInv, queueVars
  <2>6. OutcomeInv'
    BY <1>2, <2>1 DEF QueueInv, OutcomeInv, queueVars
  <2>. QED  BY <2>3, <2>4, <2>5, <2>6 DEF QueueInv
<1>3. ASSUME NEW t \in Threads, NEW k \in Keys, DirectWrite(t, k)
      PROVE  QueueInv'
  <2>1. \A u \in Threads : u # t => batch'[u] = batch[u]
    BY <1>3 DEF DirectWrite, TypeOK
  <2>. QED  BY <1>2, <1>3, <2>1 DEF DirectWrite
<1>4. ASSUME NEW t \in Threads, Return(t)
      PROVE  QueueInv'
  <2>1. result[t] \in {"passed", "failed"} /\ \A u \in Threads : u # t => batch'[u] = batch[u]
    BY <1>4 DEF Return, TypeOK
  <2>. QED  BY <1>2, <1>4, <2>1 DEF Return
<1>5. ASSUME NEW s \in Shards, LeaderStep(s)
      PROVE  QueueInv'
  <2>1. CASE Detach(s)
    BY <2>1, DetachQueue
  <2>2. CASE WriteIntents(s)
    BY <2>2, StageQueue DEF WriteIntents, threadVars
  <2>3. CASE WriteCanonical(s)
    BY <2>3, StageQueue DEF WriteCanonical, threadVars
  <2>4. CASE RemoveIntents(s)
    BY <2>4, StageQueue DEF RemoveIntents, threadVars
  <2>5. CASE WriteError(s)
    BY <2>5, StageQueue DEF WriteError, threadVars
  <2>6. CASE Finish(s)
    BY <2>6, FinishQueue
  <2>. QED  BY <1>5, <2>1, <2>2, <2>3, <2>4, <2>5, <2>6 DEF LeaderStep
<1>6. CASE Crash
  <2>1. /\ \A r \in Shards : stage'[r] = "none" /\ leader'[r] = NoThread /\ pending'[r] = <<>>
                               /\ group'[r] = {}
        /\ \A u \in Threads : pc[u] \in {"queued", "leading"} => pc'[u] = "lost"
        /\ \A u \in Threads : pc[u] \notin {"queued", "leading"} => pc'[u] = pc[u]
        /\ result' = result /\ walId' = walId
    BY <1>6 DEF Crash, InFlight
  <2>2. LeaderInv' /\ GroupInv'
    BY <2>1 DEF LeaderInv, GroupInv
  <2>3. PendingInv'
    BY <2>1 DEF PendingInv
  <2>4. WaiterInv'
    BY <2>1 DEF WaiterInv
  <2>5. OutcomeInv'
    BY <2>1 DEF QueueInv, OutcomeInv
  <2>. QED  BY <2>2, <2>3, <2>4, <2>5 DEF QueueInv
<1>7. ASSUME UNCHANGED <<threadVars, queueVars>>, open => open'
      PROVE  QueueInv'
  BY <1>7 DEF QueueInv, LeaderInv, PendingInv, GroupInv, WaiterInv, OutcomeInv,
              threadVars, queueVars
<1>8. CASE RecoveryStep
  BY <1>7, <1>8 DEF RecoveryStep, Replay, DropIntent, Opened
<1>9. CASE UNCHANGED vars
  BY <1>7, <1>9 DEF vars
<1>. QED
  BY <1>1, <1>3, <1>4, <1>5, <1>6, <1>8, <1>9 DEF Next, Terminated
-----------------------------------------------------------------------------
(***************************************************************************)
(* WAL ids.                                                                *)
(***************************************************************************)

\* Detach numbers the requests of the queue with unused, distinct ids.
LEMMA DetachWalIds ==
  ASSUME TypeOK, QueueInv, WalIdInv, NEW s \in Shards, Detach(s)
  PROVE  WalIdInv'
<1>. DEFINE Q == ToSet(pending[s])
<1>1. pending[s] \in Seq(Threads) /\ Len(pending[s]) \in Nat
      /\ DOMAIN pending[s] = 1..Len(pending[s])
  BY DEF TypeOK
<1>2. walId \in [Threads -> Nat] /\ nextWalId \in Nat \ {0}
  BY DEF TypeOK
<1>3. walId' = NewWalIds(s) /\ nextWalId' = nextWalId + Len(pending[s])
  BY DEF Detach
<1>4. ASSUME NEW t \in Threads, t \in Q
      PROVE  /\ Place(s, t) \in 1..Len(pending[s]) /\ pending[s][Place(s, t)] = t
             /\ walId'[t] = nextWalId - 1 + Place(s, t)
  <2>1. Place(s, t) \in DOMAIN pending[s] /\ pending[s][Place(s, t)] = t
    BY <1>4, PlaceFacts
  <2>2. NewWalIds(s)[t] = nextWalId - 1 + Place(s, t)
    BY <1>4 DEF NewWalIds
  <2>. QED  BY <2>1, <2>2, <1>1, <1>3
<1>5. ASSUME NEW t \in Threads, t \notin Q
      PROVE  walId'[t] = walId[t]
  BY <1>3, <1>5 DEF NewWalIds
<1>. HIDE DEF Q
<1>6. \A t \in Threads : walId'[t] < nextWalId'
  <2>. SUFFICES ASSUME NEW t \in Threads PROVE walId'[t] < nextWalId'
    OBVIOUS
  <2>1. CASE t \in Q
    <3>1. /\ Place(s, t) \in 1..Len(pending[s])
          /\ walId'[t] = nextWalId - 1 + Place(s, t)
      BY <1>4, <2>1
    <3>. QED  BY <3>1, <1>1, <1>2, <1>3
  <2>2. CASE t \notin Q
    <3>1. walId'[t] = walId[t]
      BY <1>5, <2>2
    <3>. QED  BY <3>1, <1>1, <1>2, <1>3 DEF WalIdInv
  <2>. QED  BY <2>1, <2>2
<1>7. WalIdsAreUnique'
  <2>. SUFFICES ASSUME NEW t \in Threads, NEW u \in Threads, t # u, walId'[t] # 0,
                       walId'[t] = walId'[u]
       PROVE  FALSE
    BY DEF WalIdsAreUnique
  <2>0. walId[t] < nextWalId /\ walId[u] < nextWalId
    BY DEF WalIdInv
  <2>1. CASE t \in Q /\ u \in Q
    <3>1. Place(s, t) \in 1..Len(pending[s]) /\ Place(s, u) \in 1..Len(pending[s])
      BY <1>4, <2>1
    <3>2. Place(s, t) # Place(s, u)
      BY <1>4, <2>1
    <3>3. nextWalId - 1 + Place(s, t) = nextWalId - 1 + Place(s, u)
      BY <1>4, <2>1
    <3>. QED  BY <3>1, <3>2, <3>3, <1>1, <1>2
  <2>2. CASE t \in Q /\ u \notin Q
    <3>1. Place(s, t) \in 1..Len(pending[s]) /\ nextWalId - 1 + Place(s, t) = walId[u]
      BY <1>4, <1>5, <2>2
    <3>. QED  BY <3>1, <2>0, <1>1, <1>2
  <2>3. CASE t \notin Q /\ u \in Q
    <3>1. Place(s, u) \in 1..Len(pending[s]) /\ nextWalId - 1 + Place(s, u) = walId[t]
      BY <1>4, <1>5, <2>3
    <3>. QED  BY <3>1, <2>0, <1>1, <1>2
  <2>4. CASE t \notin Q /\ u \notin Q
    BY <2>4, <1>5 DEF WalIdInv, WalIdsAreUnique
  <2>. QED  BY <2>1, <2>2, <2>3, <2>4
<1>. QED  BY <1>6, <1>7 DEF WalIdInv

\* Only Detach gives out ids.
LEMMA NextWalIds == TypeOK /\ QueueInv /\ WalIdInv /\ [Next]_vars => WalIdInv'
<1>. SUFFICES ASSUME TypeOK, QueueInv, WalIdInv, [Next]_vars PROVE WalIdInv'
  OBVIOUS
<1>1. ASSUME NEW s \in Shards, Detach(s) PROVE WalIdInv'
  BY <1>1, DetachWalIds
<1>2. CASE UNCHANGED <<walId, nextWalId>>
  BY <1>2 DEF WalIdInv, WalIdsAreUnique
<1>3. ASSUME NEW s \in Shards, LeaderStep(s) PROVE WalIdInv'
  BY <1>1, <1>2, <1>3
  DEF LeaderStep, WriteIntents, WriteCanonical, RemoveIntents, WriteError, Finish
<1>4. CASE Crash
  BY <1>2, <1>4 DEF Crash
<1>5. CASE RecoveryStep
  BY <1>2, <1>5 DEF RecoveryStep, Replay, DropIntent, Opened, queueVars
<1>. QED
  BY <1>2, <1>3, <1>4, <1>5
  DEF Next, Request, DirectWrite, Return, Terminated, vars, queueVars
-----------------------------------------------------------------------------
(***************************************************************************)
(* The writes.                                                             *)
(***************************************************************************)

\* Nothing is written at first.
LEMMA InitWrites == Init => WriteInv
<1>. SUFFICES ASSUME Init PROVE WriteInv
  OBVIOUS
<1>1. canon = <<>> /\ DOMAIN canon = {} /\ \A s \in Shards : lane[s] = <<>> /\ stage[s] = "none"
  BY DEF Init
<1>2. \A t \in Threads : result[t] = "none"
  BY DEF Init
<1>3. NativeInv /\ LaneInv
  BY <1>1 DEF NativeInv, LaneInv
<1>4. UnwrittenInv /\ AppliedOnce /\ FailureInv
  BY <1>1 DEF UnwrittenInv, AppliedOnce, FailureInv
<1>5. DurableInv
  BY <1>1, <1>2 DEF DurableInv
<1>. QED  BY <1>3, <1>4, <1>5 DEF WriteInv

\* t is in a write of the unified database that is on disk.
OnDisk(t) == \E i \in 1..canonOnDisk : t \in canon[i]

\* A write of batches that were not written before: what was written stays,
\* what was on disk stays there, and a synchronous write is on disk.
LEMMA UnifiedWrite ==
  ASSUME TypeOK, AppliedOnce, NEW ts \in SUBSET Threads, NEW sy \in BOOLEAN,
         WriteUnified(ts, sy), \A i \in DOMAIN canon : \A t \in ts : t \notin canon[i]
  PROVE  /\ \A i \in DOMAIN canon' : (i \in DOMAIN canon /\ canon'[i] = canon[i]) \/ canon'[i] = ts
         /\ AppliedOnce'
         /\ \A t \in Threads : OnDisk(t) => OnDisk(t)'
         /\ sy => \A t \in ts : OnDisk(t)'
<1>1. canon \in Seq(SUBSET Threads) /\ canonOnDisk \in 0..Len(canon)
  BY DEF TypeOK
<1>2. canon' = Append(canon, ts)
  BY DEF WriteUnified
<1>3. /\ Len(canon) \in Nat /\ DOMAIN canon = 1..Len(canon)
      /\ DOMAIN canon' = 1..(Len(canon) + 1)
      /\ \A i \in DOMAIN canon : canon'[i] = canon[i]
      /\ canon'[Len(canon) + 1] = ts
      /\ \A i \in DOMAIN canon' : i \in DOMAIN canon \/ i = Len(canon) + 1
  BY <1>1, <1>2, AppendFacts
<1>4. AppliedOnce'
  <2>. SUFFICES ASSUME NEW i \in DOMAIN canon', NEW j \in DOMAIN canon', i # j
       PROVE  canon'[i] \cap canon'[j] = {}
    BY DEF AppliedOnce
  <2>1. CASE i \in DOMAIN canon /\ j \in DOMAIN canon
    BY <2>1, <1>3 DEF AppliedOnce
  <2>2. CASE i \in DOMAIN canon /\ j = Len(canon) + 1
    BY <2>2, <1>3
  <2>3. CASE i = Len(canon) + 1 /\ j \in DOMAIN canon
    BY <2>3, <1>3
  <2>. QED  BY <2>1, <2>2, <2>3, <1>3
<1>5. ASSUME NEW t \in Threads, OnDisk(t) PROVE OnDisk(t)'
  <2>1. PICK i \in 1..canonOnDisk : t \in canon[i]
    BY <1>5 DEF OnDisk
  <2>2. i \in DOMAIN canon
    BY <1>1, <1>3
  <2>3. canonOnDisk' \in {canonOnDisk, Len(canon) + 1}
    BY DEF WriteUnified
  <2>4. i \in 1..canonOnDisk'
    BY <2>3, <1>1, <1>3
  <2>. QED  BY <2>1, <2>2, <2>4, <1>3 DEF OnDisk
<1>6. ASSUME sy, NEW t \in ts PROVE OnDisk(t)'
  <2>1. canonOnDisk' = Len(canon) + 1
    BY <1>6 DEF WriteUnified
  <2>2. Len(canon) + 1 \in 1..canonOnDisk'
    BY <2>1, <1>3
  <2>. QED  BY <2>2, <1>3 DEF OnDisk
<1>. QED  BY <1>3, <1>4, <1>5, <1>6

\* A crash keeps a prefix of the writes that holds what was on disk.
LEMMA CrashWrites ==
  ASSUME TypeOK, Crash
  PROVE  /\ \A i \in DOMAIN canon' : i \in DOMAIN canon /\ canon'[i] = canon[i]
         /\ \A t \in Threads : OnDisk(t) => OnDisk(t)'
         /\ \A s \in Shards : \A i \in DOMAIN lane'[s] :
              i \in DOMAIN lane[s] /\ lane'[s][i] = lane[s][i]
         /\ \A s \in Shards : lane[s] = <<>> => lane'[s] = <<>>
<1>1. PICK n \in canonOnDisk..Len(canon) : canon' = SubSeq(canon, 1, n) /\ canonOnDisk' = n
  BY DEF Crash
<1>2. /\ canon \in Seq(SUBSET Threads) /\ n \in 0..Len(canon) /\ n \in Nat
      /\ canonOnDisk \in Nat /\ canonOnDisk <= n
  BY DEF TypeOK
<1>3. /\ DOMAIN canon' = 1..n
      /\ \A i \in 1..n : i \in DOMAIN canon /\ canon'[i] = canon[i]
  BY <1>1, <1>2, PrefixFacts
<1>4. ASSUME NEW t \in Threads, OnDisk(t) PROVE OnDisk(t)'
  <2>1. PICK i \in 1..canonOnDisk : t \in canon[i]
    BY <1>4 DEF OnDisk
  <2>2. i \in 1..n
    BY <1>2
  <2>3. i \in 1..canonOnDisk'
    BY <1>1, <2>2
  <2>. QED  BY <2>1, <2>2, <2>3, <1>3 DEF OnDisk
<1>5. ASSUME NEW s \in Shards
      PROVE  /\ \A i \in DOMAIN lane'[s] : i \in DOMAIN lane[s] /\ lane'[s][i] = lane[s][i]
             /\ lane[s] = <<>> => lane'[s] = <<>>
  <2>. DEFINE W == [op : {"put", "del"}, of : SUBSET Threads]
              M == Max({Len(lane[r]) : r \in Shards})
  <2>1. PICK f \in [Shards -> 0..M] :
          /\ \A r \in Shards : f[r] \in laneOnDisk[r]..Len(lane[r])
          /\ lane' = [r \in Shards |-> SubSeq(lane[r], 1, f[r])]
          /\ laneOnDisk' = f
    BY DEF Crash
  <2>2. lane \in [Shards -> Seq(W)] /\ laneOnDisk \in [Shards -> Nat]
    BY DEF TypeOK
  <2>. HIDE DEF W, M
  <2>3. lane[s] \in Seq(W) /\ Len(lane[s]) \in Nat /\ laneOnDisk[s] \in Nat
    BY <2>2
  <2>4. f[s] \in 0..Len(lane[s]) /\ f[s] \in Nat
    BY <2>1, <2>3
  <2>5. lane'[s] = SubSeq(lane[s], 1, f[s])
    BY <2>1
  <2>6. /\ lane'[s] \in Seq(W) /\ Len(lane'[s]) = f[s] /\ DOMAIN lane'[s] = 1..f[s]
        /\ \A i \in 1..f[s] : i \in DOMAIN lane[s] /\ lane'[s][i] = lane[s][i]
    <3>. DEFINE q == lane[s]
                m == f[s]
    <3>1. q \in Seq(W) /\ m \in 0..Len(q)
      BY <2>3, <2>4
    <3>. HIDE DEF q, m
    <3>2. /\ SubSeq(q, 1, m) \in Seq(W) /\ Len(SubSeq(q, 1, m)) = m
          /\ DOMAIN SubSeq(q, 1, m) = 1..m
          /\ \A i \in 1..m : i \in DOMAIN q /\ SubSeq(q, 1, m)[i] = q[i]
      BY <3>1, PrefixFacts
    <3>. QED  BY <2>5, <3>2 DEF q, m
  <2>7. ASSUME lane[s] = <<>> PROVE lane'[s] = <<>>
    <3>1. Len(lane[s]) = 0
      BY <2>7
    <3>2. Len(lane'[s]) = 0
      BY <3>1, <2>4, <2>6
    <3>. QED  BY <3>2, <2>6, EmptySeq
  <2>. QED  BY <2>6, <2>7
<1>. QED  BY <1>3, <1>4, <1>5

\* What a lane holds after one more write.
LEMMA LaneWrite ==
  ASSUME TypeOK, LaneInv, NEW s \in Shards, NEW o \in {"put", "del"},
         NEW ts \in SUBSET Threads, NEW sy \in BOOLEAN, WriteLane(s, o, ts, sy),
         \A t \in ts : pc[t] # "idle", pc' = pc
  PROVE  LaneInv'
<1>. DEFINE W == [op : {"put", "del"}, of : SUBSET Threads]
            e == [op |-> o, of |-> ts]
<1>1. lane[s] \in Seq(W) /\ e \in W /\ e.of = ts
  BY DEF TypeOK
<1>2. lane'[s] = Append(lane[s], e) /\ \A r \in Shards : r # s => lane'[r] = lane[r]
  BY DEF WriteLane, TypeOK
<1>. HIDE DEF W, e
<1>3. \A i \in DOMAIN lane'[s] : (i \in DOMAIN lane[s] /\ lane'[s][i] = lane[s][i])
                                \/ lane'[s][i] = e
  BY <1>1, <1>2, AppendFacts
<1>. QED  BY <1>1, <1>2, <1>3 DEF LaneInv

\* Threads that are served by different shards, or are in a queue, or are idle
\* are not in a group.
LEMMA GroupsApart ==
  ASSUME TypeOK, QueueInv, NEW s \in Shards, NEW t \in group[s]
  PROVE  /\ t \in Threads /\ pc[t] # "idle" /\ result[t] = "none"
         /\ \A r \in Shards : r # s => t \notin group[r]
         /\ \A r \in Shards : \A j \in DOMAIN pending[r] : pending[r][j] # t
<1>1. t \in Threads
  BY DEF TypeOK
<1>2. pc[t] # "idle" /\ result[t] = "none" /\ batch[t].shard = s
  BY DEF QueueInv, GroupInv
<1>3. \A r \in Shards : r # s => t \notin group[r]
  BY <1>2 DEF QueueInv, GroupInv
<1>4. \A r \in Shards : \A j \in DOMAIN pending[r] : pending[r][j] # t
  BY <1>2 DEF QueueInv, PendingInv
<1>. QED  BY <1>1, <1>2, <1>3, <1>4

\* What is in a write is a batch of a thread.
LEMMA WrittenThreads ==
  ASSUME TypeOK
  PROVE  /\ \A i \in DOMAIN canon : canon[i] \in SUBSET Threads
         /\ \A s \in Shards : \A i \in DOMAIN lane[s] : lane[s][i].of \in SUBSET Threads
<1>1. \A i \in DOMAIN canon : canon[i] \in SUBSET Threads
  BY DEF TypeOK
<1>2. ASSUME NEW s \in Shards, NEW i \in DOMAIN lane[s]
      PROVE  lane[s][i].of \in SUBSET Threads
  <2>. DEFINE W == [op : {"put", "del"}, of : SUBSET Threads]
  <2>1. lane[s] \in Seq(W)
    BY DEF TypeOK
  <2>2. lane[s][i] \in W
    <3>. HIDE DEF W
    <3>. QED  BY <2>1
  <2>. QED  BY <2>2
<1>. QED  BY <1>1, <1>2

\* The steps of a leader keep the facts about the writes.
LEMMA LeaderStepWrites ==
  ASSUME TypeOK, QueueInv, WriteInv, NEW s \in Shards, LeaderStep(s)
  PROVE  WriteInv'
<1>0. /\ \A r \in Shards : group[r] \in SUBSET Threads
      /\ config.sync \in BOOLEAN /\ config.native \in BOOLEAN
  BY DEF TypeOK
<1>1. CASE Detach(s)
  <2>1. /\ pending'[s] = <<>> /\ group'[s] = ToSet(pending[s])
        /\ \A r \in Shards : r # s => pending'[r] = pending[r] /\ group'[r] = group[r]
        /\ stage'[s] = (IF config.native THEN "canonical" ELSE "intent")
        /\ \A r \in Shards : r # s => stage'[r] = stage[r]
        /\ pc' = pc /\ result' = result /\ config' = config /\ canon' = canon
        /\ canonOnDisk' = canonOnDisk /\ lane' = lane
    BY <1>1 DEF Detach, TypeOK, threadVars, canonVars, laneVars
  <2>2. NativeInv' /\ LaneInv' /\ AppliedOnce'
    BY <2>1 DEF WriteInv, NativeInv, LaneInv, AppliedOnce
  <2>3. UnwrittenInv'
    <3>1. \A t \in group'[s] : \E j \in DOMAIN pending[s] : pending[s][j] = t
      BY <2>1 DEF ToSet
    <3>. QED  BY <2>1, <3>1 DEF WriteInv, UnwrittenInv
  <2>4. FailureInv' /\ DurableInv'
    BY <2>1 DEF WriteInv, FailureInv, DurableInv
  <2>. QED  BY <2>2, <2>3, <2>4 DEF WriteInv
<1>2. ASSUME UNCHANGED <<pc, batch, pending, group, result, config, canon, canonOnDisk>>,
             NEW g \in Stages, stage' = [stage EXCEPT ![s] = g],
             g \in {"intent", "canonical"} => stage[s] \in {"intent", "canonical"},
             g \in {"cleanup", "passed"} => stage[s] \in {"cleanup", "passed"},
             config.native /\ g = "failed" => stage[s] = "canonical"
      PROVE  UnwrittenInv' /\ AppliedOnce' /\ FailureInv' /\ DurableInv'
  <2>1. stage'[s] = g /\ \A r \in Shards : r # s => stage'[r] = stage[r]
    BY <1>2 DEF TypeOK
  <2>2. UnwrittenInv' /\ AppliedOnce'
    BY <1>2, <2>1 DEF WriteInv, UnwrittenInv, AppliedOnce
  <2>3. FailureInv'
    BY <1>2, <2>1 DEF WriteInv, UnwrittenInv, FailureInv
  <2>4. DurableInv'
    BY <1>2, <2>1 DEF WriteInv, DurableInv
  <2>. QED  BY <2>2, <2>3, <2>4
<1>3. CASE WriteIntents(s)
  <2>1. ~config.native
    BY <1>3 DEF WriteIntents, WriteInv, NativeInv
  <2>2. LaneInv'
    <3>1. \A t \in group[s] : pc[t] # "idle"
      BY GroupsApart
    <3>. QED  BY <1>0, <1>3, <3>1, LaneWrite DEF WriteIntents, WriteInv, threadVars
  <2>3. UnwrittenInv' /\ AppliedOnce' /\ FailureInv' /\ DurableInv'
    <3>1. stage[s] = "intent" /\ stage' = [stage EXCEPT ![s] = "canonical"]
          /\ UNCHANGED <<pc, batch, pending, group, result, config, canon, canonOnDisk>>
      BY <1>3 DEF WriteIntents, threadVars, canonVars
    <3>. QED  BY <1>2, <3>1 DEF Stages
  <2>4. NativeInv'
    BY <1>3, <2>1 DEF WriteIntents, NativeInv
  <2>. QED  BY <2>2, <2>3, <2>4 DEF WriteInv
<1>4. CASE RemoveIntents(s)
  <2>1. ~config.native
    BY <1>4 DEF RemoveIntents, WriteInv, NativeInv
  <2>2. LaneInv'
    <3>1. \A t \in group[s] : pc[t] # "idle"
      BY GroupsApart
    <3>. QED  BY <1>0, <1>4, <3>1, LaneWrite DEF RemoveIntents, WriteInv, threadVars
  <2>3. UnwrittenInv' /\ AppliedOnce' /\ FailureInv' /\ DurableInv'
    <3>1. stage[s] = "cleanup" /\ stage' = [stage EXCEPT ![s] = "passed"]
          /\ UNCHANGED <<pc, batch, pending, group, result, config, canon, canonOnDisk>>
      BY <1>4 DEF RemoveIntents, threadVars, canonVars
    <3>. QED  BY <1>2, <3>1 DEF Stages
  <2>4. NativeInv'
    BY <1>4, <2>1 DEF RemoveIntents, NativeInv
  <2>. QED  BY <2>2, <2>3, <2>4 DEF WriteInv
<1>5. CASE WriteError(s)
  <2>1. /\ stage[s] \in {"intent", "canonical", "cleanup"}
        /\ stage' = [stage EXCEPT ![s] = "failed"]
        /\ UNCHANGED <<pc, batch, pending, group, result, config, canon, canonOnDisk, lane>>
    BY <1>5 DEF WriteError, threadVars, canonVars, laneVars
  <2>2. config.native => stage[s] = "canonical"
    BY <2>1 DEF WriteInv, NativeInv
  <2>3. UnwrittenInv' /\ AppliedOnce' /\ FailureInv' /\ DurableInv'
    BY <1>2, <2>1, <2>2 DEF Stages
  <2>4. LaneInv' /\ NativeInv'
    BY <2>1 DEF WriteInv, LaneInv, NativeInv, TypeOK
  <2>. QED  BY <2>3, <2>4 DEF WriteInv
<1>6. CASE WriteCanonical(s)
  <2>1. /\ WriteUnified(group[s], config.sync) /\ stage[s] = "canonical"
        /\ stage'[s] = (IF config.native THEN "passed" ELSE "cleanup")
        /\ \A r \in Shards : r # s => stage'[r] = stage[r]
        /\ UNCHANGED <<pc, pending, group, result, config, lane>>
    BY <1>6 DEF WriteCanonical, TypeOK, threadVars, laneVars
  <2>2. \A i \in DOMAIN canon : \A t \in group[s] : t \notin canon[i]
    BY <2>1 DEF WriteInv, UnwrittenInv
  <2>3. /\ \A i \in DOMAIN canon' : (i \in DOMAIN canon /\ canon'[i] = canon[i])
                                   \/ canon'[i] = group[s]
        /\ AppliedOnce'
        /\ \A t \in Threads : OnDisk(t) => OnDisk(t)'
        /\ config.sync => \A t \in group[s] : OnDisk(t)'
    <3>1. AppliedOnce
      BY DEF WriteInv
    <3>. QED  BY <1>0, <2>1, <2>2, <3>1, UnifiedWrite
  <2>4. \A t \in group[s] : /\ pc[t] # "idle" /\ result[t] = "none"
                            /\ \A r \in Shards : r # s => t \notin group[r]
                            /\ \A r \in Shards : \A j \in DOMAIN pending[r] : pending[r][j] # t
    BY GroupsApart
  <2>5. UnwrittenInv'
    <3>. SUFFICES ASSUME NEW i \in DOMAIN canon'
         PROVE  /\ \A t \in canon'[i] : pc[t] # "idle"
                /\ \A r \in Shards : \A j \in DOMAIN pending[r] : pending[r][j] \notin canon'[i]
                /\ \A r \in Shards : stage'[r] \in {"intent", "canonical"} =>
                     \A t \in group[r] : t \notin canon'[i]
      BY <2>1 DEF UnwrittenInv
    <3>1. CASE i \in DOMAIN canon /\ canon'[i] = canon[i]
      BY <3>1, <2>1 DEF WriteInv, UnwrittenInv
    <3>2. CASE canon'[i] = group[s]
      BY <3>2, <2>1, <2>4
    <3>. QED  BY <3>1, <3>2, <2>3
  <2>6. FailureInv'
    <3>. SUFFICES ASSUME config.native, NEW i \in DOMAIN canon'
         PROVE  /\ \A t \in canon'[i] : result[t] # "failed"
                /\ \A r \in Shards : stage'[r] = "failed" => \A t \in group[r] : t \notin canon'[i]
      BY <2>1 DEF FailureInv
    <3>1. CASE i \in DOMAIN canon /\ canon'[i] = canon[i]
      BY <3>1, <2>1 DEF WriteInv, FailureInv
    <3>2. CASE canon'[i] = group[s]
      BY <3>2, <2>1, <2>4
    <3>. QED  BY <3>1, <3>2, <2>3
  <2>7. DurableInv'
    <3>1. config.sync => /\ \A t \in Threads : result[t] = "passed" => OnDisk(t)
                         /\ \A r \in Shards : stage[r] \in {"cleanup", "passed"} =>
                              \A t \in group[r] : OnDisk(t)
      BY DEF WriteInv, DurableInv, OnDisk
    <3>2. config.sync => /\ \A t \in Threads : result[t] = "passed" => OnDisk(t)'
                         /\ \A r \in Shards : stage'[r] \in {"cleanup", "passed"} =>
                              \A t \in group[r] : OnDisk(t)'
      BY <3>1, <1>0, <2>1, <2>3
    <3>. QED  BY <3>2, <2>1 DEF DurableInv, OnDisk
  <2>8. LaneInv' /\ NativeInv'
    BY <2>1 DEF WriteInv, LaneInv, NativeInv
  <2>. QED  BY <2>3, <2>5, <2>6, <2>7, <2>8 DEF WriteInv
<1>7. CASE Finish(s)
  <2>1. /\ stage[s] \in {"passed", "failed"}
        /\ group'[s] = {} /\ \A r \in Shards : r # s => group'[r] = group[r]
        /\ \A u \in Threads : u \in group[s] => result'[u] = stage[s]
        /\ \A u \in Threads : u \notin group[s] => result'[u] = result[u]
        /\ pending' = pending /\ config' = config /\ canon' = canon
        /\ canonOnDisk' = canonOnDisk /\ lane' = lane
        /\ stage'[s] \in {"none", "drain"}
        /\ \A r \in Shards : r # s => stage'[r] = stage[r]
    BY <1>7 DEF Finish, TypeOK, canonVars, laneVars
  <2>2. \A u \in Threads : pc'[u] = "idle" => pc[u] = "idle"
    <3>1. leader[s] \in Threads /\ pc[leader[s]] = "leading" /\ batch[leader[s]].shard = s
      BY <2>1 DEF QueueInv, LeaderInv
    <3>2. \A u \in Threads : result'[u] # "idle"
      BY <2>1, <1>0 DEF TypeOK
    <3>. QED  BY <1>7, <3>1, <3>2 DEF Finish, TypeOK
  <2>3. UnwrittenInv' /\ AppliedOnce'
    <3>1. canon \in Seq(SUBSET Threads) /\ \A i \in DOMAIN canon : canon[i] \in SUBSET Threads
      BY DEF TypeOK
    <3>. QED  BY <2>1, <2>2, <3>1 DEF WriteInv, UnwrittenInv, AppliedOnce
  <2>4. LaneInv'
    BY <2>1, <2>2, WrittenThreads DEF WriteInv, LaneInv
  <2>5. FailureInv'
    <3>1. canon \in Seq(SUBSET Threads) /\ \A i \in DOMAIN canon : canon[i] \in SUBSET Threads
      BY DEF TypeOK
    <3>. QED  BY <2>1, <3>1 DEF WriteInv, FailureInv
  <2>6. DurableInv'
    BY <2>1, <1>0 DEF WriteInv, DurableInv
  <2>7. NativeInv'
    BY <2>1 DEF WriteInv, NativeInv
  <2>. QED  BY <2>3, <2>4, <2>5, <2>6, <2>7 DEF WriteInv
<1>. QED
  BY <1>1, <1>3, <1>4, <1>5, <1>6, <1>7 DEF LeaderStep

\* While the store is being recovered nobody is in a commit, and an intent is
\* of a thread that died in one.
LEMMA RecoveringFacts ==
  ASSUME TypeOK, QueueInv, WriteInv, NEW s \in Shards, NEW t \in Threads, Recovering(s, t)
  PROVE  /\ ~config.native
         /\ pc[t] # "idle"
         /\ \A r \in Shards : stage[r] = "none" /\ group[r] = {} /\ pending[r] = <<>>
<1>1. ~open /\ t \in InLane(s)
  BY DEF Recovering
<1>2. PICK i \in DOMAIN lane[s] : t \in lane[s][i].of
  BY <1>1 DEF InLane
<1>3. lane[s] # <<>>
  BY <1>2
<1>4. ~config.native
  BY <1>3 DEF WriteInv, NativeInv
<1>5. pc[t] # "idle"
  BY <1>2 DEF WriteInv, LaneInv
<1>6. \A r \in Shards : stage[r] = "none"
  BY <1>1 DEF QueueInv, LeaderInv, WaiterInv
<1>. QED  BY <1>4, <1>5, <1>6 DEF QueueInv, LeaderInv

\* One batch is written alone, by an autocommit or by recovery: it is in no
\* queue and in no group.
LEMMA SingleWrite ==
  ASSUME TypeOK, WriteInv, NEW t \in Threads, NEW sy \in BOOLEAN, WriteUnified({t}, sy),
         \A i \in DOMAIN canon : t \notin canon[i], pc'[t] # "idle",
         \A u \in Threads : pc'[u] = "idle" => pc[u] = "idle",
         \A r \in Shards : t \notin group[r],
         \A r \in Shards : \A j \in DOMAIN pending[r] : pending[r][j] # t,
         config.native => result[t] # "failed",
         UNCHANGED <<queueVars, config, lane>>
  PROVE  WriteInv'
<1>1. UNCHANGED <<pending, leader, stage, group, result>>
  BY DEF queueVars
<1>2. /\ \A i \in DOMAIN canon' : (i \in DOMAIN canon /\ canon'[i] = canon[i]) \/ canon'[i] = {t}
      /\ AppliedOnce'
      /\ \A u \in Threads : OnDisk(u) => OnDisk(u)'
  <2>1. AppliedOnce /\ {t} \in SUBSET Threads
    BY DEF WriteInv
  <2>2. \A i \in DOMAIN canon : \A u \in {t} : u \notin canon[i]
    OBVIOUS
  <2>. QED  BY <2>1, <2>2, UnifiedWrite
<1>3. UnwrittenInv'
  <2>. SUFFICES ASSUME NEW i \in DOMAIN canon'
       PROVE  /\ \A u \in canon'[i] : pc'[u] # "idle"
              /\ \A r \in Shards : \A j \in DOMAIN pending[r] : pending[r][j] \notin canon'[i]
              /\ \A r \in Shards : stage[r] \in {"intent", "canonical"} =>
                   \A u \in group[r] : u \notin canon'[i]
    BY <1>1 DEF UnwrittenInv
  <2>1. CASE i \in DOMAIN canon /\ canon'[i] = canon[i]
    <3>1. canon[i] \in SUBSET Threads
      BY <2>1, WrittenThreads
    <3>. QED  BY <2>1, <3>1 DEF WriteInv, UnwrittenInv
  <2>2. CASE canon'[i] = {t}
    BY <2>2
  <2>. QED  BY <2>1, <2>2, <1>2
<1>4. FailureInv'
  <2>. SUFFICES ASSUME config.native, NEW i \in DOMAIN canon'
       PROVE  /\ \A u \in canon'[i] : result[u] # "failed"
              /\ \A r \in Shards : stage[r] = "failed" => \A u \in group[r] : u \notin canon'[i]
    BY <1>1 DEF FailureInv
  <2>1. CASE i \in DOMAIN canon /\ canon'[i] = canon[i]
    BY <2>1 DEF WriteInv, FailureInv
  <2>2. CASE canon'[i] = {t}
    BY <2>2
  <2>. QED  BY <2>1, <2>2, <1>2
<1>5. DurableInv'
  <2>1. config.sync => /\ \A u \in Threads : result[u] = "passed" => OnDisk(u)
                       /\ \A r \in Shards : stage[r] \in {"cleanup", "passed"} =>
                            \A u \in group[r] : OnDisk(u)
    BY DEF WriteInv, DurableInv, OnDisk
  <2>2. \A r \in Shards : group[r] \in SUBSET Threads
    BY DEF TypeOK
  <2>3. config.sync => /\ \A u \in Threads : result[u] = "passed" => OnDisk(u)'
                       /\ \A r \in Shards : stage[r] \in {"cleanup", "passed"} =>
                            \A u \in group[r] : OnDisk(u)'
    BY <2>1, <2>2, <1>2
  <2>. QED  BY <2>3, <1>1 DEF DurableInv, OnDisk
<1>6. LaneInv'
  BY WrittenThreads DEF WriteInv, LaneInv
<1>7. NativeInv'
  BY <1>1 DEF WriteInv, NativeInv
<1>. QED  BY <1>2, <1>3, <1>4, <1>5, <1>6, <1>7 DEF WriteInv

\* Every step keeps the facts about the writes.
LEMMA NextWrites == TypeOK /\ QueueInv /\ WriteInv /\ [Next]_vars => WriteInv'
<1>. SUFFICES ASSUME TypeOK, QueueInv, WriteInv, [Next]_vars PROVE WriteInv'
  OBVIOUS
<1>1. ASSUME NEW t \in Threads, NEW s \in Shards, NEW k \in Keys, Request(t, s, k)
      PROVE  WriteInv'
  <2>1. /\ pc[t] = "idle" /\ UNCHANGED <<group, result, config, canon, canonOnDisk, lane>>
        /\ \A u \in Threads : pc'[u] = "idle" => pc[u] = "idle"
        /\ pc'[t] # "idle"
        /\ pending'[s] = Append(pending[s], t)
        /\ \A r \in Shards : r # s => pending'[r] = pending[r]
        /\ \A r \in Shards : stage'[r] = stage[r] \/ stage'[r] = "drain"
    BY <1>1 DEF Request, TypeOK, canonVars, laneVars
  <2>2. \A r \in Shards : \A j \in DOMAIN pending'[r] :
          (j \in DOMAIN pending[r] /\ pending'[r][j] = pending[r][j]) \/ pending'[r][j] = t
    <3>1. pending[s] \in Seq(Threads)
      BY DEF TypeOK
    <3>2. \A j \in DOMAIN Append(pending[s], t) :
            (j \in DOMAIN pending[s] /\ Append(pending[s], t)[j] = pending[s][j])
            \/ Append(pending[s], t)[j] = t
      BY <3>1, AppendFacts
    <3>. QED  BY <2>1, <3>2
  <2>3. UnwrittenInv'
    <3>. SUFFICES ASSUME NEW i \in DOMAIN canon
         PROVE  /\ \A u \in canon[i] : pc'[u] # "idle"
                /\ \A r \in Shards : \A j \in DOMAIN pending'[r] : pending'[r][j] \notin canon[i]
                /\ \A r \in Shards : stage'[r] \in {"intent", "canonical"} =>
                     \A u \in group[r] : u \notin canon[i]
      BY <2>1 DEF UnwrittenInv
    <3>1. canon[i] \in SUBSET Threads /\ t \notin canon[i]
      BY <2>1, WrittenThreads DEF WriteInv, UnwrittenInv
    <3>2. \A u \in canon[i] : pc'[u] # "idle"
      BY <2>1, <3>1 DEF WriteInv, UnwrittenInv
    <3>3. \A r \in Shards : \A j \in DOMAIN pending'[r] : pending'[r][j] \notin canon[i]
      BY <2>2, <3>1 DEF WriteInv, UnwrittenInv
    <3>4. \A r \in Shards : stage'[r] \in {"intent", "canonical"} =>
            \A u \in group[r] : u \notin canon[i]
      BY <2>1 DEF WriteInv, UnwrittenInv
    <3>. QED  BY <3>2, <3>3, <3>4
  <2>4. FailureInv' /\ AppliedOnce'
    BY <2>1 DEF WriteInv, FailureInv, AppliedOnce
  <2>5. DurableInv'
    BY <2>1 DEF WriteInv, DurableInv
  <2>6. LaneInv'
    BY <2>1, WrittenThreads DEF WriteInv, LaneInv
  <2>7. NativeInv'
    BY <2>1 DEF WriteInv, NativeInv
  <2>. QED  BY <2>3, <2>4, <2>5, <2>6, <2>7 DEF WriteInv
<1>2. ASSUME NEW t \in Threads, NEW k \in Keys, DirectWrite(t, k)
      PROVE  WriteInv'
  <2>1. /\ pc[t] = "idle" /\ WriteUnified({t}, FALSE)
        /\ pc'[t] = "passed" /\ \A u \in Threads : u # t => pc'[u] = pc[u]
        /\ UNCHANGED <<queueVars, config, lane>>
    BY <1>2 DEF DirectWrite, TypeOK, laneVars
  <2>2. \A i \in DOMAIN canon : t \notin canon[i]
    BY <2>1 DEF WriteInv, UnwrittenInv
  <2>3. /\ \A r \in Shards : t \notin group[r]
        /\ \A r \in Shards : \A j \in DOMAIN pending[r] : pending[r][j] # t
        /\ result[t] = "none"
    BY <2>1 DEF QueueInv, GroupInv, PendingInv, OutcomeInv
  <2>. QED  BY <2>1, <2>2, <2>3, SingleWrite
<1>3. ASSUME NEW s \in Shards, LeaderStep(s)
      PROVE  WriteInv'
  BY <1>3, LeaderStepWrites
<1>4. ASSUME UNCHANGED <<pending, stage, group, result, config, canon, canonOnDisk, lane>>,
             \A u \in Threads : pc'[u] = "idle" => pc[u] = "idle"
      PROVE  WriteInv'
  <2>1. NativeInv' /\ AppliedOnce' /\ FailureInv' /\ DurableInv'
    BY <1>4 DEF WriteInv, NativeInv, AppliedOnce, FailureInv, DurableInv
  <2>2. UnwrittenInv' /\ LaneInv'
    BY <1>4, WrittenThreads DEF WriteInv, UnwrittenInv, LaneInv
  <2>. QED  BY <2>1, <2>2 DEF WriteInv
<1>5. ASSUME NEW t \in Threads, Return(t)
      PROVE  WriteInv'
  <2>1. \A u \in Threads : pc'[u] = "idle" => pc[u] = "idle"
    BY <1>5 DEF Return, TypeOK
  <2>. QED  BY <1>4, <1>5, <2>1 DEF Return, queueVars, canonVars, laneVars
<1>6. CASE Crash
  <2>1. /\ \A i \in DOMAIN canon' : i \in DOMAIN canon /\ canon'[i] = canon[i]
        /\ \A t \in Threads : OnDisk(t) => OnDisk(t)'
        /\ \A s \in Shards : \A i \in DOMAIN lane'[s] :
             i \in DOMAIN lane[s] /\ lane'[s][i] = lane[s][i]
        /\ \A s \in Shards : lane[s] = <<>> => lane'[s] = <<>>
    BY <1>6, CrashWrites
  <2>2. /\ \A r \in Shards : stage'[r] = "none" /\ pending'[r] = <<>> /\ group'[r] = {}
        /\ \A u \in Threads : pc'[u] = "idle" => pc[u] = "idle"
        /\ result' = result /\ config' = config
    BY <1>6 DEF Crash
  <2>3. NativeInv' /\ AppliedOnce'
    BY <2>1, <2>2 DEF WriteInv, NativeInv, AppliedOnce
  <2>4. LaneInv'
    BY <2>1, <2>2, WrittenThreads DEF WriteInv, LaneInv
  <2>5. UnwrittenInv'
    BY <2>1, <2>2, WrittenThreads DEF WriteInv, UnwrittenInv
  <2>6. FailureInv'
    BY <2>1, <2>2 DEF WriteInv, FailureInv
  <2>7. DurableInv'
    <3>1. config.sync => \A t \in Threads : result[t] = "passed" => OnDisk(t)'
      BY <2>1 DEF WriteInv, DurableInv, OnDisk
    <3>. QED  BY <2>2, <3>1 DEF DurableInv, OnDisk
  <2>. QED  BY <2>3, <2>4, <2>5, <2>6, <2>7 DEF WriteInv
<1>7. ASSUME NEW s \in Shards, NEW t \in Threads, Replay(s, t)
      PROVE  WriteInv'
  <2>1. /\ ~config.native /\ pc[t] # "idle"
        /\ \A r \in Shards : group[r] = {} /\ pending[r] = <<>>
    BY <1>7, RecoveringFacts DEF Replay
  <2>2. \A i \in DOMAIN canon : t \notin canon[i]
    BY <1>7 DEF Replay, Applied, ToSet
  <2>3. WriteUnified({t}, TRUE) /\ UNCHANGED <<pc, queueVars, config, lane>>
    BY <1>7 DEF Replay, threadVars, laneVars
  <2>4. /\ pc'[t] # "idle" /\ \A u \in Threads : pc'[u] = "idle" => pc[u] = "idle"
        /\ UNCHANGED <<queueVars, config, lane>>
    BY <2>1, <2>3
  <2>5. /\ \A r \in Shards : t \notin group[r]
        /\ \A r \in Shards : \A j \in DOMAIN pending[r] : pending[r][j] # t
    BY <2>1
  <2>6. WriteUnified({t}, TRUE)
    BY <2>3
  <2>7. TRUE \in BOOLEAN
    OBVIOUS
  <2>. QED  BY <2>1, <2>2, <2>4, <2>5, <2>6, <2>7, SingleWrite
<1>8. ASSUME NEW s \in Shards, NEW t \in Threads, DropIntent(s, t)
      PROVE  WriteInv'
  <2>1. ~config.native /\ pc[t] # "idle"
    BY <1>8, RecoveringFacts DEF DropIntent
  <2>2. WriteLane(s, "del", {t}, TRUE)
        /\ UNCHANGED <<pc, pending, stage, group, result, config, canon, canonOnDisk>>
    BY <1>8 DEF DropIntent, threadVars, queueVars, canonVars
  <2>3. LaneInv'
    <3>1. LaneInv
      BY DEF WriteInv
    <3>2. {t} \in SUBSET Threads /\ \A u \in {t} : pc[u] # "idle"
      BY <2>1
    <3>3. TRUE \in BOOLEAN /\ "del" \in {"put", "del"}
      OBVIOUS
    <3>4. WriteLane(s, "del", {t}, TRUE) /\ pc' = pc
      BY <2>2
    <3>. QED  BY <3>1, <3>2, <3>3, <3>4, LaneWrite
  <2>4. NativeInv' /\ AppliedOnce' /\ FailureInv' /\ DurableInv' /\ UnwrittenInv'
    BY <2>1, <2>2 DEF WriteInv, NativeInv, AppliedOnce, FailureInv, DurableInv, UnwrittenInv
  <2>. QED  BY <2>3, <2>4 DEF WriteInv
<1>9. CASE Opened \/ UNCHANGED vars
  BY <1>4, <1>9 DEF Opened, vars, threadVars, queueVars, canonVars, laneVars
<1>. QED
  BY <1>1, <1>2, <1>3, <1>5, <1>6, <1>7, <1>8, <1>9 DEF Next, RecoveryStep, Terminated
-----------------------------------------------------------------------------
(***************************************************************************)
(* The theorems.                                                           *)
(***************************************************************************)

\* The inductive invariant holds in every state of LiteUnifiedWriteBatchCommit,
\* writeGroup and recoverPhysicalWals.
THEOREM GroupCommitInvariant == Spec => []IInv
<1>1. Init => IInv
  <2>. SUFFICES ASSUME Init PROVE IInv
    OBVIOUS
  <2>1. WalIdInv
    BY DEF Init, WalIdInv, WalIdsAreUnique
  <2>. QED  BY <2>1, InitType, InitQueue, InitWrites DEF IInv
<1>2. IInv /\ [Next]_vars => IInv'
  BY NextType, NextQueue, NextWalIds, NextWrites DEF IInv
<1>. QED  BY <1>1, <1>2, PTL DEF Spec

\* The state keeps its types, and what is on disk is part of what was written,
\* through every commit, crash and recovery.
THEOREM GroupCommitTypeOK == Spec => []TypeOK
<1>1. IInv => TypeOK
  BY DEF IInv
<1>. QED  BY <1>1, GroupCommitInvariant, PTL

\* A request that waits is always in the hands of a live leader or done: no
\* wake-up is lost between the leader's last look at the queue and an arrival.
THEOREM WaitersAlwaysServed == Spec => []WaitersAreServed
<1>1. IInv => WaitersAreServed
  <2>. SUFFICES ASSUME IInv, NEW t \in Threads, pc[t] = "queued", result[t] = "none"
       PROVE  /\ leader[batch[t].shard] \in Threads
              /\ pc[leader[batch[t].shard]] = "leading"
              /\ t \in ToSet(pending[batch[t].shard]) \cup group[batch[t].shard]
    BY DEF WaitersAreServed
  <2>. DEFINE s == batch[t].shard
  <2>1. s \in Shards
    BY DEF IInv, TypeOK
  <2>2. (\E i \in DOMAIN pending[s] : pending[s][i] = t) \/ t \in group[s]
    BY DEF IInv, QueueInv, WaiterInv
  <2>3. stage[s] # "none"
    BY <2>1, <2>2 DEF IInv, QueueInv, LeaderInv
  <2>. QED  BY <2>1, <2>2, <2>3 DEF IInv, QueueInv, LeaderInv, ToSet
<1>. QED  BY <1>1, GroupCommitInvariant, PTL

\* The leaders of all shards together never give one WAL id to two batches.
THEOREM WalIdsStayUnique == Spec => []WalIdsAreUnique
<1>1. IInv => WalIdsAreUnique
  BY DEF IInv, WalIdInv
<1>. QED  BY <1>1, GroupCommitInvariant, PTL

\* An acknowledged synchronous commit stays on disk, whatever crashes follow
\* and wherever recovery is interrupted.
THEOREM AcknowledgedStaysDurable == Spec => []AcknowledgedIsDurable
<1>1. IInv => AcknowledgedIsDurable
  BY DEF IInv, WriteInv, DurableInv, AcknowledgedIsDurable
<1>. QED  BY <1>1, GroupCommitInvariant, PTL

\* No batch is written twice to the unified database, by its group or by the
\* replay of its intent.
THEOREM BatchesAppliedOnce == Spec => []AppliedOnce
<1>1. IInv => AppliedOnce
  BY DEF IInv, WriteInv
<1>. QED  BY <1>1, GroupCommitInvariant, PTL

\* On the native path a commit that reported an error never reaches the
\* unified database.
THEOREM NativeFailureIsFinal == Spec => []NativeFailureLeavesNothing
<1>1. IInv => NativeFailureLeavesNothing
  BY DEF IInv, WriteInv, FailureInv, QueueInv, OutcomeInv,
         NativeFailureLeavesNothing, Applied, ToSet
<1>. QED  BY <1>1, GroupCommitInvariant, PTL
=============================================================================
