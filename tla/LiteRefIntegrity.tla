-------------------------- MODULE LiteRefIntegrity --------------------------
(***************************************************************************)
(* Referential integrity in Trafodion Lite (LiteRocksDBStore.cpp): a child *)
(* table with one column that references the key of a parent table, the    *)
(* check of a transaction at commit (validatePendingReferentialIntegrity)  *)
(* and the checks of statements outside a transaction.                     *)
(*                                                                         *)
(* A commit checks under the storage mutex and writes its batch after it   *)
(* has left the mutex; an autocommit statement scans without the mutex and *)
(* takes it only for the write.  Both windows are open to the writes of    *)
(* other sessions.  How statements of one transaction merge on one row is  *)
(* the subject of LitePendingImage; here a transaction changes a row once. *)
(***************************************************************************)
EXTENDS Integers, Sequences, SequencesExt, FiniteSetsExt

CONSTANTS
  Sessions,
  ParentKeys,   \* values of the referenced column, numbers
  ChildIds,     \* places of child rows: primary keys, or row ids
  NoRef,        \* the referencing column is NULL
  Absent,       \* no child row at this place
  MaxPending,   \* bound: row changes that wait in all sessions together
  MaxWrites     \* bound: commits and statements in a behaviour

ASSUME RefAssumption ==
  /\ ParentKeys \subseteq Nat /\ ChildIds \subseteq Nat
  /\ NoRef \notin ParentKeys /\ Absent \notin ParentKeys \cup {NoRef}
  /\ MaxPending \in Nat /\ MaxWrites \in Nat

VARIABLES
  keyed,      \* does the child table have a primary key
  parent,     \* keys of the stored parent rows
  child,      \* stored child rows: what each references
  pc,         \* "idle", "txn", "physical" (checked), "auto" (checked)
  ops,        \* the row changes of a session's transaction or statement
  contested,  \* for the properties: see NowContested, NowAliased
  begun       \* transactions and statements begun

vars == <<keyed, parent, child, pc, ops, contested, begun>>

Refs == ParentKeys \cup {NoRef}

(***************************************************************************)
(* A row change.  PendingTable keeps three lists per table; the order of   *)
(* the changes of one kind is the order of the statements.  A child change *)
(* carries its before-image.                                               *)
(***************************************************************************)
ChildOp  == [kind : {"cins", "cupd", "cdel"}, id : ChildIds,
             was : Refs \cup {Absent}, ref : Refs \cup {Absent}]
ParentOp == [kind : {"pins", "pupd", "pdel"}, key : ParentKeys, to : ParentKeys]

Of(os, kind) == SelectSeq(os, LAMBDA op : op.kind = kind)
Has(os, kind) == {op \in ToSet(os) : op.kind = kind}

\* What the write of the batch makes of the stored rows.
AfterParent(p, os) ==
  (p \ {op.key : op \in Has(os, "pdel") \cup Has(os, "pupd")})
    \cup {op.to : op \in Has(os, "pins") \cup Has(os, "pupd")}

AfterChild(c, os) ==
  [i \in ChildIds |->
     IF \E op \in ToSet(os) : op.kind \in {"cins", "cupd", "cdel"} /\ op.id = i
       THEN (CHOOSE op \in ToSet(os) :
               op.kind \in {"cins", "cupd", "cdel"} /\ op.id = i).ref
       ELSE c[i]]

\* The references to parent keys that are not there: what must not exist.
Orphans(p, c) == {c[i] : i \in ChildIds} \cap (ParentKeys \ p)

\* The rows a session has changed: no second change of one row.
Touches(os) ==
  {<<"c", op.id>> : op \in Has(os, "cins") \cup Has(os, "cupd") \cup Has(os, "cdel")}
    \cup UNION {{<<"p", op.key>>, <<"p", op.to>>} :
                  op \in Has(os, "pins") \cup Has(os, "pupd") \cup Has(os, "pdel")}

\* The row changes a statement can make in the stored image.
ChildOpsNow ==
  {[kind |-> "cins", id |-> i, was |-> Absent, ref |-> r] :
     i \in {j \in ChildIds : child[j] = Absent}, r \in Refs}
  \cup {[kind |-> "cupd", id |-> i, was |-> child[i], ref |-> r] :
     i \in {j \in ChildIds : child[j] # Absent}, r \in Refs}
  \cup {[kind |-> "cdel", id |-> i, was |-> child[i], ref |-> Absent] :
     i \in {j \in ChildIds : child[j] # Absent}}

ParentOpsNow ==
  {[kind |-> "pins", key |-> k, to |-> k] : k \in ParentKeys \ parent}
  \cup {[kind |-> "pdel", key |-> k, to |-> k] : k \in parent}
  \cup {[kind |-> "pupd", key |-> k, to |-> q] :
          k \in parent, q \in ParentKeys}

OpsNow == ChildOpsNow \cup ParentOpsNow

(***************************************************************************)
(* The before-image, duplicate-key and OCC checks: every changed row is    *)
(* still what the statement saw.                                           *)
(***************************************************************************)
Fresh(os) ==
  \A op \in ToSet(os) :
    CASE op.kind \in {"cins", "cupd", "cdel"} -> child[op.id] = op.was
      [] op.kind = "pins" -> op.key \notin parent
      [] op.kind = "pdel" -> op.key \in parent
      [] op.kind = "pupd" -> op.key \in parent /\ (op.to = op.key \/ op.to \notin parent)
-----------------------------------------------------------------------------
(***************************************************************************)
(* validatePendingReferentialIntegrity.                                    *)
(***************************************************************************)

\* referencedKeyExists: pending inserts and after-images, then pending
\* removals, then the stored table.
ReferencedKeyExists(os, k) ==
  \/ k \in {op.to : op \in Has(os, "pins") \cup Has(os, "pupd")}
  \/ /\ k \notin {op.key : op \in Has(os, "pupd") \cup Has(os, "pdel")}
     /\ k \in parent

\* validateChangedChildReference for the inserted and the updated rows.
ChangedChildrenOK(os) ==
  \A op \in Has(os, "cins") \cup Has(os, "cupd") :
    op.ref # NoRef => ReferencedKeyExists(os, op.ref)

\* Mutant: a key moved away by an update is not looked for.
RemovedKeysDeletesOnly(os) ==
  {op.key : op \in Has(os, "pdel")}
    \ {op.to : op \in Has(os, "pins") \cup Has(os, "pupd")}

\* The keys validateRemovedParentReferences looks for.
RemovedKeys(os) ==
  ({op.key : op \in Has(os, "pdel")}
     \cup {op.key : op \in {u \in Has(os, "pupd") : u.to # u.key}})
    \ {op.to : op \in Has(os, "pins") \cup Has(os, "pupd")}

(***************************************************************************)
(* The child rows validateRemovedParentReferences sees: the stored rows in *)
(* key order, overlaid by row id.  Rows of a table with a primary key all  *)
(* have row id 0: there an update overwrites every row, and a delete       *)
(* removes the first row that is left.                                     *)
(***************************************************************************)
OverlaidRefs(os) ==
  LET stored  == {i \in ChildIds : child[i] # Absent}
      updates == Has(os, "cupd")
      deletes == Has(os, "cdel")
      Rank(i) == Cardinality({j \in stored : j < i})
      kept    == IF keyed THEN {i \in stored : Rank(i) >= Cardinality(deletes)}
                 ELSE stored \ {op.id : op \in deletes}
      Ref(i)  == IF keyed /\ updates # {} THEN Last(Of(os, "cupd")).ref
                 ELSE IF \E u \in updates : u.id = i
                        THEN (CHOOSE u \in updates : u.id = i).ref
                        ELSE child[i]
  IN  {Ref(i) : i \in kept} \cup {op.ref : op \in Has(os, "cins")}

RemovedParentsOK(os) == RemovedKeys(os) \cap OverlaidRefs(os) = {}

ReferentialCheck(os) == ChangedChildrenOK(os) /\ RemovedParentsOK(os)
-----------------------------------------------------------------------------
(***************************************************************************)
(* validateLiteChildRI and validateLiteParentRI, for a one-row statement   *)
(* outside a transaction.                                                  *)
(***************************************************************************)
AutoChildOK(op) == op.kind \in {"cins", "cupd"} /\ op.ref # NoRef => op.ref \in parent

AutoParentOK(op) ==
  op.kind = "pdel" \/ (op.kind = "pupd" /\ op.to # op.key)
    => \A i \in ChildIds : child[i] # op.key

AutoCheck(op) == AutoChildOK(op) /\ AutoParentOK(op)
-----------------------------------------------------------------------------
\* Where the row-id overlay can be trusted: the child rows have ids of their
\* own, or the transaction changes one of the two tables only.
OverlayApplies(os) ==
  \/ ~keyed
  \/ \A op \in ToSet(os) : op \in ChildOp
  \/ \A op \in ToSet(os) : op \in ParentOp

AddedRefs(os) == {op.ref : op \in Has(os, "cins") \cup Has(os, "cupd")}
Checked(s) == pc[s] \in {"physical", "auto"}

\* Ghost: a reference to key k and the removal of k were both checked before
\* either was written.
NowContested(s) ==
  UNION {(AddedRefs(ops[s]) \cap RemovedKeys(ops[u]))
           \cup (RemovedKeys(ops[s]) \cap AddedRefs(ops[u])) :
         u \in {v \in Sessions \ {s} : Checked(v)}}

\* Ghost: keys whose removal was checked against child rows that are not there.
NowAliased(s) == IF OverlayApplies(ops[s]) THEN {} ELSE RemovedKeys(ops[s])

\* The write of session s's changes.
Land(s) ==
  /\ parent' = AfterParent(parent, ops[s])
  /\ child' = AfterChild(child, ops[s])
  /\ contested' = contested \cup NowContested(s) \cup NowAliased(s)

\* Mutant: the pending changes survive the end of the transaction.
EndKeepsPending(s) ==
  /\ pc' = [pc EXCEPT ![s] = "idle"]
  /\ UNCHANGED ops

\* pending.swap(pendingTables_), active_ = false.
End(s) ==
  /\ pc' = [pc EXCEPT ![s] = "idle"]
  /\ ops' = [ops EXCEPT ![s] = <<>>]

\* Any image a sequence of statements of one session leaves.
Init ==
  /\ keyed \in BOOLEAN
  /\ parent \in SUBSET ParentKeys
  /\ child \in [ChildIds -> Refs \cup {Absent}]
  /\ Orphans(parent, child) = {}
  /\ pc = [s \in Sessions |-> "idle"]
  /\ ops = [s \in Sessions |-> <<>>]
  /\ contested = {}
  /\ begun = 0

Begin == begun < MaxWrites /\ begun' = begun + 1

Room == MapThenSumSet(LAMBDA s : Len(ops[s]), Sessions) < MaxPending

\* A statement of a transaction: recorded, not checked.
Statement(s, op) ==
  /\ pc[s] \in {"idle", "txn"}
  /\ Room
  /\ Touches(<<op>>) \cap Touches(ops[s]) = {}
  /\ IF pc[s] = "idle" THEN Begin ELSE UNCHANGED begun
  /\ pc' = [pc EXCEPT ![s] = "txn"]
  /\ ops' = [ops EXCEPT ![s] = Append(@, op)]
  /\ UNCHANGED <<keyed, parent, child, contested>>

\* Two commits in flight never write one row (LiteOcc, IntentsDisjoint).
IntentsAdmit(s) ==
  \A u \in Sessions \ {s} :
    pc[u] = "physical" => Touches(ops[s]) \cap Touches(ops[u]) = {}

\* Commit, under the mutex: all checks pass, the batch is built.
CommitCheck(s) ==
  /\ pc[s] = "txn"
  /\ IntentsAdmit(s)
  /\ Fresh(ops[s])
  /\ ReferentialCheck(ops[s])
  /\ pc' = [pc EXCEPT ![s] = "physical"]
  /\ UNCHANGED <<keyed, parent, child, ops, contested, begun>>

\* Commit, under the mutex: a check fails, the transaction is over.
CommitRefuse(s) ==
  /\ pc[s] = "txn"
  /\ IntentsAdmit(s)
  /\ ~(Fresh(ops[s]) /\ ReferentialCheck(ops[s]))
  /\ End(s)
  /\ UNCHANGED <<keyed, parent, child, contested, begun>>

\* ROLLBACK.
Rollback(s) ==
  /\ pc[s] = "txn"
  /\ End(s)
  /\ UNCHANGED <<keyed, parent, child, contested, begun>>

\* Commit, without the mutex: the batch is written.
PhysicalWrite(s) ==
  /\ pc[s] = "physical"
  /\ Land(s)
  /\ End(s)
  /\ UNCHANGED <<keyed, begun>>

\* The physical write fails and leaves nothing behind.
PhysicalFail(s) ==
  /\ pc[s] = "physical"
  /\ End(s)
  /\ UNCHANGED <<keyed, parent, child, contested, begun>>

\* Mutant: a statement that skips its referential check.
AutoStatementUnchecked(s, op) ==
  /\ pc[s] = "idle"
  /\ Begin /\ Room
  /\ pc' = [pc EXCEPT ![s] = "auto"]
  /\ ops' = [ops EXCEPT ![s] = <<op>>]
  /\ UNCHANGED <<keyed, parent, child, contested>>

\* insertRow, updateRows, deleteRows outside a transaction: the check, on
\* scans that take no mutex.
AutoStatement(s, op) ==
  /\ pc[s] = "idle"
  /\ Begin /\ Room
  /\ AutoCheck(op)
  /\ pc' = [pc EXCEPT ![s] = "auto"]
  /\ ops' = [ops EXCEPT ![s] = <<op>>]
  /\ UNCHANGED <<keyed, parent, child, contested>>

\* Their write in LiteStorageManager: refused when the row has changed.
AutoWrite(s) ==
  /\ pc[s] = "auto"
  /\ IF Fresh(ops[s]) THEN Land(s) ELSE UNCHANGED <<parent, child, contested>>
  /\ End(s)
  /\ UNCHANGED <<keyed, begun>>

Step(s) ==
  \/ \E op \in OpsNow : Statement(s, op) \/ AutoStatement(s, op)
  \/ CommitCheck(s) \/ CommitRefuse(s) \/ Rollback(s) \/ PhysicalWrite(s)
  \/ PhysicalFail(s) \/ AutoWrite(s)

\* The bound is used up and every session is at rest.
Terminated ==
  /\ begun = MaxWrites
  /\ \A s \in Sessions : pc[s] = "idle"
  /\ UNCHANGED vars

Next == (\E s \in Sessions : Step(s)) \/ Terminated

Spec == Init /\ [][Next]_vars
-----------------------------------------------------------------------------
(***************************************************************************)
(* Properties.                                                             *)
(***************************************************************************)

\* Types, and a session has changes exactly while it is not idle.
TypeOK ==
  /\ keyed \in BOOLEAN
  /\ parent \subseteq ParentKeys
  /\ child \in [ChildIds -> Refs \cup {Absent}]
  /\ pc \in [Sessions -> {"idle", "txn", "physical", "auto"}]
  /\ ops \in [Sessions -> Seq(ChildOp \cup ParentOp)]
  /\ \A s \in Sessions : /\ pc[s] = "idle" <=> ops[s] = <<>>
                         /\ pc[s] = "auto" => Len(ops[s]) = 1
  /\ contested \subseteq ParentKeys
  /\ begun \in Nat

\* The incremental check of a commit (changed children, removed parents) is
\* exact: from an image without orphans it accepts a transaction if and only
\* if the image the transaction would leave has none.
CheckIsExact ==
  \A s \in Sessions :
    (/\ pc[s] = "txn"
     /\ OverlayApplies(ops[s])
     /\ Fresh(ops[s])
     /\ Orphans(parent, child) = {})
    => (ReferentialCheck(ops[s])
          <=> Orphans(AfterParent(parent, ops[s]), AfterChild(child, ops[s])) = {})

\* An orphan has two causes only: its insertion and the removal of its parent
\* were both checked before either was written, or one transaction changed
\* rows of a child table with a primary key and removed the parent, and the
\* overlay by row id misled the check.  Every other order of commits,
\* statements and refusals leaves the references whole.
OrphansWereContested == Orphans(parent, child) \subseteq contested
=============================================================================
