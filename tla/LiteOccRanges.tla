--------------------------- MODULE LiteOccRanges ---------------------------
(***************************************************************************)
(* Read ranges, write keys and the conflict tests of the Lite optimistic   *)
(* concurrency control (LiteRocksDBStore.cpp, OccReadRange, OccWriteKey,   *)
(* LiteOccCoordinator and LiteCommitCoordinator).                          *)
(*                                                                         *)
(* A storage key is a byte string in the code; only its order matters, so  *)
(* it is a number here.  0 stands for the empty string: as a written key   *)
(* it is the object-wide DDL marker, as the end of a range it means that   *)
(* the range is unbounded.                                                 *)
(***************************************************************************)
EXTENDS Naturals

CONSTANTS
  Objects,     \* object UIDs of the tables
  MaxKey       \* the largest storage key; 0 is the empty key

ASSUME MaxKeyAssumption == MaxKey \in Nat

Key == 0..MaxKey

(***************************************************************************)
(* OccReadRange: a point (start = end), a half-open interval, an interval  *)
(* without end, or the full table.                                         *)
(***************************************************************************)
ReadRange == [obj : Objects, lo : Key, hi : Key, full : BOOLEAN]

\* OccWriteKey: an object and one key of it.
WriteKey == Objects \X Key

\* recordReadPointLocked's range.
Point(o, k) == [obj |-> o, lo |-> k, hi |-> k, full |-> FALSE]

\* recordFullScanLocked's range.
FullScan(o) == [obj |-> o, lo |-> 0, hi |-> 0, full |-> TRUE]

(***************************************************************************)
(* The test LiteOccCoordinator::validate applies to a committed write and  *)
(* a read of the same object.                                              *)
(***************************************************************************)
Intersects(r, w) ==
  /\ w[1] = r.obj
  /\ \/ w[2] = 0
     \/ r.full
     \/ r.lo = r.hi /\ w[2] = r.lo
     \/ /\ r.lo # r.hi
        /\ w[2] >= r.lo
        /\ r.hi = 0 \/ w[2] < r.hi

\* What a conflict between a set of reads and a set of writes means.
Overlap(rs, ws) == \E r \in rs, w \in ws : Intersects(r, w)

(***************************************************************************)
(* writes.lower_bound(<<object, start>>): the least written key at or      *)
(* after the start of the range, on the range's own object.                *)
(***************************************************************************)
LowerBound(r, ws) ==
  {w \in ws : /\ w[1] = r.obj
              /\ w[2] >= IF r.full THEN 0 ELSE r.lo
              /\ \A v \in ws : (v[1] = r.obj /\ v[2] >= IF r.full THEN 0 ELSE r.lo)
                                  => w[2] <= v[2]}

\* Mutant: an empty range end is compared as a key.
ReadWriteConflictEmptyEnd(rs, ws) ==
  \E r \in rs :
    \/ <<r.obj, 0>> \in ws
    \/ \E w \in LowerBound(r, ws) :
          \/ r.full
          \/ r.lo = r.hi /\ w[2] = r.lo
          \/ r.lo # r.hi /\ w[2] < r.hi

(***************************************************************************)
(* LiteCommitCoordinator::readWriteConflict looks at one candidate per     *)
(* read only: the DDL marker, else the lower bound.                        *)
(***************************************************************************)
ReadWriteConflict(rs, ws) ==
  \E r \in rs :
    \/ <<r.obj, 0>> \in ws
    \/ \E w \in LowerBound(r, ws) :
          \/ r.full
          \/ r.lo = r.hi /\ w[2] = r.lo
          \/ r.lo # r.hi /\ (r.hi = 0 \/ w[2] < r.hi)

(***************************************************************************)
(* LiteCommitCoordinator::writeWriteConflict: two writes of one key, or    *)
(* any write beside a DDL marker of the same object.                       *)
(***************************************************************************)
WriteWriteConflict(ws1, ws2) ==
  \E a \in ws1, b \in ws2 : a[1] = b[1] /\ (a[2] = 0 \/ b[2] = 0 \/ a[2] = b[2])
=============================================================================
