----------------------------- MODULE LiteSerial -----------------------------
(***************************************************************************)
(* What the transactions of Trafodion Lite promise together: the outcome   *)
(* is that of a store which runs them one after the other.  A transaction  *)
(* is one step that sees the latest version of every item it reads and     *)
(* gives one new version to every item it writes.  How a session gets      *)
(* there (snapshots, validation, intents, a history of bounded size) is    *)
(* not visible here.                                                       *)
(***************************************************************************)
EXTENDS Naturals

CONSTANT Items        \* what can be read and written

VARIABLES
  latest,             \* the version each item has
  committed           \* the outcomes of the committed transactions

\* What can be seen of a transaction: when it was applied, the version of
\* every item it read, and the items it wrote.
Outcome == [stamp : Nat \ {0}, observed : UNION {[R -> Nat] : R \in SUBSET Items},
            written : SUBSET Items]

Init ==
  /\ latest = [k \in Items |-> 0]
  /\ committed = {}

\* A transaction runs, all at once and after all the others.
Transaction(t) ==
  /\ t.stamp > 0
  /\ \A u \in committed : u.stamp < t.stamp
  /\ t.observed = [k \in DOMAIN t.observed |-> latest[k]]
  /\ committed' = committed \cup {t}
  /\ latest' = [k \in Items |-> IF k \in t.written THEN t.stamp ELSE latest[k]]

Next == \E t \in committed' \ committed : Transaction(t)

Spec == Init /\ [][Next]_<<latest, committed>>
=============================================================================
