--------------------------- MODULE LiteOccSerial ---------------------------
(***************************************************************************)
(* LiteOcc implements LiteSerial.  The version of a key is the place in    *)
(* the RocksDB log of the last transaction that wrote it; a transaction    *)
(* has observed, for every key its recorded ranges cover, the version its  *)
(* snapshot shows.  Autocommit and DDL writes are not transactions of      *)
(* LiteSerial: they are stuttering steps.                                  *)
(***************************************************************************)
EXTENDS LiteOcc

Transactions == {i \in DOMAIN log : log[i].kind = "txn"}

\* The last transaction among the first n log entries that wrote key w.
Version(w, n) ==
  Max({i \in Transactions : i <= n /\ w \in log[i].writes} \cup {0})

Covered(rs) == {w \in WriteKey : \E r \in rs : Intersects(r, w)}

OutcomeOf(i) ==
  [stamp    |-> i,
   observed |-> [w \in Covered(log[i].reads) |-> Version(w, log[i].snap)],
   written  |-> log[i].writes]

Serial == INSTANCE LiteSerial WITH
  Items     <- WriteKey,
  latest    <- [w \in WriteKey |-> Version(w, Len(log))],
  committed <- {OutcomeOf(i) : i \in Transactions}

\* The commit protocol (begin, validation, intents, physical write without
\* the mutex, publication) gives every transaction the outcome it would have
\* if transactions ran one at a time, in the order RocksDB applies them.
ImplementsSerial == Serial!Spec
=============================================================================
