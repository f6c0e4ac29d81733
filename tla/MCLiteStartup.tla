--------------------------- MODULE MCLiteStartup ---------------------------
(***************************************************************************)
(* Instances of LiteStartup for TLC.                                       *)
(***************************************************************************)
EXTENDS LiteStartup

\* Two transactions that share a table; the keyless table comes second in
\* one of them and first in the other.
TwoRecords == <<<<"keyed", "keyless">>, <<"keyless", "keyed">>>>
=============================================================================
