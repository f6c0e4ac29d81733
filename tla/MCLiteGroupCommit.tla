------------------------- MODULE MCLiteGroupCommit -------------------------
(***************************************************************************)
(* Instances of LiteGroupCommit for TLC.  Threads and keys are             *)
(* interchangeable in the safety runs; shards are not (recovery visits     *)
(* them in order).                                                         *)
(***************************************************************************)
EXTENDS LiteGroupCommit, TLC

ThreadSymmetry == Permutations(Threads)
=============================================================================
