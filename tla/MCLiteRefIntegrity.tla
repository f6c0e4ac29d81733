------------------------ MODULE MCLiteRefIntegrity -------------------------
(***************************************************************************)
(* Instances of LiteRefIntegrity for TLC.  Sessions are interchangeable;   *)
(* keys and row places are ordered.                                        *)
(***************************************************************************)
EXTENDS LiteRefIntegrity, TLC

SessionSymmetry == Permutations(Sessions)
=============================================================================
