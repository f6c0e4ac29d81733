------------------------ MODULE MCLitePendingImage -------------------------
(***************************************************************************)
(* Instances of LitePendingImage for TLC: string values stand for the      *)
(* payloads of the non-key column.                                         *)
(***************************************************************************)
EXTENDS LitePendingImage

TwoValues == {"null", "u"}
ThreeValues == {"null", "u", "v"}
=============================================================================
