----------------------------- MODULE MCLiteOcc -----------------------------
(***************************************************************************)
(* Instances of LiteOcc for TLC.                                           *)
(***************************************************************************)
EXTENDS LiteOccSerial, TLC

Table == CHOOSE o \in Objects : TRUE

\* A point and a phantom-prone interval.
TwoShapes == {Point(Table, 1), [obj |-> Table, lo |-> 2, hi |-> 0, full |-> FALSE]}

NoReads == {}

OnePoint == {Point(Table, 1)}

TwoKeys == {<<Table, 1>>, <<Table, 2>>}

OneKey == {<<Table, 2>>}

ContextSymmetry == Permutations(Contexts)
=============================================================================
