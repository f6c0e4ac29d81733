--------------------------- MODULE MCLiteSequence --------------------------
(***************************************************************************)
(* Instances of LiteSequence for TLC: four-bit integers, -8 to 7.          *)
(***************************************************************************)
EXTENDS LiteSequence, TLC

Def(inc, max, cycle, cache_) ==
  [min |-> 2, start |-> 2, inc |-> inc, max |-> max, cycle |-> cycle,
   cache |-> cache_]

\* Room to spare, a larger step that cycles, and no room below 7 for another
\* step.
ThreeDefinitions ==
  {Def(1, 4, FALSE, 3), Def(2, 4, TRUE, 2), Def(3, 5, FALSE, 0)}

Option(spec, inc, max, cycle, cache_) ==
  [spec |-> spec, inc |-> inc, max |-> max, cycle |-> cycle, cache |-> cache_]

\* RESET; an INCREMENT, and a MAXVALUE, that leave CACHE as it was; a smaller
\* CACHE; NO MAXVALUE that cycles or not; a MAXVALUE that is refused.
SevenAlterations ==
  {Option({"RESET"}, 0, 0, FALSE, 0),
   Option({"INCREMENT", "CYCLE"}, 2, 0, TRUE, 0),
   Option({"MAXVALUE"}, 0, 3, FALSE, 0),
   Option({"CACHE"}, 0, 0, FALSE, 2),
   Option({"NOMAXVALUE"}, 0, 0, FALSE, 0),
   Option({"NOMAXVALUE", "CYCLE"}, 0, 0, TRUE, 0),
   Option({"MAXVALUE"}, 0, 1, FALSE, 0)}

\* Bound: nothing is explored beyond the first overflow and the first value
\* given out twice; the states where they happen are checked.
BeforeOverflow == ~clash /\ "wrap" \notin excuse

SessionSymmetry == Permutations(Sessions)
=============================================================================
