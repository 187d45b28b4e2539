------------------------------ MODULE MCMiniSat -----------------------------
(* Small problems for MiniSat.  The first two take four variables to learn *)
(* a clause, in the first with a redundant literal; under the assumptions  *)
(* <<1, 2, 3>> the search jumps back over the level of 2.  The last two    *)
(* are contradictory, the last one by propagation alone.                   *)
EXTENDS MiniSat

MCVars == 1 .. 4
MCProblems ==
  {{{-1, 2}, {-1, -3, 4}, {-2, -3, -4}},
   {{-1, 2}, {-2, -3, 4}, {-2, -3, -4}},
   {{-1, 2}, {1, 2}, {-2, 3}, {-2, -3}},
   {{1}, {-1, 3}, {-1, -3}, {-1}}}
MCAssumptions == {<<>>, <<4, -4>>, <<1, 2, 3>>}
=============================================================================
