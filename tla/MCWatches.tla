------------------------------ MODULE MCWatches -----------------------------
(* Small clauses for Watches: the first has two literals to watch instead  *)
(* of a false one, and the second is unit or false together with it.       *)
EXTENDS Watches
MCVars == 1 .. 4
MCNewClauses == <<<<-1, -2, 3, -4>>, <<-3, -1, -2>>>>
MCUnits == {1}
=============================================================================
