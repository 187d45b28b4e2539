------------------------------- MODULE MCReplay -----------------------------
(* Small states and words for Replay: x is an input, y an output.          *)
EXTENDS Replay

CONSTANTS MaxLen

GameForm(t) == split_next(simplify(nnf(build(t, FALSE))))

x == Atom("x")
y == Atom("y")
Core == {"And", "Or", "Until", "Release"}
Level1 == {x, Not(y)} \cup {<<op, f>> : op \in {"Next", "WNext"}, f \in {x, Not(x), y}}
Level2 == {<<op, l, r>> : op \in Core, l \in Level1, r \in Level1}
Trees ==
  Level2 \cup {<<op, f>> : op \in {"Next", "WNext"}, f \in Level2}
  \cup {<<op, l, r>> : op \in Core, l \in Level2, r \in {y, StrongNext(x), WeakNext(Not(y))}}
Roots == {GameForm(t) : t \in Trees} \ {True, False}

(* States that Expand reaches: their formulas are not simplified.  Among   *)
(* the sources are some with a tautology below a weak next, where simplify *)
(* does not look.                                                          *)
Hidden ==
  {GameForm(And(<<op, StrongNext(StrongNext(l)), WeakNext(Or(x, Not(x)))>>, StrongNext(StrongNext(r)))) :
     op \in {"And", "Or"}, l \in {Not(y), y}, r \in {x, Not(y)}}
Reached ==
  {FormulaProgression(f, Edge(l, {"x", "y"})) : f \in Hidden \cup {GameForm(t) : t \in Level2}, l \in SUBSET {"x", "y"}}
(* A state whose node is a constant is known to win or to fail, and Expand *)
(* is not called on it.                                                    *)
IsConstant(f) == Same(f, True) \/ Same(f, False)
States == {f \in Roots \cup Hidden \cup Reached : ~ IsConstant(f)}
ShortWords == WordsUpTo({"x", "y"}, MaxLen)
ShortRests == WordsUpTo({"x", "y"}, 2)

(* TLC computes a definition once when the .cfg does not name it itself.   *)
MCStarts == States
MCWords == ShortWords
MCRests == ShortRests
=============================================================================
