---------------------------- MODULE MCFormulaGame ---------------------------
(* Small source formulas and words for FormulaGame: x is an input, y an    *)
(* output.                                                                 *)
EXTENDS FormulaGame

CONSTANTS MaxLen

(* main: the game's formula of a tree.                                     *)
GameForm(t) == split_next(simplify(nnf(build(t, FALSE))))

Literals == {Atom("x"), Not(Atom("x")), Atom("y"), Not(Atom("y"))}
Core == {"And", "Or", "Until", "Release"}
Plain == {<<op, l, r>> : op \in Core, l \in {Atom("x"), Not(Atom("y"))}, r \in {Atom("y"), Not(Atom("x"))}}
Stepped == {<<op, f>> : op \in {"Next", "WNext"}, f \in Plain}
Trees ==
  Plain \cup Stepped
  \cup {<<op, l, r>> : op \in Core, l \in Plain, r \in {Atom("x"), StrongNext(Atom("y"))}}
  \cup {<<op, r, l>> : op \in Core, l \in Plain, r \in {Not(Atom("x")), WeakNext(Atom("x"))}}
  \cup {<<op, l, r>> : op \in {"And", "Or"}, l \in Stepped, r \in {p \in Plain : p[2] = Atom("x")}}
Sources == {GameForm(t) : t \in Trees} \ {True, False}
ShortWords == WordsUpTo({"x", "y"}, MaxLen)

(* TLC computes a definition once when the .cfg does not name it itself.   *)
MCStarts == Sources
MCWords == ShortWords
=============================================================================
