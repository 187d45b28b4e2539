---------------------------- MODULE MCHeuristics ----------------------------
(* Small formulas and words for Heuristics.                                *)
EXTENDS Heuristics

CONSTANTS Atoms, MaxLen

CheckerForm(t) == split_next(simplify(remove_wnext(add_tail(nnf(build(t, FALSE))))))
PlainForm(t) == split_next(simplify(nnf(build(t, FALSE))))

a == Atom("a")
b == Atom("b")
Literals == {a, Not(a), b, Not(b)}
Modal == {<<op, x>> : op \in {"Next", "WNext", "Globally", "Future"}, x \in Literals}
Level1 == {a, Not(a)} \cup Modal
Binary == {<<op, x, y>> : op \in {"And", "Or", "Until", "Release"}, x \in Level1, y \in Literals}
Deep ==
  {<<op, x>> : op \in {"Next", "Globally", "Future"}, x \in Binary}
Opposed == {Not(a), <<"Next", Not(a)>>, <<"Globally", Not(a)>>, <<"Future", Not(a)>>,
          <<"Globally", <<"Future", Not(a)>>>>, <<"Next", <<"Next", Not(a)>>>>,
          <<"Globally", Or(Not(a), Not(b))>>, StrongNext(True)}
Trees == Binary \cup Deep
  \cup {And(x, y) : x \in Opposed, y \in Binary \cup Deep}
  \cup {And(x, y) : x \in Opposed, y \in Opposed}
Forms == {PlainForm(t) : t \in Trees} \cup {CheckerForm(t) : t \in Trees}
ShortWords == {MarkEnd(w) : w \in WordsUpTo(Atoms, MaxLen)}

(* TLC computes a definition once when the .cfg does not name it itself.   *)
MCGoals == Forms
MCCheckWords == ShortWords
=============================================================================
