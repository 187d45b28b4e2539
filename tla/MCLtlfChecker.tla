---------------------------- MODULE MCLtlfChecker ---------------------------
(* Small formulas and words for LtlfChecker and its refinement.            *)
EXTENDS LtlfCheckerDfs

CONSTANTS Atoms, MaxLen

EncodedWords == [1 .. 3 -> SUBSET (Atoms \cup {"Tail"})]
ShortWords == {MarkEnd(w) : w \in WordsUpTo(Atoms, MaxLen)}

CheckerForm(t) == split_next(simplify(remove_wnext(add_tail(nnf(build(t, FALSE))))))

a == Atom("a")
Level1 == {a, Not(a), <<"Next", a>>, <<"WNext", a>>, <<"Next", Not(a)>>}
Core == {"And", "Or", "Until", "Release"}
Level2 == {<<op, x, z>> : op \in Core, x \in Level1, z \in Level1}
Always(f) == <<"Globally", f>>
Sometimes(f) == <<"Future", f>>
Loops ==
  {And(Always(Or(Not(a), StrongNext(a))), f) : f \in {a, StrongNext(a), Sometimes(a)}}
  \cup {And(Always(f), Sometimes(g)) : f, g \in {a, Not(a), <<"WNext", a>>, <<"Next", a>>}}
DeadEnd == And(Always(a), Sometimes(Not(a)))
DeadEnds ==
  {Or(StrongNext(DeadEnd), f) : f \in {And(a, StrongNext(a)), StrongNext(StrongNext(a))}}
Level3 == {<<op, x, z>> : op \in {"Or", "Until", "Release"}, x \in Level2, z \in {<<"WNext", a>>}}
Temporal == {<<op, x>> : op \in {"Next", "WNext", "Globally", "Future"}, x \in Level2}
Forms == {CheckerForm(t) : t \in Level2 \cup Loops \cup DeadEnds \cup Temporal \cup Level3}

(* TLC computes a definition once when the .cfg does not name it itself.   *)
MCInputs == Forms
MCWords == EncodedWords
MCCheckWords == ShortWords
=============================================================================
