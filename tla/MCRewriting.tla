----------------------------- MODULE MCRewriting ----------------------------
(* Small trees and words for Rewriting.                                    *)
EXTENDS Rewriting

CONSTANTS Atoms, MaxLen

Leaves == {Atom(a) : a \in Atoms}
Level1 ==
  Leaves \cup {<<op, x>> : op \in {"Not", "Next", "WNext"}, x \in Leaves}
Core == {"And", "Or", "Until", "Release"}
Shallow ==
  {<<op, x, y>> : op \in Core \cup {"WUntil", "Implies", "Equiv"}, x \in Level1, y \in Leaves}

(* Deep enough for every rewrite rule of simplify: a binary operator over  *)
(* a binary subtree and a leaf, its negation, or its next.                 *)
Middle == {<<op, x, y>> : op \in Core, x \in Level1, y \in Leaves}
Deep ==
  UNION {{<<op, x, y>>, <<op, y, x>>} : op \in Core, x \in Middle, y \in Level1}
Edge == {<<op, True, x>> : op \in Core, x \in Leaves} \cup {<<op, x, False>> : op \in Core, x \in Leaves}

Nested ==
  {<<op, x>> : op \in {"Not", "Globally", "Future"}, x \in Shallow}
  \cup {<<op, <<op, x>>>> : op \in {"Next", "WNext"}, x \in Middle}

Negated1 ==
  {Not(<<op, x>>) : op \in {"Next", "Globally", "Future"}, x \in Level1}
  \cup {Not(<<op, x, y>>) : op \in Core, x \in {Globally(z) : z \in Leaves}, y \in Leaves}

Sources == Shallow \cup Deep \cup Edge \cup Nested \cup Negated1
Broken == Middle \cup {Not(x) : x \in Leaves}
ShortWords == WordsUpTo(Atoms, MaxLen)

(* TLC computes a definition once when the .cfg does not name it itself.   *)
MCTrees == Sources
MCMisspelt == Broken
MCWords == ShortWords
=============================================================================
