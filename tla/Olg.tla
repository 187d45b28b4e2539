--------------------------------- MODULE Olg --------------------------------
(***************************************************************************)
(* Obligation trees (formula/olg_formula.cpp, formula/olg_item.cpp): what  *)
(* a formula forces its letters to be.  A leaf is a literal with the       *)
(* position pos at which it is asked for (-1: some position nobody knows)  *)
(* and how often (freq): Once, at pos and all later positions (More), or   *)
(* again and again (Inf).  compos is the common position of the leaves of  *)
(* a node, -1 if there is none.                                            *)
(*                                                                         *)
(* Abstracted: _isDisjunct and _orig_pos, which no test read here uses.    *)
(***************************************************************************)
EXTENDS CnfEncoding, Integers

Leaf(op, a) == [op |-> op, id |-> a, compos |-> 0, pos |-> 0, freq |-> "Once"]
Item(op, compos, l, r) == [op |-> op, compos |-> compos, left |-> l, right |-> r]
Constant(op) == [op |-> op, compos |-> 0]
IsLiteral(it) == it.op \in {"Literal", "Not"}
IsNode(it) == it.op \in {"And", "Or"}

CommonPos(l, r) == IF l.compos = r.compos THEN l.compos ELSE -1

-----------------------------------------------------------------------------
(* What the temporal operators do to the leaves below them.                *)

(* off_pos: under an Or (i = 0) and an Until (i = 1) nobody knows where.   *)
(* The walk passes by disjunctions whose positions are unknown already.    *)
RECURSIVE off_pos(_, _)
off_pos(it, i) ==
  LET below(x) == IF x.compos = -1 /\ x.op # "And" THEN x ELSE off_pos(x, i)
  IN CASE IsLiteral(it) /\ i = 0 -> [it EXCEPT !.pos = -1, !.freq = "Once"]
       [] IsLiteral(it) /\ i = 1 -> [it EXCEPT !.pos = -1, !.compos = -1]
       [] IsNode(it) -> [it EXCEPT !.left = below(@), !.right = below(@)]
       [] OTHER -> it

(* plus_pos: under a Next, one position later.                             *)
RECURSIVE plus_pos(_)
plus_pos(it) ==
  LET l == plus_pos(it.left)
      r == plus_pos(it.right)
      next == IF it.pos >= 0 THEN it.pos + 1 ELSE -1
  IN CASE it.compos = -1 /\ it.op # "And" -> it
       [] IsLiteral(it) /\ it.compos # -1 ->
            [it EXCEPT !.pos = next, !.compos = next]
       [] IsNode(it) /\ (it.op = "And" \/ it.compos # -1) ->
            Item(it.op, CommonPos(l, r), l, r)
       [] OTHER -> it

(* unonce_freq: under a Globally, over and over.                           *)
RECURSIVE unonce_freq(_)
unonce_freq(it) ==
  CASE IsLiteral(it) /\ it.freq = "Once" ->
         [it EXCEPT !.freq = IF it.pos < 0 THEN "Inf" ELSE "More"]
    [] IsNode(it) -> [it EXCEPT !.left = unonce_freq(@), !.right = unonce_freq(@)]
    [] OTHER -> it

JoinAnd(l, r) ==
  IF l.op = "False" \/ r.op = "True" THEN l
  ELSE IF l.op = "True" \/ r.op = "False" THEN r
  ELSE Item("And", CommonPos(l, r), l, r)

(* (Mutant: the leaves of a disjunction keep their positions.)             *)
JoinOr_KeepsPos(l, r) ==
  IF l.op = "True" \/ r.op = "False" THEN l
  ELSE IF l.op = "False" \/ r.op = "True" THEN r
  ELSE Item("Or", CommonPos(l, r), l, r)
JoinOr(l, r) ==
  LET node == Item("Or", CommonPos(l, r), l, r)
  IN IF l.op = "True" \/ r.op = "False" THEN l
     ELSE IF l.op = "False" \/ r.op = "True" THEN r
     ELSE IF node.compos = -1 THEN off_pos(node, 0) ELSE node

RECURSIVE buildItem(_)
buildItem(f) ==
  CASE oper(f) = "And" -> JoinAnd(buildItem(f[2]), buildItem(f[3]))
    [] oper(f) = "Or" -> JoinOr(buildItem(f[2]), buildItem(f[3]))
    [] oper(f) = "Next" -> plus_pos(buildItem(f[2]))
    [] oper(f) = "Release" ->
         IF f[2] = False THEN unonce_freq(buildItem(f[3])) ELSE buildItem(f[3])
    [] oper(f) = "Until" -> off_pos(buildItem(f[3]), 1)
    [] oper(f) \in {"True", "False"} -> Constant(oper(f))
    [] oper(f) = "Not" -> Leaf("Not", f[2])
    [] oper(f) = "atom" -> Leaf("Literal", f)

(* classify and the constructor: the items of the conjuncts, those of the  *)
(* globals first, are put under conjunctions without simplifying them.     *)
RECURSIVE Conjuncts(_)
Conjuncts(f) == IF oper(f) = "And" THEN <<f[2]>> \o Conjuncts(f[3]) ELSE <<f>>

is_globally(f) == oper(f) = "Release" /\ f[2] = False
RECURSIVE Joined(_)
Joined(s) ==
  LET last == buildItem(s[Len(s)])
      rest == Joined(SubSeq(s, 1, Len(s) - 1))
  IN IF Len(s) = 1 THEN last
     ELSE Item("And", IF last.compos = rest.compos THEN last.compos ELSE 0, last, rest)

olg_formula(f) ==
  LET Others(g) == ~ is_globally(g)
  IN Joined(SelectSeq(Conjuncts(f), is_globally) \o SelectSeq(Conjuncts(f), Others))

-----------------------------------------------------------------------------
(* The propositional formula of a tree and its clauses.                    *)

RECURSIVE HasConstant(_)
HasConstant(it) ==
  IF IsNode(it) THEN HasConstant(it.left) \/ HasConstant(it.right) ELSE ~ IsLiteral(it)

(* setId numbers the inner nodes in preorder from n; a leaf is the literal *)
(* of its atom.                                                            *)
RECURSIVE InnerNodes(_)
InnerNodes(it) == IF IsNode(it) THEN 1 + InnerNodes(it.left) + InnerNodes(it.right) ELSE 0

LitOf(it, n) ==
  CASE it.op = "Literal" -> Pos(it.id)
    [] it.op = "Not" -> Neg(it.id)
    [] IsNode(it) -> Pos(<<"item", n>>)

(* toDimacsPlus: a node implies its operands; the converse is not needed,  *)
(* since no node is below a negation.                                      *)
RECURSIVE toDimacsPlus(_, _)
toDimacsPlus(it, n) ==
  LET id == Neg(<<"item", n>>)
      lid == LitOf(it.left, n + 1)
      m == n + 1 + InnerNodes(it.left)
      rid == LitOf(it.right, m)
      below == toDimacsPlus(it.left, n + 1) \cup toDimacsPlus(it.right, m)
  IN CASE it.op = "And" -> {{id, lid}, {id, rid}} \cup below
       [] it.op = "Or" -> {{id, lid, rid}} \cup below
       [] OTHER -> {}

toDimacs(it) == {{LitOf(it, 1)}} \cup toDimacsPlus(it, 1)

SATCall(it) ==
  it.op = "True" \/ (it.op # "False" /\ IsSatisfiable(toDimacs(it)))

-----------------------------------------------------------------------------
(* Projections: what the tree asks of one position, any other leaf being   *)
(* True.                                                                   *)

WithTrue(it, l, r) ==
  LET constant == {x \in {l, r} : x.op = "True"}
  IN IF constant = {} THEN Item(it.op, 0, l, r)
     ELSE IF it.op = "Or" THEN Constant("True")
     ELSE IF l.op = "True" THEN r ELSE l

(* proj (which, i): the leaves asked for at every position (0), at i (1),  *)
(* with the atom i at a position nobody knows (2), or again and again (3). *)
RECURSIVE proj(_, _, _)
proj(it, which, i) ==
  LET asked ==
        CASE which = 0 -> it.freq = "More"
          [] which = 1 -> it.pos = i \/ (it.pos \in 0 .. i /\ it.freq = "More")
          [] which = 2 -> (it.id = i /\ it.pos = -1) \/ (it.pos = 0 /\ it.freq = "More")
          [] which = 3 -> (it.id = i /\ it.freq = "Inf") \/ it.freq = "More"
  IN IF IsLiteral(it) THEN (IF asked THEN it ELSE Constant("True"))
     ELSE WithTrue(it, proj(it.left, which, i), proj(it.right, which, i))

RECURSIVE Leaves(_)
Leaves(it) ==
  CASE IsLiteral(it) -> <<it>>
    [] IsNode(it) -> Leaves(it.left) \o Leaves(it.right)
    [] OTHER -> <<>>
LeafSet(it) == {Leaves(it)[k] : k \in DOMAIN Leaves(it)}

(* get_max_loc: how often the atom a is left under an unknown position (0) *)
(* or again and again (1).                                                 *)
get_max_loc(it, i, a) ==
  LET counted(x) == x.id = a /\ (IF i = 0 THEN x.pos = -1 ELSE x.freq = "Inf")
  IN Len(SelectSeq(Leaves(it), counted))

(* proj_loc: of the leaves of the atom a only the one after the first      *)
(* count, and of the others those asked for from the beginning on.         *)
Always(x) == x.pos = 0 /\ x.freq = "More"
CopiesOf(it, a) ==
  LET copy(x) == x.id = a /\ ~ Always(x) IN Len(SelectSeq(Leaves(it), copy))

RECURSIVE proj_loc(_, _, _)
proj_loc(it, a, count) ==
  CASE it.op = "True" -> it
    [] IsLiteral(it) ->
         IF Always(it) \/ (it.id = a /\ count = 0) THEN it ELSE Constant("True")
    [] IsNode(it) ->
         WithTrue(it, proj_loc(it.left, a, count),
                      proj_loc(it.right, a, count - CopiesOf(it.left, a)))

Copies(it, i, a) == {proj_loc(it, a, k) : k \in 0 .. (get_max_loc(it, i, a) - 1)}

(* The projections that olg_item::unsat tries, rule by rule: one of them   *)
(* being unsatisfiable refutes the formula.                                *)
EveryPosition(root) == {proj(root, 0, 0)}
OnePosition(root) == {proj(root, 1, x.pos) : x \in {y \in LeafSet(root) : y.pos # -1}}
UnknownPosition(root) ==
  UNION {Copies(proj(root, 2, x.id), 0, x.id) : x \in {y \in LeafSet(root) : y.pos = -1}}
AgainAndAgain(root) ==
  UNION {Copies(proj(root, 3, x.id), 1, x.id) : x \in {y \in LeafSet(root) : y.freq = "Inf"}}
=============================================================================
