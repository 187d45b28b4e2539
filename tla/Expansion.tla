------------------------------ MODULE Expansion -----------------------------
(***************************************************************************)
(* The other ways of taking a formula apart into what it asks of the first *)
(* letter and of the rest of a word: flatted and its propositional models, *)
(* progf (aalta_formula.cpp) and disjunctive normal forms                  *)
(* (dnf_formula.cpp).  They were made for formulas without weak next whose *)
(* words go on: the last letter is taken by model.                         *)
(*                                                                         *)
(* An until gets a mark, an atom FOR_UNTIL_n of its own that says the      *)
(* right side is met now; here it is a leaf <<"mark", until>>.             *)
(*                                                                         *)
(* Abstracted: the tables from untils to marks, from formulas to variables *)
(* and from formulas to normal forms, and the limit MAX_CL of clauses.     *)
(***************************************************************************)
EXTENDS CnfEncoding, Progression

mark_until(u) == <<"mark", u>>

-----------------------------------------------------------------------------
(* flatted: untils and releases by what they ask now and of the next.      *)

RECURSIVE flatted(_)
(* (Mutant: the mark does not say that the right side is met.)             *)
flatted_Unmet(f) ==
  LET l == flatted(f[2])
      r == flatted(f[3])
  IN CASE oper(f) = "Until" ->
            Either(Both(Both(Not(mark_until(f)), l), StrongNext(f)), mark_until(f))
       [] oper(f) = "Release" -> Both(r, Either(l, StrongNext(f)))
       [] oper(f) = "And" -> Both(r, l)
       [] oper(f) = "Or" -> Either(l, r)
       [] OTHER -> f
flatted(f) ==
  LET l == flatted(f[2])
      r == flatted(f[3])
  IN CASE oper(f) = "Until" ->
            Either(Both(Both(Not(mark_until(f)), l), StrongNext(f)), Both(mark_until(f), r))
       [] oper(f) = "Release" -> Both(r, Either(l, StrongNext(f)))
       [] oper(f) = "And" -> Both(r, l)
       [] oper(f) = "Or" -> Either(l, r)
       [] OTHER -> f

-----------------------------------------------------------------------------
(* toDIMACS: clauses with one variable for each leaf and one for each      *)
(* conjunction or disjunction, which path names.  Only one direction of    *)
(* each definition is written: plus for a subformula that has to hold,     *)
(* minus for one that must not.                                            *)

IsNode(f) == oper(f) \in {"And", "Or"}
Variable(f, path) == IF IsNode(f) THEN <<"node", path>> ELSE f
OperandLiteral(f, path) ==
  IF oper(f) = "Not" THEN Neg(Variable(f[2], path)) ELSE Pos(Variable(f, path))

(* A conjunction that has to hold, or a disjunction that must not, makes   *)
(* each literal true; the other two make one of them true.  (A disjunction *)
(* that must not hold gets three clauses of three literals, which have the *)
(* same models as the two of EachOf.)                                      *)
EachOf(cur, L) == {{Flip(cur), l} : l \in L}
OneOf(cur, L) == {{Flip(cur)} \cup L}

RECURSIVE plus(_, _, _), minus(_, _, _)
plus_And(f, cur, path) ==
  LET l == OperandLiteral(f[2], Append(path, 1))
      r == OperandLiteral(f[3], Append(path, 2))
  IN EachOf(cur, {l, r}) \cup plus(f[2], l, Append(path, 1)) \cup plus(f[3], r, Append(path, 2))
plus_Or(f, cur, path) ==
  LET l == OperandLiteral(f[2], Append(path, 1))
      r == OperandLiteral(f[3], Append(path, 2))
  IN OneOf(cur, {l, r}) \cup plus(f[2], l, Append(path, 1)) \cup plus(f[3], r, Append(path, 2))
plus(f, cur, path) ==
  CASE oper(f) = "Not" -> minus(f[2], cur, path)
    [] oper(f) = "And" -> plus_And(f, cur, path)
    [] oper(f) = "Or" -> plus_Or(f, cur, path)
    [] OTHER -> {}

minus_And(f, cur, path) ==
  LET l == Flip(OperandLiteral(f[2], Append(path, 1)))
      r == Flip(OperandLiteral(f[3], Append(path, 2)))
  IN OneOf(cur, {l, r}) \cup minus(f[2], l, Append(path, 1)) \cup minus(f[3], r, Append(path, 2))
minus_Or(f, cur, path) ==
  LET l == Flip(OperandLiteral(f[2], Append(path, 1)))
      r == Flip(OperandLiteral(f[3], Append(path, 2)))
  IN EachOf(cur, {l, r}) \cup minus(f[2], l, Append(path, 1)) \cup minus(f[3], r, Append(path, 2))
minus(f, cur, path) ==
  CASE oper(f) = "Not" -> plus(f[2], cur, path)
    [] oper(f) = "And" -> minus_And(f, cur, path)
    [] oper(f) = "Or" -> minus_Or(f, cur, path)
    [] OTHER -> {}

toDIMACS(f) == {{OperandLiteral(f, <<>>)}} \cup plus(f, OperandLiteral(f, <<>>), <<>>)

(* prop_map: the leaves.                                                   *)
RECURSIVE prop_map(_)
prop_map(f) ==
  CASE IsNode(f) -> prop_map(f[2]) \cup prop_map(f[3])
    [] oper(f) = "Not" -> prop_map(f[2])
    [] OTHER -> {f}

(* SAT and SAT_core: what they may return; no set, for UNSAT.              *)
SAT(f) ==
  IF f \in {True, False} THEN {{f}} \ {{False}}
  ELSE {m \cup {Not(v) : v \in prop_map(f) \ m} : m \in Models(toDIMACS(f), prop_map(f))}

(* get_alphabet and complete: the atoms that P leaves out are true.         *)
RECURSIVE get_alphabet(_)
get_alphabet(f) ==
  CASE oper(f) \in {"True", "False", "mark"} -> {}
    [] oper(f) \in {"Not", "Next"} -> get_alphabet(f[2])
    [] IsBinary(f) -> get_alphabet(f[2]) \cup get_alphabet(f[3])
    [] OTHER -> {f}
complete(f, P) == (P \ {True}) \cup {a \in get_alphabet(f) : a \notin P /\ Not(a) \notin P}

-----------------------------------------------------------------------------
(* progf: progression by the literals of P, with marks; and model: whether *)
(* P may be the last letter.                                               *)

Join(op, l, r) == IF l = r THEN l ELSE IF op = "And" THEN Both(l, r) ELSE Either(l, r)

RECURSIVE progf(_, _)
progf_Until(f, l, r) ==
  LET met == Both(r, mark_until(f))
  IN IF met = mark_until(f) /\ l # False THEN met ELSE Either(met, Both(l, f))
progf_Release(f, l, r) == Both(r, Either(l, f))
progf(f, P) ==
  LET l == progf(f[2], P)
      r == progf(f[3], P)
  IN CASE oper(f) \in {"True", "False"} -> f
       [] oper(f) \in {"And", "Or"} -> Join(oper(f), l, r)
       [] oper(f) = "Next" -> f[2]
       [] oper(f) = "Until" -> progf_Until(f, l, r)
       [] oper(f) = "Release" -> progf_Release(f, l, r)
       [] OTHER -> IF f \in P THEN True ELSE False

RECURSIVE model(_, _)
model(f, P) ==
  CASE oper(f) \in {"True", "WNext"} -> TRUE
    [] oper(f) \in {"False", "Next"} -> FALSE
    [] oper(f) = "Or" -> model(f[2], P) \/ model(f[3], P)
    [] oper(f) = "And" -> model(f[2], P) /\ model(f[3], P)
    [] oper(f) \in {"Until", "Release"} -> model(f[3], P)
    [] OTHER -> f \in P

-----------------------------------------------------------------------------
(* off: what a letter has to satisfy to make f true when it is repeated;   *)
(* ofr the same under a release.  cf: what f asks of its first letter.     *)

RECURSIVE ofr(_), off(_), cf(_)
ofr(f) ==
  CASE IsNode(f) -> <<oper(f), ofr(f[2]), ofr(f[3])>>
    [] oper(f) \in {"Next", "WNext"} -> False
    [] oper(f) \in {"Until", "Release"} -> ofr(f[3])
    [] OTHER -> f
off(f) ==
  simplify(CASE IsNode(f) -> <<oper(f), off(f[2]), off(f[3])>>
             [] oper(f) \in {"Next", "WNext"} -> off(f[2])
             [] oper(f) = "Until" -> off(f[3])
             [] oper(f) = "Release" -> ofr(f[3])
             [] OTHER -> f)
cf(f) ==
  CASE oper(f) = "Or" -> Either(cf(f[2]), cf(f[3]))
    [] oper(f) = "And" -> Both(cf(f[2]), cf(f[3]))
    [] oper(f) = "Next" -> True
    [] oper(f) = "Until" -> IF cf(f[3]) = False THEN False ELSE Either(cf(f[2]), cf(f[3]))
    [] oper(f) = "Release" -> cf(f[3])
    [] OTHER -> f

-----------------------------------------------------------------------------
(* Disjunctive normal forms: pairs of what holds now and what next.        *)

dnf_clause(current, next) == [current |-> current, next |-> next]

(* cross: the pairs of two clauses, but for those that contradict now.     *)
cross(s1, s2) ==
  {dnf_clause(simplify_and(c.current, d.current), simplify_and(c.next, d.next)) :
     <<c, d>> \in {p \in s1 \X s2 : simplify_and(p[1].current, p[2].current) # False}}

RECURSIVE dnf_formula(_)
dnf_formula(f) ==
  LET next == simplify_next(f)
  IN CASE oper(f) \in {"Next", "WNext"} -> {dnf_clause(True, f[2])}
       [] oper(f) = "Until" -> dnf_formula(simplify_and(f[2], next)) \cup dnf_formula(f[3])
       [] oper(f) = "Release" ->
            dnf_formula(simplify_and(f[2], f[3])) \cup dnf_formula(simplify_and(f[3], next))
       [] oper(f) = "Or" -> dnf_formula(f[2]) \cup dnf_formula(f[3])
       [] oper(f) = "And" -> cross(dnf_formula(f[2]), dnf_formula(f[3]))
       [] OTHER -> {dnf_clause(f, True)} \ {dnf_clause(False, True)}

-----------------------------------------------------------------------------
(* Reading the results.                                                    *)

(* The formula with the marks of the untils U true, the others false.      *)
RECURSIVE Unmarked(_, _)
Unmarked(f, U) ==
  CASE oper(f) = "mark" -> IF f[2] \in U THEN True ELSE False
    [] IsUnary(f) -> <<oper(f), Unmarked(f[2], U)>>
    [] IsBinary(f) -> <<oper(f), Unmarked(f[2], U), Unmarked(f[3], U)>>
    [] OTHER -> f
UntilsOf(f) == {g \in Subformulas(f) : oper(g) = "Until"}
Met(f, w) == {u \in UntilsOf(f) : Holds(w, 1, u[3])}

IsMark(g) == oper(g) = "mark" \/ (oper(g) = "Not" /\ oper(g[2]) = "mark")

(* A word has the literals and the nexts of P; its marks are not asked.    *)
Agrees(w, P) ==
  \A g \in P : IsMark(g) \/ Holds(w, 1, g)

(* What a word makes of the leaves of f.                                   *)
LeavesOf(f, w) ==
  LET Truth(v) == IF oper(v) = "mark" THEN Holds(w, 1, v[2][3]) ELSE Holds(w, 1, v)
      true == {v \in prop_map(f) : Truth(v)}
  IN true \cup {Not(v) : v \in prop_map(f) \ true}
=============================================================================
