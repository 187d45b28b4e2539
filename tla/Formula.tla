------------------------------- MODULE Formula ------------------------------
(***************************************************************************)
(* The formula algorithms of formula/aalta_formula.cpp: building a formula *)
(* from the parser's tree, negation normal form, the Tail encoding of      *)
(* finite words, splitting of next, and simplification.                    *)
(*                                                                         *)
(* Abstracted: the _simp and _unique caches (a cached result is the result *)
(* of the same call), and the order of the operands of a simplified        *)
(* conjunction or disjunction.  The code sorts them by address; here an    *)
(* arbitrary fixed order is chosen by CHOOSE.                              *)
(***************************************************************************)
EXTENDS Ltlf

-----------------------------------------------------------------------------
(* Construction.                                                           *)

(* The tree a <-> b is built as (!a | b) & (!b | a).                       *)
EquivTree(a, b) == And(Or(Not(a), b), Or(Not(b), a))

(* build: the tree t, negated when neg, with negation pushed to the atoms. *)
RECURSIVE build(_, _)
build(t, neg) ==
  LET l == build(t[2], neg)
      r == build(t[3], neg)
      Dual(op, dual) == IF neg THEN <<dual, l, r>> ELSE <<op, l, r>>
  IN CASE oper(t) = "True" -> IF neg THEN False ELSE True
       [] oper(t) = "False" -> IF neg THEN True ELSE False
       [] oper(t) = "atom" -> IF neg THEN Not(t) ELSE t
       [] oper(t) = "Not" -> build(t[2], ~ neg)
       [] oper(t) = "Next" -> IF neg THEN WeakNext(l) ELSE StrongNext(l)
       [] oper(t) = "WNext" -> IF neg THEN StrongNext(l) ELSE WeakNext(l)
       [] oper(t) = "Globally" -> IF neg THEN Until(True, l) ELSE Release(False, l)
       [] oper(t) = "Future" -> IF neg THEN Release(False, l) ELSE Until(True, l)
       [] oper(t) = "Until" -> Dual("Until", "Release")
       [] oper(t) = "Release" -> Dual("Release", "Until")
       [] oper(t) = "And" -> Dual("And", "Or")
       [] oper(t) = "Or" -> Dual("Or", "And")
       [] oper(t) = "WUntil" ->
            IF neg THEN And(Until(True, l), Release(l, r))
                   ELSE Or(Release(False, l), Until(l, r))
       [] oper(t) = "Implies" ->
            <<IF neg THEN "And" ELSE "Or", build(t[2], ~ neg), r>>
       [] oper(t) = "Equiv" -> build(EquivTree(t[2], t[3]), neg)

(* nnf and nnf_not: negation normal form of a formula that may have Not    *)
(* before any subformula, and of its negation.                             *)
RECURSIVE nnf(_), nnf_not(_)
nnf(f) ==
  CASE oper(f) = "Not" -> IF oper(f[2]) = "Not" THEN nnf(f[2][2]) ELSE nnf_not(f[2])
    [] IsBinary(f) -> <<oper(f), nnf(f[2]), nnf(f[3])>>
    [] oper(f) \in {"Next", "WNext"} -> <<oper(f), nnf(f[2])>>
    [] OTHER -> f

DualOp(op) ==
  CASE op = "And" -> "Or"        [] op = "Or" -> "And"
    [] op = "Until" -> "Release" [] op = "Release" -> "Until"
    [] op = "Next" -> "WNext"    [] op = "WNext" -> "Next"

nnf_not(f) ==
  CASE f = True -> False
    [] f = False -> True
    [] oper(f) = "Not" -> nnf(f[2])
    [] IsBinary(f) -> <<DualOp(oper(f)), nnf_not(f[2]), nnf_not(f[3])>>
    [] oper(f) \in {"Next", "WNext"} -> <<DualOp(oper(f)), nnf_not(f[2])>>
    [] OTHER -> Not(f)

-----------------------------------------------------------------------------
(* Finite words by the atom Tail.                                          *)

(* (Mutant: the end is not excluded.)                                      *)
BeforeEnd_Always(l) == l
BeforeEnd(l) == IF l = True THEN Not(TAIL) ELSE And(Not(TAIL), l)
OrAtEnd(l) == IF l = False THEN TAIL ELSE Or(TAIL, l)
WNextByTail(l) == Or(TAIL, StrongNext(l))

RECURSIVE add_tail(_)
add_tail(f) ==
  LET l == add_tail(f[2])
      r == add_tail(f[3])
  IN CASE oper(f) = "Next" -> And(Not(TAIL), StrongNext(l))
       [] oper(f) = "WNext" -> WNextByTail(l)
       [] oper(f) = "Until" -> Until(BeforeEnd(l), r)
       [] oper(f) = "Release" -> Release(OrAtEnd(l), r)
       [] oper(f) \in {"And", "Or"} -> <<oper(f), l, r>>
       [] OTHER -> f

RECURSIVE remove_wnext(_)
remove_wnext(f) ==
  CASE oper(f) = "WNext" -> WNextByTail(remove_wnext(f[2]))
    [] IsBinary(f) -> <<oper(f), remove_wnext(f[2]), remove_wnext(f[3])>>
    [] IsUnary(f) -> <<oper(f), remove_wnext(f[2])>>
    [] OTHER -> f

(* split_next: X (a & b) is X a & X b, and the same for Or and weak next.  *)
RECURSIVE split_next(_)
(* (Mutant: what comes up below a next is not split again.)                *)
split_next_Once(f) ==
  CASE oper(f) \in {"Next", "WNext"} ->
         IF oper(f[2]) \in {"And", "Or"}
         THEN <<oper(f[2]), split_next(<<oper(f), f[2][2]>>),
                            split_next(<<oper(f), f[2][3]>>)>>
         ELSE <<oper(f), split_next(f[2])>>
    [] IsBinary(f) -> <<oper(f), split_next(f[2]), split_next(f[3])>>
    [] OTHER -> f
split_next(f) ==
  CASE oper(f) \in {"Next", "WNext"} ->
         IF oper(f[2]) \in {"And", "Or"}
         THEN <<oper(f[2]), split_next(<<oper(f), f[2][2]>>),
                            split_next(<<oper(f), f[2][3]>>)>>
         ELSE LET r == split_next(f[2])
              IN IF oper(r) \in {"And", "Or"} THEN split_next(<<oper(f), r>>)
                                              ELSE <<oper(f), r>>
    [] IsBinary(f) -> <<oper(f), split_next(f[2]), split_next(f[3])>>
    [] OTHER -> f

-----------------------------------------------------------------------------
(* Simplification.                                                         *)

(* The operands of a chain of op, without simplifying them (split with     *)
(* to_simplify = false, and the walks by af_now and af_next).              *)
RECURSIVE Operands(_, _)
Operands(op, f) ==
  IF oper(f) = op THEN Operands(op, f[2]) \cup Operands(op, f[3]) ELSE {f}

(* The chain x1 op (x2 op (... op xn)) of a non-empty set of operands.     *)
RECURSIVE Chain(_, _)
Chain(op, S) ==
  LET x == CHOOSE x \in S : TRUE
  IN IF S = {x} THEN x ELSE <<op, x, Chain(op, S \ {x})>>

(* mutex: some formula of S is False, or an atom and its negation are in S.*)
mutex(S) == False \in S \/ \E f \in S : oper(f) = "atom" /\ Not(f) \in S

(* contain (Left | Right | All, op, f).                                    *)
ContainLeft(g, op, f) == oper(g) = op /\ g[2] = f
(* (Mutant: either side will do.)                                          *)
ContainRight_Either(g, op, f) == oper(g) = op /\ (g[2] = f \/ g[Len(g)] = f)
ContainRight(g, op, f) == oper(g) = op /\ g[Len(g)] = f
ContainAll(g, op, f) == f \in Operands(op, g)

(* is_conflict: f and g are recognised as contradictory.  A release and a  *)
(* disjunction stand for what they need now; an until for both its sides.  *)
RECURSIVE is_conflict(_, _)
is_conflict(f, g) ==
  LET h == IF oper(f) = "Release" THEN f[3] ELSE f
      both == is_conflict(h, g[2]) /\ is_conflict(h, g[3])
      either == is_conflict(h, g[2]) \/ is_conflict(h, g[3])
      parts == Operands("And", f) \cup Operands("And", g)
  IN IF f = False \/ g = False THEN TRUE
     ELSE IF oper(g) = "Release" THEN is_conflict(h, g[3])
     ELSE IF oper(g) = "Or" /\ oper(f) # "And" THEN both
     ELSE IF oper(g) = "And" /\ oper(f) \in {"Next", "Release", "Or"} THEN either
     ELSE IF oper(g) = "And" THEN \E x, y \in parts : x # y /\ is_conflict(x, y)
     ELSE IF oper(f) \in {"Release", "Or", "And"} THEN is_conflict(g, h)
     ELSE IF oper(g) = "Until" THEN both
     ELSE IF oper(f) = "Until" THEN is_conflict(g, f)
     ELSE IF oper(f) = "Next" THEN oper(g) = "Next" /\ is_conflict(f[2], g[2])
     ELSE f = Not(g) \/ g = Not(f)

(* simplify and the operators it dispatches to.  SimplifiedOperands is     *)
(* split with to_simplify = true.                                          *)
RECURSIVE simplify(_), SimplifiedOperands(_, _)

SimplifiedOperands(op, f) ==
  IF oper(f) = op
  THEN SimplifiedOperands(op, f[2]) \cup SimplifiedOperands(op, f[3])
  ELSE LET s == simplify(f)
       IN IF oper(s) = op THEN SimplifiedOperands(op, s) ELSE {s}

simplify_next(f) == IF simplify(f) = False THEN False ELSE StrongNext(simplify(f))

(* a | !a, and a | b U (!a | ...), are True; a | b R a is a; a | b U a is  *)
(* b U a.                                                                  *)
simplify_or(l, r) ==
  LET all == SimplifiedOperands("Or", l) \cup SimplifiedOperands("Or", r)
      alts == all \ {False}
      untils == {f \in alts : oper(f) = "Until"}
      eventual == {f[3] : f \in untils}
      now == alts \cup UNION {Operands("Or", f) : f \in eventual}
      kept == {f \in alts : f \notin eventual
                            /\ ~ (oper(f) = "Release" /\ f[3] \in alts)}
  IN IF True \in alts \/ mutex(now) THEN True
     ELSE IF alts = {} THEN False ELSE Chain("Or", kept)

(* simplify_and, and simplify_and_weak for operands already simplified.    *)
simplify_and(l, r) ==
  LET all == SimplifiedOperands("And", l) \cup SimplifiedOperands("And", r)
      parts == all \ {True}
  IN IF \/ False \in parts
        \/ \E f, g \in parts : f # g /\ (is_conflict(f, g) \/ is_conflict(g, f))
     THEN False
     ELSE IF parts = {} THEN True ELSE Chain("And", parts)

simplify_until(l, r) ==
  LET ls == simplify(l)
      rs == simplify(r)
  IN IF \/ ls = False \/ rs = False \/ rs = True
        \/ ContainAll(rs, "Or", ls)             \* a U (a | ..)
        \/ ContainLeft(rs, "Until", ls)         \* a U (a U b)
        \/ ContainRight(rs, "Until", ls)        \* a U (b U a)
        \/ ContainRight(rs, "Release", ls)      \* a U (b R a)
        \/ ContainRight(ls, "Release", rs)      \* (b R a) U a
     THEN rs
     ELSE IF ContainLeft(ls, "Until", rs) THEN simplify(Until(ls[3], ls[2]))
     ELSE IF ContainRight(ls, "Until", rs) THEN ls
     ELSE IF ContainRight(ls, "Next", rs) THEN simplify(Or(ls, rs))
     ELSE IF oper(ls) = "Next" /\ oper(rs) = "Next"
          THEN simplify(StrongNext(simplify(Until(ls[2], rs[2]))))
     ELSE Until(ls, rs)

simplify_release(l, r) ==
  LET ls == simplify(l)
      rs == simplify(r)
  IN IF \/ ls = True \/ rs = False \/ rs = True
        \/ ContainAll(rs, "And", ls)            \* a R (a & ..)
        \/ ContainAll(ls, "Or", rs)             \* (a | ..) R a
        \/ ContainLeft(rs, "Release", ls)       \* a R (a R b)
        \/ ContainRight(rs, "Release", ls)      \* a R (b R a)
        \/ ContainRight(rs, "Until", ls)        \* a R (b U a)
        \/ \E f \in Operands("Or", ls) : ContainRight(f, "Until", rs)
     THEN rs
     ELSE IF ContainLeft(ls, "Release", rs) THEN simplify(Release(ls[3], ls[2]))
     ELSE IF ContainRight(ls, "Release", rs) THEN ls
     ELSE IF (ls = Not(rs) \/ rs = Not(ls))
          THEN simplify(Release(False, rs))
     ELSE Release(ls, rs)

simplify(f) ==
  CASE oper(f) = "And" -> simplify_and(f[2], f[3])
    [] oper(f) = "Or" -> simplify_or(f[2], f[3])
    [] oper(f) = "Next" -> simplify_next(f[2])
    [] oper(f) = "Until" -> simplify_until(f[2], f[3])
    [] oper(f) = "Release" -> simplify_release(f[2], f[3])
    [] OTHER -> f
=============================================================================
