----------------------------- MODULE CnfEncoding ----------------------------
(***************************************************************************)
(* The clauses of the SAT encoding (solver.cpp) and its operators, without *)
(* the solver's state.  The solver's variables are the ids of hash-consed  *)
(* formulas, one id for each formula, so here a variable is a formula.     *)
(* Atoms and nexts are free; an until, a release, a conjunction and a      *)
(* disjunction are defined by their expansions.                            *)
(***************************************************************************)
EXTENDS Formula

-----------------------------------------------------------------------------
(* Literals and clauses.                                                   *)

Pos(v) == [var |-> v, sign |-> TRUE]
Neg(v) == [var |-> v, sign |-> FALSE]
Flip(l) == [l EXCEPT !.sign = ~ @]

(* SAT_id: !a is the negative literal of a.                                *)
SAT_id(f) == IF oper(f) = "Not" THEN Neg(f[2]) ELSE Pos(f)
SAT_id_of_next(f) == Pos(StrongNext(f))

(* l <-> the conjunction of ls.                                            *)
(* (Mutant: the last clause loses its signs.)                              *)
add_equivalence_SignLost(l, ls) ==
  {{Flip(l), x} : x \in ls} \cup {{l} \cup ls}
add_equivalence(l, ls) ==
  {{Flip(l), x} : x \in ls} \cup {{l} \cup {Flip(x) : x \in ls}}

(* What an until or a release asks of its left side and the next position. *)
Step(f) ==
  IF oper(f) = "Until" THEN And(f[2], StrongNext(f)) ELSE Or(f[2], StrongNext(f))

(* The clauses of add_clauses_for for the formula f itself.                *)
ClausesFor(f) ==
  LET step == Step(f)
  IN CASE oper(f) = "Until" ->
            add_equivalence(Neg(f), {Flip(SAT_id(f[3])), Neg(step)})
            \cup add_equivalence(Pos(step), {SAT_id(f[2]), SAT_id_of_next(f)})
            \cup {{Neg(f[3]), Pos(f)}, {Neg(StrongNext(f[3])), SAT_id_of_next(f)}}
       [] oper(f) = "Release" ->
            add_equivalence(Pos(f), {SAT_id(f[3]), Pos(step)})
            \cup add_equivalence(Neg(step), {Flip(SAT_id(f[2])), Flip(SAT_id_of_next(f))})
       [] oper(f) = "And" -> add_equivalence(Pos(f), {SAT_id(f[2]), SAT_id(f[3])})
       [] oper(f) = "Or" ->
            add_equivalence(Neg(f), {Flip(SAT_id(f[2])), Flip(SAT_id(f[3]))})
       [] OTHER -> {}

Operand(f) ==
  IF IsUnary(f) THEN <<f[2]>> ELSE IF IsBinary(f) THEN <<f[2], f[3]>> ELSE <<>>

(* build_X_map_priliminary: the operands of the nexts of f.                *)
PreliminaryXMap(f) == {g[2] : g \in {h \in Subformulas(f) : oper(h) = "Next"}}

(* add_X_conflict_for_pair: X a <-> !X !a, X X a <-> !X X !a and so on.    *)
RECURSIVE XConflicts(_, _, _)
XConflicts(f, g, X_map) ==
  IF {f, g} \subseteq X_map
  THEN add_equivalence(SAT_id_of_next(f), {Flip(SAT_id_of_next(g))})
       \cup XConflicts(StrongNext(f), StrongNext(g), X_map)
  ELSE {}

-----------------------------------------------------------------------------
(* States, models and cones of influence.                                  *)

(* The conjuncts of a state.                                               *)
to_set(f) == Operands("And", f) \ {True}

(* The clauses C once the literals L are true; the literals that stand     *)
(* alone in a clause.                                                      *)
Given(C, L) ==
  LET false == {Flip(l) : l \in L} IN {c \ false : c \in {d \in C : d \cap L = {}}}
Units(C) == UNION {c \in C : Cardinality(c) = 1}
Clash(C) == {} \in C \/ \E l \in Units(C) : Flip(l) \in Units(C)

RECURSIVE IsSatisfiable(_)
IsSatisfiable(C) ==
  LET With(L) == \E rest \in {Given(C, L)} : IsSatisfiable(rest)
      l == CHOOSE x \in CHOOSE c \in C : TRUE : TRUE
  IN CASE C = {} -> TRUE
       [] C # {} /\ Clash(C) -> FALSE
       [] C # {} /\ ~ Clash(C) ->
            IF Units(C) # {} THEN With(Units(C)) ELSE With({l}) \/ With({Flip(l)})

(* The assignments of the variables V that can be extended to one that     *)
(* satisfies the clauses C, each the set of its true variables.            *)
RECURSIVE Models(_, _)
Models(C, V) ==
  LET With(L) ==
        {m \cup ({l.var : l \in {k \in L : k.sign}} \cap V) :
           m \in UNION {Models(rest, free) : rest \in {Given(C, L)}, free \in {V \ {l.var : l \in L}}}}
      v == CHOOSE x \in V : TRUE
  IN CASE Clash(C) -> {}
       [] ~ Clash(C) /\ Units(C) # {} -> With(Units(C))
       [] ~ Clash(C) /\ Units(C) = {} ->
            IF V = {} THEN {m \in {{}} : IsSatisfiable(C)}
            ELSE With({Pos(v)}) \cup With({Neg(v)})

(* compute_full_coi: the atoms and nexts that a formula depends on at the  *)
(* present position.                                                       *)
RECURSIVE Coi(_)
(* (Mutant: the left side of a temporal operator is forgotten.)            *)
Coi_RightOnly(f) ==
  CASE oper(f) = "Not" -> Coi(f[2])
    [] oper(f) \in {"Until", "Release"} -> {StrongNext(f)} \cup Coi(f[3])
    [] oper(f) \in {"And", "Or"} -> Coi(f[2]) \cup Coi(f[3])
    [] OTHER -> {f}
Coi(f) ==
  CASE oper(f) = "Not" -> Coi(f[2])
    [] oper(f) \in {"Until", "Release"} -> {StrongNext(f)} \cup Coi(f[2]) \cup Coi(f[3])
    [] oper(f) \in {"And", "Or"} -> Coi(f[2]) \cup Coi(f[3])
    [] OTHER -> {f}
CoiOf(s) == UNION {Coi(g) : g \in s}
=============================================================================
