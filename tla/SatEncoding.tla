----------------------------- MODULE SatEncoding ----------------------------
(***************************************************************************)
(* The SAT encoding of a formula (solver.cpp): the constructor, and what   *)
(* the checkers ask of the solver.  A state of the search is a set of      *)
(* conjuncts, assumed true.                                                *)
(*                                                                         *)
(* The recursion of add_clauses_for is a stack of formulas still to be     *)
(* encoded.  MiniSat, external here, is its contract: the assignments that *)
(* satisfy the clauses.                                                    *)
(***************************************************************************)
EXTENDS CnfEncoding

CONSTANTS Inputs,      \* the formulas that are encoded (see CheckerForm)
          Words        \* the words, Tail among their atoms, the encoding is compared on

VARIABLES goal,           \* the formula of the constructor
          todo,           \* the calls of add_clauses_for still to be made
          clauses_added,  \* clauses_added_
          clauses,        \* the clauses given to MiniSat
          X_map,          \* the formulas g with an entry (g, X g) in X_map_
          formula_map,    \* the literals and formulas with an entry
          pc
vars == <<goal, todo, clauses_added, clauses, X_map, formula_map, pc>>

-----------------------------------------------------------------------------
(* The constructor.                                                        *)

Init ==
  /\ goal \in Inputs
  /\ todo = <<goal>>
  /\ clauses_added = {} /\ clauses = {} /\ formula_map = {}
  /\ X_map = PreliminaryXMap(goal)
  /\ pc = "encode"

(* add_clauses_for of a formula whose clauses are there already.           *)
AlreadyAdded ==
  /\ pc = "encode" /\ todo # <<>> /\ Head(todo) \in clauses_added
  /\ todo' = Tail(todo)
  /\ UNCHANGED <<goal, clauses_added, clauses, X_map, formula_map, pc>>

(* True and False have no clauses, and are not marked.                     *)
AddConstant ==
  /\ pc = "encode" /\ todo # <<>> /\ Head(todo) \in {True, False}
  /\ todo' = Tail(todo)
  /\ UNCHANGED <<goal, clauses_added, clauses, X_map, formula_map, pc>>

AddClauses ==
  /\ pc = "encode" /\ todo # <<>>
  /\ LET f == Head(todo) IN
       /\ f \notin clauses_added \cup {True, False}
       /\ clauses' = clauses \cup ClausesFor(f)
       /\ X_map' = X_map \cup IF oper(f) \in {"Until", "Release"} THEN {f} ELSE {}
       /\ formula_map' = formula_map \cup {f}
       /\ clauses_added' = clauses_added \cup {f}
       /\ todo' = Operand(f) \o Tail(todo)
  /\ UNCHANGED <<goal, pc>>

add_X_conflicts ==
  /\ pc = "encode" /\ todo = <<>>
  /\ clauses' = clauses \cup
       UNION {XConflicts(f, Not(f), X_map) : f \in {g \in formula_map : Not(g) \in formula_map}}
  /\ pc' = "ready"
  /\ UNCHANGED <<goal, todo, clauses_added, X_map, formula_map>>

Next == AlreadyAdded \/ AddConstant \/ AddClauses \/ add_X_conflicts

-----------------------------------------------------------------------------
(* Use of the encoding.                                                    *)

(* solve_by_assumption: the models that make the conjuncts of s true.      *)
(* check_tail assumes TAIL too.  (TAIL is a variable even when no clause   *)
(* names it.)                                                              *)
Assume(s) == {{SAT_id(g)} : g \in s}
SolverVariables ==
  {l.var : l \in UNION clauses} \cup {f \in formula_map : oper(f) # "Not"} \cup {TAIL}
StateModels(s) == Models(clauses \cup Assume(s), SolverVariables)

(* The same as far as a transition of s depends on them.                   *)
CoiModels(s) == Models(clauses \cup Assume(s), CoiOf(s))

(* get_transition: the label and the next state that a model of state s    *)
(* gives, shrunk to the cone of influence.  A negative value is part of    *)
(* the label when its literal occurs in the formula.                       *)
Label(m, s) ==
  {a \in CoiOf(s) \cap formula_map : oper(a) = "atom" /\ a \in m}
  \cup {Not(a) : a \in {b \in CoiOf(s) : oper(b) = "atom" /\ b \notin m /\ Not(b) \in formula_map}}
(* (Mutant: nexts of untils and releases are not looked up.)               *)
NextState_NoXMap(m, s) ==
  {x[2] : x \in {v \in CoiOf(s) \cap m : oper(v) = "Next" /\ v \in formula_map}}
NextState(m, s) ==
  {x[2] : x \in {v \in CoiOf(s) \cap m : oper(v) = "Next"
                                      /\ (v \in formula_map \/ v[2] \in X_map)}}

(* block_formula and block_uc: the clause against a next state that has    *)
(* all the conjuncts of s; none when one of them has no X.                 *)
BlockClause(s) == IF s \subseteq X_map THEN {{Flip(SAT_id_of_next(g)) : g \in s}} ELSE {}

-----------------------------------------------------------------------------
(* Properties.  The states of the search are the goal and what next states *)
(* are made of.  A word of the search is read with Tail as one of its      *)
(* atoms, and goes on after its first Tail: Rewriting!FirstTailEnds says   *)
(* that what follows is of no consequence to the goal.  Nothing is asked   *)
(* about the goals True and False: check answers them itself.              *)
States == {to_set(goal)} \cup {{g, h} : g, h \in X_map}

Fits(lits, w) ==
  \A l \in lits : IF oper(l) = "Not" THEN l[2][2] \notin w[1] ELSE l[2] \in w[1]
Satisfies(w, i, s) == \A g \in s : Holds(w, i, g)

(* A transition is sound: when the label holds now and the next state      *)
(* holds from the next position on, the state holds now.  The clauses, the *)
(* cone of influence and the extraction all have to be right; an unsound   *)
(* transition gives wrong SAT answers and words that do not satisfy.       *)
TransitionsSound ==
  pc = "ready" /\ goal \notin {True, False} =>
    \A s \in States : \A m \in StateModels(s) :
      LET label == Label(m, s)
          next == NextState(m, s)
      IN \A w \in Words : Fits(label, w) /\ Satisfies(w, 2, next) => Satisfies(w, 1, s)

(* No word is lost: for a word that satisfies a state the solver has a     *)
(* model whose atoms are its first letter and whose nexts are exactly what *)
(* holds from its second position, so that no clause against another next  *)
(* state excludes it.  A clause too many gives wrong UNSAT answers.        *)
WordsHaveModels ==
  pc = "ready" /\ goal \notin {True, False} =>
    \A s \in States :
      LET seen == {<<{x \in m : x \in formula_map /\ oper(x) = "atom"},
                     {g \in X_map : StrongNext(g) \in m}>> : m \in StateModels(s)}
      IN \A w \in Words : Satisfies(w, 1, s) =>
           <<{x \in formula_map : oper(x) = "atom" /\ x[2] \in w[1]},
             {g \in X_map : Holds(w, 2, g)}>> \in seen
=============================================================================
