----------------------------- MODULE LtlfChecker ----------------------------
(***************************************************************************)
(* LTLfChecker: the depth-first search for a satisfying word               *)
(* (ltlfchecker.cpp), on top of the clauses of SatEncoding.  It is the     *)
(* base class of CARChecker, which replaces the search by its own.         *)
(*                                                                         *)
(* The recursion of dfs_check is the stack visited_.  A state on the stack *)
(* and every refuted part of a state are blocked as next states, by        *)
(* clauses that are never removed.  MiniSat is kept as the assignments     *)
(* that satisfy all its clauses; it may return any of them, and any unsat  *)
(* core.                                                                   *)
(***************************************************************************)
EXTENDS SatEncoding

CONSTANTS CheckWords,   \* the words, Tail in their last letter, a verdict is compared on
          MaxDepth      \* bound on the stack; Termination shows that it is not met

VARIABLES visited_,        \* the stack: states, as sets of conjuncts
          assignments,     \* MiniSat: what satisfies the clauses it was given
          entered,         \* whether the top state has passed sat_once
          evidence_,       \* the labels pushed so far
          result           \* "none", "sat" or "unsat"
search == <<visited_, assignments, entered, evidence_, result>>
encoding == <<goal, todo, clauses_added, clauses, X_map, formula_map>>
allVars == <<encoding, pc, search>>

Top == visited_[Len(visited_)]
DropLast(q) == SubSeq(q, 1, Len(q) - 1)

(* aalta_formula::is_global and LTLfChecker::contain_global.               *)
RECURSIVE is_global(_)
is_global(f) ==
  \/ oper(f) = "Release" /\ f[2] = False
  \/ oper(f) \in {"And", "Or"} /\ is_global(f[2]) /\ is_global(f[3])

(* aalta_formula::is_wnext_free.                                           *)
is_wnext_free(f) == \A g \in Subformulas(f) : oper(g) # "WNext"

Satisfiable == \E w \in CheckWords : Holds(w, 1, goal)

CheckerInit ==
  /\ Init
  /\ visited_ = <<>> /\ assignments = {} /\ entered = FALSE /\ evidence_ = <<>>
  /\ result = "none"

Encode == Next /\ UNCHANGED search

(* What MiniSat can answer under the assumption of the formulas A, as far  *)
(* as the variables V go, and the assignments a clause leaves.             *)
IsTrue(l, m) == (l.var \in m) = l.sign
Solutions(A) == {m \in assignments : \A g \in A : IsTrue(SAT_id(g), m)}
Transitions(A) == {m \cap CoiOf(A) : m \in Solutions(A)}
Block(s) ==
  {m \in assignments : \A c \in BlockClause(s) : \E l \in c : IsTrue(l, m)}

Return(answer) ==
  /\ result' = answer /\ pc' = "done"
  /\ UNCHANGED <<encoding, assignments, entered>>

(* check: the constants.                                                   *)
CheckConstant ==
  /\ pc = "ready" /\ goal \in {True, False}
  /\ evidence_' = IF goal = True THEN <<{}>> ELSE <<>>
  /\ Return(IF goal = True THEN "sat" ELSE "unsat")
  /\ UNCHANGED visited_

(* dfs_check (to_check_), after the heuristics.                            *)
StartSearch ==
  /\ pc = "ready" /\ goal \notin {True, False} /\ ~ is_global(goal)
  /\ assignments' = Models(clauses, SolverVariables)
  /\ visited_' = <<to_set(goal)>>
  /\ pc' = "search"
  /\ UNCHANGED <<encoding, entered, evidence_, result>>

(* check_with_heuristics, by the contract of olg_unsat.                    *)
OlgUnsat ==
  /\ pc = "ready" /\ goal \notin {True, False} /\ ~ is_global(goal)
  /\ is_wnext_free(goal) /\ ~ Satisfiable
  /\ Return("unsat")
  /\ UNCHANGED <<visited_, evidence_>>

(* sat_once (f): the state can be the last position.                       *)
SatOnce ==
  /\ pc = "search" /\ ~ entered
  /\ \E m \in Transitions(Top \cup {TAIL}) :
       evidence_' = Append(evidence_, Label(m, Top \cup {TAIL}))
  /\ Return("sat")
  /\ UNCHANGED visited_

(* Otherwise the state is blocked, and its transitions are tried.          *)
(* (Mutant: the state is not blocked.)                                     *)
Enter_Unblocked ==
  /\ pc = "search" /\ ~ entered
  /\ Solutions(Top \cup {TAIL}) = {}
  /\ entered' = TRUE
  /\ UNCHANGED <<encoding, pc, visited_, assignments, evidence_, result>>
Enter ==
  /\ pc = "search" /\ ~ entered
  /\ Solutions(Top \cup {TAIL}) = {}
  /\ entered' = TRUE
  /\ assignments' = Block(Top)
  /\ UNCHANGED <<encoding, pc, visited_, evidence_, result>>

Transition ==
  /\ pc = "search" /\ entered /\ Len(visited_) < MaxDepth
  /\ \E m \in Transitions(Top) :
       /\ evidence_' = Append(evidence_, Label(m, Top))
       /\ visited_' = Append(visited_, NextState(m, Top) \ {True})
  /\ entered' = FALSE
  /\ UNCHANGED <<encoding, pc, assignments, result>>

(* No transition is left: a core of the state is blocked, and the caller   *)
(* takes its label back.  An empty core (unsat_forever_) ends all calls.   *)
(* (Mutant: any conjuncts of the state.)                                   *)
Cores_Any == SUBSET Top
Cores == {c \in SUBSET Top : Solutions(c) = {}}

(* (Mutant: the label stays.)                                              *)
Pop_KeepsLabel ==
  /\ visited_' = DropLast(visited_)
  /\ UNCHANGED evidence_
Pop ==
  /\ visited_' = DropLast(visited_)
  /\ evidence_' = IF evidence_ = <<>> THEN <<>> ELSE DropLast(evidence_)

Exhausted ==
  /\ pc = "search" /\ entered /\ Solutions(Top) = {}
  /\ \E c \in Cores :
       /\ assignments' = Block(c)
       /\ IF Len(visited_) = 1 \/ c = {} THEN result' = "unsat" /\ pc' = "done"
                                        ELSE UNCHANGED <<result, pc>>
  /\ Pop
  /\ UNCHANGED <<encoding, entered>>

CheckerNext ==
  \/ Encode \/ CheckConstant \/ OlgUnsat \/ StartSearch
  \/ SatOnce \/ Enter \/ Transition \/ Exhausted

-----------------------------------------------------------------------------
(* Properties.                                                             *)

FitsWord(labels, w) == \A i \in 1 .. Len(labels) : Fits(labels[i], SubSeq(w, i, i))

(* The verdict is right, although the search blocks states that are still  *)
(* open and parts of states it has never seen: sat comes with labels every *)
(* word of which satisfies the formula, and after unsat no word does.      *)
DfsCheckSound ==
  /\ result = "sat" =>
       \A w \in CheckWords :
         Len(w) = Len(evidence_) /\ FitsWord(evidence_, w) => Holds(w, 1, goal)
  /\ result = "unsat" => ~ Satisfiable

(* The search ends.                                                        *)
Termination == <>(result # "none")
=============================================================================
