------------------------------ MODULE DfsSearch -----------------------------
(***************************************************************************)
(* The depth-first search of ltlfchecker.cpp (LTLfChecker::check and        *)
(* dfs_check) for any encoding, as CarChecker is the search of              *)
(* carchecker.cpp.  LtlfChecker, which has formulas and clauses, implements *)
(* it.                                                                      *)
(*                                                                          *)
(* The recursion of dfs_check is the stack visited_.  MiniSat is what its   *)
(* clauses leave of the assignments; clauses are added, never removed.      *)
(***************************************************************************)
EXTENDS SatOracle

VARIABLES
  visited_,      \* the states of the pending calls, the goal first
  assignments,   \* the assignments that satisfy MiniSat's clauses
  entered,       \* whether the last state has passed sat_once
  pc             \* where check / dfs_check is

vars == <<problem, verdict, evidence, visited_, assignments, entered, pc>>

TypeOK ==
  /\ verdict \in {"unknown", "sat", "unsat"}
  /\ evidence \in Seq(SUBSET Lit)
  /\ visited_ \in Seq(SUBSET Conj)
  /\ assignments \subseteq problem.models
  /\ entered \in BOOLEAN
  /\ pc \in {"check", "search", "done"}

goal == problem.goal

(***************************************************************************)
(* A block is a clause over the nexts, whether the position is the last one *)
(* or not, so an assignment that ends a word can be lost too.  The search   *)
(* relies on words that go on with Tail for ever: what follows the end of a *)
(* word is of no consequence to the goal.  distOn[T] is the length of the   *)
(* shortest such word at whose start T holds, 0 when there is none.         *)
(* LtlfCheckerDfs checks that the encodings of the program are of this kind. *)
(***************************************************************************)
EndsAs(e, m, S) == m.tail /\ m.next = S \cap e.hasNext

GoesOn(e) ==
  /\ e.distOn \in [Truths(e) -> Nat]
  /\ \A T \in Truths(e) :
       /\ e.distOn[T] = 1 => \E m \in e.models : m.now = T /\
                               \E S \in Truths(e) : EndsAs(e, m, S) /\ e.distOn[S] = 1
       /\ e.distOn[T] > 1 => \E m \in e.models : m.now = T /\
                               \E S \in Truths(e) : FollowedBy(e, m, S) /\ e.distOn[T] = e.distOn[S] + 1
  /\ Satisfiable(e, e.goal) => \E T \in Truths(e) : e.goal \subseteq T /\ e.distOn[T] > 0

GoingOn == {e \in Problems : GoesOn(e)}

-----------------------------------------------------------------------------
Top == visited_[Len(visited_)]
DropLast(q) == SubSeq(q, 1, Len(q) - 1)

\* What MiniSat can answer when the conjuncts of s are assumed, and Tail with them.
Solutions(s) == {m \in assignments : s \subseteq m.now}
FinalSolutions(s) == {m \in Solutions(s) : m.tail}

\* get_selected_uc: some conjuncts of s that suffice for the refutation.
Cores(s) == {c \in SUBSET s : Solutions(c) = {}}

\* The assignments a block of s leaves.
Unblocked(s) == {m \in assignments : ~ (s \subseteq m.next)}

\* get_transition: the assignment shrunk to what the state depends on.
Label(m, s) == m.lits \cap CoiLit(problem, s)
Successor(m, s) == m.next \cap CoiNext(problem, s)

-----------------------------------------------------------------------------
Begin ==
  /\ verdict = "unknown" /\ evidence = <<>>
  /\ visited_ = <<>> /\ assignments = {} /\ entered = FALSE
  /\ pc = "check"

Init == problem \in GoingOn /\ Begin

Return(v) == verdict' = v /\ pc' = "done"

\* check: the constants.
CheckTrue ==
  /\ pc = "check" /\ goal = {}
  /\ Return("sat")
  /\ evidence' = <<{}>>
  /\ UNCHANGED <<problem, visited_, assignments, entered>>

CheckFalse ==
  /\ pc = "check" /\ goal = {FF}
  /\ Return("unsat")
  /\ UNCHANGED <<problem, evidence, visited_, assignments, entered>>

\* check_with_heuristics.
HeuristicUnsat ==
  /\ pc = "check" /\ goal # {} /\ goal # {FF}
  /\ ~ Satisfiable(problem, goal)
  /\ Return("unsat")
  /\ UNCHANGED <<problem, evidence, visited_, assignments, entered>>

\* dfs_check (to_check_).
StartSearch ==
  /\ pc = "check" /\ goal # {} /\ goal # {FF}
  /\ assignments' = problem.models
  /\ visited_' = <<goal>>
  /\ pc' = "search"
  /\ UNCHANGED <<problem, verdict, evidence, entered>>

\* sat_once: the word may end in the state.
SatOnce ==
  /\ pc = "search" /\ ~ entered
  /\ \E m \in FinalSolutions(Top) : evidence' = Append(evidence, Label(m, Top))
  /\ Return("sat")
  /\ UNCHANGED <<problem, visited_, assignments, entered>>

\* It may not: the state is blocked, and its transitions are tried.
Enter ==
  /\ pc = "search" /\ ~ entered
  /\ FinalSolutions(Top) = {}
  /\ assignments' = Unblocked(Top)
  /\ entered' = TRUE
  /\ UNCHANGED <<problem, verdict, evidence, visited_, pc>>

Descend ==
  /\ pc = "search" /\ entered
  /\ \E m \in Solutions(Top) :
       /\ visited_' = Append(visited_, Successor(m, Top))
       /\ evidence' = Append(evidence, Label(m, Top))
  /\ entered' = FALSE
  /\ UNCHANGED <<problem, verdict, assignments, pc>>

Pop ==
  /\ visited_' = DropLast(visited_)
  /\ evidence' = IF evidence = <<>> THEN <<>> ELSE DropLast(evidence)

\* No transition is left: a core of the state is blocked, and the call returns.  An
\* empty core (unsat_forever_) ends all calls.
Exhausted ==
  /\ pc = "search" /\ entered /\ Solutions(Top) = {}
  /\ \E c \in Cores(Top) :
       /\ assignments' = Unblocked(c)
       /\ IF Len(visited_) = 1 \/ c = {} THEN Return("unsat") ELSE UNCHANGED <<verdict, pc>>
  /\ Pop
  /\ UNCHANGED <<problem, entered>>

\* The check has returned.
Terminated == pc = "done" /\ UNCHANGED vars

Next ==
  \/ CheckTrue \/ CheckFalse \/ HeuristicUnsat \/ StartSearch
  \/ SatOnce \/ Enter \/ Descend \/ Exhausted
  \/ Terminated

Spec == Init /\ [][Next]_vars

-----------------------------------------------------------------------------
(***************************************************************************)
(* Properties.                                                              *)
(***************************************************************************)
\* The answer is right, and with sat come labels any completion of which satisfies
\* the formula.
VerdictSound ==
  /\ verdict = "sat" => Witnesses(problem, evidence, goal)
  /\ verdict = "unsat" => ~ Satisfiable(problem, goal)

\* The states whose blocking is on credit: they are blocked, but not refuted yet.
Open == {i \in 1 .. Len(visited_) : i < Len(visited_) \/ entered}

\* Blocks cost no word: when a next position with a word is blocked, some open state
\* has a word that is no longer, so that what is lost here is found there.  Blocks are
\* never removed, also those of states that were open then and of cores found
\* under them.
BlocksOnCredit ==
  pc = "search" =>
    \A m \in problem.models \ assignments : \A S \in Truths(problem) :
      m.next = S \cap problem.hasNext /\ problem.distOn[S] > 0 =>
        \E i \in Open : \E T \in Truths(problem) :
          visited_[i] \subseteq T /\ problem.distOn[T] \in 1 .. problem.distOn[S]

\* No state is opened inside a state that asks no more.
NoStateTwice ==
  \A i, j \in 1 .. Len(visited_) : i < j => ~ (visited_[i] \subseteq visited_[j])
=============================================================================
