--------------------------- MODULE LtlfCheckerDfs ---------------------------
(***************************************************************************)
(* LtlfChecker implements DfsSearch: on the clauses of a formula, its      *)
(* search is the search that DfsSearch describes for any encoding.  An     *)
(* auxiliary variable holds the encoding that the constructor builds; no   *)
(* step of the checker depends on it.                                      *)
(***************************************************************************)
EXTENDS LtlfChecker, Encodings

VARIABLE problem         \* the encoding of the formula, as SatOracle sees it

InputConjuncts == {False} \cup UNION {Conjuncts(g) : g \in Inputs}
InputLiterals == UNION {LiteralsOf(g) : g \in Inputs}

EncodedInit == CheckerInit /\ problem = ProblemOf(goal, InputConjuncts)
EncodedNext == CheckerNext /\ UNCHANGED problem
(* One thread: the checker runs on until it returns.                       *)
EncodedSpec ==
  EncodedInit /\ [][EncodedNext]_<<allVars, problem>> /\ WF_<<allVars, problem>>(EncodedNext)

-----------------------------------------------------------------------------
(* What DfsSearch sees: the assignments without the variables of           *)
(* subformulas, the labels without Tail, and no constructor.               *)

SeenAssignments ==
  UNION {{Seen(m, L, C, problem.hasNext) : m \in assignments} :
           L \in {LiteralsOf(goal)}, C \in {Conjuncts(goal)}}

Dfs == INSTANCE DfsSearch
         WITH Conj <- InputConjuncts, Lit <- InputLiterals, FF <- False,
              Problems <- {ProblemOf(g, InputConjuncts) : g \in Inputs},
              verdict <- IF result = "none" THEN "unknown" ELSE result,
              evidence <- [i \in DOMAIN evidence_ |-> evidence_[i] \ {TAIL, Not(TAIL)}],
              assignments <- SeenAssignments,
              pc <- IF pc \in {"encode", "ready"} THEN "check" ELSE pc

(* The clauses of the constructor are those of the encoding, and it is as  *)
(* the proofs about CarChecker and DfsSearch assume: the words are runs of *)
(* its assignments, what a conjunct does not depend on is free, and a word *)
(* of the formula can go on with Tail.                                     *)
EncodingAsAssumed ==
  pc = "ready" =>
    /\ clauses = ClausesOf(goal) /\ X_map = XMapOf(goal)
    /\ Dfs!WellFormed(problem) /\ Dfs!GoesOn(problem)

(* Every step of the checker is one of DfsSearch or leaves what it sees    *)
(* alone.  (Dfs!Spec, without problem \in GoingOn, which EncodingAsAssumed *)
(* shows.)                                                                 *)
ImplementsDfs == Dfs!Begin /\ [][Dfs!Next]_Dfs!vars
=============================================================================
