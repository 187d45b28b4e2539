----------------------------- MODULE Heuristics -----------------------------
(***************************************************************************)
(* The tests a checker makes before it searches for a satisfying word.     *)
(* CARChecker: check_with_heuristics (the obligation tree, then            *)
(* partial_unsat) and the branch of car_check for global formulas.         *)
(* LTLfChecker answers for a global formula by its last letter (ofg).      *)
(***************************************************************************)
EXTENDS Olg

CONSTANTS Goals,        \* formulas given to a checker
          CheckWords    \* the words, Tail in their last letter, a verdict is compared on

VARIABLES goal,         \* to_check_
          root,         \* the obligation tree, <<>> before it is built
          test,         \* the test that is next
          verdict,      \* "none", "sat", "unsat", or "crashed"
          found         \* the letter found by olg_sat, if any
vars == <<goal, root, test, verdict, found>>

(* aalta_formula::is_global and is_wnext_free.                             *)
RECURSIVE is_global(_)
is_global(f) ==
  \/ is_globally(f)
  \/ oper(f) \in {"And", "Or"} /\ is_global(f[2]) /\ is_global(f[3])
is_wnext_free(f) == \A g \in Subformulas(f) : oper(g) # "WNext"

(* ofg: what a formula asks of a last letter.                              *)
RECURSIVE ofg(_)
ofg(f) ==
  CASE oper(f) \in {"And", "Or"} -> simplify(<<oper(f), ofg(f[2]), ofg(f[3])>>)
    [] oper(f) = "Next" -> False
    [] oper(f) = "WNext" -> True
    [] oper(f) \in {"Until", "Release"} -> simplify(ofg(f[3]))
    [] OTHER -> simplify(f)

Satisfies(f) == {w \in CheckWords : Holds(w, 1, f)}

Init ==
  /\ goal \in Goals \ {True, False}
  /\ root = <<>> /\ test = "start" /\ verdict = "none" /\ found = {}

Answer(v) == verdict' = v /\ test' = "done"
GoOn(t) == test' = t /\ UNCHANGED verdict

(* LTLfChecker::check_with_heuristics for global formulas: the answer is   *)
(* that of olg_sat, and its letter the evidence.                           *)
GlobalByLetter ==
  /\ test = "start" /\ is_global(goal)
  /\ root' = olg_formula(ofg(goal))
  /\ LET models ==
           IF root'.op \in {"True", "False"} THEN {m \in {{}} : root'.op = "True"}
           ELSE Models(toDimacs(root'), {x.id : x \in LeafSet(root')})
     IN IF models = {} THEN Answer("unsat") /\ UNCHANGED found
        ELSE Answer("sat") /\ \E m \in models : found' = {{v[2] : v \in m}}
  /\ UNCHANGED goal

(* olg_unsat: the tree is built if the formula has no weak next.  A tree   *)
(* that is one constant is answered at once.                               *)
BuildTree ==
  /\ test = "start" /\ is_wnext_free(goal)
  /\ root' = olg_formula(goal)
  /\ IF root'.op = "False" THEN Answer("unsat")
     ELSE GoOn(IF root'.op = "True" THEN "partial" ELSE "every")
  /\ UNCHANGED <<goal, found>>
SkipTree ==
  /\ test = "start" /\ ~ is_wnext_free(goal)
  /\ GoOn("partial") /\ UNCHANGED <<goal, root, found>>

(* proj takes an item with no atom for an inner node: on a constant it     *)
(* follows a null pointer.                                                 *)
Crash ==
  /\ test = "every" /\ HasConstant(root)
  /\ Answer("crashed") /\ UNCHANGED <<goal, root, found>>

(* A rule: some projection has no model, or the next rule is tried.        *)
Rule(name, projections, next) ==
  /\ test = name /\ ~ HasConstant(root)
  /\ IF \E it \in projections : ~ SATCall(it) THEN Answer("unsat") ELSE GoOn(next)
  /\ UNCHANGED <<goal, root, found>>

RuleEvery == Rule("every", EveryPosition(root), "one")
RuleOne == Rule("one", OnePosition(root), "unknown")
RuleUnknown == Rule("unknown", UnknownPosition(root), "again")
RuleAgain == Rule("again", AgainAndAgain(root), "partial")

(* extract_for_partial_unsat: a global conjunct whose disjuncts hold one   *)
(* negated atom and no atom, and that atom as another conjunct.            *)
target_atoms(g) ==
  LET alts == IF oper(g[3]) = "Or" THEN Operands("Or", g[3]) ELSE {g[3]}
      negated == {f \in alts : oper(f) = "Not"}
  IN IF oper(g) = "Release" /\ g[2] = False /\ Cardinality(negated) = 1
        /\ \A f \in alts : oper(f) # "atom"
     THEN {f[2] : f \in negated} ELSE {}
PartialGoals ==
  LET parts == to_set(goal) IN {And(f, g) : <<f, g>> \in {p \in parts \X parts : p[1] \in target_atoms(p[2])}}

(* partial_unsat: the search, taken by what it promises, on that part.     *)
PartialUnsat ==
  /\ test = "partial"
  /\ IF PartialGoals # {} /\ \E f \in PartialGoals : Satisfies(f) = {}
     THEN Answer("unsat") ELSE GoOn("search")
  /\ UNCHANGED <<goal, root, found>>

(* car_check: sat_once, and no search after it for a global formula.       *)
CarCheck ==
  /\ test = "search"
  /\ IF \E w \in Satisfies(goal) : Len(w) = 1 THEN Answer("sat")
     ELSE IF is_global(goal) THEN Answer("unsat") ELSE GoOn("done")
  /\ UNCHANGED <<goal, root, found>>

Next ==
  \/ GlobalByLetter \/ BuildTree \/ SkipTree \/ Crash
  \/ RuleEvery \/ RuleOne \/ RuleUnknown \/ RuleAgain
  \/ PartialUnsat \/ CarCheck
Spec == Init /\ [][Next]_vars

-----------------------------------------------------------------------------
(* Properties.                                                             *)

(* The tests answer rightly or not at all.  A tree forgets the left sides  *)
(* of temporal operators, and merges what is asked for somewhere, later    *)
(* and always into one number per literal; still, a projection that cannot *)
(* be satisfied refutes the formula on every word.  And a global formula   *)
(* is satisfied by some word exactly if it is by some single letter, the   *)
(* one olg_sat finds.                                                      *)
TestsSound ==
  /\ verdict = "unsat" => Satisfies(goal) = {}
  /\ verdict = "sat" => Satisfies(goal) # {}
  /\ \A letter \in found : Holds(<<letter \cup {"Tail"}>>, 1, goal)
=============================================================================
