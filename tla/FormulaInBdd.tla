---------------------------- MODULE FormulaInBdd ----------------------------
(***************************************************************************)
(* Identity of states (formula_in_bdd.cpp).  Every atom and every temporal *)
(* subformula of the source formula is a BDD variable; a state is the      *)
(* Boolean function of these variables that its formula denotes.  CUDD is  *)
(* external: its nodes are canonical, so a node is modelled by the set of  *)
(* the assignments (sets of true variables) its function holds on.         *)
(* Only the branch is_xnf = false is modelled, the one is_realizable calls.*)
(***************************************************************************)
EXTENDS Formula

(* CreatedMap4AaltaP2BddP: the keys of aaltaP_to_bddP_.                    *)
RECURSIVE CreatedMap(_)
CreatedMap(af) ==
  CASE oper(af) \in {"True", "False"} -> {}
    [] oper(af) \in {"And", "Or"} -> CreatedMap(af[2]) \cup CreatedMap(af[3])
    [] oper(af) = "Not" -> CreatedMap(af[2])
    [] oper(af) \in {"Next", "WNext"} -> {af} \cup CreatedMap(af[2])
    [] oper(af) \in {"Until", "Release"} ->
         {af} \cup CreatedMap(af[2]) \cup CreatedMap(af[3])
    [] OTHER -> {af}

(* The keys ConstructBdd looks up with operator[]; one that is not in the  *)
(* map would be inserted with a null node.                                 *)
RECURSIVE Lookups(_)
Lookups(af) ==
  CASE oper(af) \in {"True", "False"} -> {}
    [] oper(af) \in {"And", "Or"} -> Lookups(af[2]) \cup Lookups(af[3])
    [] oper(af) = "Not" -> Lookups(af[2])
    [] OTHER -> {af}

(* ConstructBdd: the value of the node of af under an assignment.          *)
RECURSIVE Evaluates(_, _)
Evaluates(af, ones) ==
  CASE af = True -> TRUE
    [] af = False -> FALSE
    [] oper(af) = "And" -> Evaluates(af[2], ones) /\ Evaluates(af[3], ones)
    [] oper(af) = "Or" -> Evaluates(af[2], ones) \/ Evaluates(af[3], ones)
    [] oper(af) = "Not" -> ~ Evaluates(af[2], ones)
    [] OTHER -> af \in ones

(* Implies: f1 /\ ~ f2 is the constant false.                              *)
(* (Mutant: the wrong way round.)                                          *)
Implies_Backwards(f1, f2, keys) ==
  \A ones \in SUBSET keys : Evaluates(f2, ones) => Evaluates(f1, ones)
Implies(f1, f2, keys) ==
  \A ones \in SUBSET keys : Evaluates(f1, ones) => Evaluates(f2, ones)

(* Equality of nodes.                                                      *)
SameNode(f1, f2, keys) == Implies(f1, f2, keys) /\ Implies(f2, f1, keys)
=============================================================================
