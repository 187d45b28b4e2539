----------------------------- MODULE Translation ----------------------------
(***************************************************************************)
(* The translations of LTLf beside the synthesis: into LTL (ltlf2ltl.cpp,  *)
(* ltl2smvspec.cpp, aalta_formula::ltlf2ltl) and into transition systems   *)
(* of the model checker SMV (ltlf2smv.cpp, aalta_formula::cosafety2smv).   *)
(* They share the normal forms of utility.cpp.                             *)
(*                                                                         *)
(* Abstracted: the text.  A formula or an expression of the result is a    *)
(* tree; a variable of the SMV text is <<"var", f>> for the formula f it   *)
(* stands for, so the tables from formulas to variables are left out.      *)
(***************************************************************************)
EXTENDS Formula

Globally(f) == <<"Globally", f>>
Future(f) == <<"Future", f>>

-----------------------------------------------------------------------------
(* utility.cpp: trees with Not, Or, Next, Future and Until only (bnf), and *)
(* with Not before atoms only (nnf).  Weak next has no bnf.                *)

Negated(t) == IF oper(t) = "Not" THEN t[2] ELSE Not(t)
BothWays(t) == And(<<"Implies", t[2], t[3]>>, <<"Implies", t[3], t[2]>>)

RECURSIVE bnf(_)
(* (Mutant: a negation on the left of a release is kept.)                  *)
bnf_ReleaseLeft(t) ==
  LET l == bnf(t[2])
      r == bnf(t[3])
  IN CASE oper(t) = "Not" -> Negated(l)
       [] oper(t) \in {"Next", "Future"} -> <<oper(t), l>>
       [] oper(t) = "Globally" -> Not(Future(Negated(l)))
       [] oper(t) \in {"Until", "Or"} -> <<oper(t), l, r>>
       [] oper(t) = "Release" -> Not(Until(l, Negated(r)))
       [] oper(t) = "And" -> Not(Or(Negated(l), Negated(r)))
       [] oper(t) = "Implies" -> bnf(Or(Not(t[2]), t[3]))
       [] oper(t) = "Equiv" -> bnf(BothWays(t))
       [] OTHER -> t
bnf(t) ==
  LET l == bnf(t[2])
      r == bnf(t[3])
  IN CASE oper(t) = "Not" -> Negated(l)
       [] oper(t) \in {"Next", "Future"} -> <<oper(t), l>>
       [] oper(t) = "Globally" -> Not(Future(Negated(l)))
       [] oper(t) \in {"Until", "Or"} -> <<oper(t), l, r>>
       [] oper(t) = "Release" -> Not(Until(Negated(l), Negated(r)))
       [] oper(t) = "And" -> Not(Or(Negated(l), Negated(r)))
       [] oper(t) = "Implies" -> bnf(Or(Not(t[2]), t[3]))
       [] oper(t) = "Equiv" -> bnf(BothWays(t))
       [] OTHER -> t

(* tree_nnf_not gives a negated release the type Future, which has one     *)
(* operand: the left one is lost when the tree is read.                    *)
RECURSIVE tree_nnf(_), tree_nnf_not(_)
tree_nnf(t) ==
  LET l == tree_nnf(t[2])
  IN CASE oper(t) = "Not" -> tree_nnf_not(t[2])
       [] oper(t) \in {"Next", "Globally", "Future"} -> <<oper(t), l>>
       [] IsBinary(t) -> <<oper(t), l, tree_nnf(t[3])>>
       [] oper(t) = "Implies" -> tree_nnf(Or(Not(t[2]), t[3]))
       [] oper(t) = "Equiv" -> tree_nnf(BothWays(t))
       [] OTHER -> t
tree_nnf_not(t) ==
  LET l == tree_nnf_not(t[2])
      r == tree_nnf_not(t[3])
  IN CASE oper(t) = "True" -> False
       [] oper(t) = "False" -> True
       [] oper(t) = "Not" -> tree_nnf(t[2])
       [] oper(t) \in {"Next", "WNext"} -> <<DualOp(oper(t)), l>>
       [] oper(t) = "Globally" -> Future(l)
       [] oper(t) = "Future" -> Globally(l)
       [] oper(t) \in {"And", "Or", "Until"} -> <<DualOp(oper(t)), l, r>>
       [] oper(t) = "Release" -> Future(r)
       [] oper(t) = "Implies" -> tree_nnf_not(Or(Not(t[2]), t[3]))
       [] oper(t) = "Equiv" -> tree_nnf_not(BothWays(t))
       [] OTHER -> Not(t)

-----------------------------------------------------------------------------
(* Into LTL over infinite words.  Tail holds for ever after the end of the *)
(* finite word (ltlf2ltl.cpp), or exactly before it (aalta_formula).       *)

RECURSIVE ltlf2ltl(_)
ltlf2ltl(t) ==
  LET l == ltlf2ltl(t[2])
      r == ltlf2ltl(t[3])
  IN CASE oper(t) = "Not" -> Not(l)
       [] oper(t) \in {"Next", "Future"} -> <<oper(t), And(Not(TAIL), l)>>
       [] oper(t) = "Globally" -> Globally(Or(TAIL, l))
       [] oper(t) = "Until" -> Until(l, And(Not(TAIL), r))
       [] oper(t) = "Release" -> Release(l, Or(TAIL, r))
       [] oper(t) \in {"And", "Or", "Implies", "Equiv"} -> <<oper(t), l, r>>
       [] OTHER -> t

EndsOnce == And(Not(TAIL), Until(Not(TAIL), Globally(TAIL)))
ltlf2ltl_main(t) == And(ltlf2ltl(t), EndsOnce)

(* The specification whose counterexamples are the models of the formula.  *)
ltl2smvspec(t) == Not(And(ltlf2ltl(t), EndsOnce))

RECURSIVE ltlf2ltlTranslate(_)
ltlf2ltlTranslate(f) ==
  LET r == ltlf2ltlTranslate(f[3])
  IN CASE oper(f) \in {"And", "Or"} -> <<oper(f), ltlf2ltlTranslate(f[2]), r>>
       [] oper(f) = "Next" -> StrongNext(And(TAIL, ltlf2ltlTranslate(f[2])))
       [] oper(f) = "Until" -> Until(f[2], And(TAIL, r))
       [] oper(f) = "Release" -> Release(f[2], Or(Not(TAIL), r))
       [] OTHER -> f
af_ltlf2ltl(f) ==
  And(ltlf2ltlTranslate(f), And(TAIL, Until(TAIL, Globally(Not(TAIL)))))

-----------------------------------------------------------------------------
(* Into SMV: a variable for each next, a definition for each other         *)
(* temporal operator by its expansion.                                     *)

get_var(t) == <<"var", t>>

RECURSIVE get_expr(_)
get_expr(t) ==
  CASE oper(t) = "Not" -> Not(get_expr(t[2]))
    [] oper(t) \in {"And", "Or"} -> <<oper(t), get_expr(t[2]), get_expr(t[3])>>
    [] oper(t) \in {"True", "False", "atom"} -> t
    [] OTHER -> get_var(t)

(* The temporal parts ltlf2trans gets to; a negation is passed in bnf.     *)
IsExpanded(t) == oper(t) \in {"Future", "Globally", "Until", "Release"}
RECURSIVE Temporal(_, _)
Temporal(t, nf) ==
  (IF IsExpanded(t) \/ oper(t) \in {"Next", "WNext"} THEN {t} ELSE {})
  \cup (CASE oper(t) \in {"Next", "WNext", "Future", "Globally"} -> Temporal(t[2], nf)
          [] IsBinary(t) -> Temporal(t[2], nf) \cup Temporal(t[3], nf)
          [] oper(t) = "Not" /\ nf = "BNF" -> Temporal(t[2], nf)
          [] OTHER -> {})

Unfolding(t) ==
  LET l == get_expr(t[2])
      r == get_expr(t[3])
      later == get_var(StrongNext(t))
  IN CASE oper(t) = "Future" -> Or(l, later)
       [] oper(t) = "Globally" -> And(l, Or(TAIL, later))
       [] oper(t) = "Until" -> Or(r, And(l, later))
       [] oper(t) = "Release" -> And(r, Or(l, Or(TAIL, later)))

(* defines: pairs of a variable and its definition; trans: pairs of a      *)
(* variable and what it says of the next state.                            *)
ltlf2trans(t, nf) ==
  LET parts == Temporal(t, nf)
      expanded == {g \in parts : IsExpanded(g)}
  IN [defines |-> {<<get_var(g), Unfolding(g)>> : g \in expanded},
      trans |-> {<<get_var(g), get_expr(g[2])>> : g \in parts \ expanded}
                \cup {<<get_var(StrongNext(g)), get_var(g)>> : g \in expanded}]

ltlf2smv(t, nf, encode) ==
  LET rules == ltlf2trans(t, nf)
  IN [init |-> get_expr(t), defines |-> rules.defines, trans |-> rules.trans, encode |-> encode]

-----------------------------------------------------------------------------
(* cosafety2smv reads the word from its end: next refers to the letter     *)
(* before.  The INIT it writes leaves the first state open.                *)

RECURSIVE is_cosafety(_)
is_cosafety(f) ==
  CASE oper(f) = "Release" -> FALSE
    [] oper(f) = "Next" -> is_cosafety(f[2])
    [] oper(f) \in {"Until", "And", "Or"} -> is_cosafety(f[2]) /\ is_cosafety(f[3])
    [] OTHER -> TRUE

CosafetyVars(f) == {g \in Subformulas(f) : oper(g) \in {"Next", "Until", "And", "Or"}}

(* The TRANS constraint of g between the state s and the next state t; a   *)
(* state is the set of the subformulas that are true.                      *)
cosafety2smv(g, s, t) ==
  CASE oper(g) = "Next" -> g \in t <=> g[2] \in s
    [] oper(g) = "Until" -> g \in t <=> (g[3] \in t \/ (g[2] \in t /\ g \in s))
    [] oper(g) = "And" -> g \in s <=> (g[2] \in s /\ g[3] \in s)
    [] oper(g) = "Or" -> g \in s <=> (g[2] \in s \/ g[3] \in s)

-----------------------------------------------------------------------------
(* Reading the results.                                                    *)

(* LTL at position i of the infinite word that repeats the last letter of  *)
(* w for ever.                                                             *)
RECURSIVE HoldsForever(_, _, _)
HoldsForever(w, i, f) ==
  LET Later == i .. Len(w) IN
  CASE oper(f) = "Not" -> ~ HoldsForever(w, i, f[2])
    [] oper(f) = "And" -> HoldsForever(w, i, f[2]) /\ HoldsForever(w, i, f[3])
    [] oper(f) = "Or" -> HoldsForever(w, i, f[2]) \/ HoldsForever(w, i, f[3])
    [] oper(f) = "Implies" -> HoldsForever(w, i, f[2]) => HoldsForever(w, i, f[3])
    [] oper(f) = "Equiv" -> HoldsForever(w, i, f[2]) <=> HoldsForever(w, i, f[3])
    [] oper(f) = "Next" -> HoldsForever(w, IF i = Len(w) THEN i ELSE i + 1, f[2])
    [] oper(f) = "Globally" -> \A j \in Later : HoldsForever(w, j, f[2])
    [] oper(f) = "Future" -> \E j \in Later : HoldsForever(w, j, f[2])
    [] oper(f) = "Until" ->
         \E j \in Later : /\ HoldsForever(w, j, f[3])
                          /\ \A k \in i .. (j - 1) : HoldsForever(w, k, f[2])
    [] oper(f) = "Release" ->
         \A j \in Later : \/ HoldsForever(w, j, f[3])
                          \/ \E k \in i .. (j - 1) : HoldsForever(w, k, f[2])
    [] OTHER -> Holds(w, i, f)

(* A word with the marked letters, followed by the letter after for ever.  *)
MarkAlive(w) == [i \in 1 .. Len(w) |-> w[i] \cup {"Tail"}]
Forever(w, after) == Append(w, after)

(* The value of an expression in a state of smv: the set of the atoms and  *)
(* the variables that are true.                                            *)
RECURSIVE Value(_, _, _)
Value(smv, e, s) ==
  CASE oper(e) = "Not" -> ~ Value(smv, e[2], s)
    [] oper(e) = "And" -> Value(smv, e[2], s) /\ Value(smv, e[3], s)
    [] oper(e) = "Or" -> Value(smv, e[2], s) \/ Value(smv, e[3], s)
    [] oper(e) = "True" -> TRUE
    [] oper(e) = "var" /\ (\E d \in smv.defines : d[1] = e) ->
         Value(smv, (CHOOSE d \in smv.defines : d[1] = e)[2], s)
    [] OTHER -> e \in s

States(smv, letter) ==
  {{Atom(a) : a \in letter} \cup V : V \in SUBSET {r[1] : r \in smv.trans}}
Trans(smv, s, t) ==
  \A r \in smv.trans :
    LET next == TAIL \notin s /\ Value(smv, r[2], t)
    IN IF smv.encode = "fussy" THEN r[1] \in s <=> next ELSE r[1] \in s => next

(* The states at position i of a run over the word w, whose last letter    *)
(* has Tail: a counterexample to G !Tail.                                  *)
RECURSIVE RunStates(_, _, _)
RunStates(smv, w, i) ==
  IF i = Len(w) THEN {s \in States(smv, w[i]) : Trans(smv, s, s)}
  ELSE LET later == RunStates(smv, w, i + 1)
       IN {s \in States(smv, w[i]) : \E t \in later : Trans(smv, s, t)}
HasRun(smv, w) == \E s \in RunStates(smv, w, 1) : Value(smv, smv.init, s)
=============================================================================
