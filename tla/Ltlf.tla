-------------------------------- MODULE Ltlf --------------------------------
(***************************************************************************)
(* LTLf formulas and their meaning on finite words.                        *)
(*                                                                         *)
(* A formula is a tuple whose first component is its operator, as in       *)
(* aalta_formula (_op, _left, _right): <<"True">>, <<"False">>,            *)
(* <<"atom", a>>, <<op, f>> for Not, Next (strong) and WNext (weak), and   *)
(* <<op, f, g>> for And, Or, Until and Release.  Hash-consing makes equal  *)
(* formulas equal pointers, so equality of pointers is equality of tuples. *)
(* The parser's trees (ltl_formula) use the same shape with more           *)
(* operators: Globally, Future, WUntil, Implies and Equiv, and Not before  *)
(* any formula.                                                            *)
(***************************************************************************)
EXTENDS Naturals, Sequences, FiniteSets

True == <<"True">>
False == <<"False">>
Atom(a) == <<"atom", a>>
Not(f) == <<"Not", f>>
StrongNext(f) == <<"Next", f>>
WeakNext(f) == <<"WNext", f>>
And(f, g) == <<"And", f, g>>
Or(f, g) == <<"Or", f, g>>
Until(f, g) == <<"Until", f, g>>
Release(f, g) == <<"Release", f, g>>

oper(f) == f[1]
IsUnary(f) == oper(f) \in {"Not", "Next", "WNext"}
IsBinary(f) == oper(f) \in {"And", "Or", "Until", "Release"}
IsLeaf(f) == ~ IsUnary(f) /\ ~ IsBinary(f)

(* The atom that marks the last position of a word, aalta_formula::TAIL.   *)
TAIL == Atom("Tail")

(* The meaning of a formula or a parser's tree at position i of the word   *)
(* w, a non-empty sequence of sets of atoms: the semantics of LTLf, which  *)
(* is the reference for everything in this module's users.                 *)
RECURSIVE Holds(_, _, _)
Holds(w, i, f) ==
  LET Later == i .. Len(w) IN
  CASE oper(f) = "True" -> TRUE
    [] oper(f) = "False" -> FALSE
    [] oper(f) = "atom" -> f[2] \in w[i]
    [] oper(f) = "Not" -> ~ Holds(w, i, f[2])
    [] oper(f) = "And" -> Holds(w, i, f[2]) /\ Holds(w, i, f[3])
    [] oper(f) = "Or" -> Holds(w, i, f[2]) \/ Holds(w, i, f[3])
    [] oper(f) = "Implies" -> Holds(w, i, f[2]) => Holds(w, i, f[3])
    [] oper(f) = "Equiv" -> Holds(w, i, f[2]) <=> Holds(w, i, f[3])
    [] oper(f) = "Next" -> i < Len(w) /\ Holds(w, i + 1, f[2])
    [] oper(f) = "WNext" -> i < Len(w) => Holds(w, i + 1, f[2])
    [] oper(f) = "Globally" -> \A j \in Later : Holds(w, j, f[2])
    [] oper(f) = "Future" -> \E j \in Later : Holds(w, j, f[2])
    [] oper(f) = "Until" ->
         \E j \in Later : /\ Holds(w, j, f[3])
                          /\ \A k \in i .. (j - 1) : Holds(w, k, f[2])
    [] oper(f) = "Release" ->
         \A j \in Later : \/ Holds(w, j, f[3])
                          \/ \E k \in i .. (j - 1) : Holds(w, k, f[2])
    [] oper(f) = "WUntil" ->
         \A j \in Later : \/ Holds(w, j, f[2])
                          \/ \E k \in i .. j : Holds(w, k, f[3])

(* The word that holds Tail in its last position and nowhere else.         *)
MarkEnd(w) == [w EXCEPT ![Len(w)] = @ \cup {"Tail"}]

(* All words over the atoms As of length 1 to n.                           *)
WordsUpTo(As, n) == UNION {[1 .. k -> SUBSET As] : k \in 1 .. n}

(* The subformulas of f, f among them.                                     *)
RECURSIVE Subformulas(_)
Subformulas(f) ==
  {f} \cup (IF IsUnary(f) THEN Subformulas(f[2]) ELSE {})
      \cup (IF IsBinary(f) THEN Subformulas(f[2]) \cup Subformulas(f[3]) ELSE {})
=============================================================================
