------------------------------ MODULE Encodings -----------------------------
(***************************************************************************)
(* The encoding of a formula as SatOracle sees it: the satisfying          *)
(* assignments of its clauses, as far as the checkers look at them, and    *)
(* the lengths of its shortest words.                                      *)
(***************************************************************************)
EXTENDS CnfEncoding

LOCAL Seqs == INSTANCE SequencesExt

-----------------------------------------------------------------------------
(* What the constructor of Solver builds for the formula g.                *)

RECURSIVE EncodedFrom(_, _)
EncodedFrom(todo, done) ==
  IF todo = {} THEN done
  ELSE LET operands == UNION {{Operand(f)[i] : i \in DOMAIN Operand(f)} : f \in todo}
       IN EncodedFrom(operands \ (done \cup todo \cup {True, False}), done \cup todo)

EncodedFormulas(g) == EncodedFrom({g} \ {True, False}, {})

XMapOf(g) ==
  PreliminaryXMap(g) \cup {f \in EncodedFormulas(g) : oper(f) \in {"Until", "Release"}}

ClausesOf(g) ==
  LET F == EncodedFormulas(g) IN
  UNION {ClausesFor(f) : f \in F}
  \cup UNION {XConflicts(f, Not(f), XMapOf(g)) : f \in {h \in F : Not(h) \in F}}

VariablesOf(g) ==
  {l.var : l \in UNION ClausesOf(g)}
  \cup {f \in EncodedFormulas(g) : oper(f) # "Not"} \cup {TAIL}

-----------------------------------------------------------------------------
(* The conjuncts of the states of the search, the conjuncts with an X, and *)
(* the literals; True asks nothing, and Tail is a value of its own.        *)

NextConjuncts(g) == XMapOf(g) \ {True}
Conjuncts(g) == to_set(g) \cup NextConjuncts(g)
LiteralsOf(g) ==
  {f \in EncodedFormulas(g) : oper(f) \in {"atom", "Not"}} \ {TAIL, Not(TAIL)}

(* What the checkers see of the assignment that makes exactly the          *)
(* variables of m true: literals of L, conjuncts of C and nexts of X.      *)
Makes(m, f) == (SAT_id(f).var \in m) = SAT_id(f).sign
Seen(m, L, C, X) ==
  [lits |-> {l \in L : Makes(m, l)},
   now |-> {c \in C : Makes(m, c)},
   next |-> {c \in X : StrongNext(c) \in m},
   tail |-> TAIL \in m]

AssignmentsOf(g) ==
  UNION {{Seen(m, L, C, X) : m \in Models(ClausesOf(g), VariablesOf(g))} :
           L \in {LiteralsOf(g)}, C \in {Conjuncts(g)}, X \in {NextConjuncts(g)}}

(* The sets of literals that one letter makes true.                        *)
Letters(L) ==
  {b \in SUBSET L : \A l \in L : Not(l) \in L => (l \in b <=> Not(l) \notin b)}

(* The truths before one of S.                                             *)
Preceding(ms, X, S) == {m.now : m \in {x \in ms : \E T \in S : x.next = T \cap X}}

(* The lengths, up to MaxLength, of the shortest words that end in one of  *)
(* the truths ends; 0 where there is none.                                 *)
MaxLength == 12
Steps == [n \in 1 .. MaxLength |-> n]
Lengths(ms, X, ends) ==
  LET inner == {m \in ms : ~ m.tail}
      Within == Seqs!FoldLeft(LAMBDA W, n : Append(W, ends \cup Preceding(inner, X, W[n])), <<{}>>, Steps)
      Shorter(T) == {n \in 1 .. MaxLength : T \in Within[n + 1]}
  IN CHOOSE d \in {[T \in {m.now : m \in ms} |->
                      IF Shorter(T) = {} THEN 0 ELSE Seqs!Min(Shorter(T))]} : d = d

(* The last truths of words, and of words that go on with Tail.            *)
Ends(ms) == {m.now : m \in {x \in ms : x.tail}}
EndsOn(ms, X) ==
  LET last == {m \in ms : m.tail}
  IN Seqs!FoldLeft(LAMBDA E, n : Preceding(last, X, E), Ends(ms), Steps)

(* The encoding of g, with the conjuncts C.                                *)
ProblemOf(g, C) ==
  LET Fields(ms, own, X, L) ==
        [goal |-> to_set(g),
         models |-> ms,
         hasNext |-> X,
         letters |-> Letters(L),
         coiLit |-> [c \in C |-> IF c \in own THEN {l \in L : SAT_id(l).var \in Coi(c)} ELSE {}],
         coiNext |-> [c \in C |-> IF c \in own THEN {x \in X : StrongNext(x) \in Coi(c)} ELSE {}],
         clash |-> {p \in own \X own : p[2] = Not(p[1])},
         dist |-> Lengths(ms, X, Ends(ms)),
         distOn |-> Lengths(ms, X, EndsOn(ms, X))]
  IN CHOOSE e \in {Fields(ms, own, X, L) :
                     ms \in {AssignmentsOf(g)}, own \in {Conjuncts(g)},
                     X \in {NextConjuncts(g)}, L \in {LiteralsOf(g)}} : e = e
=============================================================================
