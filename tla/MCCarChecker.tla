---------------------------- MODULE MCCarChecker ---------------------------
(***************************************************************************)
(* Encodings of small formulas for model-checking CarChecker.  A conjunct   *)
(* is defined by what makes it true: a set of terms, each a conjunction of  *)
(* literals, nexts and a value of Tail, as in the expansions                *)
(*    q U r  =  r  \/  q /\ X(q U r)      N q  =  Tail \/ X q.              *)
(***************************************************************************)
EXTENDS CarChecker

Seqs == INSTANCE SequencesExt

MCConj == {"FF", "p", "q", "r", "a", "-a"}
MCLit == {"a", "-a"}
MCLetters == {{"a"}, {"-a"}}
AnyTail == {TRUE, FALSE}

Term(lits, next, tail) == [lits |-> lits, next |-> next, tail |-> tail]

\* The conjuncts that hold with letter l, nexts N and Tail = b.
Now(def, l, N, b) ==
  {c \in MCConj : \E t \in def[c] : t.lits \subseteq l /\ t.next \subseteq N /\ b \in t.tail}

HasNext(def) == UNION {t.next : t \in UNION {def[c] : c \in MCConj}}

\* add_X_conflicts: X a <-> !X !a when both occur.
Nexts(def) ==
  {N \in SUBSET HasNext(def) : {"a", "-a"} \subseteq HasNext(def) => ("a" \in N <=> "-a" \notin N)}

ModelsOf(def) ==
  {[lits |-> l, now |-> Now(def, l, N, b), next |-> N, tail |-> b] :
     l \in MCLetters, N \in Nexts(def), b \in AnyTail}

\* The length of the shortest word for each truth: the truths of the words of at
\* most n letters, for n = 0, 1, ..., until all are found.
Prefixed(ms, H, S) == {m.now : m \in {x \in ms : x.tail \/ \E T \in S : x.next = T \cap H}}

Dist(ms, H) ==
  LET W == Seqs!FoldLeft(LAMBDA w, n : Append(w, Prefixed(ms, H, w[n])), <<{}>>, <<1, 2, 3, 4, 5, 6, 7, 8, 9>>)
  IN CHOOSE d \in {[S \in {m.now : m \in ms} |->
                      IF S \notin W[10] THEN 0
                      ELSE CHOOSE n \in 1 .. 9 : S \in W[n + 1] /\ S \notin W[n]]} : d = d

Encode(def, g) ==
  [goal |-> g,
   models |-> ModelsOf(def),
   hasNext |-> HasNext(def),
   dist |-> Dist(ModelsOf(def), HasNext(def)),
   letters |-> MCLetters,
   coiLit |-> [c \in MCConj |-> UNION {t.lits : t \in def[c]}],
   coiNext |-> [c \in MCConj |-> UNION {t.next : t \in def[c]}],
   clash |-> {<<"a", "-a">>}]

\* The shapes the conjuncts p, q and r are drawn from.
Def(p, q, r) ==
  [c \in MCConj |-> CASE c = "FF" -> {}
                      [] c = "p" -> p [] c = "q" -> q [] c = "r" -> r
                      [] c = "a" -> {Term({"a"}, {}, AnyTail)}
                      [] c = "-a" -> {Term({"-a"}, {}, AnyTail)}]

Strong(c) == Term({}, {c}, {FALSE})           \* !Tail /\ X c
Weak(c) == {Term({}, {}, {TRUE}), Term({}, {c}, AnyTail)}   \* Tail \/ X c

DeepShapes ==      \* through q
  { {Strong("q")},
    Weak("q"),
    {Term({"a"}, {"q"}, AnyTail), Term({"-a"}, {"r"}, {FALSE})} }

WideShapes ==      \* through q and r, or through q and the literals
  { {Term({}, {"q", "r"}, {FALSE})},
    {Term({}, {"a"}, {FALSE}), Term({}, {"q"}, {FALSE})} }

BothLiterals == {{Term({}, {"a", "q"}, {FALSE}), Term({}, {"-a", "r"}, {FALSE})}}

MiddleShapes ==
  { Weak("r"),
    {Term({"a"}, {"r"}, {FALSE})},
    {Term({"a"}, {"q"}, {FALSE}), Term({"a"}, {}, {TRUE})},
    {Term({"-a"}, {}, AnyTail), Term({}, {"q"}, {FALSE})} }

EndShapes ==       \* the word ends, or q or p is called back
  { {Term({"-a"}, {}, AnyTail)},
    {Term({}, {"q"}, {FALSE}), Term({}, {"-a"}, {FALSE})},
    Weak("p") }

BackShape == {{Strong("p"), Term({"a"}, {"r"}, {FALSE})}}
Never == {{Strong("r")}}

Problem(g, P, Q, R) == {Encode(Def(x[1], x[2], x[3]), g) : x \in P \X Q \X R}

ForkShapes ==
  { {Strong("q"), Strong("r")},
    {Term({}, {"q"}, {FALSE}), Term({"a"}, {"r", "-a"}, {FALSE})} }

LateShapes ==
  { {Strong("q")},
    {Strong("r")},
    {Strong("r"), Term({"a"}, {"q"}, {FALSE})},
    {Term({"-a"}, {"r", "a"}, {FALSE})} }

\* Unsatisfiable formulas of many conjuncts, where the choice of the cores makes the
\* state space explode, are left out.
MCProblems ==
  Problem({"p"}, DeepShapes \cup WideShapes, MiddleShapes, EndShapes \cup BackShape \cup Never)
  \cup Problem({"p", "a"}, WideShapes, MiddleShapes, EndShapes)
  \cup Problem({"p", "a"}, WideShapes, {Weak("r")}, BackShape \cup Never)
  \cup Problem({"p", "q"}, DeepShapes, MiddleShapes, EndShapes)
  \cup Problem({"p", "q"}, BothLiterals, MiddleShapes, {{Term({"-a"}, {}, AnyTail)}, Weak("p")})
  \cup Problem({"p"}, DeepShapes \cup WideShapes \cup ForkShapes, LateShapes, EndShapes)
  \cup Problem({"p", "a"}, WideShapes, LateShapes, EndShapes)
  \cup Problem({"p", "q"}, DeepShapes, LateShapes, EndShapes)
  \cup Problem({}, {{}}, {{}}, {{}}) \cup Problem({"FF"}, {{}}, {{}}, {{}})
=============================================================================
