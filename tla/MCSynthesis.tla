---------------------------- MODULE MCSynthesis ----------------------------
(***************************************************************************)
(* Families of small games for model-checking Synthesis, with two outputs   *)
(* and one input variable.  A game is given by a row per state: what each   *)
(* of the four edges does, and the two edges that leave the input out,      *)
(* "acc" being an accepting edge.                                           *)
(***************************************************************************)
EXTENDS Synthesis, FiniteSets, SequencesExt

MCState == {"TT", "FF", "a", "b", "c"}
LoopState == {"TT", "FF", "a", "b", "c", "d", "e", "f", "g"}
MCYEdges == {0, 1}
MCvar_X == {"x"}

\* A row lists what the two outputs do on the two inputs and without an input.
\* (Tuples and records, because TLC evaluates them once.)
At(y, p) == 3 * y + (IF DOMAIN p = {} THEN 3 ELSE IF p["x"] THEN 2 ELSE 1)

Total == {1, 2, 4, 5}

Row(p0, p1) == p0 \o p1

\* What an output does: a formula that tells the inputs apart by literals is false
\* without one; one that does not mention the input leads where both inputs lead.
Told(o0, o1) == <<o0, o1, "FF">>

Untold(o) == <<o, o, o>>

Outcomes(row) == {row[i] : i \in Total}

\* The rows of all states; unknown ones are those of the formula False.
RowsOf(S, table) ==
  table @@ [TT |-> Row(Untold("acc"), Untold("acc"))]
        @@ [s \in S |-> Row(Untold("FF"), Untold("FF"))]

Target(o) == IF o = "acc" THEN "TT" ELSE o

\* The inclusions of the languages, which are the largest simulation, by removing
\* wrong pairs.  (The bound variable prev makes TLC compute the previous
\* approximation once.)
Sim(S, rows) ==
  LET Keep(R) == {p \in R : \A i \in Total :
                    /\ rows[p[1]][i] = "acc" => rows[p[2]][i] = "acc"
                    /\ <<Target(rows[p[1]][i]), Target(rows[p[2]][i])>> \in R}
      R[n \in Nat] == IF n = 0 THEN {<<s, t>> : s \in S, t \in S}
                      ELSE CHOOSE Q \in {Keep(prev) : prev \in {R[n - 1]}} : TRUE
  IN R[8]

\* The implications that BDDs show whatever the formulas are.
Evident(S) == {p \in S \X S : p[1] = p[2] \/ p[1] = "FF" \/ p[2] = "TT"}

\* The states from which some word of at most n positions is accepted.
Within(S, rows, n) ==
  LET Before(R) == {s \in S : \E i \in Total : rows[s][i] = "acc" \/ rows[s][i] \in R}
      L[m \in Nat] == IF m = 0 THEN {} ELSE CHOOSE Q \in {Before(prev) : prev \in {L[m - 1]}} : TRUE
  IN L[n]

Dists(S, rows) ==
  LET upto == <<Within(S, rows, 1), Within(S, rows, 2), Within(S, rows, 3), Within(S, rows, 4),
                Within(S, rows, 5), Within(S, rows, 6), Within(S, rows, 7)>>
  IN [s \in S |-> IF s \notin upto[7] THEN 0
                  ELSE CHOOSE n \in 1 .. 7 : s \in upto[n] /\ \A m \in 1 .. n - 1 : s \notin upto[m]]

Game(S, table, tests) ==
  LET rows == RowsOf(S, table)
      sim == Sim(S, rows)
      out(t) == rows[t[1]][At(t[2], t[3])]
      edges == S \X MCYEdges \X XParts
  IN [init |-> "a",
      succ |-> [t \in edges |-> Target(out(t))],
      acc |-> {t \in edges : out(t) = "acc"},
      leq |-> IF tests = "all" THEN sim ELSE Evident(S),
      incl |-> sim,
      dist |-> Dists(S, rows)]

-----------------------------------------------------------------------------
\* Unordered pairs of the members of a sequence: swapping the outputs of a state
\* changes the search only in which states imply which.
Pairs(seq) == {<<seq[p[1]], seq[p[2]]>> : p \in {q \in (1 .. Len(seq)) \X (1 .. Len(seq)) : q[1] <= q[2]}}

Rows(answers) == {Row(p[1], p[2]) : p \in Pairs(answers)}

\* Two formulas that may call each other and themselves.
PairRows == Rows(<<Untold("acc"), Told("acc", "FF"), Told("acc", "a"), Told("acc", "b"), Untold("FF"),
                   Told("FF", "a"), Told("FF", "b"), Untold("a"), Told("a", "b"), Untold("b")>>)

PairGames ==
  {Game(MCState, [a |-> p[1], b |-> p[2]], "all") :
     p \in {q \in PairRows \X PairRows : "b" \in Outcomes(q[1])
                                        /\ "acc" \in Outcomes(q[1]) \cup Outcomes(q[2])}}

\* Three formulas in a chain a -> b -> c with calls back, so that the search
\* recurses, loops and meets again what it learnt deeper in the stack.
ChainGames ==
  {Game(MCState, [a |-> t[1], b |-> t[2], c |-> t[3]], "all") :
     t \in Rows(<<Told("b", "c"), Told("acc", "c"), Told("FF", "b")>>)
          \X Rows(<<Told("acc", "c"), Told("a", "c"), Untold("c"), <<"c", "c", "FF">>>>)
          \X Rows(<<Told("acc", "b"), Told("acc", "a"), Told("acc", "acc")>>)}

\* c is stronger than b, and without the input a leads to c where the inputs lead
\* to b: the rest of a word need not satisfy the state that the search reaches.
\* The BDDs may show that c is stronger, or not.
GapGames ==
  LET \* what an output does from c and from b
      answers == <<<<Told("acc", "FF"), Untold("acc")>>, <<Told("acc", "c"), Told("acc", "b")>>,
                   <<Untold("FF"), Told("FF", "acc")>>,  <<Untold("FF"), Untold("acc")>>,
                   <<Told("FF", "c"), Told("acc", "b")>>, <<Untold("c"), Untold("b")>>,
                   <<Told("acc", "a"), Told("acc", "a")>>, <<Untold("a"), Untold("a")>>,
                   <<Told("FF", "a"), Told("acc", "a")>>, <<Untold("acc"), Untold("acc")>>>>
      others == {<<"b", "b", "c">>, Told("acc", "c"), <<"acc", "acc", "c">>}
  IN {Game(MCState, [a |-> Row(<<"b", "b", "c">>, o),
                     b |-> Row(p[1][2], p[2][2]), c |-> Row(p[1][1], p[2][1])], tests) :
        o \in others, p \in Pairs(answers), tests \in {"all", "few"}}

SmallGames == PairGames \cup ChainGames \cup GapGames

\* b can win through c or, taking longer, through d and e; c wins or returns to b.
\* a enters the loop at b or, later, at c.  The specification
\*   at a, G(a & x -> X[!] b), G(a & !x -> X[!] f), G(b & y -> X[!] c),
\*   G(b & !y -> X[!] d), G(c & !x -> X[!] b), G(d -> X[!] e), G(f -> X[!] g),
\*   G(g -> X[!] c), F(c & x | e)
\* denotes this game when the letters are codes over output variables.
LoopGames ==
  {Game(LoopState, [a |-> Row(Told("b", "f"), Told("b", "f")),
                    b |-> Row(Untold("c"), Untold("d")),
                    c |-> Row(Told("acc", "b"), Told("acc", "b")),
                    d |-> Row(Untold("e"), Untold("e")),
                    e |-> Row(Untold("acc"), Untold("acc")),
                    f |-> Row(Untold("g"), Untold("g")),
                    g |-> Row(Untold("c"), Untold("c"))], "all")}
=============================================================================
