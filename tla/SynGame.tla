------------------------------ MODULE SynGame ------------------------------
(***************************************************************************)
(* The game an LTLf specification denotes, as the synthesis search of       *)
(* synthesis.cpp sees it.  A game state is a formula; in each round the     *)
(* system fixes the output variables (a Y edge) and then the environment    *)
(* answers with the input variables (an X edge).  The play moves to the     *)
(* progressed formula, and the system has won as soon as the edge is an     *)
(* accepting one, that is, when the finite word may stop there.             *)
(*                                                                          *)
(* The game is played with total inputs.  The search however progresses and *)
(* reduces by the labels of satisfying words, whose inputs may be missing   *)
(* (Evidence::push fills in outputs only): a missing input is neither true  *)
(* nor false, so that a partial edge leads to a formula that may be         *)
(* stronger than all the formulas its completions lead to.                  *)
(*                                                                          *)
(* A game is a record                                                       *)
(*   init  the source formula                                               *)
(*   succ  progression, along partial edges too: FormulaProgression         *)
(*   acc   accepting edges, partial ones too:    IsAcc                      *)
(*   leq   BDD implication:                      FormulaInBdd::Implies      *)
(*   incl  inclusion of the languages: what BDD implication is a test for   *)
(*   dist  length of the shortest word that satisfies the state, 0 if none: *)
(*         what CARChecker::check decides and its evidence witnesses        *)
(***************************************************************************)
EXTENDS Naturals

CONSTANTS
  State,        \* formulas
  YEdges,       \* assignments of the output variables var_Y
  var_X,        \* the input variables
  TRUE_bddP,    \* the formula True
  FALSE_bddP,   \* the formula False
  Games         \* the games of the specifications under consideration

(***************************************************************************)
(* Edges.                                                                   *)
(***************************************************************************)
XEdges == [var_X -> BOOLEAN]

\* Inputs of which some may be missing.
XParts == UNION {[V -> BOOLEAN] : V \in SUBSET var_X}

Extends(d, r) == \A v \in DOMAIN r : d[v] = r[v]

Completions(p) == {x \in XEdges : Extends(x, p)}

Edge == YEdges \X XEdges

Succ(g, s, y, x) == g.succ[<<s, y, x>>]

Accepts(g, s, y, x) == <<s, y, x>> \in g.acc

Implies(g, s, t) == <<s, t>> \in g.leq

Contained(g, s, t) == <<s, t>> \in g.incl

\* Equality of the BDDs of two formulas.
Same(g, s, t) == Implies(g, s, t) /\ Implies(g, t, s)

Dist(g, s) == g.dist[s]

(***************************************************************************)
(* The number of positions of the shortest satisfying word of s whose first *)
(* position is the edge <<y, x>>; 0 when there is none.                     *)
(***************************************************************************)
EdgeLen(g, s, y, x) ==
  IF Accepts(g, s, y, x) THEN 1
  ELSE IF Dist(g, Succ(g, s, y, x)) > 0 THEN Dist(g, Succ(g, s, y, x)) + 1
  ELSE 0

\* Some word of n positions satisfies all the states of S.
HaveCommonWord(g, S, n) ==
  LET After(T, e) == {Succ(g, t, e[1], e[2]) : t \in T}
      Common[m \in Nat, T \in SUBSET State] ==
        \E e \in Edge : IF m <= 1 THEN \A t \in T : Accepts(g, t, e[1], e[2])
                                  ELSE Common[m - 1, After(T, e)]
  IN Common[n, S]

(***************************************************************************)
(* Well-formed games.                                                       *)
(***************************************************************************)
GameType(g) ==
  /\ g.init \in State
  /\ g.succ \in [State \X YEdges \X XParts -> State]
  /\ g.acc \subseteq State \X YEdges \X XParts
  /\ g.leq \subseteq State \X State
  /\ g.incl \subseteq State \X State
  /\ g.dist \in [State -> Nat]

\* BDD implication is a preorder, and is preserved by acceptance and progression
\* along total edges.
ImplicationIsMonotone(g) ==
  /\ \A s \in State : Implies(g, s, s)
  /\ \A s, t, u \in State : Implies(g, s, t) /\ Implies(g, t, u) => Implies(g, s, u)
  /\ \A s, t \in State : Implies(g, s, t) =>
       \A y \in YEdges, x \in XEdges :
         /\ Accepts(g, s, y, x) => Accepts(g, t, y, x)
         /\ Implies(g, Succ(g, s, y, x), Succ(g, t, y, x))

\* It implies that the one language is contained in the other, which lasts also when
\* missing inputs of the state with the smaller one are given values.
InclusionIsMonotone(g) ==
  \A s, t \in State :
    /\ Implies(g, s, t) => Contained(g, s, t)
    /\ Contained(g, s, t) => \A y \in YEdges, p \in XParts : \A x \in Completions(p) :
         /\ Accepts(g, s, y, p) => Accepts(g, t, y, x)
         /\ Contained(g, Succ(g, s, y, p), Succ(g, t, y, x))

\* dist is the distance to an accepting edge, 0 standing for "no such path".
DistIsShortest(g) ==
  \A s \in State :
    /\ Dist(g, s) = 0 => \A e \in Edge : EdgeLen(g, s, e[1], e[2]) = 0
    /\ Dist(g, s) > 0 =>
         /\ \E e \in Edge : EdgeLen(g, s, e[1], e[2]) = Dist(g, s)
         /\ \A e \in Edge : \/ EdgeLen(g, s, e[1], e[2]) = 0
                            \/ EdgeLen(g, s, e[1], e[2]) >= Dist(g, s)

ConstantStates(g) ==
  \A y \in YEdges, x \in XParts :
    /\ Succ(g, TRUE_bddP, y, x) = TRUE_bddP
    /\ Succ(g, FALSE_bddP, y, x) = FALSE_bddP
    /\ Accepts(g, TRUE_bddP, y, x)
    /\ ~Accepts(g, FALSE_bddP, y, x)

ASSUME EdgesAssumption ==
  /\ YEdges # {}
  /\ TRUE_bddP \in State
  /\ FALSE_bddP \in State

ASSUME GamesAssumption ==
  \A g \in Games : /\ GameType(g)
                   /\ ImplicationIsMonotone(g)
                   /\ InclusionIsMonotone(g)
                   /\ DistIsShortest(g)
                   /\ ConstantStates(g)

(***************************************************************************)
(* Winning.  From s the system can force an accepting edge or a state of W  *)
(* in one round; the winning states are the least set closed under this.    *)
(***************************************************************************)
Controllable(g, s, W) ==
  \E y \in YEdges : \A x \in XEdges : Accepts(g, s, y, x) \/ Succ(g, s, y, x) \in W

Closed(g, W) == \A s \in State : Controllable(g, s, W) => s \in W

Win(g) == {s \in State : \A W \in SUBSET State : Closed(g, W) => s \in W}
=============================================================================
