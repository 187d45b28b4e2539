-------------------------- MODULE SynthesisProofs --------------------------
(***************************************************************************)
(* Proofs about Synthesis, for every set of states, edges and games.        *)
(***************************************************************************)
EXTENDS Synthesis, SequenceTheorems, TLAPS

-----------------------------------------------------------------------------
(***************************************************************************)
(* Facts about partial edges.                                               *)
(***************************************************************************)

\* A total edge leaves nothing out; a partial one has completions.
LEMMA PartsAndEdges ==
  /\ XEdges \subseteq XParts
  /\ \E x \in XEdges : TRUE
  /\ \A x \in XEdges : x \in Completions(x)
  /\ \A p \in XParts : Completions(p) \subseteq XEdges /\ Completions(p) # {}
<1>1. XEdges \subseteq XParts
  BY DEF XEdges, XParts
<1>2. \A x \in XEdges : x \in Completions(x)
  BY DEF Completions, Extends
<1>3. ASSUME NEW p \in XParts
      PROVE  Completions(p) \subseteq XEdges /\ Completions(p) # {}
  <2>1. PICK V \in SUBSET var_X : p \in [V -> BOOLEAN]
    BY <1>3 DEF XParts
  <2> DEFINE x == [v \in var_X |-> IF v \in V THEN p[v] ELSE FALSE]
  <2>2. x \in XEdges
    BY <2>1 DEF XEdges
  <2>3. Extends(x, p)
    BY <2>1 DEF Extends
  <2> QED
    BY <2>2, <2>3 DEF Completions
<1>4. \E x \in XEdges : TRUE
  <2>1. [v \in var_X |-> FALSE] \in XEdges
    BY DEF XEdges
  <2> QED
    BY <2>1
<1> QED
  BY <1>1, <1>2, <1>3, <1>4

\* An edge that extends a reduction of p gives the inputs of p values that the
\* reduction has been tested for.
LEMMA ReductionCovers ==
  ASSUME NEW p \in XParts, NEW r \in Reductions(p)
  PROVE  /\ Completions(r) \in SUBSET XEdges
         /\ Completions(p) \subseteq Completions(r)
         /\ \A x \in Completions(r) : \E d \in Parallel(p, r) : d \in XParts /\ x \in Completions(d)
<1>1. PICK V \in SUBSET var_X : p \in [V -> BOOLEAN]
  BY DEF XParts
<1>2. PICK U \in SUBSET V : r = [v \in U |-> p[v]]
  BY <1>1 DEF Reductions
<1>3. \A v \in DOMAIN r : v \in DOMAIN p /\ r[v] = p[v]
  BY <1>1, <1>2
<1>4. Completions(p) \subseteq Completions(r)
  BY <1>3 DEF Completions, Extends
<1>5. ASSUME NEW x \in Completions(r)
      PROVE  \E d \in Parallel(p, r) : d \in XParts /\ x \in Completions(d)
  <2> DEFINE d == [v \in V |-> x[v]]
  <2>1. x \in [var_X -> BOOLEAN] /\ \A v \in U : x[v] = r[v]
    BY <1>2 DEF Completions, Extends, XEdges
  <2>2. d \in [V -> BOOLEAN] /\ DOMAIN p = V /\ DOMAIN r = U
    BY <1>1, <1>2, <2>1
  <2>3. Extends(d, r)
    BY <1>2, <2>1 DEF Extends
  <2>4. d \in XParts
    BY <2>2 DEF XParts
  <2>5. x \in Completions(d)
    BY <2>1 DEF Completions, Extends, XEdges
  <2> HIDE DEF d
  <2>6. d \in Parallel(p, r)
    BY <2>2, <2>3 DEF Parallel
  <2> QED
    BY <2>4, <2>5, <2>6
<1> QED
  BY <1>4, <1>5 DEF Completions

-----------------------------------------------------------------------------
(***************************************************************************)
(* Facts about games.                                                       *)
(***************************************************************************)

\* Progression is a function on states.
LEMMA GameValues ==
  ASSUME NEW g \in Games, NEW s \in State, NEW y \in YEdges, NEW p \in XParts
  PROVE  /\ Succ(g, s, y, p) \in State
         /\ Dist(g, s) \in Nat
         /\ p \in XEdges => EdgeLen(g, s, y, p) \in Nat
<1>1. Succ(g, s, y, p) \in State /\ \A t \in State : Dist(g, t) \in Nat
  BY GamesAssumption DEF GameType, Succ, Dist
<1> QED
  BY <1>1 DEF EdgeLen

\* Every state is contained in itself and in those it implies.
LEMMA ContainedStates ==
  ASSUME NEW g \in Games, NEW s \in State
  PROVE  /\ Contained(g, s, s)
         /\ \A t \in State : Implies(g, s, t) => Contained(g, s, t)
BY GamesAssumption DEF ImplicationIsMonotone, InclusionIsMonotone

\* A partial edge leads to a formula contained in what its completions lead to,
\* and accepts only if they all do; so it does from a state contained in another.
LEMMA PartialEdge ==
  ASSUME NEW g \in Games, NEW s \in State, NEW t \in State, Contained(g, s, t),
         NEW y \in YEdges, NEW p \in XParts, NEW x \in Completions(p)
  PROVE  /\ Accepts(g, s, y, p) => Accepts(g, t, y, x)
         /\ Contained(g, Succ(g, s, y, p), Succ(g, t, y, x))
BY GamesAssumption DEF InclusionIsMonotone

LEMMA TotalEdge ==
  ASSUME NEW g \in Games, NEW s \in State, NEW t \in State, Implies(g, s, t),
         NEW y \in YEdges, NEW x \in XEdges
  PROVE  /\ Accepts(g, s, y, x) => Accepts(g, t, y, x)
         /\ Implies(g, Succ(g, s, y, x), Succ(g, t, y, x))
BY GamesAssumption DEF ImplicationIsMonotone

\* BDD equality is an equivalence.
LEMMA SameIsEquivalence ==
  ASSUME NEW g \in Games
  PROVE  /\ \A s \in State : Same(g, s, s)
         /\ \A s, t \in State : Same(g, s, t) => Same(g, t, s)
         /\ \A s, t, u \in State : Same(g, s, t) /\ Same(g, t, u) => Same(g, s, u)
<1>1. /\ \A s \in State : Implies(g, s, s)
      /\ \A s, t, u \in State : Implies(g, s, t) /\ Implies(g, t, u) => Implies(g, s, u)
  BY GamesAssumption DEF ImplicationIsMonotone
<1> QED
  BY <1>1 DEF Same

\* Win is closed under one more round: it contains every state from which the
\* system can force acceptance or a state of Win.
LEMMA WinIsClosed ==
  ASSUME NEW g
  PROVE  Closed(g, Win(g))
<1> SUFFICES ASSUME NEW s \in State, Controllable(g, s, Win(g)),
                    NEW W \in SUBSET State, Closed(g, W)
             PROVE  s \in W
  BY DEF Closed, Win
<1>1. Win(g) \subseteq W
  BY DEF Win
<1>2. Controllable(g, s, W)
  BY <1>1 DEF Controllable
<1> QED
  BY <1>2 DEF Closed

\* Win is contained in every closed set.
LEMMA WinIsLeast ==
  ASSUME NEW g, NEW W \in SUBSET State, Closed(g, W)
  PROVE  Win(g) \subseteq W
BY DEF Win

\* A state that a winning state is contained in wins: the same outputs do.
LEMMA WinIsUpwardClosed ==
  ASSUME NEW g \in Games, NEW s \in Win(g), NEW t \in State, Contained(g, s, t)
  PROVE  t \in Win(g)
<1> DEFINE W == {u \in State : \A v \in State : Contained(g, u, v) => v \in Win(g)}
<1>1. Closed(g, W)
  <2> SUFFICES ASSUME NEW u \in State, Controllable(g, u, W),
                      NEW v \in State, Contained(g, u, v)
               PROVE  v \in Win(g)
    BY DEF Closed
  <2>1. PICK y \in YEdges : \A x \in XEdges : Accepts(g, u, y, x) \/ Succ(g, u, y, x) \in W
    BY DEF Controllable
  <2>2. ASSUME NEW x \in XEdges
        PROVE  Accepts(g, v, y, x) \/ Succ(g, v, y, x) \in Win(g)
    <3>1. Succ(g, v, y, x) \in State
      BY GameValues, PartsAndEdges
    <3>2. /\ Accepts(g, u, y, x) => Accepts(g, v, y, x)
          /\ Contained(g, Succ(g, u, y, x), Succ(g, v, y, x))
      BY PartialEdge, PartsAndEdges
    <3> QED
      BY <2>1, <3>1, <3>2
  <2>3. Controllable(g, v, Win(g))
    BY <2>2 DEF Controllable
  <2> QED
    BY <2>3, WinIsClosed DEF Closed
<1>2. s \in W
  BY <1>1, WinIsLeast
<1> QED
  BY <1>2

\* A winning state is satisfiable.
LEMMA WinIsSatisfiable ==
  ASSUME NEW g \in Games, NEW s \in Win(g)
  PROVE  Dist(g, s) # 0
<1> DEFINE W == {u \in State : Dist(g, u) # 0}
<1>1. Closed(g, W)
  <2> SUFFICES ASSUME NEW u \in State, Controllable(g, u, W), Dist(g, u) = 0
               PROVE  FALSE
    BY DEF Closed
  <2>1. PICK y \in YEdges : \A x \in XEdges : Accepts(g, u, y, x) \/ Succ(g, u, y, x) \in W
    BY DEF Controllable
  <2>2. PICK x \in XEdges : TRUE
    BY PartsAndEdges
  <2>3. Succ(g, u, y, x) \in State /\ Dist(g, Succ(g, u, y, x)) \in Nat
    BY GameValues, PartsAndEdges, GamesAssumption DEF GameType, Dist
  <2>4. EdgeLen(g, u, y, x) # 0
    BY <2>1, <2>3 DEF EdgeLen
  <2>5. <<y, x>> \in Edge /\ <<y, x>>[1] = y /\ <<y, x>>[2] = x
    BY DEF Edge
  <2> QED
    BY <2>4, <2>5, GamesAssumption DEF DistIsShortest
<1> QED
  BY <1>1, WinIsLeast

\* A state loses when every output has an input that neither accepts nor leads
\* to a winning state other than the state itself.
LEMMA SpoiledStateLoses ==
  ASSUME NEW g \in Games, NEW s \in State,
         \A y \in YEdges : \E x \in XEdges :
           /\ ~Accepts(g, s, y, x)
           /\ Succ(g, s, y, x) \notin Win(g) \/ Same(g, Succ(g, s, y, x), s)
  PROVE  s \notin Win(g)
<1> DEFINE W == {u \in Win(g) : ~Same(g, u, s)}
<1>1. ASSUME NEW u \in State, Controllable(g, u, W), Same(g, u, s)
      PROVE  FALSE
  <2>1. PICK y \in YEdges : \A x \in XEdges : Accepts(g, u, y, x) \/ Succ(g, u, y, x) \in W
    BY <1>1 DEF Controllable
  <2>2. PICK x \in XEdges : /\ ~Accepts(g, s, y, x)
                            /\ Succ(g, s, y, x) \notin Win(g) \/ Same(g, Succ(g, s, y, x), s)
    OBVIOUS
  <2>3. Succ(g, s, y, x) \in State /\ Succ(g, u, y, x) \in State
    BY GameValues, PartsAndEdges
  <2>4. ~Accepts(g, u, y, x) /\ Same(g, Succ(g, u, y, x), Succ(g, s, y, x))
    BY <1>1, <2>2, TotalEdge DEF Same
  <2>5. Succ(g, u, y, x) \in Win(g) /\ ~Same(g, Succ(g, u, y, x), s)
    BY <2>1, <2>4
  <2>6. Succ(g, s, y, x) \in Win(g)
    BY <2>3, <2>4, <2>5, WinIsUpwardClosed, ContainedStates DEF Same
  <2> QED
    BY <2>2, <2>3, <2>4, <2>5, <2>6, SameIsEquivalence
<1>2. ASSUME NEW u \in State, Controllable(g, u, W) PROVE u \in W
  <2>1. Controllable(g, u, Win(g))
    BY <1>2 DEF Controllable
  <2>2. u \in Win(g)
    BY <2>1, WinIsClosed DEF Closed
  <2> QED
    BY <1>1, <1>2, <2>2
<1>3. Closed(g, W) /\ W \in SUBSET State
  BY <1>2 DEF Closed, Win
<1> QED
  BY <1>3, WinIsLeast, SameIsEquivalence

\* An edge that starts no satisfying word neither accepts nor leads to a win.
LEMMA DeadEdgeLoses ==
  ASSUME NEW g \in Games, NEW s \in State, NEW y \in YEdges, NEW x \in XEdges,
         EdgeLen(g, s, y, x) = 0
  PROVE  ~Accepts(g, s, y, x) /\ Succ(g, s, y, x) \notin Win(g)
<1>1. Succ(g, s, y, x) \in State
  BY GameValues, PartsAndEdges
<1>2. Dist(g, Succ(g, s, y, x)) \in Nat
  BY <1>1, GamesAssumption DEF GameType, Dist
<1> QED
  BY <1>2, WinIsSatisfiable DEF EdgeLen

\* The seeds of the two learnt sets.
LEMMA ConstantsAreDecided ==
  ASSUME NEW g \in Games
  PROVE  TRUE_bddP \in Win(g) /\ FALSE_bddP \notin Win(g)
<1>1. Controllable(g, TRUE_bddP, Win(g))
  BY EdgesAssumption, GamesAssumption, PartsAndEdges DEF ConstantStates, Controllable
<1>2. PICK x \in XEdges : TRUE
  BY PartsAndEdges
<1>3. \A y \in YEdges : ~Accepts(g, FALSE_bddP, y, x) /\ Succ(g, FALSE_bddP, y, x) = FALSE_bddP
  BY <1>2, GamesAssumption, PartsAndEdges DEF ConstantStates
<1>4. Same(g, FALSE_bddP, FALSE_bddP)
  BY EdgesAssumption, SameIsEquivalence
<1> QED
  BY <1>1, <1>2, <1>3, <1>4, EdgesAssumption, WinIsClosed, SpoiledStateLoses DEF Closed


-----------------------------------------------------------------------------
(***************************************************************************)
(* Facts about frames.                                                      *)
(***************************************************************************)
\* An input that defeats an output: it neither accepts nor leads to a winning state
\* other than the state itself.
Defeats(s, y, x) ==
  /\ ~Accepts(game, s, y, x)
  /\ Succ(game, s, y, x) \notin Win(game) \/ Same(game, Succ(game, s, y, x), s)

\* ConstraintsJustified for one frame: a says whether Accepting_edge has been sent for
\* an edge that does not accept, r whether failures are reliable.
JustifiedFrame(f, a, r) ==
  /\ XBaseJustified(f)
  /\ f.current_Y = NULL => f.X_constraint = XEdges
  /\ ~a => XConstraintJustified(f)
  /\ r => YConstraintJustified(f)

\* What is justified stays so when reservations are added.
LEMMA Weaken ==
  ASSUME NEW f, NEW a, NEW r, NEW a2, NEW r2, JustifiedFrame(f, a, r), a => a2, r2 => r
  PROVE  JustifiedFrame(f, a2, r2)
BY DEF JustifiedFrame

\* A fresh frame has given nothing up.
LEMMA FreshFrame ==
  ASSUME NEW s \in State, NEW a, NEW r
  PROVE  /\ Syn_Frame(s) \in Frame
         /\ Syn_Frame(s).state = s
         /\ JustifiedFrame(Syn_Frame(s), a, r)
BY DEF Syn_Frame, Frame, JustifiedFrame, XBaseJustified, XConstraintJustified,
       YConstraintJustified

\* The scan indices do not take part in what a frame has given up.
LEMMA ScannedFrame ==
  ASSUME TypeOK, NEW a, NEW r, NEW f \in Frame, JustifiedFrame(f, a, r)
  PROVE  LET h == FailureScanned(WinningScanned(f))
         IN /\ h \in Frame
            /\ h.state = f.state /\ h.current_Y = f.current_Y /\ h.Y_constraint = f.Y_constraint
            /\ GetRealX_constraint(h) = GetRealX_constraint(f)
            /\ JustifiedFrame(h, a, r)
<1> DEFINE h == FailureScanned(WinningScanned(f))
<1>1. Len(winning_state_vec) \in Nat /\ Len(failure_state_vec) \in Nat
  BY DEF TypeOK
<1>2. /\ h \in Frame
      /\ h.state = f.state /\ h.current_Y = f.current_Y
      /\ h.X_base = f.X_base /\ h.X_constraint = f.X_constraint
      /\ h.Y_constraint = f.Y_constraint
  BY <1>1 DEF FailureScanned, WinningScanned, Frame
<1> HIDE DEF h
<1>3. JustifiedFrame(h, a, r)
  BY <1>2 DEF JustifiedFrame, XBaseJustified, XConstraintJustified, YConstraintJustified
<1> QED
  BY <1>2, <1>3 DEF h, GetRealX_constraint

\* Taking a label that the constraints allow keeps a frame justified and fixes both choices.
LEMMA TravelledFrame ==
  ASSUME NEW a, NEW r, NEW f \in Frame, JustifiedFrame(f, a, r),
         NEW y \in YEdges, NEW p \in XParts, {y} \X Completions(p) \subseteq EdgeConstraint(f)
  PROVE  LET h == SetTravelDirection(f, y, p)
         IN /\ h \in Frame
            /\ h.state = f.state /\ h.current_Y = y /\ h.current_X = p
            /\ h.Y_constraint = f.Y_constraint /\ h.X_constraint = f.X_constraint
            /\ f.current_Y # NULL => f.current_Y = y
            /\ JustifiedFrame(h, a, r)
<1> DEFINE h == SetTravelDirection(f, y, p)
<1>1. f.current_Y = NULL \/ f.current_Y = y
  <2> SUFFICES ASSUME f.current_Y # NULL PROVE f.current_Y = y
    OBVIOUS
  <2>1. PICK x \in XEdges : x \in Completions(p)
    BY PartsAndEdges
  <2>2. <<y, x>> \in EdgeConstraint(f)
    BY <2>1
  <2> QED
    BY <2>2 DEF EdgeConstraint, IsNotTryingY
<1>2. /\ h \in Frame
      /\ h.state = f.state /\ h.current_Y = y /\ h.current_X = p
      /\ h.Y_constraint = f.Y_constraint /\ h.X_constraint = f.X_constraint
      /\ h.X_base = f.X_base
  BY <1>1 DEF SetTravelDirection, Frame
<1> HIDE DEF h
<1>3. XBaseJustified(h) /\ (r => YConstraintJustified(h))
  BY <1>2 DEF JustifiedFrame, XBaseJustified, YConstraintJustified
<1>4. ~a => XConstraintJustified(h)
  <2>1. CASE f.current_Y = NULL
    BY <1>2, <2>1 DEF JustifiedFrame, XConstraintJustified
  <2>2. CASE f.current_Y # NULL
    BY <1>1, <1>2, <2>2 DEF JustifiedFrame, XConstraintJustified
  <2> QED
    BY <2>1, <2>2
<1>5. h.current_Y # NULL
  BY <1>2, NullAssumption
<1>6. JustifiedFrame(h, a, r)
  BY <1>3, <1>4, <1>5 DEF JustifiedFrame
<1> QED
  BY <1>1, <1>2, <1>6, NullAssumption DEF h

\* What calc_X_base removes is answered by every output.
LEMMA CalcXBase ==
  ASSUME NEW f \in Frame, XBaseJustified(f), NEW base \in calc_X_base(f)
  PROVE  /\ base \in SUBSET XEdges
         /\ \A x \in XEdges \ base : \A y \in YEdges : Accepts(game, f.state, y, x)
BY DEF Frame, XBaseJustified, calc_X_base

\* Blocking inputs is justified if they accept or lead to a winning state.
LEMMA BlockXFrame ==
  ASSUME NEW a, NEW r, NEW f \in Frame, JustifiedFrame(f, a, r),
         f.current_Y \in YEdges,
         NEW R \in SUBSET SUBSET XEdges,
         ~a => \A B \in R : \A x \in B : \/ Accepts(game, f.state, f.current_Y, x)
                                         \/ Succ(game, f.state, f.current_Y, x) \in Win(game),
         NEW h \in BlockX(f, R)
  PROVE  h \in Frame /\ h.state = f.state /\ JustifiedFrame(h, a, r)
<1>1. PICK base \in calc_X_base(f), B \in R :
        h = [f EXCEPT !.X_base = base, !.X_constraint = f.X_constraint \ B, !.current_X = NULL]
  <2>1. PICK base \in calc_X_base(f) :
          h \in {[f EXCEPT !.X_base = base, !.X_constraint = f.X_constraint \ B, !.current_X = NULL]
                  : B \in R}
    BY Zenon DEF BlockX
  <2> QED
    BY <2>1, Zenon
<1>2. /\ base \in SUBSET XEdges
      /\ \A x \in XEdges \ base : \A y \in YEdges : Accepts(game, f.state, y, x)
  BY CalcXBase DEF JustifiedFrame
<1>3. /\ h \in Frame /\ h.state = f.state /\ h.current_Y = f.current_Y
      /\ h.X_base = base /\ h.X_constraint = f.X_constraint \ B
      /\ h.Y_constraint = f.Y_constraint
  BY <1>1, <1>2 DEF Frame
<1>4. f.current_Y # NULL /\ h.current_Y # NULL
  BY <1>3, NullAssumption
<1>5. XBaseJustified(h)
  BY <1>2, <1>3 DEF XBaseJustified
<1>6. ~a => XConstraintJustified(h)
  <2> SUFFICES ASSUME ~a, NEW x \in XEdges \ h.X_constraint
               PROVE  \/ Accepts(game, f.state, f.current_Y, x)
                      \/ Succ(game, f.state, f.current_Y, x) \in Win(game)
    BY <1>3, <1>4 DEF XConstraintJustified
  <2>1. x \in B \/ x \in XEdges \ f.X_constraint
    BY <1>3
  <2> QED
    BY <1>4, <2>1 DEF JustifiedFrame, XConstraintJustified
<1>7. r => YConstraintJustified(h)
  BY <1>3 DEF YConstraintJustified, JustifiedFrame
<1> QED
  BY <1>3, <1>4, <1>5, <1>6, <1>7 DEF JustifiedFrame

\* Blocking outputs is justified if each has an input that defeats it.
LEMMA BlockYFrame ==
  ASSUME NEW a, NEW r, NEW f \in Frame, XBaseJustified(f),
         r => YConstraintJustified(f),
         NEW R, NEW h \in BlockY(f, R),
         r => \A y \in f.Y_constraint \ h.Y_constraint : \E x \in XEdges : Defeats(f.state, y, x)
  PROVE  h \in Frame /\ h.state = f.state /\ JustifiedFrame(h, a, r)
<1>1. PICK B \in R :
        h = [f EXCEPT !.Y_constraint = f.Y_constraint \ B, !.X_constraint = XEdges,
                      !.current_Y = NULL, !.current_X = NULL]
  BY DEF BlockY
<1>2. /\ h \in Frame /\ h.state = f.state /\ h.current_Y = NULL
      /\ h.X_base = f.X_base /\ h.X_constraint = XEdges
      /\ h.Y_constraint = f.Y_constraint \ B
  BY <1>1 DEF Frame
<1>3. XBaseJustified(h) /\ XConstraintJustified(h)
  BY <1>2 DEF XBaseJustified, XConstraintJustified
<1>4. r => YConstraintJustified(h)
  BY <1>2 DEF YConstraintJustified, Defeats
<1> QED
  BY <1>2, <1>3, <1>4 DEF JustifiedFrame

\* What process_signal does on each of its signals.  The edges a reduction of current_X
\* stands for all behave as current_X does.
LEMMA WinningSignal ==
  ASSUME game \in Games, NEW a, NEW r, NEW f \in Frame, JustifiedFrame(f, a, r),
         f.current_Y \in YEdges, f.current_X \in XParts,
         ~a => Succ(game, f.state, f.current_Y, f.current_X) \in Win(game),
         NEW h \in To_winning_state(f)
  PROVE  h \in Frame /\ h.state = f.state /\ JustifiedFrame(h, a, r)
<1> DEFINE R == X_reduced_to_winning(f)
           s == f.state
           p == f.current_X
<1>1. R \in SUBSET SUBSET XEdges
  BY DEF X_reduced_to_winning, Completions
<1>2. ASSUME ~a, NEW B \in R, NEW x \in B
      PROVE  Succ(game, s, f.current_Y, x) \in Win(game)
  <2>1. PICK q \in Reductions(p) :
          /\ B = Completions(q)
          /\ \A d \in Parallel(p, q) : SameEdge(game, s, f.current_Y, p, f.current_Y, d)
    BY DEF X_reduced_to_winning
  <2>2. PICK d \in Parallel(p, q) : d \in XParts /\ x \in Completions(d)
    BY <2>1, ReductionCovers
  <2>3. Succ(game, s, f.current_Y, d) \in Win(game)
    BY <1>2, <2>1, <2>2 DEF SameEdge
  <2>4. s \in State /\ x \in XEdges
    BY <1>1 DEF Frame
  <2>5. Contained(game, s, s)
    BY <2>4, ContainedStates
  <2>6. Contained(game, Succ(game, s, f.current_Y, d), Succ(game, s, f.current_Y, x))
    BY <2>2, <2>4, <2>5, PartialEdge
  <2>7. Succ(game, s, f.current_Y, x) \in State
    BY <2>4, GameValues, PartsAndEdges
  <2> QED
    BY <2>3, <2>6, <2>7, WinIsUpwardClosed
<1>3. h \in BlockX(f, R)
  BY DEF To_winning_state
<1> HIDE DEF R
<1> QED
  BY <1>1, <1>2, <1>3, BlockXFrame

LEMMA AcceptingSignal ==
  ASSUME game \in Games, NEW a, NEW r, NEW f \in Frame, JustifiedFrame(f, a, r),
         f.current_Y \in YEdges, f.current_X \in XParts,
         ~a => Accepts(game, f.state, f.current_Y, f.current_X),
         NEW h \in Accepting_edge(f)
  PROVE  h \in Frame /\ h.state = f.state /\ JustifiedFrame(h, a, r)
<1> DEFINE R == X_reduced_accepting(f)
           s == f.state
           p == f.current_X
<1>1. R \in SUBSET SUBSET XEdges
  BY DEF X_reduced_accepting, Completions
<1>2. ASSUME ~a, NEW B \in R, NEW x \in B
      PROVE  Accepts(game, s, f.current_Y, x)
  <2>1. PICK q \in Reductions(p) :
          /\ B = Completions(q)
          /\ \A d \in Parallel(p, q) : Accepts(game, s, f.current_Y, d)
                                         <=> Accepts(game, s, f.current_Y, p)
    BY DEF X_reduced_accepting
  <2>2. PICK d \in Parallel(p, q) : d \in XParts /\ x \in Completions(d)
    BY <2>1, ReductionCovers
  <2>3. Accepts(game, s, f.current_Y, d)
    BY <1>2, <2>1, <2>2
  <2>4. s \in State
    BY DEF Frame
  <2>5. Contained(game, s, s)
    BY <2>4, ContainedStates
  <2> QED
    BY <2>2, <2>3, <2>4, <2>5, PartialEdge
<1>3. h \in BlockX(f, R)
  BY DEF Accepting_edge
<1> HIDE DEF R
<1> QED
  BY <1>1, <1>2, <1>3, BlockXFrame

\* The outputs of a reduction of current_Y lead along current_X where current_Y does,
\* and if they are followed some value of the missing inputs defeats them.
LEMMA FailureSignal ==
  ASSUME game \in Games, NEW a, NEW r, NEW f \in Frame, JustifiedFrame(f, a, r),
         f.current_Y \in YEdges, f.current_X \in XParts,
         ~Accepts(game, f.state, f.current_Y, f.current_X),
         NEW h \in To_failure_state(f),
         r => /\ AllFollowed(f, h)
              /\ \/ Succ(game, f.state, f.current_Y, f.current_X) \notin Win(game)
                 \/ Same(game, Succ(game, f.state, f.current_Y, f.current_X), f.state)
  PROVE  h \in Frame /\ h.state = f.state /\ JustifiedFrame(h, a, r)
<1> DEFINE s == f.state
           p == f.current_X
<1>1. PICK B \in Y_reduced_to_failure(f) :
        h = [f EXCEPT !.Y_constraint = f.Y_constraint \ B, !.X_constraint = XEdges,
                      !.current_Y = NULL, !.current_X = NULL]
  BY DEF To_failure_state, BlockY
<1>2. f.Y_constraint \ h.Y_constraint \subseteq B
  BY <1>1 DEF Frame
<1>3. ASSUME r, NEW y \in f.Y_constraint \ h.Y_constraint
      PROVE  \E x \in XEdges : Defeats(s, y, x)
  <2>1. /\ y \in YEdges
        /\ Succ(game, s, y, p) = Succ(game, s, f.current_Y, p)
        /\ ~Accepts(game, s, y, p)
    BY <1>2 DEF Y_reduced_to_failure, SameEdge
  <2>2. PICK x \in Completions(p) :
          /\ Same(game, Succ(game, s, y, x), Succ(game, s, y, p))
          /\ Accepts(game, s, y, x) <=> Accepts(game, s, y, p)
    BY <1>3 DEF AllFollowed, Followed
  <2>3. /\ x \in XEdges /\ s \in State
        /\ Succ(game, s, y, x) \in State /\ Succ(game, s, y, p) \in State
    BY <2>1, GameValues, PartsAndEdges DEF Frame
  <2>4. CASE Succ(game, s, y, p) \notin Win(game)
    <3>1. Succ(game, s, y, x) \notin Win(game)
      BY <2>2, <2>3, <2>4, WinIsUpwardClosed, ContainedStates DEF Same
    <3> QED
      BY <2>1, <2>2, <2>3, <3>1 DEF Defeats
  <2>5. CASE Same(game, Succ(game, s, y, p), s)
    <3>1. Same(game, Succ(game, s, y, x), s)
      BY <2>2, <2>3, <2>5, SameIsEquivalence
    <3> QED
      BY <2>1, <2>2, <2>3, <3>1 DEF Defeats
  <2> QED
    BY <1>3, <2>1, <2>4, <2>5
<1>4. h \in BlockY(f, Y_reduced_to_failure(f))
  BY DEF To_failure_state
<1>5. XBaseJustified(f) /\ (r => YConstraintJustified(f))
  BY DEF JustifiedFrame
<1> QED
  BY <1>3, <1>4, <1>5, BlockYFrame

LEMMA NoWaySignal ==
  ASSUME game \in Games, NEW a, NEW r, NEW f \in Frame, JustifiedFrame(f, a, r),
         GetRealX_constraint(f) # {},
         NEW h \in NoWay(f)
  PROVE  h \in Frame /\ h.state = f.state /\ JustifiedFrame(h, a, r)
<1>1. PICK x \in XEdges : x \in GetRealX_constraint(f)
  BY DEF GetRealX_constraint, Frame
<1>2. PICK B \in Y_reduced_no_way(f) :
        h = [f EXCEPT !.Y_constraint = f.Y_constraint \ B, !.X_constraint = XEdges,
                      !.current_Y = NULL, !.current_X = NULL]
  BY DEF NoWay, BlockY
<1>3. f.Y_constraint \ h.Y_constraint \subseteq B
  BY <1>2 DEF Frame
<1>4. ASSUME NEW y \in f.Y_constraint \ h.Y_constraint
      PROVE  Defeats(f.state, y, x)
  <2>1. f.state \in State /\ y \in YEdges /\ EdgeLen(game, f.state, y, x) = 0
    BY <1>1, <1>3 DEF Frame, Y_reduced_no_way
  <2> QED
    BY <2>1, DeadEdgeLoses DEF Defeats
<1>5. h \in BlockY(f, Y_reduced_no_way(f))
  BY DEF NoWay
<1>6. XBaseJustified(f) /\ (r => YConstraintJustified(f))
  BY DEF JustifiedFrame
<1> QED
  BY <1>4, <1>5, <1>6, BlockYFrame

-----------------------------------------------------------------------------
(***************************************************************************)
(* Facts about the stack.                                                   *)
(***************************************************************************)
\* A frame waits on its edge for the state s of the next frame.
Waits(g, f, s) ==
  /\ f.current_Y \in YEdges /\ f.current_X \in XParts
  /\ \A x \in Completions(f.current_X) : ~Accepts(g, f.state, f.current_Y, x)
  /\ Succ(g, f.state, f.current_Y, f.current_X) = s

\* A frame that tries no output has all inputs left.
Untried == \A i \in 1 .. Depth : searcher[i].current_Y = NULL => searcher[i].X_constraint = XEdges

StackOK ==
  /\ searcher \in Seq(Frame) /\ Len(searcher) > 0
  /\ StackIsPath
  /\ ConstraintsJustified
  /\ Untried

\* The reservations only grow.
Grow ==
  /\ unaccepted => unaccepted'
  /\ Reliable' => Reliable

LEMMA TopFrame ==
  ASSUME StackOK
  PROVE  /\ Depth \in Nat \ {0}
         /\ Top \in Frame
         /\ \A i \in 1 .. Depth :
              searcher[i] \in Frame /\ JustifiedFrame(searcher[i], unaccepted, Reliable)
         /\ JustifiedFrame(Top, unaccepted, Reliable)
<1>1. Depth \in Nat \ {0}
  BY DEF StackOK, Depth
<1>2. \A i \in 1 .. Depth :
        searcher[i] \in Frame /\ JustifiedFrame(searcher[i], unaccepted, Reliable)
  BY ElementOfSeq DEF StackOK, Depth, ConstraintsJustified, JustifiedFrame, Untried
<1>3. Depth \in 1 .. Depth
  BY <1>1
<1> QED
  BY <1>1, <1>2, <1>3 DEF Top

\* The frame below the top waits on a label that leads to the top and does not accept.
LEMMA FrameBelow ==
  ASSUME game \in Games, StackOK, Depth > 1
  PROVE  LET f == searcher[Depth - 1]
         IN /\ f \in Frame /\ JustifiedFrame(f, unaccepted, Reliable)
            /\ f.current_Y \in YEdges /\ f.current_X \in XParts
            /\ ~Accepts(game, f.state, f.current_Y, f.current_X)
            /\ Succ(game, f.state, f.current_Y, f.current_X) = Top.state
<1> DEFINE f == searcher[Depth - 1]
<1>1. /\ Depth \in Nat \ {0}
      /\ \A i \in 1 .. Depth :
           searcher[i] \in Frame /\ JustifiedFrame(searcher[i], unaccepted, Reliable)
  BY TopFrame
<1>2. Depth - 1 \in 1 .. Depth - 1 /\ Depth - 1 \in 1 .. Depth /\ (Depth - 1) + 1 = Depth
  BY <1>1
<1>3. Waits(game, f, Top.state) /\ f \in Frame
  BY <1>1, <1>2 DEF StackOK, StackIsPath, Top, Waits
<1>4. PICK x \in XEdges : x \in Completions(f.current_X)
  BY <1>3, PartsAndEdges DEF Waits
<1>5. f.state \in State /\ Contained(game, f.state, f.state)
  BY <1>3, ContainedStates DEF Frame
<1>6. ~Accepts(game, f.state, f.current_Y, f.current_X)
  BY <1>3, <1>4, <1>5, PartialEdge DEF Waits
<1> QED
  BY <1>1, <1>2, <1>3, <1>6 DEF Waits

LEMMA SetTopShape ==
  ASSUME StackOK, NEW f \in Frame
  PROVE  /\ SetTop(f) \in Seq(Frame) /\ Len(SetTop(f)) = Depth
         /\ SetTop(f)[Depth] = f
         /\ \A i \in 1 .. Depth - 1 : SetTop(f)[i] = searcher[i]
<1>1. searcher \in Seq(Frame) /\ Depth \in Nat /\ Depth \in 1 .. Len(searcher)
  BY DEF StackOK, Depth
<1>2. /\ SetTop(f) \in Seq(Frame) /\ Len(SetTop(f)) = Len(searcher)
      /\ \A j \in 1 .. Len(searcher) : SetTop(f)[j] = IF j = Depth THEN f ELSE searcher[j]
  BY <1>1, ExceptSeq DEF SetTop
<1> QED
  BY <1>1, <1>2 DEF Depth

LEMMA PopAndSetShape ==
  ASSUME StackOK, Depth > 1, NEW f \in Frame
  PROVE  /\ PopAndSet(f) \in Seq(Frame) /\ Len(PopAndSet(f)) = Depth - 1
         /\ PopAndSet(f)[Depth - 1] = f
         /\ \A i \in 1 .. (Depth - 1) - 1 : PopAndSet(f)[i] = searcher[i]
<1> DEFINE s == SubSeq(searcher, 1, Depth - 1)
<1>1. /\ Depth \in Nat /\ Depth - 1 \in Int /\ Depth - 1 >= 1
      /\ \A i \in 1 .. Depth - 1 : searcher[i] \in Frame
  BY TopFrame
<1>2. /\ s \in Seq(Frame) /\ Len(s) = Depth - 1
      /\ \A i \in 1 .. Depth - 1 : s[i] = searcher[i]
  <2>1. /\ s \in Seq(Frame)
        /\ Len(s) = IF 1 <= Depth - 1 THEN (Depth - 1) - 1 + 1 ELSE 0
        /\ \A i \in 1 .. (Depth - 1) - 1 + 1 : s[i] = searcher[1 + i - 1]
    BY <1>1, SubSeqProperties
  <2> QED
    BY <1>1, <2>1
<1> HIDE DEF s
<1>3. Depth - 1 \in 1 .. Len(s)
  BY <1>1, <1>2
<1>4. LET t == [s EXCEPT ![Depth - 1] = f]
      IN /\ t \in Seq(Frame) /\ Len(t) = Len(s)
         /\ \A j \in 1 .. Len(s) : t[j] = IF j = Depth - 1 THEN f ELSE s[j]
  BY <1>2, <1>3, ExceptSeq
<1> QED
  BY <1>1, <1>2, <1>3, <1>4 DEF PopAndSet, s

\* A stack cut back to its first n frames, the n-th one rewritten by a signal.
LEMMA StackCut ==
  ASSUME StackOK, game' = game, Grow,
         NEW n \in 1 .. Depth, NEW f \in Frame,
         f.state = searcher[n].state, JustifiedFrame(f, unaccepted', Reliable'),
         searcher' \in Seq(Frame), Len(searcher') = n, searcher'[n] = f,
         \A i \in 1 .. n - 1 : searcher'[i] = searcher[i]
  PROVE  StackOK'
<1>1. Depth \in Nat /\ n \in Nat /\ n > 0 /\ n <= Depth /\ Depth' = n
  BY TopFrame DEF Depth
<1>2. \A i \in 1 .. n : i \in 1 .. Depth /\ searcher'[i].state = searcher[i].state
  BY <1>1
<1>3. StackIsPath'
  <2>1. (searcher[1].state = game.init)'
    BY <1>1, <1>2 DEF StackOK, StackIsPath
  <2>2. ASSUME NEW i \in 1 .. n - 1
        PROVE  Waits(game, searcher'[i], searcher'[i + 1].state)
    <3>1. i \in 1 .. Depth - 1 /\ i + 1 \in 1 .. n /\ searcher'[i] = searcher[i]
      BY <1>1
    <3>2. searcher'[i + 1].state = searcher[i + 1].state
      BY <1>2, <3>1
    <3> QED
      BY <3>1, <3>2 DEF StackOK, StackIsPath, Waits
  <2>3. \A i, j \in 1 .. n : Same(game, searcher'[i].state, searcher'[j].state) => i = j
    BY <1>2 DEF StackOK, StackIsPath
  <2> QED
    BY <1>1, <2>1, <2>2, <2>3 DEF StackIsPath, Waits, Accepts, Succ, Same, Implies
<1>4. ASSUME NEW i \in 1 .. n
      PROVE  (JustifiedFrame(searcher[i], unaccepted, Reliable))'
  <2>1. CASE i = n
    BY <2>1 DEF JustifiedFrame, XBaseJustified, XConstraintJustified, YConstraintJustified
  <2>2. CASE i # n
    <3>1. i \in 1 .. n - 1 /\ i \in 1 .. Depth
      BY <1>1, <2>2
    <3>2. searcher'[i] = searcher[i] /\ JustifiedFrame(searcher[i], unaccepted, Reliable)
      BY <3>1, TopFrame
    <3>3. JustifiedFrame(searcher[i], unaccepted', Reliable')
      BY <3>2, Weaken DEF Grow
    <3> QED
      BY <3>2, <3>3 DEF JustifiedFrame, XBaseJustified, XConstraintJustified, YConstraintJustified
  <2> QED
    BY <2>1, <2>2
<1>5. ConstraintsJustified' /\ Untried'
  BY <1>1, <1>4 DEF ConstraintsJustified, Untried, JustifiedFrame
<1> QED
  BY <1>1, <1>3, <1>5 DEF StackOK, Depth

\* A fresh frame pushed on a top that waits on a non-accepting edge to a new state.
LEMMA StackPush ==
  ASSUME game \in Games, StackOK, UNCHANGED <<game, history>>,
         NEW f \in Frame, f.state = Top.state, JustifiedFrame(f, unaccepted, Reliable),
         NEW h \in Frame, JustifiedFrame(h, unaccepted, Reliable), Waits(game, f, h.state),
         \A i \in 1 .. Depth : ~Same(game, h.state, searcher[i].state),
         searcher' = Append(SetTop(f), h)
  PROVE  StackOK'
<1> DEFINE t == SetTop(f)
           n == Depth
<1>1. n \in Nat /\ n > 0 /\ \A i \in 1 .. n : searcher[i].state \in State
  BY TopFrame DEF Frame
<1>2. /\ t \in Seq(Frame) /\ Len(t) = n /\ t[n] = f
      /\ \A i \in 1 .. n - 1 : t[i] = searcher[i]
  BY SetTopShape
<1>3. /\ searcher' \in Seq(Frame) /\ Len(searcher') = n + 1
      /\ searcher'[n + 1] = h
      /\ \A i \in 1 .. n : searcher'[i] = t[i]
  <2> HIDE DEF t
  <2> QED
    BY <1>1, <1>2 DEF t
<1>4. /\ searcher'[n] = f
      /\ \A i \in 1 .. n - 1 : searcher'[i] = searcher[i]
      /\ \A i \in 1 .. n : searcher'[i].state = searcher[i].state
  BY <1>1, <1>2, <1>3 DEF Top
<1> HIDE DEF t, n
<1>5. StackIsPath'
  <2>1. (searcher[1].state = game.init)'
    BY <1>1, <1>4 DEF StackOK, StackIsPath
  <2>2. ASSUME NEW i \in 1 .. n
        PROVE  Waits(game, searcher'[i], searcher'[i + 1].state)
    <3>1. CASE i = n
      BY <1>3, <1>4, <3>1
    <3>2. CASE i # n
      <4>1. i \in 1 .. n - 1 /\ i + 1 \in 1 .. n
        BY <1>1, <3>2
      <4>2. searcher'[i] = searcher[i] /\ searcher'[i + 1].state = searcher[i + 1].state
        BY <1>4, <4>1
      <4> QED
        BY <4>1, <4>2 DEF StackOK, StackIsPath, Waits, n
    <3> QED
      BY <3>1, <3>2
  <2>3. ASSUME NEW i \in 1 .. n + 1, NEW j \in 1 .. n + 1,
               Same(game, searcher'[i].state, searcher'[j].state)
        PROVE  i = j
    <3>1. \A k \in 1 .. n + 1 : k = n + 1 \/ k \in 1 .. n
      BY <1>1
    <3>2. \A k \in 1 .. n : /\ ~Same(game, h.state, searcher'[k].state)
                            /\ ~Same(game, searcher'[k].state, h.state)
      <4>1. \A k \in 1 .. n : ~Same(game, h.state, searcher'[k].state)
        BY <1>4 DEF n
      <4> QED
        BY <4>1 DEF Same
    <3>3. CASE i \in 1 .. n /\ j \in 1 .. n
      BY <1>4, <2>3, <3>3 DEF StackOK, StackIsPath, n
    <3> QED
      BY <1>3, <2>3, <3>1, <3>2, <3>3
  <2>4. Depth' = n + 1 /\ Depth' - 1 = n
    BY <1>1, <1>3 DEF Depth
  <2> QED
    BY <2>1, <2>2, <2>3, <2>4 DEF StackIsPath, Waits, Accepts, Succ, Same, Implies
<1>6. ASSUME NEW i \in 1 .. n + 1
      PROVE  JustifiedFrame(searcher'[i], unaccepted, Reliable)
  <2>1. i = n + 1 \/ i = n \/ i \in 1 .. n - 1
    BY <1>1
  <2>2. \A k \in 1 .. n - 1 : k \in 1 .. Depth
    BY <1>1 DEF n
  <2> QED
    BY <1>3, <1>4, <2>1, <2>2, TopFrame
<1>7. game' = game /\ unaccepted' = unaccepted /\ Reliable' = Reliable /\ Depth' = n + 1
  BY <1>3 DEF history, Depth, Reliable
<1>8. ASSUME NEW i \in 1 .. n + 1
      PROVE  (JustifiedFrame(searcher[i], unaccepted, Reliable))'
  <2>1. JustifiedFrame(searcher'[i], unaccepted', Reliable')
    BY <1>6, <1>7
  <2> QED
    BY <1>7, <2>1 DEF JustifiedFrame, XBaseJustified, XConstraintJustified, YConstraintJustified
<1>9. ConstraintsJustified' /\ Untried'
  BY <1>7, <1>8 DEF ConstraintsJustified, Untried, JustifiedFrame
<1> QED
  BY <1>1, <1>3, <1>5, <1>9 DEF StackOK

-----------------------------------------------------------------------------
(***************************************************************************)
(* Facts about what is learnt.                                              *)
(***************************************************************************)
LearntOK ==
  /\ game \in Games
  /\ winning_state_vec \in Seq(State)
  /\ failure_state_vec \in Seq(State)
  /\ WinningSound
  /\ FailureSound

LEMMA SingletonMembers ==
  ASSUME NEW s \in State
  PROVE  \A t \in Members(<<s>>) : t = s
<1>1. <<s>> \in Seq(State) /\ Len(<<s>>) = 1 /\ <<s>>[1] = s
  OBVIOUS
<1>2. DOMAIN <<s>> = 1 .. 1
  BY <1>1, LenProperties
<1>3. \A i \in DOMAIN <<s>> : i = 1
  BY <1>2
<1> QED
  BY <1>1, <1>3 DEF Members

LEMMA MembersAreStates ==
  ASSUME NEW vec \in Seq(State)
  PROVE  Members(vec) \subseteq State
BY LenProperties, ElementOfSeq DEF Members

LEMMA InsertState ==
  ASSUME NEW vec \in Seq(State), NEW s \in State
  PROVE  /\ insert_state(vec, s) \in Seq(State)
         /\ \A t \in Members(insert_state(vec, s)) : t = s \/ t \in Members(vec)
<1>1. CASE Learnt(vec, s)
  BY <1>1 DEF insert_state
<1>2. CASE ~Learnt(vec, s)
  <2>1. insert_state(vec, s) = Append(vec, s)
    BY <1>2 DEF insert_state
  <2>2. /\ Append(vec, s) \in Seq(State)
        /\ DOMAIN Append(vec, s) = 1 .. Len(vec) + 1
        /\ Append(vec, s)[Len(vec) + 1] = s
        /\ \A i \in 1 .. Len(vec) : Append(vec, s)[i] = vec[i]
    OBVIOUS
  <2>3. Len(vec) \in Nat /\ DOMAIN vec = 1 .. Len(vec)
    BY LenProperties
  <2>4. \A i \in 1 .. Len(vec) + 1 : i = Len(vec) + 1 \/ i \in 1 .. Len(vec)
    BY <2>3
  <2> QED
    BY <2>1, <2>2, <2>3, <2>4 DEF Members
<1> QED
  BY <1>1, <1>2

\* A state that KnownWinning recognises wins.
LEMMA KnownWinningWins ==
  ASSUME LearntOK, ~unaccepted, NEW f \in Frame, f.winning_checked_idx \in Nat, KnownWinning(f)
  PROVE  f.state \in Win(game)
<1>1. f.state \in State
  BY DEF Frame
<1>2. CASE Learnt(winning_state_vec, f.state)
  <2>1. PICK t \in Members(winning_state_vec) : Same(game, f.state, t)
    BY <1>2 DEF Learnt
  <2>2. t \in State /\ t \in Win(game)
    BY <2>1, MembersAreStates DEF LearntOK, WinningSound
  <2> QED
    BY <1>1, <2>1, <2>2, WinIsUpwardClosed, ContainedStates DEF LearntOK, Same
<1>3. ASSUME NEW i \in WinningHits(f) PROVE f.state \in Win(game)
  <2>1. i + 1 \in DOMAIN winning_state_vec /\ Implies(game, winning_state_vec[i + 1], f.state)
    BY <1>3, LenProperties DEF WinningHits, LearntOK
  <2>2. winning_state_vec[i + 1] \in Win(game) /\ winning_state_vec[i + 1] \in State
    BY <2>1, LenProperties DEF LearntOK, WinningSound, Members
  <2> QED
    BY <1>1, <2>1, <2>2, WinIsUpwardClosed, ContainedStates DEF LearntOK
<1> QED
  BY <1>2, <1>3 DEF KnownWinning

\* A state that KnownFailure recognises loses, as long as failures are reliable.
LEMMA KnownFailureLoses ==
  ASSUME LearntOK, Reliable, NEW f \in Frame, f.failure_checked_idx \in Nat, KnownFailure(f)
  PROVE  f.state \notin Win(game)
<1>1. f.state \in State
  BY DEF Frame
<1>2. CASE Learnt(failure_state_vec, f.state)
  <2>1. PICK t \in Members(failure_state_vec) : Same(game, f.state, t)
    BY <1>2 DEF Learnt
  <2>2. t \in State /\ t \notin Win(game)
    BY <2>1, MembersAreStates DEF LearntOK, FailureSound
  <2> QED
    BY <1>1, <2>1, <2>2, WinIsUpwardClosed, ContainedStates DEF LearntOK, Same
<1>3. ASSUME NEW i \in FailureHits(f) PROVE f.state \notin Win(game)
  <2>1. i + 1 \in DOMAIN failure_state_vec /\ Implies(game, f.state, failure_state_vec[i + 1])
    BY <1>3, LenProperties DEF FailureHits, LearntOK
  <2>2. failure_state_vec[i + 1] \notin Win(game) /\ failure_state_vec[i + 1] \in State
    BY <2>1, LenProperties DEF LearntOK, FailureSound, Members
  <2> QED
    BY <1>1, <2>1, <2>2, WinIsUpwardClosed, ContainedStates DEF LearntOK
<1> QED
  BY <1>2, <1>3 DEF KnownFailure

\* Learning a winning state or a losing state keeps the learnt sets sound.
LEMMA LearnWinning ==
  ASSUME LearntOK, game' = game, Grow,
         NEW s \in State, ~unaccepted => s \in Win(game),
         winning_state_vec' = insert_state(winning_state_vec, s),
         failure_state_vec' = failure_state_vec
  PROVE  LearntOK'
<1>1. /\ winning_state_vec' \in Seq(State)
      /\ \A t \in Members(winning_state_vec') : t = s \/ t \in Members(winning_state_vec)
  BY InsertState DEF LearntOK
<1>2. WinningSound'
  BY <1>1 DEF LearntOK, WinningSound, Grow
<1> QED
  BY <1>1, <1>2 DEF LearntOK, FailureSound, Grow

LEMMA LearnFailure ==
  ASSUME LearntOK, game' = game, Grow,
         NEW s \in State, Reliable => s \notin Win(game),
         failure_state_vec' = insert_state(failure_state_vec, s),
         winning_state_vec' = winning_state_vec
  PROVE  LearntOK'
<1>1. /\ failure_state_vec' \in Seq(State)
      /\ \A t \in Members(failure_state_vec') : t = s \/ t \in Members(failure_state_vec)
  BY InsertState DEF LearntOK
<1>2. FailureSound'
  BY <1>1 DEF LearntOK, FailureSound, Grow
<1> QED
  BY <1>1, <1>2 DEF LearntOK, WinningSound, Grow

LEMMA LearnNothing ==
  ASSUME LearntOK, game' = game, Grow,
         UNCHANGED <<winning_state_vec, failure_state_vec>>
  PROVE  LearntOK'
BY DEF LearntOK, WinningSound, FailureSound, Members, Grow

-----------------------------------------------------------------------------
(***************************************************************************)
(* The inductive invariant.  The learnt sets are sound because the frames   *)
(* only give up inputs and outputs for a reason, the frames do so because   *)
(* the stack is a path of the game, an exhausted search for an output is a  *)
(* defeat because Expand is only called with an input left to answer, and   *)
(* no position of a word before its last accepts because the word was a     *)
(* shortest one for every state it may have reached.                        *)
(***************************************************************************)
VerdictOK ==
  /\ pc \in {"check", "expand", "trace", "done"}
  /\ tr_left \in Nat /\ ahead \in SUBSET State
  /\ result \in Status
  /\ looped \in BOOLEAN /\ unreached \in BOOLEAN /\ unaccepted \in BOOLEAN
  /\ RealizableSound
  /\ UnrealizableSound

InputLeft == pc = "expand" => GetRealX_constraint(Top) # {}

\* The top frame is contained in the states the word may have reached, and from them no edge it
\* may take starts a word shorter than what is left.
WordFrom(g, f, S, n) ==
  /\ S # {} /\ n >= 1
  /\ \A t \in S :
       /\ Contained(g, f.state, t)
       /\ \A e \in EdgeConstraint(f) : \/ EdgeLen(g, t, e[1], e[2]) = 0
                                       \/ EdgeLen(g, t, e[1], e[2]) >= n

WordOK == pc = "trace" => WordFrom(game, Top, ahead, tr_left)

SearchOK == VerdictOK /\ InputLeft /\ WordOK

IInv == StackOK /\ LearntOK /\ SearchOK

LEMMA IInvTypeOK ==
  ASSUME IInv
  PROVE  TypeOK
BY GamesAssumption DEF IInv, StackOK, LearntOK, SearchOK, VerdictOK, TypeOK

LEMMA ConstraintEdges ==
  ASSUME NEW f \in Frame, NEW e \in EdgeConstraint(f)
  PROVE  e[1] \in YEdges /\ e[2] \in XEdges /\ e = <<e[1], e[2]>>
<1>1. CASE f.current_Y = NULL
  BY <1>1 DEF EdgeConstraint, IsNotTryingY, Frame
<1>2. CASE f.current_Y # NULL
  BY <1>2 DEF EdgeConstraint, IsNotTryingY, Frame, GetRealX_constraint
<1> QED
  BY <1>1, <1>2

\* The three ways in which a state is decided at the top of the stack.
LEMMA RealizableTop ==
  ASSUME IInv, ~unaccepted, IsRealizable(Top)
  PROVE  Top.state \in Win(game)
<1> DEFINE f == Top
<1>1. f \in Frame /\ JustifiedFrame(f, unaccepted, Reliable) /\ f.winning_checked_idx \in Nat
  BY TopFrame DEF IInv, Frame
<1>2. CASE KnownWinning(f)
  BY <1>1, <1>2, KnownWinningWins DEF IInv
<1>3. CASE f.Y_constraint # {} /\ GetRealX_constraint(f) = {}
  <2>1. f.state \in State /\ f.Y_constraint \subseteq YEdges
        /\ f.current_Y \in YEdges \cup {NULL}
    BY <1>1 DEF Frame
  <2>2. Controllable(game, f.state, Win(game))
    <3>1. CASE f.current_Y = NULL
      <4>1. f.X_constraint = XEdges
        BY <1>1, <3>1 DEF JustifiedFrame
      <4>2. \A x \in XEdges : x \notin f.X_base
        BY <1>3, <4>1 DEF GetRealX_constraint
      <4>3. PICK y \in YEdges : y \in f.Y_constraint
        BY <1>3, <2>1
      <4> QED
        BY <1>1, <4>2, <4>3 DEF Controllable, JustifiedFrame, XBaseJustified
    <3>2. CASE f.current_Y # NULL
      <4>1. \A x \in XEdges : x \notin f.X_base \/ x \notin f.X_constraint
        BY <1>3 DEF GetRealX_constraint
      <4>2. f.current_Y \in YEdges
        BY <2>1, <3>2
      <4>3. \A x \in XEdges : \/ Accepts(game, f.state, f.current_Y, x)
                              \/ Succ(game, f.state, f.current_Y, x) \in Win(game)
        BY <1>1, <3>2, <4>1, <4>2 DEF JustifiedFrame, XBaseJustified, XConstraintJustified
      <4> QED
        BY <4>2, <4>3 DEF Controllable
    <3> QED
      BY <3>1, <3>2
  <2> QED
    BY <2>1, <2>2, WinIsClosed DEF Closed
<1> QED
  BY <1>2, <1>3 DEF IsRealizable

LEMMA UnrealizableTop ==
  ASSUME IInv, Reliable, IsUnrealizable(Top)
  PROVE  Top.state \notin Win(game)
<1> DEFINE f == Top
<1>1. /\ f \in Frame /\ JustifiedFrame(f, unaccepted, Reliable)
      /\ f.failure_checked_idx \in Nat /\ f.state \in State
  BY TopFrame DEF IInv, Frame
<1>2. CASE KnownFailure(f)
  BY <1>1, <1>2, KnownFailureLoses DEF IInv
<1>3. CASE f.Y_constraint = {}
  BY <1>1, <1>3, SpoiledStateLoses DEF JustifiedFrame, YConstraintJustified, IInv, LearntOK
<1> QED
  BY <1>2, <1>3 DEF IsUnrealizable

LEMMA UnsatTop ==
  ASSUME IInv, pc = "expand", Reliable, SatEdges = {}, IsNotTryingY(Top)
  PROVE  Top.state \notin Win(game)
<1> DEFINE f == Top
<1>1. /\ f \in Frame /\ f.state \in State
      /\ YConstraintJustified(f) /\ game \in Games
  BY TopFrame DEF IInv, Frame, JustifiedFrame, LearntOK
<1>2. PICK x \in XEdges : x \in f.X_base
  BY <1>1 DEF IInv, SearchOK, InputLeft, GetRealX_constraint, Frame
<1>3. ASSUME NEW y \in YEdges, y \in f.Y_constraint
      PROVE  ~Accepts(game, f.state, y, x) /\ Succ(game, f.state, y, x) \notin Win(game)
  <2>1. <<y, x>> \in EdgeConstraint(f) /\ <<y, x>>[1] = y /\ <<y, x>>[2] = x
    BY <1>2, <1>3 DEF EdgeConstraint
  <2>2. EdgeLen(game, f.state, y, x) \in Nat
    BY <1>1, GameValues, PartsAndEdges
  <2>3. EdgeLen(game, f.state, y, x) = 0
    BY <2>1, <2>2 DEF SatEdges
  <2> QED
    BY <1>1, <2>3, DeadEdgeLoses
<1>4. \A y \in YEdges : \E z \in XEdges :
        /\ ~Accepts(game, f.state, y, z)
        /\ Succ(game, f.state, y, z) \notin Win(game) \/ Same(game, Succ(game, f.state, y, z), f.state)
  BY <1>1, <1>3 DEF YConstraintJustified
<1> QED
  BY <1>1, <1>4, SpoiledStateLoses

LEMMA NoWayAtAllTop ==
  ASSUME IInv, pc = "expand", NoWayAtAll(Top)
  PROVE  Top.state \notin Win(game)
<1> DEFINE f == Top
<1>1. f \in Frame /\ f.state \in State /\ game \in Games
  BY TopFrame DEF IInv, Frame, LearntOK
<1>2. PICK x \in XEdges : x \in GetRealX_constraint(f)
  BY <1>1 DEF IInv, SearchOK, InputLeft, GetRealX_constraint, Frame
<1>3. \A y \in YEdges : ~Accepts(game, f.state, y, x) /\ Succ(game, f.state, y, x) \notin Win(game)
  BY <1>1, <1>2, DeadEdgeLoses DEF NoWayAtAll
<1> QED
  BY <1>1, <1>3, SpoiledStateLoses

LEMMA BaseWinningTop ==
  ASSUME IInv, NEW y \in YEdges, BaseWinning(y)
  PROVE  Top.state \in Win(game)
<1>1. Top.state \in State
  BY TopFrame DEF IInv, Frame
<1>2. Controllable(game, Top.state, Win(game))
  BY DEF Controllable, BaseWinning
<1> QED
  BY <1>1, <1>2, WinIsClosed DEF Closed

\* The label of a word, and the top frame after taking it.
LEMMA TraceEdge ==
  ASSUME IInv, pc = "trace", NEW e \in TraceEdges
  PROVE  /\ Travelled(e) \in Frame
         /\ Travelled(e).state = Top.state
         /\ Travelled(e).current_Y = e[1] /\ Travelled(e).current_X = e[2]
         /\ e[1] \in YEdges /\ e[2] \in XParts
         /\ JustifiedFrame(Travelled(e), unaccepted, Reliable)
         /\ Successor(e) \in State
         /\ tr_left > 1 =>
              /\ \A x \in Completions(e[2]) : ~Accepts(game, Top.state, e[1], x)
              /\ ~Accepts(game, Top.state, e[1], e[2])
<1>1. /\ Top \in Frame /\ Top.state \in State /\ game \in Games
      /\ JustifiedFrame(Top, unaccepted, Reliable)
  BY TopFrame DEF IInv, Frame, LearntOK
<1>2. e[1] \in YEdges /\ e[2] \in XParts /\ {e[1]} \X Completions(e[2]) \subseteq EdgeConstraint(Top)
  BY DEF TraceEdges
<1>3. /\ Travelled(e) \in Frame
      /\ Travelled(e).state = Top.state
      /\ Travelled(e).current_Y = e[1] /\ Travelled(e).current_X = e[2]
      /\ JustifiedFrame(Travelled(e), unaccepted, Reliable)
  BY <1>1, <1>2, TravelledFrame DEF Travelled
<1>4. Successor(e) \in State
  BY <1>1, <1>2, GameValues DEF Successor
<1>5. ASSUME tr_left > 1, NEW x \in Completions(e[2])
      PROVE  ~Accepts(game, Top.state, e[1], x)
  <2>1. PICK t \in ahead : t \in State
    BY DEF IInv, SearchOK, WordOK, WordFrom, VerdictOK
  <2>2. <<e[1], x>> \in EdgeConstraint(Top) /\ <<e[1], x>>[1] = e[1] /\ <<e[1], x>>[2] = x
    BY <1>2
  <2>3. /\ Contained(game, Top.state, t) /\ tr_left \in Nat
        /\ EdgeLen(game, t, e[1], x) = 0 \/ EdgeLen(game, t, e[1], x) >= tr_left
    BY <2>1, <2>2 DEF IInv, SearchOK, WordOK, WordFrom, VerdictOK
  <2>4. ~Accepts(game, t, e[1], x)
    BY <1>5, <2>3 DEF EdgeLen
  <2>5. x \in XEdges
    BY <1>2, PartsAndEdges
  <2> QED
    BY <1>1, <1>2, <2>1, <2>3, <2>4, <2>5, PartialEdge, PartsAndEdges
<1>6. ASSUME tr_left > 1
      PROVE  ~Accepts(game, Top.state, e[1], e[2])
  <2>1. PICK x \in XEdges : x \in Completions(e[2])
    BY <1>2, PartsAndEdges
  <2>2. Contained(game, Top.state, Top.state)
    BY <1>1, ContainedStates
  <2> QED
    BY <1>1, <1>2, <1>5, <1>6, <2>1, <2>2, PartialEdge
<1> QED
  BY <1>2, <1>3, <1>4, <1>5, <1>6

-----------------------------------------------------------------------------
(***************************************************************************)
(* What the parts of a step do to the parts of the invariant.               *)
(***************************************************************************)
LEMMA FlagsGrow ==
  ASSUME VerdictOK, Next \/ UNCHANGED vars
  PROVE  /\ Grow
         /\ looped' \in BOOLEAN /\ unreached' \in BOOLEAN /\ unaccepted' \in BOOLEAN
<1>1. CASE UNCHANGED history
  BY <1>1 DEF history, Grow, Reliable, VerdictOK
<1>2. CASE PopUnrealizable \/ UnsatPop
  BY <1>2 DEF PopUnrealizable, UnsatPop, PopFailing, Grow, Reliable, VerdictOK
<1>3. CASE TraceRepeat \/ TraceKnownFailure
  <2>1. PICK e \in TraceEdges : BlockOutput(e)
    BY <1>3 DEF TraceRepeat, TraceKnownFailure
  <2>2. unreached' \in BOOLEAN /\ (unreached => unreached')
    BY <2>1 DEF BlockOutput, VerdictOK
  <2>3. looped' \in BOOLEAN /\ (looped => looped') /\ unaccepted' = unaccepted
    BY <1>3 DEF TraceRepeat, TraceKnownFailure, VerdictOK
  <2> QED
    BY <2>2, <2>3 DEF Grow, Reliable, VerdictOK
<1>4. CASE TraceAccepting
  BY <1>4 DEF TraceAccepting, Grow, Reliable, VerdictOK
<1>5. CASE UNCHANGED vars
  BY <1>1, <1>5 DEF vars, history
<1>6. CASE \/ FinishRealizable \/ PopRealizable \/ FinishUnrealizable \/ CallExpand
           \/ RunTimeout \/ ExpandSat \/ UnsatFinish \/ UnsatStateFails \/ UnsatNoWay
           \/ TraceKnownWinning \/ TracePush \/ TraceBaseFinish \/ TraceBasePop
  BY <1>1, <1>6 DEF FinishRealizable, PopRealizable, FinishUnrealizable, CallExpand,
     RunTimeout, ExpandSat, UnsatFinish, UnsatStateFails, UnsatNoWay,
     TraceKnownWinning, TracePush, TraceBaseFinish, TraceBasePop
<1> QED
  BY <1>2, <1>3, <1>4, <1>5, <1>6 DEF Next, Terminated

LEMMA KeepStack ==
  ASSUME StackOK, UNCHANGED <<game, searcher, history>>
  PROVE  StackOK'
BY DEF StackOK, StackIsPath, ConstraintsJustified, XBaseJustified, XConstraintJustified,
       YConstraintJustified, Accepts, Succ, Depth, Untried, history, Reliable, Same, Implies

LEMMA NewTop ==
  ASSUME StackOK, game' = game, Grow,
         NEW f \in Frame, f.state = Top.state, JustifiedFrame(f, unaccepted', Reliable'),
         searcher' = SetTop(f)
  PROVE  StackOK'
<1>1. Depth \in Nat /\ Depth > 0 /\ Depth \in 1 .. Depth
  BY TopFrame
<1>2. /\ searcher' \in Seq(Frame) /\ Len(searcher') = Depth
      /\ searcher'[Depth] = f
      /\ \A i \in 1 .. Depth - 1 : searcher'[i] = searcher[i]
  BY SetTopShape
<1>3. f.state = searcher[Depth].state
  BY DEF Top
<1> HIDE DEF JustifiedFrame
<1> QED
  BY <1>1, <1>2, <1>3, StackCut

LEMMA PopTo ==
  ASSUME StackOK, Depth > 1, game' = game, Grow,
         NEW f \in Frame, f.state = searcher[Depth - 1].state,
         JustifiedFrame(f, unaccepted', Reliable'),
         searcher' = PopAndSet(f)
  PROVE  StackOK'
<1>1. Depth \in Nat /\ Depth - 1 \in 1 .. Depth
  BY TopFrame
<1>2. /\ searcher' \in Seq(Frame) /\ Len(searcher') = Depth - 1
      /\ searcher'[Depth - 1] = f
      /\ \A i \in 1 .. (Depth - 1) - 1 : searcher'[i] = searcher[i]
  BY PopAndSetShape
<1> HIDE DEF JustifiedFrame
<1> QED
  BY <1>1, <1>2, StackCut

\* A frame is popped as winning or as failing.
LEMMA PopWinning ==
  ASSUME game \in Games, StackOK, Depth > 1, game' = game, Grow,
         ~unaccepted => Top.state \in Win(game),
         \E f \in To_winning_state(searcher[Depth - 1]) : searcher' = PopAndSet(f)
  PROVE  StackOK'
<1>1. PICK f \in To_winning_state(searcher[Depth - 1]) : searcher' = PopAndSet(f)
  OBVIOUS
<1>2. f \in Frame /\ f.state = searcher[Depth - 1].state /\ JustifiedFrame(f, unaccepted, Reliable)
  BY FrameBelow, WinningSignal
<1>3. JustifiedFrame(f, unaccepted', Reliable')
  BY <1>2, Weaken DEF Grow
<1> QED
  BY <1>1, <1>2, <1>3, PopTo

LEMMA PopLosing ==
  ASSUME game \in Games, StackOK, Depth > 1, game' = game, Grow,
         Reliable => Top.state \notin Win(game), PopFailing
  PROVE  StackOK'
<1> DEFINE below == searcher[Depth - 1]
<1>1. PICK f \in To_failure_state(below) :
        searcher' = PopAndSet(f) /\ unreached' = (unreached \/ ~AllFollowed(below, f))
  BY DEF PopFailing
<1>2. Reliable' => Reliable /\ AllFollowed(below, f)
  BY <1>1 DEF Grow, Reliable
<1>3. /\ below \in Frame /\ JustifiedFrame(below, unaccepted, Reliable)
      /\ below.current_Y \in YEdges /\ below.current_X \in XParts
      /\ ~Accepts(game, below.state, below.current_Y, below.current_X)
      /\ Succ(game, below.state, below.current_Y, below.current_X) = Top.state
  BY FrameBelow
<1>4. JustifiedFrame(below, unaccepted', Reliable')
  BY <1>3, Weaken DEF Grow
<1> HIDE DEF below
<1>5. f \in Frame /\ f.state = below.state /\ JustifiedFrame(f, unaccepted', Reliable')
  BY <1>2, <1>3, <1>4, FailureSignal
<1> QED
  BY <1>1, <1>5, PopTo DEF below

\* A step that gives no verdict and goes back to CheckRealizability.
LEMMA NoVerdict ==
  ASSUME VerdictOK, UNCHANGED <<game, result>>, Grow,
         looped' \in BOOLEAN /\ unreached' \in BOOLEAN /\ unaccepted' \in BOOLEAN,
         pc' = "check", UNCHANGED word \/ EndOfWalk
  PROVE  SearchOK'
BY DEF SearchOK, VerdictOK, InputLeft, WordOK, RealizableSound, UnrealizableSound, Status, Grow,
       word, EndOfWalk

\* A verdict is about the state of the only frame, that of the specification.
LEMMA BottomFrame ==
  ASSUME StackOK, Depth = 1
  PROVE  Top.state = game.init
BY DEF StackOK, StackIsPath, Top

LEMMA RealizableVerdict ==
  ASSUME IInv, Depth = 1, ~unaccepted => Top.state \in Win(game), Finish("Realizable"),
         UNCHANGED <<game, history>>, tr_left' \in Nat, ahead' \in SUBSET State
  PROVE  SearchOK'
BY BottomFrame DEF IInv, SearchOK, VerdictOK, InputLeft, WordOK, RealizableSound,
   UnrealizableSound, Status, Finish, history

LEMMA LosingVerdict ==
  ASSUME IInv, Depth = 1, Reliable => Top.state \notin Win(game), Finish("Unrealizable"),
         UNCHANGED <<game, history>>, tr_left' \in Nat, ahead' \in SUBSET State
  PROVE  SearchOK'
BY BottomFrame DEF IInv, SearchOK, VerdictOK, InputLeft, WordOK, RealizableSound,
   UnrealizableSound, Status, Finish, history, Reliable

-----------------------------------------------------------------------------
(***************************************************************************)
(* The invariant holds initially and every step keeps it.                   *)
(***************************************************************************)
LEMMA InitIInv ==
  ASSUME Init
  PROVE  IInv
<1> DEFINE f == Syn_Frame(game.init)
<1>1. game \in Games /\ game.init \in State
  BY GamesAssumption DEF Init, GameType
<1>2. /\ f \in Frame /\ f.state = game.init /\ JustifiedFrame(f, unaccepted, Reliable)
  BY <1>1, FreshFrame
<1>3. searcher = <<f>> /\ searcher \in Seq(Frame) /\ Depth = 1 /\ searcher[1] = f
  BY <1>2 DEF Init, Depth
<1>4. StackIsPath /\ ConstraintsJustified /\ Untried
  BY <1>2, <1>3 DEF StackIsPath, ConstraintsJustified, Untried, JustifiedFrame
<1>5. StackOK
  BY <1>3, <1>4 DEF StackOK, Depth
<1>6. LearntOK
  <2>1. TRUE_bddP \in Win(game) /\ FALSE_bddP \notin Win(game)
    BY <1>1, ConstantsAreDecided
  <2>2. /\ winning_state_vec = <<TRUE_bddP>> /\ failure_state_vec = <<FALSE_bddP>>
        /\ winning_state_vec \in Seq(State) /\ failure_state_vec \in Seq(State)
    BY EdgesAssumption DEF Init
  <2>3. /\ \A s \in Members(winning_state_vec) : s = TRUE_bddP
        /\ \A s \in Members(failure_state_vec) : s = FALSE_bddP
    BY <2>2, EdgesAssumption, SingletonMembers
  <2> QED
    BY <1>1, <2>1, <2>2, <2>3 DEF LearntOK, WinningSound, FailureSound
<1>7. SearchOK
  BY DEF Init, SearchOK, VerdictOK, InputLeft, WordOK, RealizableSound, UnrealizableSound, Status
<1> QED
  BY <1>5, <1>6, <1>7 DEF IInv

\* What every step is proved from.
LEMMA StepFacts ==
  ASSUME IInv, Next \/ UNCHANGED vars
  PROVE  /\ StackOK /\ LearntOK /\ VerdictOK /\ game \in Games /\ game' = game
         /\ Top \in Frame /\ Top.state \in State
         /\ JustifiedFrame(Top, unaccepted, Reliable)
         /\ Grow /\ looped' \in BOOLEAN /\ unreached' \in BOOLEAN /\ unaccepted' \in BOOLEAN
<1>1. StackOK /\ LearntOK /\ VerdictOK /\ game \in Games
  BY DEF IInv, SearchOK, LearntOK
<1>2. Top \in Frame /\ Top.state \in State /\ JustifiedFrame(Top, unaccepted, Reliable)
  BY <1>1, TopFrame DEF Frame
<1>3. game' = game
  BY DEF Next, vars, Terminated, FinishRealizable, PopRealizable, FinishUnrealizable,
     PopUnrealizable, CallExpand, RunTimeout, ExpandSat, UnsatFinish, UnsatPop,
     UnsatStateFails, UnsatNoWay, TraceRepeat, TraceKnownFailure, TraceKnownWinning,
     TracePush, TraceBaseFinish, TraceBasePop, TraceAccepting
<1> QED
  BY <1>1, <1>2, <1>3, FlagsGrow

LEMMA CheckSteps ==
  ASSUME IInv,
         \/ FinishRealizable \/ PopRealizable \/ FinishUnrealizable \/ PopUnrealizable
         \/ CallExpand
  PROVE  IInv'
<1>1. /\ StackOK /\ LearntOK /\ VerdictOK /\ game \in Games /\ game' = game
      /\ Top \in Frame /\ Top.state \in State
      /\ JustifiedFrame(Top, unaccepted, Reliable)
      /\ Grow /\ looped' \in BOOLEAN /\ unreached' \in BOOLEAN /\ unaccepted' \in BOOLEAN
  BY StepFacts DEF Next
<1>2. CASE FinishRealizable
  <2>1. ~unaccepted => Top.state \in Win(game)
    BY <1>2, RealizableTop DEF FinishRealizable
  <2>2. StackOK'
    BY <1>1, <1>2, KeepStack DEF FinishRealizable
  <2>3. LearntOK'
    <3>1. CASE KnownWinning(Top)
      BY <1>1, <1>2, <2>1, <3>1, LearnWinning DEF FinishRealizable
    <3>2. CASE ~KnownWinning(Top)
      BY <1>1, <1>2, <3>2, LearnNothing DEF FinishRealizable
    <3> QED
      BY <3>1, <3>2
  <2>4. tr_left' \in Nat /\ ahead' \in SUBSET State
    BY <1>1, <1>2 DEF FinishRealizable, VerdictOK, word
  <2>5. SearchOK'
    BY <1>2, <2>1, <2>4, RealizableVerdict DEF FinishRealizable
  <2> QED
    BY <2>2, <2>3, <2>5 DEF IInv
<1>3. CASE PopRealizable
  <2>1. ~unaccepted => Top.state \in Win(game)
    BY <1>3, RealizableTop DEF PopRealizable
  <2>2. StackOK'
    BY <1>1, <1>3, <2>1, PopWinning DEF PopRealizable
  <2>3. LearntOK'
    BY <1>1, <1>3, <2>1, LearnWinning DEF PopRealizable
  <2>4. SearchOK'
    BY <1>1, <1>3, NoVerdict DEF PopRealizable
  <2> QED
    BY <2>2, <2>3, <2>4 DEF IInv
<1>4. CASE FinishUnrealizable
  <2>1. Reliable => Top.state \notin Win(game)
    BY <1>4, UnrealizableTop DEF FinishUnrealizable
  <2>2. StackOK'
    BY <1>1, <1>4, KeepStack DEF FinishUnrealizable
  <2>3. LearntOK'
    <3>1. CASE KnownFailure(Top)
      BY <1>1, <1>4, <2>1, <3>1, LearnFailure DEF FinishUnrealizable
    <3>2. CASE ~KnownFailure(Top)
      BY <1>1, <1>4, <3>2, LearnNothing DEF FinishUnrealizable
    <3> QED
      BY <3>1, <3>2
  <2>4. tr_left' \in Nat /\ ahead' \in SUBSET State
    BY <1>1, <1>4 DEF FinishUnrealizable, VerdictOK, word
  <2>5. SearchOK'
    BY <1>4, <2>1, <2>4, LosingVerdict DEF FinishUnrealizable
  <2> QED
    BY <2>2, <2>3, <2>5 DEF IInv
<1>5. CASE PopUnrealizable
  <2>1. Reliable => Top.state \notin Win(game)
    BY <1>5, UnrealizableTop DEF PopUnrealizable
  <2>2. StackOK'
    BY <1>1, <1>5, <2>1, PopLosing DEF PopUnrealizable
  <2>3. LearntOK'
    BY <1>1, <1>5, <2>1, LearnFailure DEF PopUnrealizable
  <2>4. SearchOK'
    BY <1>1, <1>5, NoVerdict DEF PopUnrealizable
  <2> QED
    BY <2>2, <2>3, <2>4 DEF IInv
<1>6. CASE CallExpand
  <2> DEFINE h == FailureScanned(WinningScanned(Top))
  <2>1. /\ h \in Frame /\ h.state = Top.state
        /\ GetRealX_constraint(h) = GetRealX_constraint(Top)
        /\ JustifiedFrame(h, unaccepted, Reliable)
    BY <1>1, IInvTypeOK, ScannedFrame
  <2> HIDE DEF h
  <2>2. searcher' = SetTop(h) /\ pc' = "expand" /\ UNCHANGED <<result, word, history>>
    BY <1>6 DEF CallExpand, h
  <2>3. StackOK'
    <3>1. JustifiedFrame(h, unaccepted', Reliable')
      BY <1>1, <2>1, Weaken DEF Grow
    <3> QED
      BY <1>1, <2>1, <2>2, <3>1, NewTop
  <2>4. LearntOK'
    BY <1>1, <1>6, LearnNothing DEF CallExpand
  <2>5. VerdictOK' /\ WordOK'
    BY <1>1, <2>2 DEF VerdictOK, WordOK, RealizableSound, UnrealizableSound, word, history, Reliable
  <2>6. InputLeft'
    <3>1. Top' = h
      <4>1. Depth' = Depth /\ searcher'[Depth] = h
        BY <1>1, <2>1, <2>2, SetTopShape DEF Depth
      <4> QED
        BY <4>1 DEF Top
    <3>2. GetRealX_constraint(Top) # {}
      BY <1>6 DEF CallExpand, IsUnknown, IsRealizable, IsUnrealizable
    <3> QED
      BY <2>1, <3>1, <3>2 DEF InputLeft, GetRealX_constraint
  <2> QED
    BY <2>3, <2>4, <2>5, <2>6 DEF IInv, SearchOK
<1> QED
  BY <1>2, <1>3, <1>4, <1>5, <1>6

LEMMA ExpandSteps ==
  ASSUME IInv,
         \/ RunTimeout \/ ExpandSat
         \/ UnsatFinish \/ UnsatPop \/ UnsatStateFails \/ UnsatNoWay
  PROVE  IInv'
<1>1. /\ StackOK /\ LearntOK /\ VerdictOK /\ game \in Games /\ game' = game
      /\ Top \in Frame /\ Top.state \in State
      /\ JustifiedFrame(Top, unaccepted, Reliable)
      /\ Grow /\ looped' \in BOOLEAN /\ unreached' \in BOOLEAN /\ unaccepted' \in BOOLEAN
  BY StepFacts DEF Next
<1>2. CASE RunTimeout
  <2>1. StackOK' /\ LearntOK'
    BY <1>1, <1>2, KeepStack, LearnNothing DEF RunTimeout
  <2>2. SearchOK'
    BY <1>1, <1>2 DEF RunTimeout, Finish, SearchOK, VerdictOK, InputLeft, WordOK, RealizableSound,
       UnrealizableSound, Status, word, history
  <2> QED
    BY <2>1, <2>2 DEF IInv
<1>3. CASE ExpandSat
  <2>1. StackOK' /\ LearntOK'
    BY <1>1, <1>3, KeepStack, LearnNothing DEF ExpandSat
  <2>2. PICK e \in SatEdges :
          /\ \A d \in SatEdges : EdgeLen(game, Top.state, e[1], e[2])
                                   <= EdgeLen(game, Top.state, d[1], d[2])
          /\ tr_left' = EdgeLen(game, Top.state, e[1], e[2])
    BY <1>3 DEF ExpandSat
  <2>3. \A d \in EdgeConstraint(Top) : EdgeLen(game, Top.state, d[1], d[2]) \in Nat
    BY <1>1, ConstraintEdges, GameValues, PartsAndEdges
  <2>4. tr_left' \in Nat /\ tr_left' >= 1
    BY <2>2, <2>3 DEF SatEdges
  <2>5. \A d \in EdgeConstraint(Top) : \/ EdgeLen(game, Top.state, d[1], d[2]) = 0
                                       \/ EdgeLen(game, Top.state, d[1], d[2]) >= tr_left'
    BY <2>2, <2>3 DEF SatEdges
  <2>6. Contained(game, Top.state, Top.state)
    BY <1>1, ContainedStates
  <2>7. WordFrom(game, Top, {Top.state}, tr_left')
    BY <2>4, <2>5, <2>6 DEF WordFrom
  <2>8. /\ pc' = "trace" /\ ahead' = {Top.state}
        /\ searcher' = searcher /\ result' = result /\ UNCHANGED history
    BY <1>3 DEF ExpandSat
  <2>9. WordOK'
    <3>1. EdgeConstraint(Top)' = EdgeConstraint(Top) /\ Top' = Top
      BY <2>8 DEF EdgeConstraint, IsNotTryingY, GetRealX_constraint, Top, Depth
    <3> QED
      BY <1>1, <2>7, <2>8, <3>1 DEF WordOK, WordFrom, EdgeLen, Contained, Accepts, Succ, Dist
  <2>10. VerdictOK' /\ InputLeft'
    BY <1>1, <2>4, <2>8 DEF VerdictOK, InputLeft, RealizableSound, UnrealizableSound, Grow
  <2> QED
    BY <2>1, <2>9, <2>10 DEF IInv, SearchOK
<1>4. CASE UnsatFinish
  <2>1. Reliable => Top.state \notin Win(game)
    BY <1>4, UnsatTop DEF UnsatFinish
  <2>2. StackOK' /\ LearntOK'
    BY <1>1, <1>4, KeepStack, LearnNothing DEF UnsatFinish
  <2>3. tr_left' \in Nat /\ ahead' \in SUBSET State
    BY <1>1, <1>4 DEF UnsatFinish, VerdictOK, word
  <2>4. SearchOK'
    BY <1>4, <2>1, <2>3, LosingVerdict DEF UnsatFinish
  <2> QED
    BY <2>2, <2>4 DEF IInv
<1>5. CASE UnsatPop
  <2>1. Reliable => Top.state \notin Win(game)
    BY <1>5, UnsatTop DEF UnsatPop
  <2>2. StackOK'
    BY <1>1, <1>5, <2>1, PopLosing DEF UnsatPop
  <2>3. LearntOK'
    BY <1>1, <1>5, <2>1, LearnFailure DEF UnsatPop
  <2>4. SearchOK'
    BY <1>1, <1>5, NoVerdict DEF UnsatPop
  <2> QED
    BY <2>2, <2>3, <2>4 DEF IInv
<1>6. CASE UnsatStateFails
  <2>1. Top.state \notin Win(game)
    BY <1>6, NoWayAtAllTop DEF UnsatStateFails
  <2>2. StackOK'
    BY <1>1, <1>6, KeepStack DEF UnsatStateFails
  <2>3. LearntOK'
    BY <1>1, <1>6, <2>1, LearnFailure DEF UnsatStateFails
  <2>4. SearchOK'
    BY <1>1, <1>6, NoVerdict DEF UnsatStateFails
  <2> QED
    BY <2>2, <2>3, <2>4 DEF IInv
<1>7. CASE UnsatNoWay
  <2>1. PICK f \in NoWay(Top) : searcher' = SetTop(f)
    BY <1>7 DEF UnsatNoWay
  <2>2. GetRealX_constraint(Top) # {}
    BY <1>7 DEF UnsatNoWay, IInv, SearchOK, InputLeft
  <2>3. f \in Frame /\ f.state = Top.state /\ JustifiedFrame(f, unaccepted, Reliable)
    BY <1>1, <2>2, NoWaySignal
  <2>4. JustifiedFrame(f, unaccepted', Reliable')
    BY <1>1, <2>3, Weaken DEF Grow
  <2>5. StackOK'
    BY <1>1, <2>1, <2>3, <2>4, NewTop
  <2>6. LearntOK'
    BY <1>1, <1>7, LearnNothing DEF UnsatNoWay
  <2>7. SearchOK'
    BY <1>1, <1>7, NoVerdict DEF UnsatNoWay
  <2> QED
    BY <2>5, <2>6, <2>7 DEF IInv
<1> QED
  BY <1>2, <1>3, <1>4, <1>5, <1>6, <1>7

\* A top that gives up an output after a label whose progression loses, or is the
\* state of the top itself.
LEMMA OutputBlocked ==
  ASSUME IInv, pc = "trace", game' = game, Grow, NEW e \in TraceEdges, tr_left > 1,
         BlockOutput(e),
         Reliable' => Successor(e) \notin Win(game) \/ Same(game, Successor(e), Top.state)
  PROVE  StackOK'
<1> DEFINE h == Travelled(e)
<1>1. PICK f \in To_failure_state(h) :
        searcher' = SetTop(f) /\ unreached' = (unreached \/ ~AllFollowed(h, f))
  BY DEF BlockOutput
<1>2. Reliable' => AllFollowed(h, f)
  BY <1>1 DEF Reliable
<1>3. /\ h \in Frame /\ h.state = Top.state
      /\ h.current_Y = e[1] /\ h.current_X = e[2]
      /\ e[1] \in YEdges /\ e[2] \in XParts
      /\ JustifiedFrame(h, unaccepted, Reliable)
      /\ ~Accepts(game, Top.state, e[1], e[2])
  BY TraceEdge
<1>4. JustifiedFrame(h, unaccepted', Reliable')
  BY <1>3, Weaken DEF Grow
<1>5. Successor(e) = Succ(game, h.state, h.current_Y, h.current_X)
  BY <1>3 DEF Successor
<1> HIDE DEF h
<1>6. f \in Frame /\ f.state = h.state /\ JustifiedFrame(f, unaccepted', Reliable')
  BY <1>2, <1>3, <1>4, <1>5, FailureSignal DEF IInv, LearntOK
<1> QED
  BY <1>1, <1>3, <1>6, NewTop DEF IInv

\* After a label the word is a shortest one from the states it may have reached.
LEMMA WordAfter ==
  ASSUME IInv, pc = "trace", tr_left > 1, NEW e \in TraceEdges,
         NEW f \in Frame, f.state = Successor(e)
  PROVE  After(e) \in SUBSET State /\ WordFrom(game, f, After(e), tr_left - 1)
<1>1. /\ game \in Games /\ Top \in Frame /\ Top.state \in State /\ tr_left \in Nat
      /\ ahead \in SUBSET State /\ WordFrom(game, Top, ahead, tr_left)
  BY TopFrame DEF IInv, LearntOK, SearchOK, VerdictOK, WordOK, Frame
<1>2. /\ e[1] \in YEdges /\ e[2] \in XParts
      /\ {e[1]} \X Completions(e[2]) \subseteq EdgeConstraint(Top)
  BY DEF TraceEdges
<1>3. Completions(e[2]) \subseteq XEdges /\ Completions(e[2]) # {}
  BY <1>2, PartsAndEdges
<1>4. After(e) \in SUBSET State
  BY <1>1, <1>2, <1>3, GameValues, PartsAndEdges DEF After
<1>5. After(e) # {}
  <2>1. PICK t \in ahead, x \in Completions(e[2]) : TRUE
    BY <1>1, <1>3 DEF WordFrom
  <2>2. Succ(game, t, e[1], x) \in After(e)
    BY DEF After
  <2> QED
    BY <2>2
<1>6. ASSUME NEW t \in ahead, NEW x \in Completions(e[2])
      PROVE  /\ Contained(game, f.state, Succ(game, t, e[1], x))
             /\ \A d \in EdgeConstraint(f) :
                  \/ EdgeLen(game, Succ(game, t, e[1], x), d[1], d[2]) = 0
                  \/ EdgeLen(game, Succ(game, t, e[1], x), d[1], d[2]) >= tr_left - 1
  <2> DEFINE u == Succ(game, t, e[1], x)
  <2>1. t \in State /\ x \in XEdges /\ x \in XParts /\ u \in State /\ Dist(game, u) \in Nat
    BY <1>1, <1>2, <1>3, GameValues, PartsAndEdges
  <2>2. Contained(game, f.state, u)
    BY <1>1, <1>2, <2>1, PartialEdge DEF WordFrom, Successor
  <2>3. <<e[1], x>> \in EdgeConstraint(Top) /\ <<e[1], x>>[1] = e[1] /\ <<e[1], x>>[2] = x
    BY <1>2
  <2>4. EdgeLen(game, t, e[1], x) = 0 \/ EdgeLen(game, t, e[1], x) >= tr_left
    BY <1>1, <2>3 DEF WordFrom
  <2>5. Dist(game, u) = 0 \/ Dist(game, u) >= tr_left - 1
    BY <1>1, <2>1, <2>4 DEF EdgeLen
  <2>6. ASSUME NEW d \in EdgeConstraint(f)
        PROVE  EdgeLen(game, u, d[1], d[2]) = 0 \/ EdgeLen(game, u, d[1], d[2]) >= tr_left - 1
    <3>1. d[1] \in YEdges /\ d[2] \in XEdges /\ d \in Edge
      BY ConstraintEdges DEF Edge
    <3>2. EdgeLen(game, u, d[1], d[2]) \in Nat
      BY <1>1, <2>1, <3>1, GameValues, PartsAndEdges
    <3>3. /\ Dist(game, u) = 0 => EdgeLen(game, u, d[1], d[2]) = 0
          /\ Dist(game, u) > 0 => \/ EdgeLen(game, u, d[1], d[2]) = 0
                                  \/ EdgeLen(game, u, d[1], d[2]) >= Dist(game, u)
      BY <1>1, <2>1, <3>1, GamesAssumption DEF DistIsShortest
    <3> HIDE DEF u
    <3> QED
      BY <1>1, <2>1, <2>5, <3>2, <3>3
  <2> QED
    BY <2>2, <2>6
<1>7. \A u \in After(e) : /\ Contained(game, f.state, u)
                          /\ \A d \in EdgeConstraint(f) :
                               \/ EdgeLen(game, u, d[1], d[2]) = 0
                               \/ EdgeLen(game, u, d[1], d[2]) >= tr_left - 1
  BY <1>6 DEF After
<1> QED
  BY <1>1, <1>4, <1>5, <1>7 DEF WordFrom

LEMMA TraceSteps ==
  ASSUME IInv, TraceRepeat \/ TraceKnownFailure \/ TraceKnownWinning \/ TracePush
  PROVE  IInv'
<1>1. /\ StackOK /\ LearntOK /\ VerdictOK /\ game \in Games /\ game' = game
      /\ Top \in Frame /\ Top.state \in State
      /\ JustifiedFrame(Top, unaccepted, Reliable)
      /\ Grow /\ looped' \in BOOLEAN /\ unreached' \in BOOLEAN /\ unaccepted' \in BOOLEAN
  BY StepFacts DEF Next
<1>2. pc = "trace" /\ tr_left > 1
  BY DEF TraceRepeat, TraceKnownFailure, TraceKnownWinning, TracePush
<1>3. CASE TraceRepeat
  <2>1. PICK e \in TraceEdges :
          looped' = (looped \/ ~Same(game, Successor(e), Top.state)) /\ BlockOutput(e)
    BY <1>3 DEF TraceRepeat
  <2>2. Reliable' => Same(game, Successor(e), Top.state)
    BY <2>1 DEF Reliable
  <2>3. StackOK'
    BY <1>1, <1>2, <2>1, <2>2, OutputBlocked
  <2>4. LearntOK'
    BY <1>1, <1>3, LearnNothing DEF TraceRepeat
  <2>5. SearchOK'
    BY <1>1, <1>3, NoVerdict DEF TraceRepeat, EndOfWalk
  <2> QED
    BY <2>3, <2>4, <2>5 DEF IInv
<1>4. CASE TraceKnownFailure
  <2>1. PICK e \in TraceEdges :
          /\ KnownFailure(Syn_Frame(Successor(e)))
          /\ failure_state_vec' = insert_state(failure_state_vec, Successor(e))
          /\ BlockOutput(e)
    BY <1>4 DEF TraceKnownFailure
  <2>2. Successor(e) \in State
    BY <1>2, TraceEdge
  <2>3. Reliable => Successor(e) \notin Win(game)
    <3>1. /\ Syn_Frame(Successor(e)) \in Frame /\ Syn_Frame(Successor(e)).state = Successor(e)
          /\ Syn_Frame(Successor(e)).failure_checked_idx \in Nat
      BY <2>2, FreshFrame DEF Frame
    <3> QED
      BY <1>1, <2>1, <3>1, KnownFailureLoses
  <2>4. StackOK'
    BY <1>1, <1>2, <2>1, <2>3, OutputBlocked DEF Grow
  <2>5. LearntOK'
    BY <1>1, <1>4, <2>1, <2>2, <2>3, LearnFailure DEF TraceKnownFailure
  <2>6. SearchOK'
    BY <1>1, <1>4, NoVerdict DEF TraceKnownFailure, EndOfWalk
  <2> QED
    BY <2>4, <2>5, <2>6 DEF IInv
<1>5. CASE TraceKnownWinning
  <2>1. PICK e \in TraceEdges :
          /\ KnownWinning(Syn_Frame(Successor(e)))
          /\ winning_state_vec' = insert_state(winning_state_vec, Successor(e))
          /\ \E f \in To_winning_state(Travelled(e)) : searcher' = SetTop(f)
    BY <1>5 DEF TraceKnownWinning
  <2>2. PICK f \in To_winning_state(Travelled(e)) : searcher' = SetTop(f)
    BY <2>1
  <2>3. /\ Travelled(e) \in Frame /\ Travelled(e).state = Top.state
        /\ Travelled(e).current_Y = e[1] /\ Travelled(e).current_X = e[2]
        /\ e[1] \in YEdges /\ e[2] \in XParts /\ Successor(e) \in State
        /\ JustifiedFrame(Travelled(e), unaccepted, Reliable)
    BY <1>2, TraceEdge
  <2>4. ~unaccepted => Successor(e) \in Win(game)
    <3>1. /\ Syn_Frame(Successor(e)) \in Frame /\ Syn_Frame(Successor(e)).state = Successor(e)
          /\ Syn_Frame(Successor(e)).winning_checked_idx \in Nat
      BY <2>3, FreshFrame DEF Frame
    <3> QED
      BY <1>1, <2>1, <3>1, KnownWinningWins
  <2>5. f \in Frame /\ f.state = Top.state /\ JustifiedFrame(f, unaccepted, Reliable)
    BY <1>1, <2>3, <2>4, WinningSignal DEF Successor
  <2>6. JustifiedFrame(f, unaccepted', Reliable')
    BY <1>1, <2>5, Weaken DEF Grow
  <2>7. StackOK'
    BY <1>1, <2>2, <2>5, <2>6, NewTop
  <2>8. LearntOK'
    BY <1>1, <1>5, <2>1, <2>3, <2>4, LearnWinning DEF TraceKnownWinning
  <2>9. SearchOK'
    BY <1>1, <1>5, NoVerdict DEF TraceKnownWinning, EndOfWalk
  <2> QED
    BY <2>7, <2>8, <2>9 DEF IInv
<1>6. CASE TracePush
  <2>1. PICK e \in TraceEdges :
          /\ ~repeat_with_prefix(Successor(e))
          /\ searcher' = Append(SetTop(Travelled(e)),
                                FailureScanned(WinningScanned(Syn_Frame(Successor(e)))))
          /\ ahead' = After(e)
    BY <1>6 DEF TracePush
  <2> DEFINE h == FailureScanned(WinningScanned(Syn_Frame(Successor(e))))
  <2>2. /\ tr_left' = tr_left - 1
        /\ UNCHANGED <<winning_state_vec, failure_state_vec, pc, result, history>>
    BY <1>6 DEF TracePush
  <2>3. /\ Travelled(e) \in Frame /\ Travelled(e).state = Top.state
        /\ Travelled(e).current_Y = e[1] /\ Travelled(e).current_X = e[2]
        /\ e[1] \in YEdges /\ e[2] \in XParts /\ Successor(e) \in State
        /\ JustifiedFrame(Travelled(e), unaccepted, Reliable)
        /\ \A x \in Completions(e[2]) : ~Accepts(game, Top.state, e[1], x)
    BY <1>2, TraceEdge
  <2>4. h \in Frame /\ h.state = Successor(e) /\ JustifiedFrame(h, unaccepted, Reliable)
    BY <2>3, IInvTypeOK, FreshFrame, ScannedFrame
  <2> HIDE DEF h
  <2>5. \A i \in 1 .. Depth : ~Same(game, h.state, searcher[i].state)
    BY <2>1, <2>4 DEF repeat_with_prefix
  <2>6. searcher' = Append(SetTop(Travelled(e)), h)
    BY <2>1 DEF h
  <2>7. Waits(game, Travelled(e), h.state)
    BY <2>3, <2>4 DEF Waits, Successor
  <2>8. StackOK'
    BY <1>1, <2>2, <2>3, <2>4, <2>5, <2>6, <2>7, StackPush
  <2>9. LearntOK'
    BY <1>1, <2>2, LearnNothing
  <2>10. After(e) \in SUBSET State /\ WordFrom(game, h, After(e), tr_left - 1)
    BY <1>2, <2>4, WordAfter
  <2>11. Top' = h
    <3>1. SetTop(Travelled(e)) \in Seq(Frame) /\ Len(SetTop(Travelled(e))) = Depth /\ Depth \in Nat
      BY <1>1, <2>3, SetTopShape, TopFrame
    <3>2. Depth' = Depth + 1 /\ searcher'[Depth + 1] = h
      BY <2>4, <2>6, <3>1 DEF Depth
    <3> QED
      BY <3>2 DEF Top
  <2>12. WordOK'
    <3>1. WordFrom(game', Top', ahead', tr_left')
      <4>1. EdgeConstraint(Top') = EdgeConstraint(h)
        BY <2>11
      <4> QED
        BY <1>1, <2>1, <2>2, <2>10, <2>11, <4>1
    <3> QED
      BY <3>1 DEF WordOK, WordFrom, EdgeConstraint, IsNotTryingY, GetRealX_constraint, EdgeLen,
         Accepts, Succ, Dist, Contained
  <2>13. VerdictOK' /\ InputLeft'
    <3>1. tr_left' \in Nat /\ ahead' \in SUBSET State
      BY <1>1, <1>2, <2>1, <2>2, <2>10 DEF VerdictOK
    <3> QED
      BY <1>1, <1>2, <2>2, <3>1 DEF VerdictOK, InputLeft, RealizableSound, UnrealizableSound, Grow
  <2> QED
    BY <2>8, <2>9, <2>12, <2>13 DEF IInv, SearchOK
<1> QED
  BY <1>3, <1>4, <1>5, <1>6

LEMMA LastPositionSteps ==
  ASSUME IInv, TraceBaseFinish \/ TraceBasePop \/ TraceAccepting
  PROVE  IInv'
<1>1. /\ StackOK /\ LearntOK /\ VerdictOK /\ game \in Games /\ game' = game
      /\ Top \in Frame /\ Top.state \in State
      /\ JustifiedFrame(Top, unaccepted, Reliable)
      /\ Grow /\ looped' \in BOOLEAN /\ unreached' \in BOOLEAN /\ unaccepted' \in BOOLEAN
  BY StepFacts DEF Next
<1>2. CASE TraceBaseFinish
  <2>1. Top.state \in Win(game)
    BY <1>2, TraceEdge, BaseWinningTop DEF TraceBaseFinish
  <2>2. StackOK' /\ LearntOK'
    BY <1>1, <1>2, KeepStack, LearnNothing DEF TraceBaseFinish
  <2>3. tr_left' \in Nat /\ ahead' \in SUBSET State
    BY <1>2 DEF TraceBaseFinish
  <2>4. SearchOK'
    BY <1>2, <2>1, <2>3, RealizableVerdict DEF TraceBaseFinish
  <2> QED
    BY <2>2, <2>4 DEF IInv
<1>3. CASE TraceBasePop
  <2>1. Top.state \in Win(game)
    BY <1>3, TraceEdge, BaseWinningTop DEF TraceBasePop
  <2>2. StackOK'
    BY <1>1, <1>3, <2>1, PopWinning DEF TraceBasePop
  <2>3. LearntOK'
    BY <1>1, <1>3, <2>1, LearnWinning DEF TraceBasePop
  <2>4. SearchOK'
    BY <1>1, <1>3, NoVerdict DEF TraceBasePop, EndOfWalk
  <2> QED
    BY <2>2, <2>3, <2>4 DEF IInv
<1>4. CASE TraceAccepting
  <2>1. PICK e \in TraceEdges :
          /\ unaccepted' = (unaccepted \/ ~Accepts(game, Top.state, e[1], e[2]))
          /\ \E f \in Accepting_edge(Travelled(e)) : searcher' = SetTop(f)
    BY <1>4 DEF TraceAccepting
  <2>2. PICK f \in Accepting_edge(Travelled(e)) : searcher' = SetTop(f)
    BY <2>1
  <2>3. /\ Travelled(e) \in Frame /\ Travelled(e).state = Top.state
        /\ Travelled(e).current_Y = e[1] /\ Travelled(e).current_X = e[2]
        /\ e[1] \in YEdges /\ e[2] \in XParts
        /\ JustifiedFrame(Travelled(e), unaccepted, Reliable)
    BY <1>4, TraceEdge DEF TraceAccepting
  <2>4. JustifiedFrame(Travelled(e), unaccepted', Reliable')
    BY <1>1, <2>3, Weaken DEF Grow
  <2>5. ~unaccepted' => Accepts(game, Top.state, e[1], e[2])
    BY <2>1
  <2>6. f \in Frame /\ f.state = Top.state /\ JustifiedFrame(f, unaccepted', Reliable')
    BY <1>1, <2>3, <2>4, <2>5, AcceptingSignal
  <2>7. StackOK'
    BY <1>1, <2>2, <2>6, NewTop
  <2>8. LearntOK'
    BY <1>1, <1>4, LearnNothing DEF TraceAccepting
  <2>9. SearchOK'
    BY <1>1, <1>4, NoVerdict DEF TraceAccepting, EndOfWalk
  <2> QED
    BY <2>7, <2>8, <2>9 DEF IInv
<1> QED
  BY <1>2, <1>3, <1>4

LEMMA StutterStep ==
  ASSUME IInv, UNCHANGED vars
  PROVE  IInv'
<1>1. Grow /\ StackOK /\ LearntOK
  BY StepFacts
<1>2. StackOK' /\ LearntOK'
  BY <1>1, KeepStack, LearnNothing DEF vars, history
<1>3. VerdictOK'
  BY DEF vars, IInv, SearchOK, VerdictOK, RealizableSound, UnrealizableSound, Reliable
<1>4. InputLeft'
  BY DEF vars, IInv, SearchOK, InputLeft, GetRealX_constraint, Top, Depth
<1>5. WordOK'
  BY DEF vars, IInv, SearchOK, WordOK, WordFrom, EdgeConstraint, IsNotTryingY,
     GetRealX_constraint, Top, Depth, EdgeLen, Accepts, Succ, Dist, Contained
<1> QED
  BY <1>2, <1>3, <1>4, <1>5 DEF IInv, SearchOK

LEMMA SpecIInv == Spec => []IInv
<1>1. Init => IInv
  BY InitIInv
<1>2. IInv /\ [Next]_vars => IInv'
  BY CheckSteps, ExpandSteps, TraceSteps, LastPositionSteps, StutterStep DEF Next, Terminated
<1> QED
  BY <1>1, <1>2, PTL DEF Spec
-----------------------------------------------------------------------------
\* The variables of is_realizable and Expand keep their types: frames hold
\* constraints over their own variables, scan indices are natural numbers, and
\* the stack is never empty while the search runs.
THEOREM SpecTypeOK == Spec => []TypeOK
<1>1. IInv => TypeOK
  BY IInvTypeOK
<1> QED
  BY <1>1, SpecIInv, PTL

\* The stack of Syn_Frames is at all times a simple path from the source formula: each
\* state is the progression of the one below along its label, which may leave inputs out
\* and does not accept, whatever these are.
THEOREM SpecStackIsPath == Spec => []StackIsPath
<1>1. IInv => StackIsPath
  BY DEF IInv, StackOK
<1> QED
  BY <1>1, SpecIInv, PTL

\* Whatever process_signal conjoins to the constraints of a frame is justified against
\* total inputs, although it blocks reductions of partial ones: what X_base gives up
\* always, what X_constraint gives up unless Accepting_edge was sent for an edge that does
\* not accept, and what Y_constraint gives up unless a loop was cut off or a state failed
\* that only a partial edge leads to.
THEOREM SpecConstraintsJustified == Spec => []ConstraintsJustified
<1>1. IInv => ConstraintsJustified
  BY DEF IInv, StackOK
<1> QED
  BY <1>1, SpecIInv, PTL

\* Everything in Syn_Frame::winning_state wins, unless Accepting_edge was sent for an
\* edge that does not accept: that is the only way to a wrong win.
THEOREM SpecWinningSound == Spec => []WinningSound
<1>1. IInv => WinningSound
  BY DEF IInv, LearntOK
<1> QED
  BY <1>1, SpecIInv, PTL

\* Everything in Syn_Frame::failure_state loses, unless repeat_with_prefix cut off a loop
\* to a frame below the top, or an output was given up on account of a partial edge none
\* of whose completions leads to the state that failed.
THEOREM SpecFailureSound == Spec => []FailureSound
<1>1. IInv => FailureSound
  BY DEF IInv, LearntOK
<1> QED
  BY <1>1, SpecIInv, PTL

\* is_realizable answers rightly: "Realizable" unless Accepting_edge was sent for an edge
\* that does not accept, and "Unrealizable" unless a loop was cut off or an output given
\* up for a state that only a partial edge leads to.
THEOREM SpecVerdictSound == Spec => []VerdictSound
<1>1. IInv => VerdictSound
  BY DEF IInv, SearchOK, VerdictOK, VerdictSound
<1> QED
  BY <1>1, SpecIInv, PTL

-----------------------------------------------------------------------------
(***************************************************************************)
(* The incremental scans of KnownWinning and KnownFailure are complete: a   *)
(* state for which Expand calls the satisfiability checker has been         *)
(* compared with every state learnt so far.  A frame may be buried in the   *)
(* stack while states are learnt above it, so the inductive invariant says  *)
(* of every frame, not only of the top, which part of the two vectors it    *)
(* has been compared with.                                                  *)
(***************************************************************************)
\* The states before a frame's two indices have been compared with its own, and
\* none of them decided it.
ScannedFor(g, f, wins, fails) ==
  /\ f.winning_checked_idx <= Len(wins)
  /\ f.failure_checked_idx <= Len(fails)
  /\ \A k \in 1 .. f.winning_checked_idx : ~Implies(g, wins[k], f.state)
  /\ \A k \in 1 .. f.failure_checked_idx : ~Implies(g, f.state, fails[k])

StackScanned ==
  \A i \in 1 .. Depth : ScannedFor(game, searcher[i], winning_state_vec, failure_state_vec)

\* Between the scans and the satisfiability call nothing is learnt.
TopScannedToEnd ==
  pc = "expand" => /\ Top.winning_checked_idx = Len(winning_state_vec)
                   /\ Top.failure_checked_idx = Len(failure_state_vec)

ScanInv == StackScanned /\ TopScannedToEnd

-----------------------------------------------------------------------------
(***************************************************************************)
(* The vectors of learnt states only grow at their ends.                    *)
(***************************************************************************)
Longer(vec, more) ==
  /\ vec \in Seq(State) /\ more \in Seq(State)
  /\ Len(vec) <= Len(more)
  /\ \A k \in 1 .. Len(vec) : more[k] = vec[k]

\* A vector is an extension of itself.
LEMMA LongerItself ==
  ASSUME NEW vec \in Seq(State)
  PROVE  Longer(vec, vec)
BY DEF Longer

\* insert_state leaves every learnt state at its index.
LEMMA InsertLonger ==
  ASSUME NEW vec \in Seq(State), NEW s \in State
  PROVE  Longer(vec, insert_state(vec, s))
<1>1. CASE Learnt(vec, s)
  BY <1>1 DEF insert_state, Longer
<1>2. CASE ~Learnt(vec, s)
  BY <1>2 DEF insert_state, Longer
<1> QED
  BY <1>1, <1>2

\* What a frame has been compared with stays behind its indices.
LEMMA ScannedForLonger ==
  ASSUME NEW g, NEW f \in Frame, NEW wins, NEW fails, NEW wins2, NEW fails2,
         ScannedFor(g, f, wins, fails), Longer(wins, wins2), Longer(fails, fails2)
  PROVE  ScannedFor(g, f, wins2, fails2)
<1>1. f.winning_checked_idx \in Nat /\ f.failure_checked_idx \in Nat
  BY DEF Frame
<1>2. Len(wins) \in Nat /\ Len(wins2) \in Nat /\ Len(fails) \in Nat /\ Len(fails2) \in Nat
  BY DEF Longer
<1>3. /\ f.winning_checked_idx <= Len(wins2)
      /\ f.failure_checked_idx <= Len(fails2)
  BY <1>1, <1>2 DEF ScannedFor, Longer
<1>4. \A k \in 1 .. f.winning_checked_idx : k \in 1 .. Len(wins)
  BY <1>1, <1>2 DEF ScannedFor
<1>5. \A k \in 1 .. f.failure_checked_idx : k \in 1 .. Len(fails)
  BY <1>1, <1>2 DEF ScannedFor
<1>6. \A k \in 1 .. f.winning_checked_idx : ~Implies(g, wins2[k], f.state)
  BY <1>4 DEF ScannedFor, Longer
<1>7. \A k \in 1 .. f.failure_checked_idx : ~Implies(g, f.state, fails2[k])
  BY <1>5 DEF ScannedFor, Longer
<1> QED
  BY <1>3, <1>6, <1>7 DEF ScannedFor

-----------------------------------------------------------------------------
(***************************************************************************)
(* What the steps do to a frame.                                            *)
(***************************************************************************)
\* The frame h stands where the frame f stood, as far as the scans go.
SameScan(f, h) ==
  /\ h.state = f.state
  /\ h.winning_checked_idx = f.winning_checked_idx
  /\ h.failure_checked_idx = f.failure_checked_idx

\* process_signal rewrites constraints and the travel direction, never the state
\* of a frame or its indices.
LEMMA SignalSameScan ==
  ASSUME NEW f \in Frame,
         NEW h \in To_winning_state(f) \cup To_failure_state(f) \cup Accepting_edge(f) \cup NoWay(f)
  PROVE  h \in Frame /\ SameScan(f, h)
<1>1. ASSUME NEW R, h \in BlockX(f, R)
      PROVE  h \in Frame /\ SameScan(f, h)
  <2>1. PICK base \in calc_X_base(f), B \in R :
          h = [f EXCEPT !.X_base = base, !.X_constraint = f.X_constraint \ B, !.current_X = NULL]
    BY <1>1 DEF BlockX
  <2>2. base \in SUBSET XEdges
    BY DEF calc_X_base, Frame
  <2> QED
    BY <2>1, <2>2 DEF SameScan, Frame
<1>2. ASSUME NEW R, h \in BlockY(f, R)
      PROVE  h \in Frame /\ SameScan(f, h)
  <2>1. PICK B \in R : h = [f EXCEPT !.Y_constraint = f.Y_constraint \ B, !.X_constraint = XEdges,
                                     !.current_Y = NULL, !.current_X = NULL]
    BY <1>2 DEF BlockY
  <2> QED
    BY <2>1 DEF SameScan, Frame
<1> QED
  BY <1>1, <1>2 DEF To_winning_state, To_failure_state, Accepting_edge, NoWay

\* SetTravelDirection likewise.
LEMMA TravelledSameScan ==
  ASSUME Top \in Frame, NEW e
  PROVE  SameScan(Top, Travelled(e))
BY DEF Travelled, SetTravelDirection, SameScan, Frame

\* Neither test of CheckRealizability recognised the frame: the scans reached the
\* ends of the vectors without a hit, and the indices move there.
LEMMA ScansReachEnd ==
  ASSUME LearntOK, NEW f \in Frame,
         ScannedFor(game, f, winning_state_vec, failure_state_vec),
         ~KnownWinning(f), ~KnownFailure(f)
  PROVE  LET h == FailureScanned(WinningScanned(f))
         IN /\ ScannedFor(game, h, winning_state_vec, failure_state_vec)
            /\ h.winning_checked_idx = Len(winning_state_vec)
            /\ h.failure_checked_idx = Len(failure_state_vec)
<1> DEFINE h == FailureScanned(WinningScanned(f))
<1>1. /\ h.state = f.state
      /\ h.winning_checked_idx = Len(winning_state_vec)
      /\ h.failure_checked_idx = Len(failure_state_vec)
  BY DEF FailureScanned, WinningScanned, Frame
<1> HIDE DEF h
<1>2. /\ Len(winning_state_vec) \in Nat /\ Len(failure_state_vec) \in Nat
      /\ f.winning_checked_idx \in Nat /\ f.failure_checked_idx \in Nat
  BY DEF LearntOK, Frame
<1>3. ASSUME NEW k \in 1 .. Len(winning_state_vec)
      PROVE  ~Implies(game, winning_state_vec[k], f.state)
  <2>1. CASE k <= f.winning_checked_idx
    BY <1>2, <2>1 DEF ScannedFor
  <2>2. CASE k > f.winning_checked_idx
    <3> DEFINE i == k - 1
    <3>1. i \in f.winning_checked_idx .. Len(winning_state_vec) - 1 /\ i + 1 = k
      BY <1>2, <2>2
    <3>2. i \notin WinningHits(f)
      BY DEF KnownWinning
    <3> QED
      BY <3>1, <3>2 DEF WinningHits
  <2> QED
    BY <1>2, <2>1, <2>2
<1>4. ASSUME NEW k \in 1 .. Len(failure_state_vec)
      PROVE  ~Implies(game, f.state, failure_state_vec[k])
  <2>1. CASE k <= f.failure_checked_idx
    BY <1>2, <2>1 DEF ScannedFor
  <2>2. CASE k > f.failure_checked_idx
    <3> DEFINE i == k - 1
    <3>1. i \in f.failure_checked_idx .. Len(failure_state_vec) - 1 /\ i + 1 = k
      BY <1>2, <2>2
    <3>2. i \notin FailureHits(f)
      BY DEF KnownFailure
    <3> QED
      BY <3>1, <3>2 DEF FailureHits
  <2> QED
    BY <1>2, <2>1, <2>2
<1>5. ScannedFor(game, h, winning_state_vec, failure_state_vec)
  BY <1>1, <1>2, <1>3, <1>4 DEF ScannedFor
<1> QED
  BY <1>1, <1>5 DEF h

\* A new frame has been compared with nothing.
LEMMA FreshScanned ==
  ASSUME LearntOK, NEW s \in State
  PROVE  ScannedFor(game, Syn_Frame(s), winning_state_vec, failure_state_vec)
<1>1. /\ Syn_Frame(s).winning_checked_idx = 0 /\ Syn_Frame(s).failure_checked_idx = 0
      /\ Len(winning_state_vec) \in Nat /\ Len(failure_state_vec) \in Nat
  BY DEF Syn_Frame, LearntOK
<1> QED
  BY <1>1 DEF ScannedFor

-----------------------------------------------------------------------------
(***************************************************************************)
(* What the steps do to the stack.                                          *)
(***************************************************************************)
\* A step learns states but takes none back, and leaves the game alone.
Learns ==
  /\ game' = game
  /\ Longer(winning_state_vec, winning_state_vec')
  /\ Longer(failure_state_vec, failure_state_vec')

\* A stack cut back to its first n frames, the last of which may get new
\* constraints, has been scanned as far as before.
LEMMA CutScanned ==
  ASSUME IInv, StackScanned, Learns,
         NEW n \in 1 .. Depth, Depth' = n,
         \A i \in 1 .. n - 1 : searcher'[i] = searcher[i],
         SameScan(searcher[n], searcher'[n])
  PROVE  StackScanned'
<1>1. Depth \in Nat /\ \A i \in 1 .. Depth : searcher[i] \in Frame
  BY TopFrame DEF IInv
<1>2. ASSUME NEW i \in 1 .. n
      PROVE  ScannedFor(game', searcher'[i], winning_state_vec', failure_state_vec')
  <2>1. i \in 1 .. Depth /\ (i = n \/ i \in 1 .. n - 1)
    BY <1>1
  <2>2. ScannedFor(game, searcher[i], winning_state_vec, failure_state_vec)
    BY <2>1 DEF StackScanned
  <2>3. ScannedFor(game', searcher[i], winning_state_vec', failure_state_vec')
    BY <1>1, <2>1, <2>2, ScannedForLonger DEF Learns
  <2>4. SameScan(searcher[i], searcher'[i])
    BY <2>1 DEF SameScan
  <2> QED
    BY <2>3, <2>4 DEF ScannedFor, SameScan
<1> QED
  BY <1>2 DEF StackScanned, Implies

\* The stack is left alone.
LEMMA SameStackScanned ==
  ASSUME IInv, StackScanned, Learns, searcher' = searcher
  PROVE  StackScanned'
<1>1. Depth \in 1 .. Depth /\ Depth' = Depth
  BY TopFrame DEF IInv, Depth
<1>2. SameScan(searcher[Depth], searcher'[Depth])
  BY DEF SameScan
<1> QED
  BY <1>1, <1>2, CutScanned

\* The constraints of the top are rewritten.
LEMMA NewTopScanned ==
  ASSUME IInv, StackScanned, Learns,
         NEW f \in Frame, SameScan(Top, f), searcher' = SetTop(f)
  PROVE  StackScanned'
<1>1. /\ Depth \in 1 .. Depth /\ Depth' = Depth /\ searcher'[Depth] = f
      /\ \A i \in 1 .. Depth - 1 : searcher'[i] = searcher[i]
  BY TopFrame, SetTopShape DEF IInv, Depth
<1>2. SameScan(searcher[Depth], searcher'[Depth])
  BY <1>1 DEF Top
<1> QED
  BY <1>1, <1>2, CutScanned

\* The top is popped and the frame below it rewritten.
LEMMA PopScanned ==
  ASSUME IInv, StackScanned, Learns, Depth > 1,
         NEW f \in Frame, SameScan(searcher[Depth - 1], f), searcher' = PopAndSet(f)
  PROVE  StackScanned'
<1>1. StackOK /\ Depth \in Nat
  BY TopFrame DEF IInv
<1>2. /\ Len(searcher') = Depth - 1 /\ searcher'[Depth - 1] = f
      /\ \A i \in 1 .. (Depth - 1) - 1 : searcher'[i] = searcher[i]
  BY <1>1, PopAndSetShape
<1>3. Depth - 1 \in 1 .. Depth /\ Depth' = Depth - 1
  BY <1>1, <1>2 DEF Depth
<1> QED
  BY <1>2, <1>3, CutScanned

-----------------------------------------------------------------------------
(***************************************************************************)
(* Every step keeps the invariant.                                          *)
(***************************************************************************)
\* The search starts with one fresh frame.
LEMMA InitScanInv ==
  ASSUME Init
  PROVE  ScanInv
<1>1. IInv
  BY InitIInv
<1>2. LearntOK /\ game.init \in State
  BY <1>1, GamesAssumption DEF IInv, LearntOK, GameType
<1>3. Depth = 1 /\ searcher[1] = Syn_Frame(game.init)
  BY DEF Init, Depth
<1>4. StackScanned
  BY <1>2, <1>3, FreshScanned DEF StackScanned
<1> QED
  BY <1>4 DEF ScanInv, TopScannedToEnd, Init

\* How the vectors of learnt states may change.
LEMMA LearnsForms ==
  ASSUME LearntOK, game' = game,
         \/ winning_state_vec' = winning_state_vec
         \/ \E s \in State : winning_state_vec' = insert_state(winning_state_vec, s),
         \/ failure_state_vec' = failure_state_vec
         \/ \E s \in State : failure_state_vec' = insert_state(failure_state_vec, s)
  PROVE  Learns
BY LongerItself, InsertLonger DEF LearntOK, Learns

\* The steps that leave the stack alone.
LEMMA SameStackSteps ==
  ASSUME IInv, ScanInv,
         \/ FinishRealizable \/ FinishUnrealizable \/ RunTimeout \/ ExpandSat
         \/ UnsatFinish \/ UnsatStateFails \/ TraceBaseFinish \/ UNCHANGED vars
  PROVE  ScanInv'
<1>1. LearntOK /\ Top.state \in State
  BY TopFrame DEF IInv, Frame
<1>2. game' = game /\ searcher' = searcher
  BY DEF FinishRealizable, FinishUnrealizable, RunTimeout, ExpandSat, UnsatFinish,
         UnsatStateFails, TraceBaseFinish, vars
<1>3. /\ \/ winning_state_vec' = winning_state_vec
         \/ \E s \in State : winning_state_vec' = insert_state(winning_state_vec, s)
      /\ \/ failure_state_vec' = failure_state_vec
         \/ \E s \in State : failure_state_vec' = insert_state(failure_state_vec, s)
  BY <1>1 DEF FinishRealizable, FinishUnrealizable, RunTimeout, ExpandSat, UnsatFinish,
         UnsatStateFails, TraceBaseFinish, vars
<1>4. Learns
  BY <1>1, <1>2, <1>3, LearnsForms
<1>5. StackScanned'
  BY <1>2, <1>4, SameStackScanned DEF ScanInv
<1>6. TopScannedToEnd'
  BY DEF FinishRealizable, FinishUnrealizable, RunTimeout, ExpandSat, UnsatFinish,
         UnsatStateFails, TraceBaseFinish, vars, Finish, ScanInv, TopScannedToEnd, Top, Depth
<1> QED
  BY <1>5, <1>6 DEF ScanInv

\* The steps that pop the top.
LEMMA PopSteps ==
  ASSUME IInv, ScanInv,
         PopRealizable \/ PopUnrealizable \/ UnsatPop \/ TraceBasePop
  PROVE  ScanInv'
<1>1. LearntOK /\ Top.state \in State
  BY TopFrame DEF IInv, Frame
<1>2. /\ game' = game /\ Depth > 1 /\ pc' = "check"
      /\ \E f \in To_winning_state(searcher[Depth - 1]) \cup To_failure_state(searcher[Depth - 1]) :
           searcher' = PopAndSet(f)
  BY DEF PopRealizable, PopUnrealizable, UnsatPop, TraceBasePop, PopFailing, EndOfWalk
<1>3. /\ \/ winning_state_vec' = winning_state_vec
         \/ \E s \in State : winning_state_vec' = insert_state(winning_state_vec, s)
      /\ \/ failure_state_vec' = failure_state_vec
         \/ \E s \in State : failure_state_vec' = insert_state(failure_state_vec, s)
  BY <1>1 DEF PopRealizable, PopUnrealizable, UnsatPop, TraceBasePop
<1>4. Learns
  BY <1>1, <1>2, <1>3, LearnsForms
<1>5. PICK f \in To_winning_state(searcher[Depth - 1]) \cup To_failure_state(searcher[Depth - 1]) :
        searcher' = PopAndSet(f)
  BY <1>2
<1>6. f \in Frame /\ SameScan(searcher[Depth - 1], f)
  BY <1>1, <1>2, FrameBelow, SignalSameScan DEF IInv, LearntOK
<1>7. StackScanned'
  BY <1>2, <1>4, <1>5, <1>6, PopScanned DEF ScanInv
<1> QED
  BY <1>2, <1>7 DEF ScanInv, TopScannedToEnd

\* The steps that rewrite the constraints of the top.
LEMMA NewTopSteps ==
  ASSUME IInv, ScanInv,
         \/ UnsatNoWay \/ TraceRepeat \/ TraceKnownFailure \/ TraceKnownWinning
         \/ TraceAccepting
  PROVE  ScanInv'
<1>1. LearntOK /\ Top \in Frame
  BY TopFrame DEF IInv
<1>2. game' = game /\ pc' = "check" /\ (UnsatNoWay \/ pc = "trace")
  BY DEF UnsatNoWay, TraceRepeat, TraceKnownFailure, TraceKnownWinning, TraceAccepting, EndOfWalk
<1>3. /\ \/ winning_state_vec' = winning_state_vec
         \/ \E s \in State : winning_state_vec' = insert_state(winning_state_vec, s)
      /\ \/ failure_state_vec' = failure_state_vec
         \/ \E s \in State : failure_state_vec' = insert_state(failure_state_vec, s)
  <2>1. CASE UnsatNoWay
    BY <2>1 DEF UnsatNoWay
  <2>2. CASE TraceRepeat \/ TraceKnownFailure \/ TraceKnownWinning \/ TraceAccepting
    <3>1. pc = "trace"
      BY <2>2 DEF TraceRepeat, TraceKnownFailure, TraceKnownWinning, TraceAccepting
    <3> QED
      BY <2>2, <3>1, TraceEdge DEF TraceRepeat, TraceKnownFailure, TraceKnownWinning, TraceAccepting
  <2> QED
    BY <2>1, <2>2
<1>4. Learns
  BY <1>1, <1>2, <1>3, LearnsForms
<1>5. PICK f \in Frame : SameScan(Top, f) /\ searcher' = SetTop(f)
  <2>1. CASE UnsatNoWay
    BY <1>1, <2>1, SignalSameScan DEF UnsatNoWay
  <2>2. CASE TraceRepeat \/ TraceKnownFailure \/ TraceKnownWinning \/ TraceAccepting
    <3> pc = "trace"
      BY <2>2 DEF TraceRepeat, TraceKnownFailure, TraceKnownWinning, TraceAccepting
    <3>1. PICK e \in TraceEdges :
            \E f \in To_winning_state(Travelled(e)) \cup To_failure_state(Travelled(e))
                     \cup Accepting_edge(Travelled(e)) : searcher' = SetTop(f)
      BY <2>2 DEF TraceRepeat, TraceKnownFailure, TraceKnownWinning, TraceAccepting, BlockOutput
    <3>2. PICK f \in To_winning_state(Travelled(e)) \cup To_failure_state(Travelled(e))
                     \cup Accepting_edge(Travelled(e)) : searcher' = SetTop(f)
      BY <3>1
    <3>3. Travelled(e) \in Frame /\ SameScan(Top, Travelled(e))
      BY <1>1, TraceEdge, TravelledSameScan
    <3>4. f \in Frame /\ SameScan(Travelled(e), f)
      BY <3>3, SignalSameScan
    <3> QED
      BY <3>2, <3>3, <3>4 DEF SameScan
  <2> QED
    BY <2>1, <2>2
<1>6. StackScanned'
  BY <1>4, <1>5, NewTopScanned DEF ScanInv
<1> QED
  BY <1>2, <1>6 DEF ScanInv, TopScannedToEnd

\* CheckRealizability found nothing, so the indices of the top are at the ends.
LEMMA CallExpandStep ==
  ASSUME IInv, ScanInv, CallExpand
  PROVE  ScanInv'
<1> DEFINE h == FailureScanned(WinningScanned(Top))
<1>1. /\ StackOK /\ LearntOK /\ TypeOK
      /\ Top \in Frame /\ JustifiedFrame(Top, unaccepted, Reliable) /\ Depth \in Nat /\ Depth \in 1 .. Depth
  BY TopFrame, IInvTypeOK DEF IInv
<1>2. h \in Frame
  BY <1>1, ScannedFrame
<1>3. ~KnownWinning(Top) /\ ~KnownFailure(Top)
  BY DEF CallExpand, IsUnknown, IsRealizable, IsUnrealizable
<1>4. ScannedFor(game, Top, winning_state_vec, failure_state_vec)
  BY <1>1 DEF ScanInv, StackScanned, Top
<1>5. /\ ScannedFor(game, h, winning_state_vec, failure_state_vec)
      /\ h.winning_checked_idx = Len(winning_state_vec)
      /\ h.failure_checked_idx = Len(failure_state_vec)
  BY <1>1, <1>3, <1>4, ScansReachEnd
<1>6. searcher' = SetTop(h) /\ UNCHANGED <<game, winning_state_vec, failure_state_vec>>
  BY DEF CallExpand
<1> HIDE DEF h
<1>7. /\ Depth' = Depth /\ searcher'[Depth] = h
      /\ \A i \in 1 .. Depth - 1 : searcher'[i] = searcher[i]
  BY <1>1, <1>2, <1>6, SetTopShape DEF Depth
<1>8. StackScanned'
  <2>1. ASSUME NEW i \in 1 .. Depth
        PROVE  ScannedFor(game, searcher'[i], winning_state_vec, failure_state_vec)
    <3>1. CASE i = Depth
      BY <1>5, <1>7, <3>1
    <3>2. CASE i # Depth
      BY <1>1, <1>7, <3>2 DEF ScanInv, StackScanned
    <3> QED
      BY <3>1, <3>2
  <2> QED
    BY <1>6, <1>7, <2>1 DEF StackScanned, ScannedFor, Implies
<1>9. Top' = h
  BY <1>7 DEF Top
<1> QED
  BY <1>5, <1>6, <1>8, <1>9 DEF ScanInv, TopScannedToEnd

\* The frame pushed for a successor was compared with every state learnt when
\* Expand looked the successor up.
LEMMA TracePushStep ==
  ASSUME IInv, ScanInv, TracePush
  PROVE  ScanInv'
<1>1. /\ StackOK /\ LearntOK /\ TypeOK /\ pc = "trace"
      /\ Top \in Frame /\ Depth \in Nat /\ Depth \in 1 .. Depth
  BY TopFrame, IInvTypeOK DEF IInv, TracePush
<1>2. PICK e \in TraceEdges :
        /\ ~KnownFailure(Syn_Frame(Successor(e))) /\ ~KnownWinning(Syn_Frame(Successor(e)))
        /\ searcher' = Append(SetTop(Travelled(e)),
                              FailureScanned(WinningScanned(Syn_Frame(Successor(e)))))
  BY DEF TracePush
<1> DEFINE n == Syn_Frame(Successor(e))
           h == FailureScanned(WinningScanned(n))
           below == SetTop(Travelled(e))
<1>3. Travelled(e) \in Frame /\ Successor(e) \in State /\ SameScan(Top, Travelled(e))
  BY <1>1, TraceEdge, TravelledSameScan
<1>4. n \in Frame /\ ScannedFor(game, n, winning_state_vec, failure_state_vec)
  BY <1>1, <1>3, FreshFrame, FreshScanned
<1>5. ScannedFor(game, h, winning_state_vec, failure_state_vec)
  BY <1>1, <1>2, <1>4, ScansReachEnd
<1>6. /\ below \in Seq(Frame) /\ Len(below) = Depth /\ below[Depth] = Travelled(e)
      /\ \A i \in 1 .. Depth - 1 : below[i] = searcher[i]
  BY <1>1, <1>3, SetTopShape
<1>7. searcher' = Append(below, h) /\ UNCHANGED <<game, winning_state_vec, failure_state_vec>>
  BY <1>2 DEF TracePush
<1> HIDE DEF n, h, below
<1>8. /\ Depth' = Depth + 1 /\ searcher'[Depth + 1] = h
      /\ \A i \in 1 .. Depth : searcher'[i] = below[i]
  BY <1>1, <1>6, <1>7 DEF Depth
<1>9. ASSUME NEW i \in 1 .. Depth + 1
      PROVE  ScannedFor(game, searcher'[i], winning_state_vec, failure_state_vec)
  <2>1. CASE i = Depth + 1
    BY <1>5, <1>8, <2>1
  <2>2. CASE i = Depth
    <3>1. ScannedFor(game, Top, winning_state_vec, failure_state_vec)
      BY <1>1 DEF ScanInv, StackScanned, Top
    <3> QED
      BY <1>1, <1>3, <1>6, <1>8, <2>2, <3>1 DEF ScannedFor, SameScan
  <2>3. CASE i \in 1 .. Depth - 1
    <3>1. i \in 1 .. Depth
      BY <1>1, <2>3
    <3> QED
      BY <1>6, <1>8, <2>3, <3>1 DEF ScanInv, StackScanned
  <2> QED
    BY <1>1, <2>1, <2>2, <2>3
<1>10. StackScanned'
  BY <1>7, <1>8, <1>9 DEF StackScanned, ScannedFor, Implies
<1>11. TopScannedToEnd'
  BY DEF TracePush, TopScannedToEnd
<1> QED
  BY <1>10, <1>11 DEF ScanInv

\* The invariant of the scans.
LEMMA SpecScanInv == Spec => []ScanInv
<1>1. Init => ScanInv
  BY InitScanInv
<1>2. IInv /\ ScanInv /\ [Next]_vars => ScanInv'
  BY SameStackSteps, PopSteps, NewTopSteps, CallExpandStep, TracePushStep DEF Next, Terminated
<1> QED
  BY <1>1, <1>2, SpecIInv, PTL DEF Spec

-----------------------------------------------------------------------------
\* A state for which Expand calls the checker is implied by no learnt winning
\* state and implies no learnt failing one, the ones learnt while its frame was
\* buried in the stack included.
THEOREM SpecScansComplete == Spec => []ScansComplete
<1>1. IInv /\ ScanInv => ScansComplete
  <2> SUFFICES ASSUME IInv, ScanInv, pc = "expand"
               PROVE  /\ \A s \in Members(winning_state_vec) : ~Implies(game, s, Top.state)
                      /\ \A s \in Members(failure_state_vec) : ~Implies(game, Top.state, s)
    BY DEF ScansComplete
  <2>1. ScannedFor(game, Top, winning_state_vec, failure_state_vec)
    BY TopFrame DEF IInv, ScanInv, StackScanned, Top
  <2>2. /\ DOMAIN winning_state_vec = 1 .. Top.winning_checked_idx
        /\ DOMAIN failure_state_vec = 1 .. Top.failure_checked_idx
    BY LenProperties DEF IInv, LearntOK, ScanInv, TopScannedToEnd
  <2> QED
    BY <2>1, <2>2 DEF ScannedFor, Members
<1> QED
  BY <1>1, SpecIInv, SpecScanInv, PTL

-----------------------------------------------------------------------------
(***************************************************************************)
(* Progress.  Each signal takes the edge it is about out of the constraint  *)
(* of its frame, so the frame really gives something up: the constraints    *)
(* still allow the edge on which a frame waits.                             *)
(***************************************************************************)
\* The output of a frame is one it may still take, and so is the label it waits on.
OutputKept(f) == f.current_Y # NULL => f.current_Y \in f.Y_constraint

EdgeKept(f) ==
  /\ f.current_Y \in f.Y_constraint
  /\ f.current_X \in XParts /\ Completions(f.current_X) \subseteq f.X_constraint

EdgesKept ==
  /\ OutputKept(Top)
  /\ \A i \in 1 .. Depth - 1 : EdgeKept(searcher[i])

\* The label of a word is one the constraints allow, and taking it changes neither.
LEMMA TravelledKeepsEdge ==
  ASSUME Top \in Frame, JustifiedFrame(Top, unaccepted, Reliable), OutputKept(Top),
         NEW e \in TraceEdges
  PROVE  EdgeKept(Travelled(e)) /\ SameConstraints(Top, Travelled(e))
<1>1. /\ e[1] \in YEdges /\ e[2] \in XParts
      /\ {e[1]} \X Completions(e[2]) \subseteq EdgeConstraint(Top)
  BY DEF TraceEdges
<1>2. /\ Travelled(e).current_Y = e[1] /\ Travelled(e).current_X = e[2]
      /\ Travelled(e).Y_constraint = Top.Y_constraint
      /\ Travelled(e).X_constraint = Top.X_constraint
      /\ Top.current_Y # NULL => Top.current_Y = e[1]
  BY <1>1, TravelledFrame DEF Travelled
<1>3. Completions(e[2]) \subseteq XEdges /\ \E x \in XEdges : x \in Completions(e[2])
  BY <1>1, PartsAndEdges
<1>4. \A x \in Completions(e[2]) : <<e[1], x>> \in EdgeConstraint(Top)
  BY <1>1
<1>5. CASE Top.current_Y = NULL
  <2>1. Top.X_constraint = XEdges
    BY <1>5 DEF JustifiedFrame
  <2>2. e[1] \in Top.Y_constraint
    BY <1>3, <1>4, <1>5 DEF EdgeConstraint, IsNotTryingY
  <2> QED
    BY <1>1, <1>2, <1>3, <2>1, <2>2 DEF EdgeKept, SameConstraints
<1>6. CASE Top.current_Y # NULL
  <2>1. Completions(e[2]) \subseteq Top.X_constraint
    BY <1>4, <1>6 DEF EdgeConstraint, IsNotTryingY, GetRealX_constraint
  <2> QED
    BY <1>1, <1>2, <1>6, <2>1 DEF OutputKept, EdgeKept, SameConstraints
<1> QED
  BY <1>5, <1>6

\* Blocking inputs takes the inputs of the frame's own label out of X_constraint.
LEMMA BlockXGivesUp ==
  ASSUME NEW f \in Frame, EdgeKept(f), NEW h \in To_winning_state(f) \cup Accepting_edge(f)
  PROVE  GivesUp(f, h) /\ OutputKept(h)
<1>1. ASSUME NEW R, h \in BlockX(f, R), \A B \in R : Completions(f.current_X) \subseteq B
      PROVE  GivesUp(f, h) /\ OutputKept(h)
  <2>1. PICK base \in calc_X_base(f), B \in R :
          h = [f EXCEPT !.X_base = base, !.X_constraint = f.X_constraint \ B, !.current_X = NULL]
    BY <1>1 DEF BlockX
  <2>2. /\ h.Y_constraint = f.Y_constraint /\ h.current_Y = f.current_Y
        /\ h.X_constraint = f.X_constraint \ B
    BY <2>1 DEF Frame
  <2>3. PICK x \in XEdges : x \in Completions(f.current_X)
    BY PartsAndEdges DEF EdgeKept
  <2>4. x \in f.X_constraint /\ x \in B
    BY <1>1, <2>3 DEF EdgeKept
  <2> QED
    BY <2>2, <2>4 DEF EdgeKept, OutputKept, GivesUp
<1>2. f.current_X \in XParts
  BY DEF EdgeKept
<1>3. CASE h \in To_winning_state(f)
  <2>1. \A B \in X_reduced_to_winning(f) : Completions(f.current_X) \subseteq B
    BY <1>2, ReductionCovers DEF X_reduced_to_winning
  <2> QED
    BY <1>1, <1>3, <2>1 DEF To_winning_state
<1>4. CASE h \in Accepting_edge(f)
  <2>1. \A B \in X_reduced_accepting(f) : Completions(f.current_X) \subseteq B
    BY <1>2, ReductionCovers DEF X_reduced_accepting
  <2> QED
    BY <1>1, <1>4, <2>1 DEF Accepting_edge
<1> QED
  BY <1>3, <1>4

\* Blocking outputs takes the frame's own output out of Y_constraint.
LEMMA BlockYGivesUp ==
  ASSUME NEW f \in Frame, f.current_Y \in f.Y_constraint,
         NEW h \in To_failure_state(f) \cup NoWay(f)
  PROVE  GivesUp(f, h) /\ OutputKept(h)
<1>1. PICK B \in Y_reduced_to_failure(f) \cup Y_reduced_no_way(f) :
        h = [f EXCEPT !.Y_constraint = f.Y_constraint \ B, !.X_constraint = XEdges,
                      !.current_Y = NULL, !.current_X = NULL]
  BY DEF To_failure_state, NoWay, BlockY
<1>2. f.current_Y \in B
  BY DEF Y_reduced_to_failure, Y_reduced_no_way
<1>3. h.Y_constraint = f.Y_constraint \ B /\ h.current_Y = NULL
  BY <1>1 DEF Frame
<1> QED
  BY <1>2, <1>3 DEF OutputKept, GivesUp

\* A stack cut back to a frame that gives something up.
LEMMA CutAdvances ==
  ASSUME EdgesKept, NEW n \in 1 .. Depth, Depth \in Nat, Depth' = n,
         \A i \in 1 .. n - 1 : searcher'[i] = searcher[i],
         GivesUp(searcher[n], searcher'[n]), OutputKept(searcher'[n])
  PROVE  EdgesKept' /\ StackAdvances
<1>1. \A i \in 1 .. n - 1 : i \in 1 .. Depth - 1 /\ i <= Depth
  OBVIOUS
<1>2. \A i \in 1 .. n - 1 : EdgeKept(searcher'[i])
  BY <1>1 DEF EdgesKept, EdgeKept
<1>3. EdgesKept'
  BY <1>2 DEF EdgesKept, Top, OutputKept, EdgeKept
<1>4. \A i \in 1 .. n - 1 : i <= Depth /\ SameConstraints(searcher[i], searcher'[i])
  BY <1>1 DEF SameConstraints
<1>5. n \in 1 .. Len(searcher')
  BY DEF Depth
<1>6. StackAdvances
  BY <1>4, <1>5 DEF StackAdvances
<1> QED
  BY <1>3, <1>6

\* The steps that pop the top: the frame below gives up the edge that led to it.
LEMMA PopAdvances ==
  ASSUME IInv, EdgesKept, PopRealizable \/ PopUnrealizable \/ UnsatPop \/ TraceBasePop
  PROVE  EdgesKept' /\ StackAdvances
<1>1. /\ Depth > 1
      /\ \E h \in To_winning_state(searcher[Depth - 1]) \cup To_failure_state(searcher[Depth - 1]) :
           searcher' = PopAndSet(h)
  BY DEF PopRealizable, PopUnrealizable, UnsatPop, TraceBasePop, PopFailing
<1> DEFINE f == searcher[Depth - 1]
<1>2. PICK h \in To_winning_state(f) \cup To_failure_state(f) : searcher' = PopAndSet(h)
  BY <1>1
<1>3. /\ StackOK /\ Depth \in Nat /\ f \in Frame
      /\ Depth - 1 \in 1 .. Depth - 1 /\ Depth - 1 \in 1 .. Depth
  BY <1>1, TopFrame, FrameBelow DEF IInv, LearntOK
<1>4. EdgeKept(f)
  BY <1>3 DEF EdgesKept
<1> HIDE DEF f
<1>5. GivesUp(f, h) /\ OutputKept(h)
  BY <1>3, <1>4, BlockXGivesUp, BlockYGivesUp DEF EdgeKept
<1>6. h \in Frame
  BY <1>3, SignalSameScan
<1>7. /\ Len(PopAndSet(h)) = Depth - 1 /\ PopAndSet(h)[Depth - 1] = h
      /\ \A i \in 1 .. (Depth - 1) - 1 : PopAndSet(h)[i] = searcher[i]
  BY <1>1, <1>3, <1>6, PopAndSetShape
<1>8. /\ Depth' = Depth - 1 /\ searcher'[Depth - 1] = h
      /\ \A i \in 1 .. (Depth - 1) - 1 : searcher'[i] = searcher[i]
  BY <1>2, <1>7 DEF Depth
<1>9. GivesUp(searcher[Depth - 1], searcher'[Depth - 1]) /\ OutputKept(searcher'[Depth - 1])
  BY <1>5, <1>8 DEF f
<1> QED
  BY <1>3, <1>8, <1>9, CutAdvances

\* A step that leaves the stack but for the top, which gives something up.
LEMMA TopAdvances ==
  ASSUME StackOK, EdgesKept, NEW h \in Frame, GivesUp(Top, h), OutputKept(h),
         searcher' = SetTop(h)
  PROVE  EdgesKept' /\ StackAdvances
<1>1. Depth \in Nat /\ Depth \in 1 .. Depth
  BY TopFrame
<1>2. /\ Len(SetTop(h)) = Depth /\ SetTop(h)[Depth] = h
      /\ \A i \in 1 .. Depth - 1 : SetTop(h)[i] = searcher[i]
  BY SetTopShape
<1>3. /\ Depth' = Depth /\ searcher'[Depth] = h
      /\ \A i \in 1 .. Depth - 1 : searcher'[i] = searcher[i]
  BY <1>2 DEF Depth
<1>4. GivesUp(searcher[Depth], searcher'[Depth]) /\ OutputKept(searcher'[Depth])
  BY <1>3 DEF Top
<1> QED
  BY <1>1, <1>3, <1>4, CutAdvances

\* The steps that rewrite the constraints of the top: the top gives up an edge of
\* the word, or the output it tries.
LEMMA NewTopAdvances ==
  ASSUME IInv, EdgesKept,
         \/ UnsatNoWay \/ TraceRepeat \/ TraceKnownFailure \/ TraceKnownWinning
         \/ TraceAccepting
  PROVE  EdgesKept' /\ StackAdvances
<1>1. StackOK /\ Top \in Frame /\ JustifiedFrame(Top, unaccepted, Reliable) /\ OutputKept(Top)
  BY TopFrame DEF IInv, EdgesKept
<1>2. CASE UnsatNoWay
  <2>1. PICK h \in NoWay(Top) : searcher' = SetTop(h)
    BY <1>2 DEF UnsatNoWay
  <2>2. Top.current_Y \in Top.Y_constraint
    BY <1>1, <1>2 DEF UnsatNoWay, IsNotTryingY, OutputKept
  <2>3. h \in Frame /\ GivesUp(Top, h) /\ OutputKept(h)
    BY <1>1, <2>2, SignalSameScan, BlockYGivesUp
  <2> QED
    BY <1>1, <2>1, <2>3, TopAdvances
<1>3. CASE TraceRepeat \/ TraceKnownFailure \/ TraceKnownWinning \/ TraceAccepting
  <2>1. PICK e \in TraceEdges :
          \E h \in To_winning_state(Travelled(e)) \cup To_failure_state(Travelled(e))
                   \cup Accepting_edge(Travelled(e)) : searcher' = SetTop(h)
    BY <1>3 DEF TraceRepeat, TraceKnownFailure, TraceKnownWinning, TraceAccepting, BlockOutput
  <2>2. PICK h \in To_winning_state(Travelled(e)) \cup To_failure_state(Travelled(e))
                   \cup Accepting_edge(Travelled(e)) : searcher' = SetTop(h)
    BY <2>1
  <2>3. pc = "trace"
    BY <1>3 DEF TraceRepeat, TraceKnownFailure, TraceKnownWinning, TraceAccepting
  <2>4. /\ Travelled(e) \in Frame /\ EdgeKept(Travelled(e))
        /\ SameConstraints(Top, Travelled(e))
    BY <1>1, <2>3, TraceEdge, TravelledKeepsEdge
  <2>5. h \in Frame
    BY <2>4, SignalSameScan
  <2>6. GivesUp(Travelled(e), h) /\ OutputKept(h)
    BY <2>4, BlockXGivesUp, BlockYGivesUp DEF EdgeKept
  <2>7. GivesUp(Top, h)
    BY <2>4, <2>6 DEF GivesUp, SameConstraints
  <2> QED
    BY <1>1, <2>2, <2>5, <2>6, <2>7, TopAdvances
<1> QED
  BY <1>2, <1>3

\* The steps that leave the stack alone, or only move the scan indices of the top.
LEMMA StackKeptSteps ==
  ASSUME IInv, EdgesKept,
         \/ FinishRealizable \/ FinishUnrealizable \/ RunTimeout \/ ExpandSat
         \/ UnsatFinish \/ UnsatStateFails \/ TraceBaseFinish \/ UNCHANGED vars
  PROVE  EdgesKept' /\ StackStays
<1>1. searcher' = searcher
  BY DEF FinishRealizable, FinishUnrealizable, RunTimeout, ExpandSat, UnsatFinish,
         UnsatStateFails, TraceBaseFinish, vars
<1>2. EdgesKept'
  BY <1>1 DEF EdgesKept, OutputKept, EdgeKept, Top, Depth
<1>3. StackStays
  BY <1>1 DEF StackStays, SameConstraints, Depth
<1> QED
  BY <1>2, <1>3

LEMMA CallExpandStays ==
  ASSUME IInv, EdgesKept, CallExpand
  PROVE  EdgesKept' /\ StackStays
<1> DEFINE h == FailureScanned(WinningScanned(Top))
<1>1. /\ StackOK /\ TypeOK /\ Top \in Frame
      /\ JustifiedFrame(Top, unaccepted, Reliable) /\ Depth \in Nat \ {0}
  BY TopFrame, IInvTypeOK DEF IInv
<1>2. h \in Frame
  BY <1>1, ScannedFrame
<1>3. h.current_Y = Top.current_Y /\ SameConstraints(Top, h)
  BY <1>1 DEF FailureScanned, WinningScanned, Frame, SameConstraints
<1>4. searcher' = SetTop(h)
  BY DEF CallExpand
<1> HIDE DEF h
<1>5. /\ Len(SetTop(h)) = Depth /\ SetTop(h)[Depth] = h
      /\ \A i \in 1 .. Depth - 1 : SetTop(h)[i] = searcher[i]
  BY <1>1, <1>2, SetTopShape
<1>6. /\ Len(searcher') = Depth /\ Depth' = Depth /\ searcher'[Depth] = h /\ Top' = h
      /\ \A i \in 1 .. Depth - 1 : searcher'[i] = searcher[i]
  BY <1>4, <1>5 DEF Depth, Top
<1>7. ASSUME NEW i \in 1 .. Depth
      PROVE  SameConstraints(searcher[i], searcher'[i])
  <2>1. CASE i = Depth
    BY <1>3, <1>6, <2>1 DEF Top
  <2>2. CASE i \in 1 .. Depth - 1
    BY <1>6, <2>2 DEF SameConstraints
  <2> QED
    BY <1>1, <2>1, <2>2
<1>8. StackStays
  BY <1>6, <1>7 DEF StackStays
<1>9. EdgesKept'
  BY <1>3, <1>6 DEF EdgesKept, OutputKept, EdgeKept, SameConstraints
<1> QED
  BY <1>8, <1>9

\* Taking an edge of the word keeps the constraints and adds a frame.
LEMMA PushAdvances ==
  ASSUME IInv, EdgesKept, TracePush
  PROVE  EdgesKept' /\ StackAdvances
<1>1. /\ StackOK /\ TypeOK /\ Top \in Frame /\ Depth \in Nat \ {0}
      /\ JustifiedFrame(Top, unaccepted, Reliable) /\ OutputKept(Top) /\ pc = "trace"
  BY TopFrame, IInvTypeOK DEF IInv, EdgesKept, TracePush
<1>2. PICK e \in TraceEdges :
        searcher' = Append(SetTop(Travelled(e)),
                           FailureScanned(WinningScanned(Syn_Frame(Successor(e)))))
  BY DEF TracePush
<1> DEFINE n == Syn_Frame(Successor(e))
           h == FailureScanned(WinningScanned(n))
           below == SetTop(Travelled(e))
<1>3. /\ Travelled(e) \in Frame /\ Successor(e) \in State
      /\ EdgeKept(Travelled(e)) /\ SameConstraints(Top, Travelled(e))
  BY <1>1, TraceEdge, TravelledKeepsEdge
<1>4. n \in Frame /\ JustifiedFrame(n, unaccepted, Reliable) /\ n.current_Y = NULL
  BY <1>1, <1>3, FreshFrame DEF Syn_Frame
<1> HIDE DEF n
<1>5. h.current_Y = NULL
  BY <1>1, <1>4, ScannedFrame
<1>6. /\ below \in Seq(Frame) /\ Len(below) = Depth /\ below[Depth] = Travelled(e)
      /\ \A i \in 1 .. Depth - 1 : below[i] = searcher[i]
  BY <1>1, <1>3, SetTopShape
<1>7. searcher' = Append(below, h)
  BY <1>2 DEF n
<1> HIDE DEF h, below
<1>8. /\ Len(searcher') = Depth + 1 /\ Depth' = Depth + 1 /\ searcher'[Depth + 1] = h
      /\ \A i \in 1 .. Depth : searcher'[i] = below[i]
  BY <1>1, <1>6, <1>7 DEF Depth
<1>9. \A i \in 1 .. Depth - 1 : i \in 1 .. Depth
  BY <1>1
<1>10. \A i \in 1 .. Depth : i = Depth \/ i \in 1 .. Depth - 1
  BY <1>1
<1>11. searcher'[Depth] = Travelled(e) /\ \A i \in 1 .. Depth - 1 : searcher'[i] = searcher[i]
  BY <1>1, <1>6, <1>8, <1>9
<1>12. \A i \in 1 .. Depth : EdgeKept(searcher'[i])
  BY <1>3, <1>10, <1>11 DEF EdgesKept
<1>13. Top' = h /\ OutputKept(h)
  BY <1>5, <1>8 DEF Top, OutputKept
<1>14. (Depth + 1) - 1 = Depth
  BY <1>1
<1>15. EdgesKept'
  BY <1>8, <1>12, <1>13, <1>14 DEF EdgesKept, OutputKept, EdgeKept
<1>16. \A i \in 1 .. Depth : SameConstraints(searcher[i], searcher'[i])
  BY <1>3, <1>10, <1>11 DEF SameConstraints, Top
<1>17. /\ Depth + 1 \in 1 .. Len(searcher') /\ ~ (Depth + 1 <= Depth)
       /\ \A i \in 1 .. Depth : i <= Depth
  BY <1>1, <1>8
<1>18. StackAdvances
  BY <1>14, <1>16, <1>17 DEF StackAdvances
<1> QED
  BY <1>15, <1>18

\* A state found to fail for every output is not among the failing ones yet: the
\* scans before the satisfiability call would have recognised it.
LEMMA StateFailsIsNew ==
  ASSUME IInv, ScansComplete, UnsatStateFails
  PROVE  \E s \in Members(failure_state_vec') : s \notin Members(failure_state_vec)
<1>1. Top.state \in State /\ failure_state_vec \in Seq(State) /\ game \in Games
  BY TopFrame DEF IInv, LearntOK, Frame
<1>2. Implies(game, Top.state, Top.state)
  BY <1>1, GamesAssumption DEF ImplicationIsMonotone
<1>3. Top.state \notin Members(failure_state_vec) /\ ~Learnt(failure_state_vec, Top.state)
  BY <1>2 DEF ScansComplete, UnsatStateFails, Learnt, Same
<1>4. failure_state_vec' = Append(failure_state_vec, Top.state)
  BY <1>3 DEF UnsatStateFails, insert_state
<1>5. LET more == Append(failure_state_vec, Top.state)
      IN /\ DOMAIN more = 1 .. Len(failure_state_vec) + 1
         /\ more[Len(failure_state_vec) + 1] = Top.state
  BY <1>1
<1>6. Len(failure_state_vec) + 1 \in 1 .. Len(failure_state_vec) + 1
  BY <1>1, LenProperties
<1>7. Top.state \in Members(failure_state_vec')
  BY <1>4, <1>5, <1>6 DEF Members
<1> QED
  BY <1>3, <1>7

\* The edges of the waiting frames and of the top stay allowed.
LEMMA InitEdgesKept ==
  ASSUME Init
  PROVE  EdgesKept
<1>1. Depth = 1 /\ searcher[1] = Syn_Frame(game.init)
  BY DEF Init, Depth
<1> QED
  BY <1>1 DEF EdgesKept, OutputKept, Top, Syn_Frame

LEMMA NextAdvances ==
  ASSUME IInv, ScansComplete, EdgesKept, [Next]_vars
  PROVE  EdgesKept' /\ [Advances]_vars
<1>1. CASE FinishRealizable \/ FinishUnrealizable \/ RunTimeout \/ UnsatFinish \/ TraceBaseFinish
  <2>1. pc' = "done"
    BY <1>1 DEF FinishRealizable, FinishUnrealizable, RunTimeout, UnsatFinish, TraceBaseFinish,
       Finish
  <2> QED
    BY <1>1, <2>1, StackKeptSteps DEF Advances
<1>2. CASE PopRealizable \/ PopUnrealizable \/ UnsatPop \/ TraceBasePop
  BY <1>2, PopAdvances DEF Advances
<1>3. CASE UnsatNoWay \/ TraceRepeat \/ TraceKnownFailure \/ TraceKnownWinning \/ TraceAccepting
  BY <1>3, NewTopAdvances DEF Advances
<1>4. CASE TracePush
  BY <1>4, PushAdvances DEF Advances
<1>5. CASE CallExpand
  <2>1. pc = "check" /\ pc' = "expand"
    BY <1>5 DEF CallExpand
  <2> QED
    BY <1>5, <2>1, CallExpandStays DEF Advances
<1>6. CASE ExpandSat
  <2>1. pc = "expand" /\ pc' = "trace"
    BY <1>6 DEF ExpandSat
  <2> QED
    BY <1>6, <2>1, StackKeptSteps DEF Advances
<1>7. CASE UnsatStateFails
  BY <1>7, StackKeptSteps, StateFailsIsNew DEF Advances
<1>8. CASE Terminated \/ UNCHANGED vars
  BY <1>8, StackKeptSteps DEF Terminated
<1> QED
  BY <1>1, <1>2, <1>3, <1>4, <1>5, <1>6, <1>7, <1>8 DEF Next

\* Every step of is_realizable and Expand brings the verdict nearer, for every game: it
\* ends the search, or the first frame of the stack that changes gives up outputs or
\* inputs or is new, or the stack stays and a failing state is learnt or Expand goes on.
THEOREM SpecProgress == Spec => Progress
<1>1. Init => EdgesKept
  BY InitEdgesKept
<1>2. IInv /\ ScansComplete /\ EdgesKept /\ [Next]_vars => EdgesKept' /\ [Advances]_vars
  BY NextAdvances
<1> QED
  BY <1>1, <1>2, SpecIInv, SpecScansComplete, PTL DEF Spec, Progress
=============================================================================
