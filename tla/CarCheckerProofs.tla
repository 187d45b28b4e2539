-------------------------- MODULE CarCheckerProofs -------------------------
(***************************************************************************)
(* Proofs about CarChecker, for every SAT encoding that satisfies           *)
(* EncodingAssumption.                                                      *)
(***************************************************************************)
EXTENDS CarChecker, SatOracleProofs, FiniteSetTheorems

-----------------------------------------------------------------------------
(***************************************************************************)
(* Facts about frames.                                                      *)
(***************************************************************************)
\* No assignment that satisfies a core of F may end a word.
NeverLast(e, F) == \A u \in F : \A m \in e.models : u \subseteq m.now => ~ m.tail

\* An assignment that satisfies a core of F leads to a state that G blocks.
Leads(e, F, G) == \A u \in F : \A m \in e.models : u \subseteq m.now => Blocked(m.next, G)

\* Some assignment is not blocked by F.
Spares(e, F) == \E T \in Truths(e) : ~ Blocked(T, F)

FramesInv(e, fs, tmp) ==
  /\ fs # <<>> => NeverLast(e, fs[1]) /\ Leads(e, tmp, fs[Len(fs)])
  /\ \A l \in 2 .. Len(fs) : Leads(e, fs[l], fs[l - 1])
  /\ \A l \in 1 .. Len(fs) : Spares(e, fs[l])
  /\ Spares(e, tmp)

\* Larger states are blocked by more cores.
LEMMA BlockedMonotone ==
  ASSUME NEW S, NEW T, NEW F, NEW G, S \subseteq T, F \subseteq G, Blocked(S, F)
  PROVE  Blocked(T, G)
BY DEF Blocked

\* A frame that only leads to blocked states spares an assignment if the frame below does.
LEMMA SparesAbove ==
  ASSUME NEW e \in Problems, NEW F, NEW G, Leads(e, F, G), Spares(e, G)
  PROVE  Spares(e, F)
<1>1. PICK T \in Truths(e) : ~ Blocked(T, G)
  BY DEF Spares
<1>2. PICK m \in e.models : ~ m.tail
  BY ModelsExist
<1>3. PICK x \in e.models : FollowedBy(e, x, T)
  BY <1>2, Precede
<1>4. ~ Blocked(x.next, G)
  BY <1>1, <1>3 DEF Blocked, FollowedBy
<1>5. ~ Blocked(x.now, F)
  BY <1>4 DEF Leads, Blocked
<1> QED
  BY <1>5, ModelsTyped DEF Spares

\* A frame whose cores cannot end a word spares the assignments that do.
LEMMA SparesFirst ==
  ASSUME NEW e \in Problems, NEW F, NeverLast(e, F)
  PROVE  Spares(e, F)
<1>1. PICK m \in e.models : m.tail
  BY ModelsExist
<1> QED
  BY <1>1, ModelsTyped DEF NeverLast, Spares, Blocked

LEMMA SparesEmpty ==
  ASSUME NEW e \in Problems
  PROVE  Spares(e, {})
<1>1. NeverLast(e, {})
  BY DEF NeverLast
<1> QED
  BY <1>1, SparesFirst

\* Adding a core to frame k, when it leads to states that frame k - 1 blocks.
LEMMA AddToFrame ==
  ASSUME NEW e \in Problems, NEW fs \in Seq(SUBSET Core), NEW tmp \in SUBSET Core,
         FramesInv(e, fs, tmp), NEW k \in 1 .. Len(fs), NEW u \in Core,
         k = 1 => NeverLast(e, {u}),
         k > 1 => Leads(e, {u}, fs[k - 1])
  PROVE  FramesInv(e, [fs EXCEPT ![k] = @ \cup {u}], tmp)
<1> DEFINE gs == [fs EXCEPT ![k] = @ \cup {u}]
<1>1. gs \in Seq(SUBSET Core) /\ Len(gs) = Len(fs) /\ fs # <<>> /\ gs # <<>>
  OBVIOUS
<1>2. \A l \in 1 .. Len(fs) : gs[l] = IF l = k THEN fs[l] \cup {u} ELSE fs[l]
  <2>1. DOMAIN fs = 1 .. Len(fs)
    OBVIOUS
  <2> QED
    BY <2>1, Zenon
<1>3. \A l \in 1 .. Len(fs) : fs[l] \subseteq gs[l]
  BY <1>2
<1> HIDE DEF gs
<1>4. NeverLast(e, gs[1])
  <2>1. NeverLast(e, fs[1]) /\ 1 \in 1 .. Len(fs)
    BY <1>1 DEF FramesInv
  <2> QED
    BY <2>1, <1>2 DEF NeverLast
<1>5. Leads(e, tmp, gs[Len(gs)])
  <2>1. Leads(e, tmp, fs[Len(fs)]) /\ fs[Len(fs)] \subseteq gs[Len(fs)]
    BY <1>1, <1>3 DEF FramesInv
  <2> QED
    BY <2>1, <1>1, BlockedMonotone DEF Leads
<1>6. ASSUME NEW l \in 2 .. Len(gs)
      PROVE  Leads(e, gs[l], gs[l - 1])
  <2>1. Leads(e, fs[l], fs[l - 1]) /\ l \in 1 .. Len(fs) /\ l - 1 \in 1 .. Len(fs)
    BY <1>1 DEF FramesInv
  <2>2. Leads(e, fs[l], gs[l - 1])
    BY <2>1, <1>3, BlockedMonotone DEF Leads
  <2>3. l = k => Leads(e, {u}, gs[l - 1])
    <3>1. SUFFICES ASSUME l = k
                   PROVE  Leads(e, {u}, gs[k - 1])
      OBVIOUS
    <3>2. k > 1 /\ k - 1 # k
      BY <3>1
    <3>3. gs[k - 1] = fs[k - 1]
      BY <3>1, <3>2, <2>1, <1>2
    <3> QED
      BY <3>2, <3>3
  <2> QED
    BY <2>1, <2>2, <2>3, <1>2 DEF Leads
<1>7. ASSUME NEW l \in 1 .. Len(gs)
      PROVE  Spares(e, gs[l])
  <2>1. CASE l # k
    BY <2>1, <1>1, <1>2 DEF FramesInv
  <2>2. CASE l = k /\ k = 1
    BY <2>2, <1>4, SparesFirst
  <2>3. CASE l = k /\ k > 1
    <3>1. Leads(e, gs[k], gs[k - 1])
      BY <2>3, <1>1, <1>6
    <3>2. k - 1 \in 1 .. Len(fs) /\ k - 1 # k
      BY <2>3
    <3>3. gs[k - 1] = fs[k - 1]
      BY <3>2, <1>2
    <3> QED
      BY <2>3, <3>1, <3>2, <3>3, SparesAbove DEF FramesInv
  <2> QED
    BY <2>1, <2>2, <2>3
<1>8. Spares(e, tmp)
  BY DEF FramesInv
<1>9. FramesInv(e, gs, tmp)
  BY <1>4, <1>5, <1>6, <1>7, <1>8 DEF FramesInv
<1> QED
  BY <1>9 DEF gs

\* Adding a core to the frame under construction.
LEMMA AddToTmp ==
  ASSUME NEW e \in Problems, NEW fs \in Seq(SUBSET Core), NEW tmp \in SUBSET Core,
         FramesInv(e, fs, tmp), fs # <<>>, NEW u \in Core, Leads(e, {u}, fs[Len(fs)])
  PROVE  FramesInv(e, fs, tmp \cup {u})
<1>1. Leads(e, tmp \cup {u}, fs[Len(fs)])
  BY DEF FramesInv, Leads
<1>2. Spares(e, fs[Len(fs)])
  <2>1. Len(fs) \in 1 .. Len(fs)
    OBVIOUS
  <2> QED
    BY <2>1 DEF FramesInv
<1>3. Spares(e, tmp \cup {u})
  BY <1>1, <1>2, SparesAbove
<1> QED
  BY <1>1, <1>3 DEF FramesInv

\* The frame under construction becomes the last one.
LEMMA NewFrame ==
  ASSUME NEW e \in Problems, NEW fs \in Seq(SUBSET Core), NEW tmp \in SUBSET Core,
         FramesInv(e, fs, tmp), fs # <<>>
  PROVE  FramesInv(e, Append(fs, tmp), {})
<1> DEFINE gs == Append(fs, tmp)
<1>1. /\ gs \in Seq(SUBSET Core) /\ Len(gs) = Len(fs) + 1 /\ Len(fs) \in Nat \ {0}
      /\ \A l \in 1 .. Len(fs) : gs[l] = fs[l]
      /\ gs[Len(fs) + 1] = tmp
  OBVIOUS
<1> HIDE DEF gs
<1>2. NeverLast(e, gs[1]) /\ Leads(e, {}, gs[Len(gs)])
  BY <1>1 DEF FramesInv, Leads
<1>3. ASSUME NEW l \in 2 .. Len(gs)
      PROVE  Leads(e, gs[l], gs[l - 1])
  <2>1. CASE l = Len(fs) + 1
    BY <2>1, <1>1 DEF FramesInv
  <2>2. CASE l \in 2 .. Len(fs)
    <3>1. gs[l] = fs[l] /\ gs[l - 1] = fs[l - 1]
      BY <2>2, <1>1
    <3> QED
      BY <2>2, <3>1 DEF FramesInv
  <2> QED
    BY <2>1, <2>2, <1>1
<1>4. \A l \in 1 .. Len(gs) : Spares(e, gs[l])
  <2> SUFFICES ASSUME NEW l \in 1 .. Len(gs)
               PROVE  Spares(e, gs[l])
    OBVIOUS
  <2>1. CASE l = Len(fs) + 1
    BY <2>1, <1>1 DEF FramesInv
  <2>2. CASE l \in 1 .. Len(fs)
    BY <2>2, <1>1 DEF FramesInv
  <2> QED
    BY <2>1, <2>2, <1>1
<1>5. FramesInv(e, gs, {})
  BY <1>2, <1>3, <1>4, SparesEmpty DEF FramesInv
<1> QED
  BY <1>5 DEF gs

-----------------------------------------------------------------------------
(***************************************************************************)
(* The inductive invariant.                                                 *)
(***************************************************************************)
\* Every state with s in it is blocked by the first n frames.
BlockedBelow(e, s, fs, n) ==
  \A T \in Truths(e) : s \subseteq T => \A l \in 1 .. n : Blocked(T, fs[l])

Shape ==
  /\ pc = "check" => frames = <<>> /\ calls = <<>> /\ evidence = <<>> /\ tmp_frame = {}
  /\ pc = "try" => /\ frames # <<>>
                   /\ Len(calls) \in 1 .. Len(frames) + 1
                   /\ calls[1] = goal
                   /\ Len(evidence) = Len(calls) - 1
  /\ pc = "inv" => frames # <<>> /\ calls = <<>> /\ evidence = <<>>
  /\ pc # "done" => verdict = "unknown"

\* Each frame refutes the goal.
GoalBlocked ==
  /\ pc \in {"try", "inv"} => \A l \in 1 .. Len(frames) : Blocked(goal, frames[l])
  /\ pc = "inv" => Blocked(goal, tmp_frame)

\* A pending call is refuted by the frames below the one its successors must avoid.
CallsBlocked ==
  pc = "try" => \A i \in 1 .. Len(calls) :
                  BlockedBelow(problem, calls[i], frames, Len(frames) - i + 1)

\* A word that satisfies a pending call gives one that satisfies the goal.
CallsLead ==
  pc = "try" => \A i \in 1 .. Len(calls) :
                  Satisfiable(problem, calls[i]) => Satisfiable(problem, goal)

Typed == problem \in Problems /\ goal \in SUBSET Conj /\ TypeOK

IInv ==
  /\ Typed
  /\ Shape
  /\ FramesInv(problem, frames, tmp_frame)
  /\ GoalBlocked
  /\ CallsBlocked
  /\ CallsLead
  /\ VerdictSound

LEMMA FrontFacts ==
  ASSUME NEW S, NEW q \in Seq(S), Len(q) > 0
  PROVE  /\ Front(q) \in Seq(S)
         /\ Len(Front(q)) = Len(q) - 1
         /\ \A i \in 1 .. Len(q) - 1 : Front(q)[i] = q[i]
<1> DEFINE n == Len(q) - 1
<1>1. n \in Int /\ 1 \in Int /\ n >= 0 /\ \A i \in 1 .. n : q[i] \in S
  OBVIOUS
<1> HIDE DEF n
<1>2. /\ SubSeq(q, 1, n) \in Seq(S)
      /\ Len(SubSeq(q, 1, n)) = IF 1 <= n THEN n - 1 + 1 ELSE 0
      /\ \A i \in 1 .. n - 1 + 1 : SubSeq(q, 1, n)[i] = q[1 + i - 1]
  BY <1>1, SubSeqProperties
<1>3. Len(SubSeq(q, 1, n)) = n /\ \A i \in 1 .. n : SubSeq(q, 1, n)[i] = q[i]
  BY <1>1, <1>2
<1> QED
  BY <1>2, <1>3 DEF Front, n

\* The formula of the innermost call and the frame its successors must avoid.
LEMMA TopFacts ==
  ASSUME Typed, Shape, pc = "try"
  PROVE  /\ Len(calls) \in Nat \ {0} /\ Len(frames) \in Nat \ {0}
         /\ Top = calls[Len(calls)] /\ Top \in SUBSET Conj
         /\ ~ AtLastPosition => /\ TopFrame \in 1 .. Len(frames)
                               /\ TopFrame = Len(frames) - Len(calls) + 1
                               /\ Len(calls) <= Len(frames)
                               /\ frames[TopFrame] \in SUBSET Core
         /\ AtLastPosition => Len(calls) > 1
<1>1. /\ frames \in Seq(SUBSET Core) /\ calls \in Seq(SUBSET Conj)
      /\ frames # <<>> /\ Len(calls) \in 1 .. Len(frames) + 1
  BY DEF Typed, TypeOK, Shape
<1>2. Len(frames) \in Nat \ {0} /\ Len(calls) \in Nat \ {0}
  BY <1>1
<1>3. Top = calls[Len(calls)] /\ Top \in SUBSET Conj
  BY <1>1, <1>2 DEF Top, Last
<1> QED
  BY <1>1, <1>2, <1>3 DEF AtLastPosition, TopFrame

\* A pending call above the last position is not satisfied by the end of a word.
LEMMA NotFinal ==
  ASSUME Typed, Shape, FramesInv(problem, frames, tmp_frame), CallsBlocked
  PROVE  PendingNotFinal
<1> SUFFICES ASSUME pc = "try", NEW i \in 1 .. Len(calls), i <= Len(frames),
                    NEW m \in FinalModels(calls[i])
             PROVE  FALSE
  BY DEF PendingNotFinal
<1>1. m \in problem.models /\ m.tail /\ calls[i] \subseteq m.now
  BY DEF FinalModels
<1>2. m.now \in Truths(problem)
  BY <1>1, ModelsTyped DEF Typed
<1>3. 1 \in 1 .. Len(frames) - i + 1
  BY TopFacts
<1>4. Blocked(m.now, frames[1])
  BY <1>1, <1>2, <1>3 DEF CallsBlocked, BlockedBelow
<1>5. NeverLast(problem, frames[1])
  BY DEF FramesInv, Shape
<1> QED
  BY <1>1, <1>4, <1>5 DEF Blocked, NeverLast

\* When a frame blocks what the frames below it block, no word satisfies the goal: a
\* shortest word of a state that those frames block would go through another such state.
LEMMA InvariantRefutes ==
  ASSUME Typed, FramesInv(problem, frames, tmp_frame), GoalBlocked, pc = "inv", HasInvariant
  PROVE  ~ Satisfiable(problem, goal)
<1>1. PICK i \in 1 .. Len(frames) - 1 : InvFoundAt(i)
  BY DEF HasInvariant
<1>2. Len(frames) \in Nat /\ frames # <<>>
  BY <1>1 DEF Typed, TypeOK
<1> DEFINE Held(T) == \A l \in 1 .. i : Blocked(T, frames[l])
           Lengths == {n \in Nat : n > 0 /\ \E T \in Truths(problem) : Held(T) /\ problem.dist[T] = n}
<1> SUFFICES ASSUME NEW G \in Truths(problem), goal \subseteq G, problem.dist[G] > 0
             PROVE  FALSE
  BY DEF Satisfiable
<1>3. Held(G)
  BY <1>1, <1>2, BlockedMonotone DEF GoalBlocked
<1>4. problem.dist[G] \in Lengths
  BY <1>3, DistFacts DEF Typed
<1>5. PICK n \in Lengths : \A k \in Lengths : n <= k
  BY <1>4, Smallest
<1>6. PICK T \in Truths(problem) : Held(T) /\ problem.dist[T] = n
  BY <1>5
<1>7. T \in InvAssignments
  <2>1. PICK m \in problem.models : m.now = T
    BY DEF Truths
  <2> QED
    BY <2>1, ModelsTyped DEF Typed, InvAssignments
<1>8. Blocked(T, frames[i + 1])
  BY <1>1, <1>6, <1>7 DEF InvFoundAt
<1>9. n # 1
  <2> SUFFICES ASSUME n = 1 PROVE FALSE
    OBVIOUS
  <2>1. PICK m \in problem.models : m.now = T /\ m.tail
    BY <1>6, DistFacts DEF Typed
  <2>2. Blocked(T, frames[1])
    BY <1>1, <1>2, <1>6
  <2>3. NeverLast(problem, frames[1])
    BY <1>2 DEF FramesInv
  <2> QED
    BY <2>1, <2>2, <2>3 DEF Blocked, NeverLast
<1>10. PICK m \in problem.models, S \in Truths(problem) :
         m.now = T /\ FollowedBy(problem, m, S) /\ problem.dist[T] = problem.dist[S] + 1
  <2>1. problem.dist[T] > 1
    BY <1>5, <1>6, <1>9
  <2> QED
    BY <2>1, DistFacts DEF Typed
<1>11. Held(S)
  <2> SUFFICES ASSUME NEW l \in 1 .. i
               PROVE  Blocked(S, frames[l])
    OBVIOUS
  <2>1. Blocked(T, frames[l + 1])
    BY <1>6, <1>8
  <2>2. Leads(problem, frames[l + 1], frames[l])
    <3>1. l + 1 \in 2 .. Len(frames) /\ (l + 1) - 1 = l
      BY <1>2
    <3>2. \A j \in 2 .. Len(frames) : Leads(problem, frames[j], frames[j - 1])
      BY DEF FramesInv
    <3> QED
      BY <3>1, <3>2
  <2>3. Blocked(m.next, frames[l])
    BY <1>10, <2>1, <2>2 DEF Blocked, Leads
  <2>4. m.next \subseteq S
    BY <1>10 DEF FollowedBy
  <2> QED
    BY <2>3, <2>4 DEF Blocked
<1>12. problem.dist[S] \in Nat /\ n = problem.dist[S] + 1
  BY <1>6, <1>10, DistFacts DEF Typed
<1>13. problem.dist[S] \in Lengths
  BY <1>5, <1>9, <1>11, <1>12
<1> QED
  BY <1>5, <1>12, <1>13

-----------------------------------------------------------------------------
(***************************************************************************)
(* The invariant holds initially and is kept by every action.               *)
(***************************************************************************)
\* Frames that only grow block no less.
LEMMA BlockedBelowGrows ==
  ASSUME NEW e, NEW s, NEW fs, NEW gs, NEW n \in Int, BlockedBelow(e, s, fs, n),
         \A l \in 1 .. n : fs[l] \subseteq gs[l]
  PROVE  BlockedBelow(e, s, gs, n)
BY DEF BlockedBelow, Blocked

LEMMA InitInvariant ==
  ASSUME Init
  PROVE  IInv
<1>1. Typed
  <2>1. problem \in Problems /\ problem.goal \subseteq Conj
    BY EncodingAssumption DEF Init, OracleInit, WellFormed, EncodingType
  <2> QED
    BY <2>1 DEF Init, OracleInit, Typed, TypeOK, goal
<1>2. FramesInv(problem, frames, tmp_frame)
  <2>1. Spares(problem, {}) /\ Len(<<>>) = 0
    BY <1>1, SparesEmpty DEF Typed
  <2>2. FramesInv(problem, <<>>, {})
    BY <2>1 DEF FramesInv
  <2> QED
    BY <2>2 DEF Init
<1> QED
  BY <1>1, <1>2
     DEF Init, OracleInit, IInv, Shape, GoalBlocked, CallsBlocked, CallsLead, VerdictSound

\* The check returns with the right answer.
LEMMA ReturnKeepsInvariant ==
  ASSUME IInv, UNCHANGED <<problem, frames, tmp_frame, calls>>, pc' = "done",
         evidence' \in Seq(SUBSET Lit),
         \/ verdict' = "sat" /\ Satisfiable(problem, goal)
         \/ verdict' = "unsat" /\ ~ Satisfiable(problem, goal)
  PROVE  IInv'
<1>1. Typed'
  BY DEF IInv, Typed, TypeOK, goal
<1>2. FramesInv(problem, frames, tmp_frame)'
  BY DEF IInv
<1>3. VerdictSound'
  BY DEF VerdictSound, goal
<1> QED
  BY <1>1, <1>2, <1>3 DEF IInv, Shape, GoalBlocked, CallsBlocked, CallsLead

\* The label and the successor of a transition are a set of literals and a state.
LEMMA TransitionTyped ==
  ASSUME NEW e \in Problems, problem = e, NEW m \in e.models, NEW s \in SUBSET Conj
  PROVE  Label(m, s) \in SUBSET Lit /\ Successor(m, s) \in SUBSET Conj
BY ModelsTyped DEF Label, Successor

\* A state that the end of a word satisfies is satisfiable.
LEMMA FinalIsSatisfiable ==
  ASSUME problem \in Problems, NEW s, NEW m \in FinalModels(s)
  PROVE  Satisfiable(problem, s)
<1>1. m \in problem.models /\ m.tail /\ s \subseteq m.now
  BY DEF FinalModels
<1>2. problem.dist[m.now] = 1 /\ m.now \in Truths(problem)
  BY <1>1, DistFacts, ModelsTyped
<1> QED
  BY <1>1, <1>2 DEF Satisfiable

LEMMA CheckTrueKeepsInvariant ==
  ASSUME IInv, CheckTrue
  PROVE  IInv'
<1>1. PICK m \in problem.models : m.tail
  BY ModelsExist DEF IInv, Typed
<1>2. m \in FinalModels(goal)
  BY <1>1 DEF FinalModels, CheckTrue
<1>3. Satisfiable(problem, goal)
  BY <1>2, FinalIsSatisfiable DEF IInv, Typed
<1>4. evidence' \in Seq(SUBSET Lit)
  BY DEF CheckTrue
<1> QED
  BY <1>3, <1>4, ReturnKeepsInvariant DEF CheckTrue, Return

LEMMA CheckFalseKeepsInvariant ==
  ASSUME IInv, CheckFalse
  PROVE  IInv'
<1>1. ~ Satisfiable(problem, goal)
  BY ModelsTyped DEF Satisfiable, Truths, CheckFalse, IInv, Typed
<1> QED
  BY <1>1, ReturnKeepsInvariant DEF CheckFalse, Return, IInv, Typed, TypeOK

LEMMA HeuristicUnsatKeepsInvariant ==
  ASSUME IInv, HeuristicUnsat
  PROVE  IInv'
BY ReturnKeepsInvariant DEF HeuristicUnsat, Return, IInv, Typed, TypeOK

LEMMA SatOnceKeepsInvariant ==
  ASSUME IInv, SatOnce
  PROVE  IInv'
<1>1. PICK m \in FinalModels(goal) : evidence' = <<Label(m, goal)>>
  BY DEF SatOnce
<1>2. Satisfiable(problem, goal)
  BY FinalIsSatisfiable DEF IInv, Typed
<1>3. Label(m, goal) \in SUBSET Lit
  BY TransitionTyped DEF FinalModels, IInv, Typed
<1>4. evidence' \in Seq(SUBSET Lit)
  BY <1>1, <1>3
<1> QED
  BY <1>2, <1>4, ReturnKeepsInvariant DEF SatOnce, Return

LEMMA LastSatKeepsInvariant ==
  ASSUME IInv, LastSat
  PROVE  IInv'
<1>1. PICK m \in FinalModels(Top) : evidence' = Append(evidence, Label(m, Top))
  BY DEF LastSat
<1>2. Len(calls) \in 1 .. Len(calls) /\ Top = calls[Len(calls)] /\ Top \in SUBSET Conj
  BY TopFacts DEF LastSat, IInv
<1>3. Satisfiable(problem, Top)
  BY FinalIsSatisfiable DEF IInv, Typed
<1>4. Satisfiable(problem, goal)
  BY <1>2, <1>3 DEF IInv, CallsLead, LastSat
<1>5. Label(m, Top) \in SUBSET Lit
  BY <1>2, TransitionTyped DEF FinalModels, IInv, Typed
<1>6. evidence' \in Seq(SUBSET Lit)
  BY <1>1, <1>5 DEF IInv, Typed, TypeOK
<1> QED
  BY <1>4, <1>6, ReturnKeepsInvariant DEF LastSat, Return

LEMMA InvFoundKeepsInvariant ==
  ASSUME IInv, InvFound
  PROVE  IInv'
<1>1. ~ Satisfiable(problem, goal)
  BY InvariantRefutes DEF InvFound, IInv
<1> QED
  BY <1>1, ReturnKeepsInvariant DEF InvFound, Return, IInv, Typed, TypeOK

\* A state whose core cannot end a word is blocked below by a frame with that core.
LEMMA FirstFrameKeepsInvariant ==
  ASSUME IInv, FirstFrame
  PROVE  IInv'
<1>1. PICK u \in FinalCores(goal) : frames' = <<{u}>>
  BY DEF FirstFrame
<1>2. u \in Core /\ u \subseteq goal /\ goal \in SUBSET Conj /\ goal' = goal /\ problem' = problem
  BY DEF FinalCores, Core, IInv, Typed, FirstFrame, goal
<1>3. /\ frames' \in Seq(SUBSET Core) /\ frames' # <<>> /\ Len(frames') = 1 /\ frames'[1] = {u}
      /\ calls' \in Seq(SUBSET Conj) /\ Len(calls') = 1 /\ calls'[1] = goal
      /\ evidence' = <<>> /\ tmp_frame' = {} /\ pc' = "try" /\ verdict' = "unknown"
  BY <1>1, <1>2 DEF FirstFrame, IInv, Shape
<1>4. NeverLast(problem, {u})
  BY <1>1 DEF FinalCores, FinalModels, NeverLast
<1>5. Typed'
  BY <1>2, <1>3 DEF IInv, Typed, TypeOK
<1>6. FramesInv(problem, frames, tmp_frame)'
  <2>1. Spares(problem, {u}) /\ Spares(problem, {}) /\ Leads(problem, {}, {u})
    BY <1>4, SparesFirst, SparesEmpty DEF IInv, Typed, Leads
  <2>2. ASSUME NEW l \in 1 .. Len(frames')
        PROVE  Spares(problem, frames'[l])
    <3>1. l = 1
      BY <1>3
    <3>2. frames'[l] = {u}
      BY <1>3, <3>1
    <3> QED
      BY <2>1, <3>2
  <2>3. NeverLast(problem, frames'[1]) /\ Leads(problem, {}, frames'[Len(frames')])
    BY <1>3, <1>4 DEF Leads
  <2>4. FramesInv(problem, frames', {})
    BY <1>3, <2>1, <2>2, <2>3 DEF FramesInv
  <2> QED
    BY <1>2, <1>3, <2>4
<1>7. Blocked(goal, {u})
  BY <1>2 DEF Blocked
<1>8. GoalBlocked'
  <2>1. \A l \in 1 .. Len(frames') : Blocked(goal, frames'[l])
    BY <1>3, <1>7 DEF Blocked
  <2> QED
    BY <1>2, <1>3, <2>1 DEF GoalBlocked
<1>9. BlockedBelow(problem, goal, frames', 1)
  BY <1>3, <1>7 DEF BlockedBelow, Blocked
<1>10. CallsBlocked'
  BY <1>2, <1>3, <1>9 DEF CallsBlocked
<1>11. CallsLead'
  BY <1>2, <1>3 DEF CallsLead
<1>12. Shape' /\ VerdictSound'
  BY <1>2, <1>3 DEF Shape, VerdictSound
<1> QED
  BY <1>5, <1>6, <1>8, <1>10, <1>11, <1>12 DEF IInv

\* The successor of the innermost call: whatever has it is preceded by a position that
\* has the call, so it is blocked one frame lower and leads to the goal.
LEMMA StepKeepsInvariant ==
  ASSUME IInv, Step
  PROVE  IInv'
<1>1. PICK m \in StepModels(Top, frames[TopFrame]) :
         /\ calls' = Append(calls, Successor(m, Top))
         /\ evidence' = Append(evidence, Label(m, Top))
  BY DEF Step
<1> DEFINE n == Len(calls)
           s == Successor(m, Top)
<1>2. /\ n \in Nat \ {0} /\ Len(frames) \in Nat \ {0} /\ n <= Len(frames)
      /\ Top = calls[n] /\ Top \in SUBSET Conj
  BY TopFacts DEF Step, IInv
<1>3. m \in problem.models /\ Top \subseteq m.now
  BY DEF StepModels
<1>4. ~ m.tail
  <2>1. FinalModels(calls[n]) = {}
    BY <1>2, NotFinal DEF PendingNotFinal, IInv, Step
  <2> QED
    BY <1>2, <1>3, <2>1 DEF FinalModels
<1>5. Label(m, Top) \in SUBSET Lit /\ s \in SUBSET Conj
  BY <1>2, <1>3, TransitionTyped DEF IInv, Typed
<1>6. UNCHANGED <<problem, verdict, frames, tmp_frame, pc, goal>> /\ pc = "try"
  BY DEF Step, goal
<1>7. /\ Len(calls') = n + 1 /\ calls'[n + 1] = s /\ \A i \in 1 .. n : calls'[i] = calls[i]
      /\ calls' \in Seq(SUBSET Conj)
  BY <1>1, <1>2, <1>5 DEF IInv, Typed, TypeOK
<1>8. evidence' \in Seq(SUBSET Lit) /\ Len(evidence') = Len(evidence) + 1
  BY <1>1, <1>5 DEF IInv, Typed, TypeOK
<1> HIDE DEF n, s
<1>9. ASSUME NEW T \in Truths(problem), s \subseteq T
      PROVE  \E x \in problem.models : FollowedBy(problem, x, T) /\ Top \subseteq x.now
  <2>1. m.next \cap CoiNext(problem, Top) \subseteq T
    BY <1>9 DEF s, Successor
  <2> QED
    BY <1>2, <1>3, <1>4, <2>1, SuccessorLifts DEF IInv, Typed
<1>10. BlockedBelow(problem, s, frames, Len(frames) - (n + 1) + 1)
  <2> SUFFICES ASSUME NEW T \in Truths(problem), s \subseteq T,
                      NEW l \in 1 .. Len(frames) - (n + 1) + 1
               PROVE  Blocked(T, frames[l])
    BY DEF BlockedBelow
  <2>1. PICK x \in problem.models : FollowedBy(problem, x, T) /\ Top \subseteq x.now
    BY <1>9
  <2>2. l + 1 \in 1 .. Len(frames) - n + 1 /\ l + 1 \in 2 .. Len(frames) /\ (l + 1) - 1 = l
    BY <1>2
  <2>3. BlockedBelow(problem, Top, frames, Len(frames) - n + 1)
    BY <1>2, <1>6 DEF IInv, CallsBlocked, n
  <2>4. x.now \in Truths(problem)
    BY ModelsTyped DEF IInv, Typed
  <2>5. Blocked(x.now, frames[l + 1])
    BY <2>1, <2>2, <2>3, <2>4 DEF BlockedBelow
  <2>6. Leads(problem, frames[l + 1], frames[l])
    <3>1. \A j \in 2 .. Len(frames) : Leads(problem, frames[j], frames[j - 1])
      BY DEF IInv, FramesInv
    <3> QED
      BY <2>2, <3>1
  <2>7. Blocked(x.next, frames[l])
    BY <2>5, <2>6 DEF Blocked, Leads
  <2> QED
    BY <2>1, <2>7 DEF Blocked, FollowedBy
<1>11. Satisfiable(problem, s) => Satisfiable(problem, goal)
  <2> SUFFICES ASSUME NEW T \in Truths(problem), s \subseteq T, problem.dist[T] > 0
               PROVE  Satisfiable(problem, goal)
    BY DEF Satisfiable
  <2>1. PICK x \in problem.models : FollowedBy(problem, x, T) /\ Top \subseteq x.now
    BY <1>9
  <2>2. problem.dist[x.now] > 0 /\ x.now \in Truths(problem)
    BY <2>1, DistFacts, ModelsTyped DEF IInv, Typed
  <2>3. Satisfiable(problem, Top)
    BY <2>1, <2>2 DEF Satisfiable
  <2> QED
    BY <1>2, <1>6, <2>3 DEF IInv, CallsLead, n
<1>12. Typed'
  BY <1>6, <1>7, <1>8 DEF IInv, Typed, TypeOK
<1>13. Shape'
  BY <1>2, <1>6, <1>7, <1>8 DEF IInv, Shape, n
<1>14. FramesInv(problem, frames, tmp_frame)' /\ GoalBlocked' /\ VerdictSound'
  BY <1>6 DEF IInv, GoalBlocked, VerdictSound
<1>15. CallsBlocked'
  <2> SUFFICES ASSUME NEW i \in 1 .. n + 1
               PROVE  BlockedBelow(problem, calls'[i], frames, Len(frames) - i + 1)
    BY <1>6, <1>7 DEF CallsBlocked
  <2>1. CASE i = n + 1
    BY <2>1, <1>7, <1>10
  <2>2. CASE i \in 1 .. n
    BY <2>2, <1>6, <1>7 DEF IInv, CallsBlocked, n
  <2> QED
    BY <1>2, <2>1, <2>2
<1>16. CallsLead'
  <2> SUFFICES ASSUME NEW i \in 1 .. n + 1
               PROVE  Satisfiable(problem, calls'[i]) => Satisfiable(problem, goal)
    BY <1>6, <1>7 DEF CallsLead
  <2>1. CASE i = n + 1
    BY <2>1, <1>7, <1>11
  <2>2. CASE i \in 1 .. n
    BY <2>2, <1>6, <1>7 DEF IInv, CallsLead, n
  <2> QED
    BY <1>2, <2>1, <2>2
<1> QED
  BY <1>12, <1>13, <1>14, <1>15, <1>16 DEF IInv

\* A call returns to its caller after some frame has grown.
LEMMA ReturnToCallerKeepsInvariant ==
  ASSUME IInv, pc = "try", Len(calls) > 1, UNCHANGED <<problem, verdict, pc>>,
         calls' = Front(calls), evidence' = Front(evidence),
         frames' \in Seq(SUBSET Core), Len(frames') = Len(frames),
         \A l \in 1 .. Len(frames) : frames[l] \subseteq frames'[l],
         tmp_frame' \in SUBSET Core,
         FramesInv(problem, frames', tmp_frame')
  PROVE  IInv'
<1> DEFINE n == Len(calls)
<1>1. n \in Nat /\ n > 1 /\ Len(frames) \in Nat \ {0} /\ n <= Len(frames) + 1
      /\ calls \in Seq(SUBSET Conj) /\ calls[1] = goal
      /\ evidence \in Seq(SUBSET Lit) /\ Len(evidence) = n - 1 /\ goal' = goal
  BY TopFacts DEF IInv, Typed, TypeOK, Shape, goal
<1>2. /\ calls' \in Seq(SUBSET Conj) /\ Len(calls') = n - 1
      /\ \A i \in 1 .. n - 1 : calls'[i] = calls[i]
  BY <1>1, FrontFacts
<1>3. evidence' \in Seq(SUBSET Lit) /\ Len(evidence') = n - 2
  BY <1>1, FrontFacts
<1> HIDE DEF n
<1>4. Typed'
  BY <1>1, <1>2, <1>3 DEF IInv, Typed, TypeOK
<1>5. Shape'
  <2>1. frames' # <<>>
    BY <1>1
  <2> QED
    BY <1>1, <1>2, <1>3, <2>1 DEF IInv, Shape
<1>6. FramesInv(problem, frames, tmp_frame)'
  OBVIOUS
<1>7. GoalBlocked'
  <2>1. \A l \in 1 .. Len(frames) : Blocked(goal, frames[l])
    BY DEF IInv, GoalBlocked
  <2>2. \A l \in 1 .. Len(frames) : Blocked(goal, frames'[l])
    BY <2>1 DEF Blocked
  <2> QED
    BY <1>1, <2>2 DEF GoalBlocked
<1>8. CallsBlocked'
  <2> SUFFICES ASSUME NEW i \in 1 .. n - 1
               PROVE  BlockedBelow(problem, calls[i], frames', Len(frames) - i + 1)
    BY <1>2 DEF CallsBlocked
  <2>1. BlockedBelow(problem, calls[i], frames, Len(frames) - i + 1)
    BY <1>1 DEF IInv, CallsBlocked, n
  <2>2. Len(frames) - i + 1 \in Int /\ \A l \in 1 .. Len(frames) - i + 1 : l \in 1 .. Len(frames)
    BY <1>1
  <2> QED
    BY <2>1, <2>2, BlockedBelowGrows
<1>9. CallsLead'
  <2> SUFFICES ASSUME NEW i \in 1 .. n - 1
               PROVE  Satisfiable(problem, calls[i]) => Satisfiable(problem, goal)
    BY <1>1, <1>2 DEF CallsLead
  <2> QED
    BY <1>1 DEF IInv, CallsLead, n
<1>10. VerdictSound'
  BY <1>1 DEF IInv, VerdictSound
<1> QED
  BY <1>4, <1>5, <1>6, <1>7, <1>8, <1>9, <1>10 DEF IInv

\* A frame that grows by one core at level k.
LEMMA GrowFrame ==
  ASSUME NEW fs \in Seq(SUBSET Core), NEW k \in 1 .. Len(fs), NEW u \in Core
  PROVE  /\ [fs EXCEPT ![k] = @ \cup {u}] \in Seq(SUBSET Core)
         /\ Len([fs EXCEPT ![k] = @ \cup {u}]) = Len(fs)
         /\ \A l \in 1 .. Len(fs) : fs[l] \subseteq [fs EXCEPT ![k] = @ \cup {u}][l]
<1>1. DOMAIN fs = 1 .. Len(fs)
  OBVIOUS
<1>2. \A l \in 1 .. Len(fs) : fs[l] \subseteq [fs EXCEPT ![k] = @ \cup {u}][l]
  BY <1>1, Zenon
<1> QED
  BY <1>2

LEMMA LastUnsatKeepsInvariant ==
  ASSUME IInv, LastUnsat
  PROVE  IInv'
<1>1. PICK u \in FinalCores(Top) : frames' = [frames EXCEPT ![1] = @ \cup {u}]
  BY DEF LastUnsat
<1>2. /\ Len(frames) \in Nat \ {0} /\ Len(calls) > 1 /\ Top \in SUBSET Conj
      /\ frames \in Seq(SUBSET Core) /\ tmp_frame \in SUBSET Core
  BY TopFacts DEF LastUnsat, IInv, Typed, TypeOK
<1>3. u \in Core
  BY <1>2 DEF FinalCores, Core
<1>4. NeverLast(problem, {u})
  BY DEF FinalCores, FinalModels, NeverLast
<1>5. 1 \in 1 .. Len(frames)
  BY <1>2
<1>6. FramesInv(problem, frames', tmp_frame)
  <2>1. problem \in Problems /\ FramesInv(problem, frames, tmp_frame)
    BY DEF IInv, Typed
  <2>2. ~ (1 > 1)
    OBVIOUS
  <2>3. FramesInv(problem, [frames EXCEPT ![1] = @ \cup {u}], tmp_frame)
    BY <1>2, <1>3, <1>4, <1>5, <2>1, <2>2, AddToFrame
  <2> QED
    BY <1>1, <2>3
<1>7. /\ frames' \in Seq(SUBSET Core) /\ Len(frames') = Len(frames)
      /\ \A l \in 1 .. Len(frames) : frames[l] \subseteq frames'[l]
  BY <1>1, <1>2, <1>3, <1>5, GrowFrame
<1>8. tmp_frame' = tmp_frame /\ pc = "try" /\ calls' = Front(calls) /\ evidence' = Front(evidence)
      /\ UNCHANGED <<problem, verdict, pc>>
  BY DEF LastUnsat
<1> QED
  BY <1>2, <1>6, <1>7, <1>8, ReturnToCallerKeepsInvariant

\* The core of an exhausted call leads to states that the frame it was solved against blocks.
LEMMA StepCoreLeads ==
  ASSUME NEW s \in SUBSET Conj, NEW F \in SUBSET Core, NEW u \in StepCores(s, F)
  PROVE  u \in Core /\ u \subseteq s /\ Leads(problem, {u}, F)
<1>1. u \subseteq s /\ StepModels(u, F) = {}
  BY DEF StepCores
<1>2. \A m \in problem.models : u \subseteq m.now => \E v \in Clauses(F) : v \subseteq m.next
  BY <1>1 DEF StepModels
<1>3. Clauses(F) \subseteq F
  BY DEF Clauses
<1> QED
  BY <1>1, <1>2, <1>3 DEF Leads, Blocked, Core

LEMMA ExhaustedKeepsInvariant ==
  ASSUME IInv, Exhausted
  PROVE  IInv'
<1> DEFINE n == Len(calls)
           k == TopFrame + 1
<1>1. /\ n \in Nat \ {0} /\ Len(frames) \in Nat \ {0} /\ n <= Len(frames)
      /\ Top = calls[n] /\ Top \in SUBSET Conj
      /\ TopFrame \in 1 .. Len(frames) /\ TopFrame = Len(frames) - n + 1
      /\ frames[TopFrame] \in SUBSET Core
      /\ frames \in Seq(SUBSET Core) /\ frames # <<>> /\ tmp_frame \in SUBSET Core
      /\ problem \in Problems /\ pc = "try"
  BY TopFacts DEF Exhausted, IInv, Typed, TypeOK, Shape
<1>2. PICK u \in StepCores(Top, frames[TopFrame]) : AddFrameElement(k, u)
  BY DEF Exhausted
<1>3. u \in Core /\ u \subseteq Top /\ Leads(problem, {u}, frames[TopFrame])
  BY <1>1, StepCoreLeads
<1>4. UNCHANGED <<problem, verdict>> /\ calls' = Front(calls) /\ goal' = goal
  BY DEF Exhausted, goal
<1>5. k \in 2 .. Len(frames) + 1 /\ k - 1 = TopFrame /\ (k = Len(frames) + 1 <=> n = 1)
  <2> HIDE DEF n
  <2>1. ASSUME NEW f \in Nat, NEW a \in Nat, NEW t \in 1 .. f, t = f - a + 1
        PROVE  t + 1 \in 2 .. f + 1 /\ t + 1 - 1 = t /\ (t + 1 = f + 1 <=> a = 1)
    BY <2>1
  <2>2. n \in Nat /\ Len(frames) \in Nat
    BY <1>1
  <2> QED
    BY <1>1, <2>1, <2>2
<1> HIDE DEF n, k
<1>6. CASE n = 1
  <2>1. frames' = frames /\ tmp_frame' = tmp_frame \cup {u} /\ TopFrame = Len(frames)
    BY <1>1, <1>2, <1>5, <1>6 DEF AddFrameElement
  <2>2. pc' = "inv" /\ evidence' = evidence
    BY <1>6 DEF Exhausted, n
  <2>3. FramesInv(problem, frames, tmp_frame \cup {u})
    BY <1>1, <1>3, <2>1, AddToTmp DEF IInv
  <2>4. tmp_frame' \in SUBSET Core
    BY <1>1, <1>3, <2>1
  <2>5. calls \in Seq(SUBSET Conj) /\ Len(calls) = 1 /\ calls[1] = goal /\ Len(evidence) = 0
        /\ evidence \in Seq(SUBSET Lit)
    BY <1>1, <1>6 DEF IInv, Typed, TypeOK, Shape, n
  <2>6. calls' \in Seq(SUBSET Conj) /\ Len(calls') = 0
    BY <1>4, <2>5, FrontFacts
  <2>7. calls' = <<>> /\ evidence = <<>>
    BY <2>5, <2>6
  <2>8. Blocked(goal, tmp_frame')
    BY <1>1, <1>3, <1>6, <2>1, <2>5 DEF Blocked
  <2>9. \A l \in 1 .. Len(frames) : Blocked(goal, frames[l])
    BY <1>1 DEF IInv, GoalBlocked
  <2>10. Typed' /\ Shape'
    BY <1>1, <1>4, <2>1, <2>2, <2>4, <2>6, <2>7 DEF IInv, Typed, TypeOK, Shape
  <2>11. FramesInv(problem, frames, tmp_frame)'
    BY <1>4, <2>1, <2>3
  <2>12. GoalBlocked'
    BY <1>4, <2>1, <2>8, <2>9 DEF GoalBlocked
  <2>13. CallsBlocked' /\ CallsLead' /\ VerdictSound'
    BY <1>4, <2>2 DEF IInv, CallsBlocked, CallsLead, VerdictSound
  <2> QED
    BY <2>10, <2>11, <2>12, <2>13 DEF IInv
<1>7. CASE n > 1
  <2>1. k \in 1 .. Len(frames) /\ k # 1 /\ k # Len(frames) + 1
    BY <1>1, <1>5, <1>7
  <2>2. frames' = [frames EXCEPT ![k] = @ \cup {u}] /\ tmp_frame' = tmp_frame
    BY <1>2, <2>1 DEF AddFrameElement
  <2>3. UNCHANGED pc /\ evidence' = Front(evidence)
    BY <1>1, <1>7 DEF Exhausted, n
  <2>4. Leads(problem, {u}, frames[k - 1])
    BY <1>3, <1>5
  <2>5. FramesInv(problem, frames', tmp_frame')
    BY <1>1, <1>3, <2>1, <2>2, <2>4, AddToFrame DEF IInv
  <2>6. /\ frames' \in Seq(SUBSET Core) /\ Len(frames') = Len(frames)
        /\ \A l \in 1 .. Len(frames) : frames[l] \subseteq frames'[l]
    BY <1>1, <1>3, <2>1, <2>2, GrowFrame
  <2> QED
    BY <1>1, <1>4, <1>7, <2>2, <2>3, <2>5, <2>6, ReturnToCallerKeepsInvariant DEF n
<1> QED
  BY <1>1, <1>6, <1>7

LEMMA NextRoundKeepsInvariant ==
  ASSUME IInv, NextRound
  PROVE  IInv'
<1>1. /\ frames \in Seq(SUBSET Core) /\ tmp_frame \in SUBSET Core /\ frames # <<>>
      /\ evidence = <<>> /\ pc = "inv" /\ goal \in SUBSET Conj /\ goal' = goal
      /\ problem \in Problems /\ verdict = "unknown"
  BY DEF IInv, Typed, TypeOK, Shape, NextRound, goal
<1>2. /\ frames' = Append(frames, tmp_frame) /\ tmp_frame' = {} /\ calls' = <<goal>> /\ pc' = "try"
      /\ UNCHANGED <<problem, verdict, evidence>>
  BY DEF NextRound
<1>3. FramesInv(problem, frames', {})
  BY <1>1, <1>2, NewFrame DEF IInv
<1>4. /\ frames' \in Seq(SUBSET Core) /\ Len(frames') = Len(frames) + 1 /\ Len(frames) \in Nat
      /\ \A l \in 1 .. Len(frames) : frames'[l] = frames[l]
      /\ frames'[Len(frames) + 1] = tmp_frame
  BY <1>1, <1>2
<1>5. calls' \in Seq(SUBSET Conj) /\ Len(calls') = 1 /\ calls'[1] = goal
  BY <1>1, <1>2
<1>6. ASSUME NEW l \in 1 .. Len(frames')
      PROVE  Blocked(goal, frames'[l])
  <2>1. CASE l = Len(frames) + 1
    BY <1>1, <1>4, <2>1 DEF IInv, GoalBlocked
  <2>2. CASE l \in 1 .. Len(frames)
    BY <1>1, <1>4, <2>2 DEF IInv, GoalBlocked
  <2> QED
    BY <1>4, <2>1, <2>2
<1>7. Typed' /\ Shape'
  BY <1>1, <1>2, <1>4, <1>5 DEF IInv, Typed, TypeOK, Shape
<1>8. FramesInv(problem, frames, tmp_frame)'
  BY <1>2, <1>3
<1>9. GoalBlocked'
  BY <1>1, <1>2, <1>6 DEF GoalBlocked
<1>10. BlockedBelow(problem, goal, frames', Len(frames'))
  BY <1>6 DEF BlockedBelow, Blocked
<1>11. CallsBlocked'
  <2>1. Len(frames') - 1 + 1 = Len(frames')
    BY <1>4
  <2> QED
    BY <1>1, <1>2, <1>5, <1>10, <2>1 DEF CallsBlocked
<1>12. CallsLead'
  BY <1>1, <1>2, <1>5 DEF CallsLead
<1>13. VerdictSound'
  BY <1>1, <1>2 DEF IInv, VerdictSound
<1> QED
  BY <1>7, <1>8, <1>9, <1>11, <1>12, <1>13 DEF IInv

LEMMA StutterKeepsInvariant ==
  ASSUME IInv, UNCHANGED vars
  PROVE  IInv'
<1>1. /\ problem' = problem /\ verdict' = verdict /\ evidence' = evidence /\ frames' = frames
      /\ tmp_frame' = tmp_frame /\ calls' = calls /\ pc' = pc /\ goal' = goal
  BY DEF vars, goal
<1>2. Typed' /\ Shape'
  BY <1>1 DEF IInv, Typed, TypeOK, Shape
<1>3. FramesInv(problem, frames, tmp_frame)'
  BY <1>1 DEF IInv
<1>4. GoalBlocked' /\ CallsBlocked'
  BY <1>1 DEF IInv, GoalBlocked, CallsBlocked
<1>5. CallsLead' /\ VerdictSound'
  BY <1>1 DEF IInv, CallsLead, VerdictSound
<1> QED
  BY <1>2, <1>3, <1>4, <1>5 DEF IInv

LEMMA NextKeepsInvariant ==
  ASSUME IInv, [Next]_vars
  PROVE  IInv'
<1>1. CASE CheckTrue
  BY <1>1, CheckTrueKeepsInvariant
<1>2. CASE CheckFalse
  BY <1>2, CheckFalseKeepsInvariant
<1>3. CASE HeuristicUnsat
  BY <1>3, HeuristicUnsatKeepsInvariant
<1>4. CASE SatOnce
  BY <1>4, SatOnceKeepsInvariant
<1>5. CASE FirstFrame
  BY <1>5, FirstFrameKeepsInvariant
<1>6. CASE Step
  BY <1>6, StepKeepsInvariant
<1>7. CASE LastSat
  BY <1>7, LastSatKeepsInvariant
<1>8. CASE LastUnsat
  BY <1>8, LastUnsatKeepsInvariant
<1>9. CASE Exhausted
  BY <1>9, ExhaustedKeepsInvariant
<1>10. CASE InvFound
  BY <1>10, InvFoundKeepsInvariant
<1>11. CASE NextRound
  BY <1>11, NextRoundKeepsInvariant
<1>12. CASE Terminated \/ UNCHANGED vars
  BY <1>12, StutterKeepsInvariant DEF Terminated
<1> QED
  BY <1>1, <1>2, <1>3, <1>4, <1>5, <1>6, <1>7, <1>8, <1>9, <1>10, <1>11, <1>12 DEF Next

LEMMA SpecIInv == Spec => []IInv
BY InitInvariant, NextKeepsInvariant, PTL DEF Spec

-----------------------------------------------------------------------------
\* The variables of check keep their types: frames and tmp_frame hold sets of
\* conjuncts, the evidence sets of literals, the pending calls sets of conjuncts.
THEOREM SpecTypeOK == Spec => []TypeOK
<1>1. IInv => TypeOK
  BY DEF IInv, Typed
<1> QED
  BY <1>1, SpecIInv, PTL

\* The answer of check is right, for every formula whose encoding satisfies
\* EncodingAssumption, whatever unsat cores and transitions the solver picks.
THEOREM SpecVerdictSound == Spec => []VerdictSound
<1>1. IInv => VerdictSound
  BY DEF IInv
<1> QED
  BY <1>1, SpecIInv, PTL

\* No state of a pending call of try_satisfy could have ended the word, so no
\* transition the solver finds may be taken with Tail true.
THEOREM SpecPendingNotFinal == Spec => []PendingNotFinal
<1>1. IInv => PendingNotFinal
  BY NotFinal DEF IInv
<1> QED
  BY <1>1, SpecIInv, PTL

\* The assertions of add_frame_element and get_selected_uc hold: no core that
\* reaches a frame is empty.
THEOREM SpecCoresNonEmpty == Spec => []CoresNonEmpty
<1>1. ASSUME NEW e, NEW F, Spares(e, F)
      PROVE  {} \notin F
  BY <1>1 DEF Spares, Blocked
<1>2. IInv => CoresNonEmpty
  BY <1>1 DEF IInv, FramesInv, CoresNonEmpty
<1> QED
  BY <1>2, SpecIInv, PTL

\* The labels and the pending calls of try_satisfy stay in step, and any word of the
\* innermost state completes them to a word of the goal.
THEOREM SpecEvidenceOfCalls == Spec => []EvidenceOfCalls
<1>1. IInv => EvidenceOfCalls
  <2> SUFFICES ASSUME IInv, pc = "try"
               PROVE  /\ Len(evidence) = Len(calls) - 1
                      /\ Satisfiable(problem, Top) => Satisfiable(problem, goal)
    BY DEF EvidenceOfCalls
  <2>1. Len(evidence) = Len(calls) - 1
    BY DEF IInv, Shape
  <2>2. Len(calls) \in 1 .. Len(calls) /\ Top = calls[Len(calls)]
    BY TopFacts DEF IInv
  <2> QED
    BY <2>1, <2>2 DEF IInv, CallsLead
<1> QED
  BY <1>1, SpecIInv, PTL

-----------------------------------------------------------------------------
(***************************************************************************)
(* Progress.  An exhausted or refuted call adds its core to the frame that  *)
(* the transition to it was solved against: that frame did not refute the   *)
(* call, so the core is new.                                                *)
(***************************************************************************)
\* No successor on the search path is refuted by the frame its caller avoids, and
\* the frame under construction is empty until the search of the round is over.
Fresh ==
  pc = "try" =>
    /\ tmp_frame = {}
    /\ \A n \in 2 .. Len(calls) : ~ Blocked(calls[n], frames[Len(frames) - n + 2])

\* A call returns after its core was added to the frame its caller avoids.
LEMMA ReturnIsFresh ==
  ASSUME IInv, Fresh, pc = "try", Len(calls) > 1, UNCHANGED <<tmp_frame, pc>>,
         calls' = Front(calls), NEW u \in Core, u \subseteq Top,
         NEW k, k = Len(frames) - Len(calls) + 2,
         frames' = [frames EXCEPT ![k] = @ \cup {u}]
  PROVE  Fresh' /\ NewCore
<1> DEFINE n == Len(calls)
           gs == [frames EXCEPT ![k] = @ \cup {u}]
<1>1. /\ n \in Nat /\ n > 1 /\ Len(frames) \in Nat \ {0} /\ n <= Len(frames) + 1
      /\ calls \in Seq(SUBSET Conj) /\ frames \in Seq(SUBSET Core) /\ Top = calls[n]
  BY TopFacts DEF IInv, Typed, TypeOK, Shape
<1>2. k \in 1 .. Len(frames)
  BY <1>1
<1>3. /\ Len(gs) = Len(frames)
      /\ \A l \in 1 .. Len(frames) : frames[l] \subseteq gs[l]
  BY <1>1, <1>2, GrowFrame
<1>4. /\ \A l \in 1 .. Len(frames) : l # k => gs[l] = frames[l]
      /\ gs[k] = frames[k] \cup {u}
  <2>1. DOMAIN frames = 1 .. Len(frames)
    BY <1>1
  <2> QED
    BY <1>2, <2>1, Zenon
<1>5. Len(Front(calls)) = n - 1 /\ \A i \in 1 .. n - 1 : Front(calls)[i] = calls[i]
  BY <1>1, FrontFacts
<1>6. /\ tmp_frame = {}
      /\ \A i \in 2 .. n : ~ Blocked(calls[i], frames[Len(frames) - i + 2])
  BY DEF Fresh
<1>7. ~ Blocked(Top, frames[k])
  BY <1>1, <1>6
<1>8. u \notin frames[k]
  BY <1>7 DEF Blocked
<1>9. gs # frames
  BY <1>4, <1>8
<1> HIDE DEF n, gs
<1>10. NewCore
  BY <1>3, <1>9 DEF NewCore, gs
<1>11. ASSUME NEW i \in 2 .. n - 1
       PROVE  ~ Blocked(Front(calls)[i], gs[Len(gs) - i + 2])
  <2>1. Front(calls)[i] = calls[i] /\ ~ Blocked(calls[i], frames[Len(frames) - i + 2])
    BY <1>1, <1>5, <1>6
  <2>2. Len(frames) - i + 2 \in 1 .. Len(frames) /\ Len(frames) - i + 2 # k
    BY <1>1 DEF n
  <2>3. gs[Len(frames) - i + 2] = frames[Len(frames) - i + 2]
    BY <1>4, <2>2
  <2> QED
    BY <1>3, <2>1, <2>3
<1>12. Fresh'
  BY <1>5, <1>6, <1>11 DEF Fresh, gs
<1> QED
  BY <1>10, <1>12

LEMMA LastUnsatIsFresh ==
  ASSUME IInv, Fresh, LastUnsat
  PROVE  Fresh' /\ NewCore
<1>1. PICK u \in FinalCores(Top) : frames' = [frames EXCEPT ![1] = @ \cup {u}]
  BY DEF LastUnsat
<1>2. pc = "try" /\ Len(calls) = Len(frames) + 1 /\ calls' = Front(calls)
      /\ UNCHANGED <<tmp_frame, pc>>
  BY DEF LastUnsat, AtLastPosition
<1>3. Len(frames) \in Nat \ {0} /\ Top \in SUBSET Conj
  BY <1>2, TopFacts DEF IInv
<1>4. u \in Core /\ u \subseteq Top
  BY <1>3 DEF FinalCores, Core
<1>5. 1 = Len(frames) - Len(calls) + 2 /\ Len(calls) > 1
  BY <1>2, <1>3
<1> QED
  BY <1>1, <1>2, <1>4, <1>5, ReturnIsFresh

LEMMA ExhaustedIsFresh ==
  ASSUME IInv, Fresh, Exhausted
  PROVE  Fresh' /\ NewCore
<1>1. /\ pc = "try" /\ Len(calls) \in Nat \ {0} /\ Len(frames) \in Nat \ {0}
      /\ Len(calls) <= Len(frames) /\ Top \in SUBSET Conj
      /\ TopFrame = Len(frames) - Len(calls) + 1 /\ frames[TopFrame] \in SUBSET Core
      /\ frames \in Seq(SUBSET Core)
  BY TopFacts DEF Exhausted, IInv, Typed, TypeOK
<1>2. PICK u \in StepCores(Top, frames[TopFrame]) : AddFrameElement(TopFrame + 1, u)
  BY DEF Exhausted
<1>3. u \in Core /\ u \subseteq Top
  BY <1>1, StepCoreLeads
<1>4. ASSUME NEW n \in Nat \ {0}
      PROVE  n = 1 \/ (n > 1 /\ n # 1)
  BY <1>4
<1>5. Len(calls) = 1 \/ (Len(calls) > 1 /\ Len(calls) # 1)
  BY <1>1, <1>4, Zenon
<1>6. CASE Len(calls) = 1
  <2>1. TopFrame + 1 = Len(frames) + 1
    BY <1>1, <1>6
  <2>2. frames' = frames /\ tmp_frame' = tmp_frame \cup {u} /\ pc' = "inv"
    BY <1>2, <1>6, <2>1 DEF AddFrameElement, Exhausted
  <2>3. tmp_frame = {}
    BY <1>1 DEF Fresh
  <2> QED
    BY <1>1, <2>2, <2>3 DEF Fresh, NewCore
<1>7. CASE Len(calls) > 1 /\ Len(calls) # 1
  <2>1. TopFrame + 1 # Len(frames) + 1 /\ TopFrame + 1 = Len(frames) - Len(calls) + 2
    BY <1>1, <1>7
  <2>2. frames' = [frames EXCEPT ![TopFrame + 1] = @ \cup {u}] /\ tmp_frame' = tmp_frame
    BY <1>2, <2>1 DEF AddFrameElement
  <2>3. pc' = pc /\ calls' = Front(calls)
    BY <1>7, Zenon DEF Exhausted
  <2> QED
    BY <1>1, <1>3, <1>7, <2>1, <2>2, <2>3, ReturnIsFresh
<1> QED
  BY <1>5, <1>6, <1>7, Zenon

\* The solver's transition leads to a state without a core of the frame it was given.
LEMMA StepIsFresh ==
  ASSUME IInv, Fresh, Step
  PROVE  Fresh' /\ Deeper
<1>1. PICK m \in StepModels(Top, frames[TopFrame]) : calls' = Append(calls, Successor(m, Top))
  BY DEF Step
<1> DEFINE n == Len(calls)
           s == Successor(m, Top)
<1>2. /\ n \in Nat \ {0} /\ Len(frames) \in Nat \ {0} /\ n <= Len(frames)
      /\ TopFrame = Len(frames) - n + 1 /\ calls \in Seq(SUBSET Conj) /\ Top \in SUBSET Conj
  BY TopFacts DEF Step, IInv, Typed, TypeOK
<1>3. m \in problem.models /\ m.next \subseteq problem.hasNext
      /\ \A u \in Clauses(frames[TopFrame]) : ~ (u \subseteq m.next)
  BY EncodingAssumption DEF StepModels, IInv, Typed, WellFormed
<1>4. s \subseteq m.next
  BY DEF Successor
<1>5. ~ Blocked(s, frames[TopFrame])
  BY <1>3, <1>4 DEF Blocked, Clauses
<1>6. s \in SUBSET Conj
  BY <1>2, <1>3, TransitionTyped DEF IInv, Typed
<1>7. /\ UNCHANGED <<frames, tmp_frame, pc>> /\ pc = "try"
      /\ tmp_frame = {}
      /\ \A i \in 2 .. n : ~ Blocked(calls[i], frames[Len(frames) - i + 2])
  BY DEF Step, Fresh
<1>8. /\ Len(Append(calls, s)) = n + 1 /\ Append(calls, s)[n + 1] = s
      /\ \A i \in 1 .. n : Append(calls, s)[i] = calls[i]
  BY <1>2, <1>6
<1> HIDE DEF n, s
<1>9. ASSUME NEW i \in 2 .. n + 1
      PROVE  ~ Blocked(Append(calls, s)[i], frames[Len(frames) - i + 2])
  <2>1. CASE i = n + 1
    <3>1. Len(frames) - i + 2 = TopFrame
      BY <1>2, <2>1
    <3> QED
      BY <1>5, <1>8, <2>1, <3>1
  <2>2. CASE i \in 2 .. n
    <3>1. Append(calls, s)[i] = calls[i]
      BY <1>2, <1>8, <2>2
    <3> QED
      BY <1>7, <2>2, <3>1
  <2>3. n \in Nat /\ i \in 2 .. n + 1
    BY <1>2
  <2>4. i = n + 1 \/ i \in 2 .. n
    BY <2>3
  <2> QED
    BY <2>1, <2>2, <2>4, Zenon
<1>10. calls' = Append(calls, s)
  BY <1>1 DEF s
<1>11. Len(calls') = n + 1
  BY <1>8, <1>10
<1>12. Fresh'
  BY <1>7, <1>8, <1>9, <1>10 DEF Fresh
<1>13. Deeper
  BY <1>2, <1>7, <1>11 DEF Deeper, n
<1> QED
  BY <1>12, <1>13

(***************************************************************************)
(* Every round without an invariant found one more set of conjuncts that    *)
(* the frames so far refute and the next one does not.                      *)
(***************************************************************************)
LEMMA RoundsBounded ==
  ASSUME IInv, pc = "inv", ~ HasInvariant
  PROVE  Len(frames) <= Cardinality({S \in InvAssignments : Blocked(S, frames[1])}) + 1
<1> DEFINE B == {S \in InvAssignments : Blocked(S, frames[1])}
           N == Len(frames) - 1
           Leaves(i, S) == /\ \A l \in 1 .. i : Blocked(S, frames[l])
                           /\ ~ Blocked(S, frames[i + 1])
           f == [i \in 1 .. N |-> CHOOSE S \in InvAssignments : Leaves(i, S)]
<1>1. Len(frames) \in Nat \ {0} /\ N \in Nat
  BY DEF IInv, Typed, TypeOK, Shape
<1>2. ASSUME NEW i \in 1 .. N
      PROVE  f[i] \in InvAssignments /\ Leaves(i, f[i])
  <2>1. ~ InvFoundAt(i)
    BY DEF HasInvariant
  <2>2. \E S \in InvAssignments : Leaves(i, S)
    BY <2>1 DEF InvFoundAt
  <2>3. f[i] = CHOOSE S \in InvAssignments : Leaves(i, S)
    OBVIOUS
  <2> HIDE DEF f, Leaves
  <2> QED
    BY <2>2, <2>3
<1> HIDE DEF f
<1>3. \A i \in 1 .. N : f[i] \in B
  <2> SUFFICES ASSUME NEW i \in 1 .. N
               PROVE  f[i] \in B
    OBVIOUS
  <2>1. 1 \in 1 .. i
    BY <1>1
  <2> QED
    BY <1>2, <2>1
<1>4. ASSUME NEW i \in 1 .. N, NEW j \in 1 .. N, f[i] = f[j]
      PROVE  i = j
  <2>1. ASSUME NEW a \in 1 .. N, NEW b \in 1 .. N, a < b
        PROVE  f[a] # f[b]
    <3>1. a + 1 \in 1 .. b
      BY <1>1, <2>1
    <3> QED
      BY <1>2, <3>1
  <2> QED
    BY <1>1, <1>4, <2>1
<1>5. f \in Injection(1 .. N, B)
  <2>1. f \in [1 .. N -> B]
    BY <1>3 DEF f
  <2> HIDE DEF N, B
  <2>2. \A i, j \in 1 .. N : f[i] = f[j] => i = j
    BY <1>4
  <2> QED
    BY <2>1, <2>2 DEF Injection, IsInjective
<1>6. IsFiniteSet(B) /\ Cardinality(B) \in Nat
  <2>1. IsFiniteSet(SUBSET Conj)
    BY FiniteAssumption, FS_SUBSET
  <2>2. B \in SUBSET SUBSET Conj
    BY DEF InvAssignments
  <2> QED
    BY <2>1, <2>2, FS_Subset, FS_CardinalityType
<1>7. Cardinality(1 .. N) = N
  BY <1>1, FS_Interval
<1>8. Cardinality(1 .. N) <= Cardinality(B)
  BY <1>5, <1>6, FS_Injection
<1> QED
  BY <1>1, <1>6, <1>7, <1>8

LEMMA NextRoundIsFresh ==
  ASSUME IInv, NextRound
  PROVE  Fresh' /\ NextFrame
<1>1. frames \in Seq(SUBSET Core) /\ tmp_frame \in SUBSET Core
  BY DEF IInv, Typed, TypeOK
<1>2. Len(frames') = Len(frames) + 1
  BY <1>1 DEF NextRound
<1>3. Len(calls') = 1 /\ tmp_frame' = {}
  BY DEF NextRound
<1>4. NextFrame
  BY <1>2, RoundsBounded DEF NextRound, NextFrame
<1> QED
  BY <1>3, <1>4 DEF Fresh

LEMMA FirstFrameIsFresh ==
  ASSUME IInv, FirstFrame
  PROVE  Fresh'
<1>1. Len(calls') = 1 /\ tmp_frame' = {}
  BY DEF FirstFrame
<1> QED
  BY <1>1 DEF Fresh

LEMMA NextIsFresh ==
  ASSUME IInv, Fresh, [Next]_vars
  PROVE  Fresh' /\ [Advances]_vars
<1>1. CASE CheckTrue \/ CheckFalse \/ HeuristicUnsat \/ SatOnce
  BY <1>1 DEF CheckTrue, CheckFalse, HeuristicUnsat, SatOnce, Return, Fresh, Advances
<1>2. CASE FirstFrame
  BY <1>2, FirstFrameIsFresh DEF FirstFrame, Advances
<1>3. CASE Step
  BY <1>3, StepIsFresh DEF Advances
<1>4. CASE LastSat \/ InvFound
  BY <1>4 DEF LastSat, InvFound, Return, Fresh, Advances
<1>5. CASE LastUnsat
  BY <1>5, LastUnsatIsFresh DEF Advances
<1>6. CASE Exhausted
  BY <1>6, ExhaustedIsFresh DEF Advances
<1>7. CASE NextRound
  BY <1>7, NextRoundIsFresh DEF Advances
<1>8. CASE Terminated \/ UNCHANGED vars
  BY <1>8 DEF Terminated, vars, Fresh
<1> QED
  BY <1>1, <1>2, <1>3, <1>4, <1>5, <1>6, <1>7, <1>8 DEF Next

\* Every step of check and try_satisfy brings the answer nearer, for every formula:
\* it answers, or goes one position deeper, or adds a core that its frame did not
\* have, or starts a round of which there are at most as many as the first frame
\* refutes sets of conjuncts.
THEOREM SpecProgress == Spec => Progress
<1>1. Init => Fresh
  BY DEF Init, Fresh
<1>2. IInv /\ IInv' /\ Fresh /\ [Next]_vars => Fresh' /\ [Advances]_vars
  BY NextIsFresh
<1> QED
  BY <1>1, <1>2, SpecIInv, PTL DEF Spec, Progress
=============================================================================
