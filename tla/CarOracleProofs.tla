-------------------------- MODULE CarOracleProofs --------------------------
(***************************************************************************)
(* CARChecker::check implements SatOracle, for every SAT encoding that      *)
(* satisfies EncodingAssumption: the answer is right, and with "sat" come   *)
(* the labels of a shortest word, any completion of which satisfies the     *)
(* formula.                                                                 *)
(***************************************************************************)
EXTENDS CarCheckerProofs

-----------------------------------------------------------------------------
(***************************************************************************)
(* Frames: frame l leads to what frame l - 1 blocks, so by induction on l   *)
(* no word of l letters satisfies a core of frame l.                        *)
(***************************************************************************)
\* check starts its frames together with the one under construction.
NoFrameYet == frames = <<>> => tmp_frame = {}

\* The soundness of the frames follows from how each leads to the one below.
LEMMA FramesAreSound ==
  ASSUME IInv, NoFrameYet
  PROVE  FramesSound
<1>1. problem \in Problems /\ FramesInv(problem, frames, tmp_frame) /\ Len(frames) \in Nat
      /\ (frames = <<>> <=> Len(frames) = 0)
  BY DEF IInv, Typed, TypeOK
<1>2. ASSUME NEW F, NeverLast(problem, F)
      PROVE  CoresRefuted(F, 1)
  <2> SUFFICES ASSUME NEW u \in F, NEW T \in TruthsOfLength(problem)[1], u \subseteq T
               PROVE  FALSE
    BY DEF CoresRefuted, SatisfiableIn
  <2>1. PICK m \in problem.models : m.tail /\ T = m.now
    BY <1>1, TruthsOfLengthFacts
  <2> QED
    BY <1>2, <2>1 DEF NeverLast
<1>3. ASSUME NEW n \in Nat \ {0}, NEW F, NEW G, CoresRefuted(F, n), Leads(problem, G, F)
      PROVE  CoresRefuted(G, n + 1)
  <2> SUFFICES ASSUME NEW u \in G, NEW T \in TruthsOfLength(problem)[n + 1], u \subseteq T
               PROVE  FALSE
    BY DEF CoresRefuted, SatisfiableIn
  <2>1. T \in Before(problem, problem.models, TruthsOfLength(problem)[n])
    BY <1>1, TruthsOfLengthFacts
  <2>2. PICK m \in problem.models, S \in TruthsOfLength(problem)[n] :
          T = m.now /\ FollowedBy(problem, m, S)
    BY <2>1 DEF Before
  <2>3. PICK v \in F : v \subseteq m.next
    BY <1>3, <2>2 DEF Leads, Blocked
  <2>4. v \subseteq S
    BY <2>2, <2>3 DEF FollowedBy
  <2> QED
    BY <1>3, <2>2, <2>4 DEF CoresRefuted, SatisfiableIn
<1>4. ASSUME NEW n \in 1 .. Len(frames)
      PROVE  CoresRefuted(frames[n], n)
  <2> DEFINE Bad == {k \in Nat : k \in 1 .. Len(frames) /\ ~ CoresRefuted(frames[k], k)}
  <2> SUFFICES ASSUME n \in Bad PROVE FALSE
    BY <1>1
  <2>1. PICK k \in Bad : \A j \in Bad : k <= j
    BY Smallest
  <2>2. CASE k = 1
    <3>1. NeverLast(problem, frames[1])
      BY <1>1, <2>1, <2>2 DEF FramesInv
    <3> QED
      BY <1>2, <2>1, <2>2, <3>1
  <2>3. CASE k # 1
    <3>1. k - 1 \in Nat \ {0} /\ (k - 1) + 1 = k /\ k \in 2 .. Len(frames)
          /\ k - 1 \in 1 .. Len(frames) /\ k - 1 \notin Bad
      BY <2>1, <2>3
    <3>2. CoresRefuted(frames[k - 1], k - 1)
      BY <3>1
    <3>3. Leads(problem, frames[k], frames[k - 1])
      BY <1>1, <3>1 DEF FramesInv
    <3> HIDE DEF Bad
    <3>4. CoresRefuted(frames[k], (k - 1) + 1)
      BY <1>3, <3>1, <3>2, <3>3
    <3>5. CoresRefuted(frames[k], k)
      BY <3>1, <3>4
    <3> QED
      BY <2>1, <3>5 DEF Bad
  <2> QED
    BY <2>2, <2>3
<1>5. CoresRefuted(tmp_frame, Len(frames) + 1)
  <2>1. CASE frames = <<>>
    BY <2>1 DEF NoFrameYet, CoresRefuted
  <2>2. CASE frames # <<>>
    <3>1. Len(frames) \in Nat \ {0} /\ Leads(problem, tmp_frame, frames[Len(frames)])
      BY <1>1, <2>2 DEF FramesInv
    <3>2. CoresRefuted(frames[Len(frames)], Len(frames))
      BY <1>4, <3>1
    <3> QED
      BY <1>3, <3>1, <3>2
  <2> QED
    BY <2>1, <2>2
<1> QED
  BY <1>4, <1>5 DEF FramesSound

\* While check looks for words of Len(frames) + 1 letters, it has refuted all shorter
\* ones: every frame blocks the goal.
LEMMA NoShorterWord ==
  ASSUME IInv, NoFrameYet, pc = "try"
  PROVE  ~ SatisfiableBelow(problem, goal, Len(frames) + 1)
<1> SUFFICES ASSUME NEW T \in Truths(problem), goal \subseteq T,
                    problem.dist[T] \in 1 .. (Len(frames) + 1) - 1
             PROVE  FALSE
  BY DEF SatisfiableBelow
<1> DEFINE n == problem.dist[T]
<1>1. problem \in Problems /\ Len(frames) \in Nat
  BY DEF IInv, Typed, TypeOK
<1>2. n \in 1 .. Len(frames) /\ n > 0
  BY <1>1
<1>3. T \in TruthsOfLength(problem)[n]
  BY <1>1, <1>2, DistIsLength
<1>4. PICK u \in frames[n] : u \subseteq goal
  BY <1>2 DEF IInv, GoalBlocked, Blocked
<1>5. CoresRefuted(frames[n], n)
  BY <1>2, FramesAreSound DEF FramesSound
<1> QED
  BY <1>3, <1>4, <1>5 DEF CoresRefuted, SatisfiableIn

-----------------------------------------------------------------------------
(***************************************************************************)
(* The invariant of the evidence.                                           *)
(***************************************************************************)
EvidenceChain ==
  pc = "try" => \A i \in 1 .. Len(calls) - 1 :
                  Transition(problem, calls[i], evidence[i], calls[i + 1])

ChainInv == NoFrameYet /\ EvidenceChain

\* The search starts without frames, calls and evidence.
LEMMA InitChainInv ==
  ASSUME Init
  PROVE  ChainInv
BY DEF Init, ChainInv, NoFrameYet, EvidenceChain

\* A transition of the solver is not one at the end of a word, so it links the
\* innermost call to the new one.
LEMMA StepChain ==
  ASSUME IInv, ChainInv, Step
  PROVE  ChainInv'
<1>1. PICK m \in StepModels(Top, frames[TopFrame]) :
         /\ calls' = Append(calls, Successor(m, Top))
         /\ evidence' = Append(evidence, Label(m, Top))
  BY DEF Step
<1> DEFINE n == Len(calls)
<1>2. /\ n \in Nat \ {0} /\ n <= Len(frames) /\ Top = calls[n]
      /\ calls \in Seq(SUBSET Conj) /\ evidence \in Seq(SUBSET Lit) /\ Len(evidence) = n - 1
      /\ UNCHANGED <<problem, frames, tmp_frame, pc>> /\ pc = "try"
  BY TopFacts DEF Step, IInv, Typed, TypeOK, Shape
<1>3. m \in problem.models /\ Top \subseteq m.now
  BY DEF StepModels
<1>4. ~ m.tail
  <2>1. PendingNotFinal
    BY NotFinal DEF IInv
  <2>2. n \in 1 .. Len(calls)
    BY <1>2
  <2>3. FinalModels(calls[n]) = {}
    BY <1>2, <2>1, <2>2 DEF PendingNotFinal
  <2> QED
    BY <1>2, <1>3, <2>3 DEF FinalModels
<1>5. Transition(problem, Top, Label(m, Top), Successor(m, Top))
  BY <1>3, <1>4 DEF Transition, Label, Successor
<1>6. Label(m, Top) \in SUBSET Lit /\ Successor(m, Top) \in SUBSET Conj
  BY <1>3, TopFacts, TransitionTyped DEF Step, IInv, Typed
<1>7. /\ Len(calls') = n + 1 /\ calls'[n + 1] = Successor(m, Top)
      /\ \A i \in 1 .. n : calls'[i] = calls[i]
      /\ evidence'[n] = Label(m, Top)
      /\ \A i \in 1 .. n - 1 : evidence'[i] = evidence[i]
  BY <1>1, <1>2, <1>6
<1>8. ASSUME NEW i \in 1 .. n
      PROVE  Transition(problem, calls'[i], evidence'[i], calls'[i + 1])
  <2>1. CASE i = n
    BY <1>2, <1>5, <1>7, <2>1
  <2>2. CASE i # n
    <3>1. i \in 1 .. n - 1 /\ i + 1 \in 1 .. n
      BY <1>2, <2>2
    <3>2. Transition(problem, calls[i], evidence[i], calls[i + 1])
      BY <1>2, <3>1 DEF ChainInv, EvidenceChain
    <3> QED
      BY <1>7, <3>1, <3>2
  <2> QED
    BY <2>1, <2>2
<1> HIDE DEF n
<1>9. EvidenceChain'
  <2>1. Len(calls') - 1 = n
    BY <1>2, <1>7
  <2> QED
    BY <1>2, <1>8, <2>1 DEF EvidenceChain
<1> QED
  BY <1>2, <1>9 DEF ChainInv, NoFrameYet

\* A call that returns takes its label along.
LEMMA ReturnChain ==
  ASSUME IInv, ChainInv, LastUnsat \/ Exhausted
  PROVE  ChainInv'
<1>1. /\ calls \in Seq(SUBSET Conj) /\ evidence \in Seq(SUBSET Lit)
      /\ Len(calls) \in Nat \ {0} /\ Len(evidence) = Len(calls) - 1
      /\ frames # <<>> /\ frames \in Seq(SUBSET Core)
      /\ problem' = problem /\ calls' = Front(calls) /\ pc = "try"
  BY TopFacts DEF LastUnsat, Exhausted, IInv, Typed, TypeOK, Shape
<1>2. frames' # <<>>
  <2>1. frames' = frames \/ \E k, F : frames' = [frames EXCEPT ![k] = F]
    BY DEF LastUnsat, Exhausted, AddFrameElement
  <2>2. Len(frames) \in Nat \ {0} /\ DOMAIN frames = 1 .. Len(frames)
    BY <1>1
  <2>3. DOMAIN frames' = DOMAIN frames
    BY <2>1
  <2>4. 1 \in DOMAIN frames'
    BY <2>2, <2>3
  <2> QED
    BY <2>4
<1>3. CASE pc' = "try"
  <2>1. evidence' = Front(evidence) /\ Len(calls) > 1
    <3>1. CASE LastUnsat
      BY <3>1, TopFacts DEF LastUnsat, IInv
    <3>2. CASE Exhausted
      BY <1>1, <1>3, <3>2 DEF Exhausted
    <3> QED
      BY <3>1, <3>2
  <2>2. /\ Len(calls') = Len(calls) - 1
        /\ \A i \in 1 .. Len(calls) - 1 : calls'[i] = calls[i]
        /\ \A i \in 1 .. (Len(calls) - 1) - 1 : evidence'[i] = evidence[i]
    <3>1. /\ Len(calls') = Len(calls) - 1
          /\ \A i \in 1 .. Len(calls) - 1 : calls'[i] = calls[i]
      BY <1>1, FrontFacts
    <3>2. \A i \in 1 .. Len(evidence) - 1 : evidence'[i] = evidence[i]
      <4>1. Len(evidence) > 0
        BY <1>1, <2>1
      <4> QED
        BY <1>1, <2>1, <4>1, FrontFacts
    <3> QED
      BY <1>1, <3>1, <3>2
  <2>3. ASSUME NEW i \in 1 .. (Len(calls) - 1) - 1
        PROVE  Transition(problem, calls'[i], evidence'[i], calls'[i + 1])
    <3>1. i \in 1 .. Len(calls) - 1 /\ i + 1 \in 1 .. Len(calls) - 1
      BY <1>1
    <3>2. Transition(problem, calls[i], evidence[i], calls[i + 1])
      BY <1>1, <3>1 DEF ChainInv, EvidenceChain
    <3> QED
      BY <2>2, <3>1, <3>2
  <2> QED
    BY <1>1, <1>2, <2>2, <2>3 DEF ChainInv, NoFrameYet, EvidenceChain
<1>4. CASE pc' # "try"
  BY <1>2, <1>4 DEF ChainInv, NoFrameYet, EvidenceChain
<1> QED
  BY <1>3, <1>4

\* The other steps return, or start a search with one call.
LEMMA NextChain ==
  ASSUME IInv, ChainInv, [Next]_vars
  PROVE  ChainInv'
<1>1. CASE Step
  BY <1>1, StepChain
<1>2. CASE LastUnsat \/ Exhausted
  BY <1>2, ReturnChain
<1>3. CASE FirstFrame \/ NextRound
  <2>1. tmp_frame' = {} /\ Len(calls') = 1
    BY <1>3 DEF FirstFrame, NextRound
  <2> QED
    BY <2>1 DEF ChainInv, NoFrameYet, EvidenceChain
<1>4. CASE CheckTrue \/ CheckFalse \/ HeuristicUnsat \/ SatOnce \/ LastSat \/ InvFound
  <2>1. pc' = "done" /\ UNCHANGED <<frames, tmp_frame>>
    BY <1>4 DEF CheckTrue, CheckFalse, HeuristicUnsat, SatOnce, LastSat, InvFound, Return
  <2> QED
    BY <2>1 DEF ChainInv, NoFrameYet, EvidenceChain
<1>5. CASE Terminated \/ UNCHANGED vars
  BY <1>5 DEF Terminated, vars, ChainInv, NoFrameYet, EvidenceChain
<1> QED
  BY <1>1, <1>2, <1>3, <1>4, <1>5 DEF Next

\* The invariant of the evidence.
LEMMA SpecChainInv == Spec => []ChainInv
BY InitChainInv, NextChain, SpecIInv, PTL DEF Spec

-----------------------------------------------------------------------------
\* No word of l + 1 letters satisfies a core of frames_[l], and none of one more
\* letter than there are frames a core of tmp_frame_.
THEOREM SpecFramesSound == Spec => []FramesSound
<1>1. IInv /\ ChainInv => FramesSound
  BY FramesAreSound DEF ChainInv
<1> QED
  BY <1>1, SpecIInv, SpecChainInv, PTL

-----------------------------------------------------------------------------
(***************************************************************************)
(* The refinement.  Only the steps that return are steps of the oracle; all *)
(* others leave its variables alone, for the oracle sees the evidence only  *)
(* when the answer is "sat".                                                *)
(***************************************************************************)
\* Returning "sat" with the labels of a shortest word is a step of the oracle.
LEMMA ReturnSatImplements ==
  ASSUME verdict = "unknown", Return("sat"), problem' = problem,
         Witnesses(problem, evidence', problem.goal),
         ~ SatisfiableBelow(problem, problem.goal, Len(evidence'))
  PROVE  Oracle!AnswerSat
BY DEF Return, Oracle!AnswerSat, Oracle!Witnesses, Witnesses, Oracle!SatisfiableBelow,
       SatisfiableBelow, Oracle!Truths, Truths, Oracle!TruthsOfWord, TruthsOfWord,
       Oracle!Before, Before, Oracle!FollowedBy, FollowedBy

\* Returning "unsat" for an unsatisfiable formula is a step of the oracle.
LEMMA ReturnUnsatImplements ==
  ASSUME verdict = "unknown", Return("unsat"), problem' = problem,
         ~ Satisfiable(problem, problem.goal)
  PROVE  Oracle!AnswerUnsat
BY DEF Return, Oracle!AnswerUnsat, Oracle!Satisfiable, Satisfiable, Oracle!Truths, Truths

\* A word of one letter is a shortest one, and its label is enough.
LEMMA OneLetter ==
  ASSUME NEW e \in Problems, NEW label \in SUBSET Lit, NEW s, Ending(e, s, label)
  PROVE  /\ Witnesses(e, <<label>>, s)
         /\ ~ SatisfiableBelow(e, s, Len(<<label>>))
<1> DEFINE labels == <<label>>
           states == <<s>>
<1>1. labels \in Seq(SUBSET Lit) /\ Len(labels) = 1 /\ labels[1] = label /\ states[1] = s
  OBVIOUS
<1> HIDE DEF labels, states
<1>2. Chain(e, states, labels, 1)
  <2>1. \A i \in 1 .. 1 - 1 : FALSE
    OBVIOUS
  <2> QED
    BY <1>1, <2>1 DEF Chain
<1>3. 1 \in Nat \ {0}
  OBVIOUS
<1>4. Witnesses(e, labels, states[1])
  BY <1>1, <1>2, <1>3, ChainWitnesses
<1>5. ~ SatisfiableBelow(e, s, 1)
  <2>1. ASSUME NEW T \in Truths(e)
        PROVE  e.dist[T] \notin 1 .. 1 - 1
    BY DistFacts
  <2> QED
    BY <2>1 DEF SatisfiableBelow
<1> QED
  BY <1>1, <1>4, <1>5 DEF labels

\* The formula True, for which check answers with one empty label.
LEMMA CheckTrueImplements ==
  ASSUME IInv, CheckTrue
  PROVE  Oracle!AnswerSat
<1>1. problem \in Problems /\ verdict = "unknown"
  BY DEF IInv, Typed, Shape, CheckTrue
<1>2. problem.goal = {} /\ evidence' = <<{}>> /\ Return("sat") /\ problem' = problem
  BY DEF CheckTrue, goal
<1>3. PICK m \in problem.models : m.tail
  BY <1>1, ModelsExist
<1>4. CoiLit(problem, {}) = {}
  BY DEF CoiLit
<1>5. Ending(problem, {}, {})
  BY <1>3, <1>4 DEF Ending
<1>6. {} \in SUBSET Lit
  OBVIOUS
<1>7. /\ Witnesses(problem, <<{}>>, {})
      /\ ~ SatisfiableBelow(problem, {}, Len(<<{}>>))
  BY <1>1, <1>5, <1>6, OneLetter
<1> QED
  BY <1>1, <1>2, <1>7, ReturnSatImplements

\* sat_once.
LEMMA SatOnceImplements ==
  ASSUME IInv, SatOnce
  PROVE  Oracle!AnswerSat
<1>1. problem \in Problems /\ verdict = "unknown" /\ goal \in SUBSET Conj
  BY DEF IInv, Typed, Shape, SatOnce
<1>2. PICK m \in FinalModels(goal) : evidence' = <<Label(m, goal)>>
  BY DEF SatOnce
<1>3. Return("sat") /\ problem' = problem /\ goal = problem.goal
  BY DEF SatOnce, goal
<1>4. Ending(problem, goal, Label(m, goal))
  BY DEF FinalModels, Ending, Label
<1>5. Label(m, goal) \in SUBSET Lit
  BY <1>1, TransitionTyped DEF FinalModels
<1>6. /\ Witnesses(problem, <<Label(m, goal)>>, goal)
      /\ ~ SatisfiableBelow(problem, goal, Len(<<Label(m, goal)>>))
  BY <1>1, <1>4, <1>5, OneLetter
<1> QED
  BY <1>1, <1>2, <1>3, <1>6, ReturnSatImplements

\* try_satisfy reaches a state where the word may end: the labels of all the pending
\* calls make up the word, and the frames have refuted every shorter one.
LEMMA LastSatImplements ==
  ASSUME IInv, ChainInv, LastSat
  PROVE  Oracle!AnswerSat
<1> DEFINE n == Len(calls)
<1>1. PICK m \in FinalModels(Top) : evidence' = Append(evidence, Label(m, Top))
  BY DEF LastSat
<1>2. /\ problem \in Problems /\ verdict = "unknown" /\ pc = "try"
      /\ n \in Nat \ {0} /\ Top = calls[n] /\ Top \in SUBSET Conj /\ calls[1] = goal
      /\ n = Len(frames) + 1
      /\ evidence \in Seq(SUBSET Lit) /\ Len(evidence) = n - 1
      /\ Return("sat") /\ problem' = problem /\ goal = problem.goal
  BY TopFacts DEF LastSat, AtLastPosition, IInv, Typed, TypeOK, Shape, goal
<1> HIDE DEF n
<1>3. Ending(problem, Top, Label(m, Top))
  BY DEF FinalModels, Ending, Label
<1>4. Label(m, Top) \in SUBSET Lit
  BY <1>2, TransitionTyped DEF FinalModels
<1>5. /\ evidence' \in Seq(SUBSET Lit) /\ Len(evidence') = n
      /\ evidence'[n] = Label(m, Top)
      /\ \A i \in 1 .. n - 1 : evidence'[i] = evidence[i]
  BY <1>1, <1>2, <1>4
<1>6. \A i \in 1 .. n - 1 : Transition(problem, calls[i], evidence[i], calls[i + 1])
  BY <1>2 DEF ChainInv, EvidenceChain, n
<1>7. Chain(problem, calls, evidence', n)
  BY <1>2, <1>3, <1>5, <1>6 DEF Chain
<1>8. Witnesses(problem, evidence', goal)
  BY <1>2, <1>5, <1>7, ChainWitnesses
<1>9. ~ SatisfiableBelow(problem, goal, n)
  BY <1>2, NoShorterWord DEF ChainInv
<1> QED
  BY <1>2, <1>5, <1>8, <1>9, ReturnSatImplements

\* The three ways to find that there is no word.
LEMMA UnsatImplements ==
  ASSUME IInv, CheckFalse \/ HeuristicUnsat \/ InvFound
  PROVE  Oracle!AnswerUnsat
<1>1. problem \in Problems /\ verdict = "unknown" /\ goal = problem.goal
  BY DEF IInv, Typed, Shape, CheckFalse, HeuristicUnsat, InvFound, goal
<1>2. Return("unsat") /\ problem' = problem
  BY DEF CheckFalse, HeuristicUnsat, InvFound
<1>3. ~ Satisfiable(problem, goal)
  <2>1. CASE CheckFalse
    BY <1>1, <2>1, ModelsTyped DEF Satisfiable, Truths, CheckFalse
  <2>2. CASE HeuristicUnsat
    BY <2>2 DEF HeuristicUnsat
  <2>3. CASE InvFound
    BY <2>3, InvariantRefutes DEF InvFound, IInv
  <2> QED
    BY <2>1, <2>2, <2>3
<1> QED
  BY <1>1, <1>2, <1>3, ReturnUnsatImplements

\* Every step of check is a step of the oracle or leaves its variables alone.
LEMMA StepImplements ==
  ASSUME IInv, ChainInv, [Next]_vars
  PROVE  [Oracle!OracleNext]_(Oracle!oracleVars)
<1>1. CASE CheckTrue \/ SatOnce \/ LastSat
  BY <1>1, CheckTrueImplements, SatOnceImplements, LastSatImplements DEF Oracle!OracleNext
<1>2. CASE CheckFalse \/ HeuristicUnsat \/ InvFound
  BY <1>2, UnsatImplements DEF Oracle!OracleNext
<1>3. CASE FirstFrame \/ Step \/ LastUnsat \/ Exhausted \/ NextRound
  <2>1. verdict = "unknown" /\ verdict' = verdict /\ problem' = problem
    BY <1>3 DEF FirstFrame, Step, LastUnsat, Exhausted, NextRound, IInv, Shape
  <2> QED
    BY <2>1 DEF Oracle!oracleVars
<1>4. CASE Terminated \/ UNCHANGED vars
  BY <1>4 DEF Terminated, vars, Oracle!oracleVars
<1> QED
  BY <1>1, <1>2, <1>3, <1>4 DEF Next

\* CARChecker::check answers once and right, and its evidence is that of a shortest
\* word: what the synthesis search and the callers of the checker rely on.
THEOREM SpecImplementsOracle == Spec => ImplementsOracle
<1>1. Init => Oracle!OracleInit
  BY DEF Init, OracleInit, Oracle!OracleInit
<1>2. IInv /\ ChainInv /\ [Next]_vars => [Oracle!OracleNext]_(Oracle!oracleVars)
  BY StepImplements
<1> QED
  BY <1>1, <1>2, SpecIInv, SpecChainInv, PTL DEF Spec, ImplementsOracle, Oracle!OracleSpec
=============================================================================
