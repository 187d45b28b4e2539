----------------------------- MODULE CarChecker ----------------------------
(***************************************************************************)
(* The satisfiability check of carchecker.cpp (CARChecker::check).          *)
(*                                                                          *)
(* frames_[l] holds unsat cores: sets of conjuncts that no word of l + 1    *)
(* letters satisfies.  The check looks for words of two letters, three      *)
(* letters and so on, depth first (try_satisfy), and every refuted state    *)
(* adds the core of its refutation to a frame.  When the states refuted by  *)
(* frames 0 .. i - 1 are all refuted by frame i too, no word is left.       *)
(*                                                                          *)
(* TLA+ sequences start at 1: frames[l + 1] is frames_[l].  calls holds the *)
(* formulas of the pending calls of try_satisfy; the last one may be the    *)
(* successor of a call at level 0, which sat_once tests.                    *)
(***************************************************************************)
EXTENDS SatOracle

VARIABLES
  frames,      \* frames_, a set of cores for each level
  tmp_frame,   \* tmp_frame_, the cores of the frame to be added next
  calls,       \* the formulas of the pending calls, the outermost first
  pc           \* where check / car_check is

vars == <<problem, verdict, evidence, frames, tmp_frame, calls, pc>>

Core == SUBSET Conj

TypeOK ==
  /\ verdict \in {"unknown", "sat", "unsat"}
  /\ evidence \in Seq(SUBSET Lit)
  /\ frames \in Seq(SUBSET Core)
  /\ tmp_frame \in SUBSET Core
  /\ calls \in Seq(SUBSET Conj)
  /\ pc \in {"check", "try", "inv", "done"}

goal == problem.goal

-----------------------------------------------------------------------------
(***************************************************************************)
(* The SAT solver (CARSolver).                                              *)
(***************************************************************************)
\* check_final: the assignments with the conjuncts of s and Tail.
FinalModels(s) == {m \in problem.models : m.tail /\ s \subseteq m.now}

\* (Mutant: a core is discarded when one of its conjuncts has an X.)
Clauses_Reversed(F) == {u \in F : u \cap problem.hasNext = {}}

\* (Mutant: a conjunct that no X reaches is left out of the clause.)
Clauses_Skips(F) == {u \cap problem.hasNext : u \in F}

\* The blocking clauses of a frame; a core with a conjunct that no X reaches
\* needs none (block_discard_able).
Clauses(F) == {u \in F : u \subseteq problem.hasNext}

\* solve_with_assumption: the assignments with the conjuncts of s whose next
\* position is not blocked by the frame F.  Tail is left free.
StepModels(s, F) ==
  {m \in problem.models : s \subseteq m.now /\ \A u \in Clauses(F) : ~ (u \subseteq m.next)}

\* (Mutant: check_final does not reset selected_assumption_.)
FinalCores_Stale(s) ==
  LET selected == IF Len(calls) < 2 THEN s ELSE calls[Len(calls) - 1]
  IN {u \cap selected : u \in {x \in SUBSET s : FinalModels(x) = {}}}

\* get_selected_uc: some conjuncts of s that suffice for the refutation.
FinalCores(s) == {u \in SUBSET s : FinalModels(u) = {}}

StepCores(s, F) == {u \in SUBSET s : StepModels(u, F) = {}}

\* get_transition: the assignment shrunk to what the assumptions depend on.
Label(m, s) == m.lits \cap CoiLit(problem, s)

Successor(m, s) == m.next \cap CoiNext(problem, s)

-----------------------------------------------------------------------------
(***************************************************************************)
(* Levels and frames.                                                       *)
(***************************************************************************)
Last(q) == q[Len(q)]
Front(q) == SubSeq(q, 1, Len(q) - 1)

\* The innermost pending call, and the frame its successors must avoid.
Top == Last(calls)
AtLastPosition == Len(calls) = Len(frames) + 1
TopFrame == Len(frames) - Len(calls) + 1

\* (Mutant: the last frame is taken to be the one under construction.)
AddFrameElement_Early(k, u) ==
  IF k >= Len(frames) THEN /\ tmp_frame' = tmp_frame \cup {u}
                           /\ UNCHANGED frames
  ELSE /\ frames' = [frames EXCEPT ![k] = @ \cup {u}]
       /\ UNCHANGED tmp_frame

\* Adding core u to the frame k + 1 levels up: a new one when there is none.
AddFrameElement(k, u) ==
  IF k = Len(frames) + 1 THEN /\ tmp_frame' = tmp_frame \cup {u}
                              /\ UNCHANGED frames
  ELSE /\ frames' = [frames EXCEPT ![k] = @ \cup {u}]
       /\ UNCHANGED tmp_frame

Blocked(S, F) == \E u \in F : u \subseteq S

\* The assignments of InvSolver: its ids are free but for complements.
InvAssignments == {S \in SUBSET Conj : ClashFree(problem, S)}

\* (Mutant: the frames are swapped.)
InvFoundAt_Swapped(i) ==
  \A S \in InvAssignments :
    Blocked(S, frames[i + 1]) => \E l \in 1 .. i : Blocked(S, frames[l])

\* solve_inv_at(i): what frames 0 .. i - 1 refute, frame i refutes.
InvFoundAt(i) ==
  \A S \in InvAssignments :
    (\A l \in 1 .. i : Blocked(S, frames[l])) => Blocked(S, frames[i + 1])

\* inv_found
HasInvariant == {i \in 1 .. Len(frames) - 1 : InvFoundAt(i)} # {}

-----------------------------------------------------------------------------
Init ==
  /\ OracleInit
  /\ frames = <<>> /\ tmp_frame = {} /\ calls = <<>>
  /\ pc = "check"

Return(v) == verdict' = v /\ pc' = "done"

(***************************************************************************)
(* check, up to the search.                                                 *)
(***************************************************************************)
\* The formula True: any word of one letter.
CheckTrue ==
  /\ pc = "check" /\ goal = {}
  /\ Return("sat")
  /\ evidence' = <<{}>>
  /\ UNCHANGED <<problem, frames, tmp_frame, calls>>

CheckFalse ==
  /\ pc = "check" /\ goal = {FF}
  /\ Return("unsat")
  /\ UNCHANGED <<problem, evidence, frames, tmp_frame, calls>>

\* check_with_heuristics, and the answer car_check gives to a formula G !Tail (the
\* only releases of False that add_tail and simplify leave): they may find that there
\* is no word.
HeuristicUnsat ==
  /\ pc = "check" /\ goal # {} /\ goal # {FF}
  /\ ~ Satisfiable(problem, goal)
  /\ Return("unsat")
  /\ UNCHANGED <<problem, evidence, frames, tmp_frame, calls>>

\* car_check: a word of one letter.
SatOnce ==
  /\ pc = "check" /\ goal # {} /\ goal # {FF}
  /\ \E m \in FinalModels(goal) : evidence' = <<Label(m, goal)>>
  /\ Return("sat")
  /\ UNCHANGED <<problem, frames, tmp_frame, calls>>

\* car_check: none, so the first frame is set up.
FirstFrame ==
  /\ pc = "check" /\ goal # {} /\ goal # {FF}
  /\ FinalModels(goal) = {}
  /\ \E u \in FinalCores(goal) : frames' = <<{u}>>
  /\ calls' = <<goal>>
  /\ tmp_frame' = {}
  /\ pc' = "try"
  /\ UNCHANGED <<problem, verdict, evidence>>

(***************************************************************************)
(* try_satisfy.                                                             *)
(***************************************************************************)
\* The solver finds a transition to a state the frame does not refute.
Step ==
  /\ pc = "try" /\ ~ AtLastPosition
  /\ \E m \in StepModels(Top, frames[TopFrame]) :
       /\ calls' = Append(calls, Successor(m, Top))
       /\ evidence' = Append(evidence, Label(m, Top))
  /\ UNCHANGED <<problem, verdict, frames, tmp_frame, pc>>

\* A transition at level 0 reached a state where the word may end.
LastSat ==
  /\ pc = "try" /\ AtLastPosition
  /\ \E m \in FinalModels(Top) : evidence' = Append(evidence, Label(m, Top))
  /\ Return("sat")
  /\ UNCHANGED <<problem, frames, tmp_frame, calls>>

LastUnsat ==
  /\ pc = "try" /\ AtLastPosition
  /\ FinalModels(Top) = {}
  /\ \E u \in FinalCores(Top) : frames' = [frames EXCEPT ![1] = @ \cup {u}]
  /\ calls' = Front(calls)
  /\ evidence' = Front(evidence)
  /\ UNCHANGED <<problem, verdict, tmp_frame, pc>>

\* Every transition leads to refuted states: the call returns false.
Exhausted ==
  /\ pc = "try" /\ ~ AtLastPosition
  /\ StepModels(Top, frames[TopFrame]) = {}
  /\ \E u \in StepCores(Top, frames[TopFrame]) : AddFrameElement(TopFrame + 1, u)
  /\ calls' = Front(calls)
  /\ IF Len(calls) = 1 THEN pc' = "inv" /\ UNCHANGED evidence
     ELSE evidence' = Front(evidence) /\ UNCHANGED pc
  /\ UNCHANGED <<problem, verdict>>

(***************************************************************************)
(* inv_found, and the next round of car_check.                              *)
(***************************************************************************)
InvFound ==
  /\ pc = "inv" /\ HasInvariant
  /\ Return("unsat")
  /\ UNCHANGED <<problem, evidence, frames, tmp_frame, calls>>

NextRound ==
  /\ pc = "inv" /\ ~ HasInvariant
  /\ frames' = Append(frames, tmp_frame)
  /\ tmp_frame' = {}
  /\ calls' = <<goal>>
  /\ pc' = "try"
  /\ UNCHANGED <<problem, verdict, evidence>>

\* The check has returned.
Terminated == pc = "done" /\ UNCHANGED vars

Next ==
  \/ CheckTrue \/ CheckFalse \/ HeuristicUnsat \/ SatOnce \/ FirstFrame
  \/ Step \/ LastSat \/ LastUnsat \/ Exhausted
  \/ InvFound \/ NextRound
  \/ Terminated

Spec == Init /\ [][Next]_vars

FairSpec == Spec /\ WF_vars(Next)
-----------------------------------------------------------------------------
(***************************************************************************)
(* Properties.                                                              *)
(***************************************************************************)
\* A core of frames_[l] is satisfied by no word of l + 1 letters, whatever the
\* frames below looked like when it was added.
CoresRefuted(F, n) == \A u \in F : ~ SatisfiableIn(problem, u, n)

FramesSound ==
  /\ \A n \in 1 .. Len(frames) : CoresRefuted(frames[n], n)
  /\ CoresRefuted(tmp_frame, Len(frames) + 1)

\* No state a word is extended from could have ended it.  The solver leaves Tail
\* free when it looks for a transition, and with Tail true a weak next promises
\* nothing of the next position: only the order of the search rules that out.
PendingNotFinal ==
  pc = "try" =>
    \A i \in 1 .. Len(calls) : i <= Len(frames) => FinalModels(calls[i]) = {}

\* assert (!uc.empty ()) in add_frame_element and assert (!res.empty ()) in
\* get_selected_uc: a refutation never rests on the frame alone.
CoresNonEmpty ==
  /\ \A l \in 1 .. Len(frames) : {} \notin frames[l]
  /\ {} \notin tmp_frame

\* The evidence and the pending calls stay in step, and a word that satisfies the
\* innermost state completes the labels so far to one that satisfies the goal.
EvidenceOfCalls ==
  pc = "try" =>
    /\ Len(evidence) = Len(calls) - 1
    /\ Satisfiable(problem, Top) => Satisfiable(problem, goal)

\* The answer is right, whatever cores and transitions the solver picked on the way.
VerdictSound ==
  /\ verdict = "sat" => Satisfiable(problem, goal)
  /\ verdict = "unsat" => ~ Satisfiable(problem, goal)

\* check keeps the promise of SatOracle: one answer, the right one, and with "sat"
\* the labels of a shortest word, any completion of which satisfies the formula.
Oracle == INSTANCE SatOracle
            WITH evidence <- IF verdict = "sat" THEN evidence ELSE <<>>

ImplementsOracle == Oracle!OracleSpec

\* Every step brings the check nearer to an answer, in lexicographic order: a round
\* more is started only while some set of conjuncts that the first frame refutes is
\* not refuted by all, each round finding one more such set, so their number bounds
\* the rounds; a refutation adds a core that the frame does not have yet; and the
\* search goes one position deeper, at most to the last one of the round.
NextFrame ==
  /\ Len(frames') = Len(frames) + 1
  /\ Len(frames) <= Cardinality({S \in InvAssignments : Blocked(S, frames[1])}) + 1

NewCore ==
  /\ Len(frames') = Len(frames)
  /\ \A l \in 1 .. Len(frames) : frames[l] \subseteq frames'[l]
  /\ tmp_frame \subseteq tmp_frame'
  /\ frames' # frames \/ tmp_frame' # tmp_frame

Deeper ==
  /\ UNCHANGED <<frames, tmp_frame>>
  /\ Len(calls) < Len(calls') /\ Len(calls') <= Len(frames) + 1

Advances == pc = "check" \/ pc' = "done" \/ NextFrame \/ NewCore \/ Deeper

Progress == [][Advances]_vars

\* The check returns.
Termination == <>(pc = "done")
=============================================================================
