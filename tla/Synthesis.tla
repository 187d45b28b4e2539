----------------------------- MODULE Synthesis -----------------------------
(***************************************************************************)
(* The synthesis search of synthesis.cpp: is_realizable and Expand as a      *)
(* depth-first search over a stack of Syn_Frames, guided by shortest        *)
(* satisfying words, that learns winning and failing states.                *)
(*                                                                          *)
(* Constraints on edges are the sets of assignments they still allow, so    *)
(* And(C, nnf(Not(r))) is the set difference C \ r and TRUE the full set.   *)
(* A generalised edge (Generalize) is the set of assignments that extend    *)
(* the reduced conjunction of literals.  The edges of a word are partial:   *)
(* they may leave inputs out, and so may current_X.                         *)
(***************************************************************************)
EXTENDS SynGame, Sequences

CONSTANT NULL     \* the null aalta_formula pointer

ASSUME NullAssumption == NULL \notin YEdges \cup XParts

VARIABLES
  game,               \* the game of the source formula (never changes)
  searcher,           \* list<Syn_Frame *>, the search stack
  winning_state_vec,  \* Syn_Frame::winning_state(_vec), shared by all frames
  failure_state_vec,  \* Syn_Frame::failure_state(_vec), shared by all frames
  pc,                 \* where is_realizable / Expand is
  tr_left,            \* positions of the satisfying word not yet consumed
  ahead,              \* states the word so far leads to, missing inputs having any value
  result,             \* the verdict
  looped,             \* history: repeat_with_prefix hit a frame below the top
  unreached,          \* history: a partial edge failed for a state no completion leads to
  unaccepted          \* history: Accepting_edge was sent for an edge that does not accept

vars == <<game, searcher, winning_state_vec, failure_state_vec, pc, tr_left, ahead,
          result, looped, unreached, unaccepted>>

word == <<tr_left, ahead>>

history == <<looped, unreached, unaccepted>>

Status == {"Unknown", "Realizable", "Unrealizable", "Runtimeout"}

Frame == [state : State,
          Y_constraint : SUBSET YEdges,
          X_constraint : SUBSET XEdges,
          X_base : SUBSET XEdges,
          current_Y : YEdges \cup {NULL},
          current_X : XParts \cup {NULL},
          winning_checked_idx : Nat,
          failure_checked_idx : Nat]

TypeOK ==
  /\ GameType(game)
  /\ searcher \in Seq(Frame) /\ Len(searcher) > 0
  /\ winning_state_vec \in Seq(State)
  /\ failure_state_vec \in Seq(State)
  /\ pc \in {"check", "expand", "trace", "done"}
  /\ tr_left \in Nat
  /\ ahead \in SUBSET State
  /\ result \in Status
  /\ looped \in BOOLEAN /\ unreached \in BOOLEAN /\ unaccepted \in BOOLEAN

-----------------------------------------------------------------------------
(***************************************************************************)
(* Frames and the stack.                                                    *)
(***************************************************************************)
Syn_Frame(s) == [state |-> s,
                 Y_constraint |-> YEdges, X_constraint |-> XEdges, X_base |-> XEdges,
                 current_Y |-> NULL, current_X |-> NULL,
                 winning_checked_idx |-> 0, failure_checked_idx |-> 0]

Depth == Len(searcher)

Top == searcher[Depth]

\* searcher with its top frame replaced by f, and with f below a popped top.
SetTop(f) == [searcher EXCEPT ![Depth] = f]

\* (Mutant: the stack is popped twice.)
PopAndSet_Twice(f) == SubSeq(searcher, 1, Depth - 2)

PopAndSet(f) == [SubSeq(searcher, 1, Depth - 1) EXCEPT ![Depth - 1] = f]

GetRealX_constraint(f) == f.X_base \cap f.X_constraint

IsNotTryingY(f) == f.current_Y = NULL

\* GetEdgeConstraint, as the set of edges that satisfy it.
EdgeConstraint(f) ==
  IF IsNotTryingY(f) THEN f.Y_constraint \X f.X_base
                     ELSE {f.current_Y} \X GetRealX_constraint(f)

SetTravelDirection(f, y, x) ==
  [f EXCEPT !.current_Y = IF f.current_Y = NULL THEN y ELSE f.current_Y,
            !.current_X = x]

-----------------------------------------------------------------------------
(***************************************************************************)
(* Learnt states, compared as BDDs.  The set and the vector are always       *)
(* written together, so the vector alone stands for both.                   *)
(***************************************************************************)
Members(vec) == {vec[i] : i \in DOMAIN vec}

Learnt(vec, s) == \E t \in Members(vec) : Same(game, s, t)

insert_state(vec, s) == IF Learnt(vec, s) THEN vec ELSE Append(vec, s)

\* Positions (from 0) that the incremental scans of KnownWinning and
\* KnownFailure still have to look at and that decide the state.
\* (Mutants: the arguments of Implies swapped.)
WinningHits_Swapped(f) ==
  {i \in f.winning_checked_idx .. Len(winning_state_vec) - 1 :
     Implies(game, f.state, winning_state_vec[i + 1])}

FailureHits_Swapped(f) ==
  {i \in f.failure_checked_idx .. Len(failure_state_vec) - 1 :
     Implies(game, failure_state_vec[i + 1], f.state)}

WinningHits(f) ==
  {i \in f.winning_checked_idx .. Len(winning_state_vec) - 1 :
     Implies(game, winning_state_vec[i + 1], f.state)}

FailureHits(f) ==
  {i \in f.failure_checked_idx .. Len(failure_state_vec) - 1 :
     Implies(game, f.state, failure_state_vec[i + 1])}

KnownWinning(f) == Learnt(winning_state_vec, f.state) \/ WinningHits(f) # {}

KnownFailure(f) == Learnt(failure_state_vec, f.state) \/ FailureHits(f) # {}

\* A scan without a hit leaves the index at the end of the vector.  (A scan
\* with a hit is followed by the deletion of the frame.)
WinningScanned(f) == [f EXCEPT !.winning_checked_idx = Len(winning_state_vec)]

\* (Mutant: the scan runs one past the end and will skip the next state learnt.)
FailureScanned_PastEnd(f) == [f EXCEPT !.failure_checked_idx = Len(failure_state_vec) + 1]

FailureScanned(f) == [f EXCEPT !.failure_checked_idx = Len(failure_state_vec)]

-----------------------------------------------------------------------------
(***************************************************************************)
(* Generalize: the sets of edges that a reduced edge may stand for.  TestFprog *)
(* keeps a literal unless the progression (and then also the acceptance) of  *)
(* the state is the same whatever the value of the variable; TestAcc unless  *)
(* the acceptance is, be the edge an accepting one or not.                   *)
(***************************************************************************)
SameEdge(g, s, y1, p1, y2, p2) ==
  /\ Succ(g, s, y1, p1) = Succ(g, s, y2, p2)
  /\ Accepts(g, s, y1, p1) <=> Accepts(g, s, y2, p2)

\* What is left of p when some of its literals are dropped, and the edges with the
\* inputs of p that agree with it.
Reductions(p) == {[v \in V |-> p[v]] : V \in SUBSET DOMAIN p}

Parallel(p, r) == {d \in [DOMAIN p -> BOOLEAN] : Extends(d, r)}

X_reduced_to_winning(f) ==
  {Completions(r) : r \in {r \in Reductions(f.current_X) : \A d \in Parallel(f.current_X, r) :
                            SameEdge(game, f.state, f.current_Y, f.current_X, f.current_Y, d)}}

X_reduced_accepting(f) ==
  {Completions(r) : r \in {r \in Reductions(f.current_X) : \A d \in Parallel(f.current_X, r) :
                            Accepts(game, f.state, f.current_Y, d)
                              <=> Accepts(game, f.state, f.current_Y, f.current_X)}}

Y_reduced_to_failure(f) ==
  {B \in SUBSET YEdges :
     /\ f.current_Y \in B
     /\ \A y \in B : SameEdge(game, f.state, f.current_Y, f.current_X, y, f.current_X)}

\* GetUnsatAssump: the Y literals kept still contradict state /\ RealX.
Y_reduced_no_way(f) ==
  {B \in SUBSET YEdges :
     /\ f.current_Y \in B
     /\ \A y \in B, x \in GetRealX_constraint(f) : EdgeLen(game, f.state, y, x) = 0}

\* calc_X_base: the possible new values of X_base.  BaseWinningAtY on the X
\* literals alone may answer yes only when every Y accepts; being syntactic it
\* may also answer no then.
\* (Mutant: it is enough that the current output accepts.)
calc_X_base_CurrentY(f) ==
  LET wins(x) == Accepts(game, f.state, f.current_Y, x)
      reduced == {r \in Reductions(f.current_X) : \A x \in Completions(r) : wins(x)}
  IN {f.X_base} \cup {f.X_base \ Completions(r) : r \in reduced}

calc_X_base(f) ==
  LET wins(x) == \A y \in YEdges : Accepts(game, f.state, y, x)
      reduced == {r \in Reductions(f.current_X) : \A x \in Completions(r) : wins(x)}
  IN {f.X_base} \cup {f.X_base \ Completions(r) : r \in reduced}

(***************************************************************************)
(* process_signal, as the frames it may leave behind.                       *)
(***************************************************************************)
BlockX(f, reduced) ==
  UNION {{[f EXCEPT !.X_base = base, !.X_constraint = f.X_constraint \ B, !.current_X = NULL]
            : B \in reduced} : base \in calc_X_base(f)}

\* (Mutant: X_constraint is not reset for the next output.)
BlockY_NoReset(f, reduced) ==
  {[f EXCEPT !.Y_constraint = f.Y_constraint \ B,
             !.current_Y = NULL, !.current_X = NULL] : B \in reduced}

BlockY(f, reduced) ==
  {[f EXCEPT !.Y_constraint = f.Y_constraint \ B, !.X_constraint = XEdges,
             !.current_Y = NULL, !.current_X = NULL] : B \in reduced}

To_winning_state(f) == BlockX(f, X_reduced_to_winning(f))

To_failure_state(f) == BlockY(f, Y_reduced_to_failure(f))

Accepting_edge(f) == BlockX(f, X_reduced_accepting(f))

NoWay(f) == BlockY(f, Y_reduced_no_way(f))

(***************************************************************************)
(* History.  An output given up on account of current_X is followed when    *)
(* some value of the missing inputs leads to the state that failed.         *)
(***************************************************************************)
Followed(f, y) ==
  \E x \in Completions(f.current_X) :
    /\ Same(game, Succ(game, f.state, y, x), Succ(game, f.state, y, f.current_X))
    /\ Accepts(game, f.state, y, x) <=> Accepts(game, f.state, y, f.current_X)

AllFollowed(f, h) == \A y \in f.Y_constraint \ h.Y_constraint : Followed(f, y)

\* IsUnsat(state /\ RealX): no output at all can satisfy the state with the
\* inputs that are left.
NoWayAtAll(f) ==
  \A y \in YEdges, x \in GetRealX_constraint(f) : EdgeLen(game, f.state, y, x) = 0

-----------------------------------------------------------------------------
(***************************************************************************)
(* is_realizable.                                                           *)
(***************************************************************************)
Init ==
  /\ game \in Games
  /\ searcher = <<Syn_Frame(game.init)>>
  /\ winning_state_vec = <<TRUE_bddP>>
  /\ failure_state_vec = <<FALSE_bddP>>
  /\ pc = "check"
  /\ tr_left = 0 /\ ahead = {}
  /\ result = "Unknown"
  /\ looped = FALSE /\ unreached = FALSE /\ unaccepted = FALSE

\* The three answers of CheckRealizability, in the order of its tests.
IsRealizable(f) ==
  \/ KnownWinning(f)
  \/ ~KnownFailure(f) /\ f.Y_constraint # {} /\ GetRealX_constraint(f) = {}

IsUnrealizable(f) ==
  ~KnownWinning(f) /\ (KnownFailure(f) \/ f.Y_constraint = {})

IsUnknown(f) == ~IsRealizable(f) /\ ~IsUnrealizable(f)

Finish(res) ==
  /\ pc' = "done"
  /\ result' = res

FinishRealizable ==
  /\ pc = "check" /\ Depth = 1 /\ IsRealizable(Top)
  /\ winning_state_vec' = IF KnownWinning(Top)
                          THEN insert_state(winning_state_vec, Top.state)
                          ELSE winning_state_vec
  /\ Finish("Realizable")
  /\ UNCHANGED <<game, searcher, failure_state_vec, word, history>>

PopRealizable ==
  /\ pc = "check" /\ Depth > 1 /\ IsRealizable(Top)
  /\ winning_state_vec' = insert_state(winning_state_vec, Top.state)
  /\ \E f \in To_winning_state(searcher[Depth - 1]) : searcher' = PopAndSet(f)
  /\ UNCHANGED <<game, failure_state_vec, pc, result, word, history>>

FinishUnrealizable ==
  /\ pc = "check" /\ Depth = 1 /\ IsUnrealizable(Top)
  /\ failure_state_vec' = IF KnownFailure(Top)
                          THEN insert_state(failure_state_vec, Top.state)
                          ELSE failure_state_vec
  /\ Finish("Unrealizable")
  /\ UNCHANGED <<game, searcher, winning_state_vec, word, history>>

\* The top frame is dropped and the one below it gets To_failure_state.
PopFailing ==
  \E f \in To_failure_state(searcher[Depth - 1]) :
    /\ searcher' = PopAndSet(f)
    /\ unreached' = (unreached \/ ~AllFollowed(searcher[Depth - 1], f))

PopUnrealizable ==
  /\ pc = "check" /\ Depth > 1 /\ IsUnrealizable(Top)
  /\ failure_state_vec' = insert_state(failure_state_vec, Top.state)
  /\ PopFailing
  /\ UNCHANGED <<game, winning_state_vec, pc, result, word, looped, unaccepted>>

CallExpand ==
  /\ pc = "check" /\ IsUnknown(Top)
  /\ searcher' = SetTop(FailureScanned(WinningScanned(Top)))
  /\ pc' = "expand"
  /\ UNCHANGED <<game, winning_state_vec, failure_state_vec, result, word, history>>

-----------------------------------------------------------------------------
(***************************************************************************)
(* Expand: one satisfiability call, then the word it returns is walked edge *)
(* by edge.  The checker returns the labels of a shortest word, such that   *)
(* whatever the missing inputs are, the word satisfies the state and the    *)
(* edge constraint.  Instead of choosing the word at once, each step        *)
(* chooses a label that starts a word of the length that is left.           *)
(***************************************************************************)
SatEdges == {e \in EdgeConstraint(Top) : EdgeLen(game, Top.state, e[1], e[2]) > 0}

\* The time limit is tested after every satisfiability call, before its answer is used.
RunTimeout ==
  /\ pc = "expand"
  /\ Finish("Runtimeout")
  /\ UNCHANGED <<game, searcher, winning_state_vec, failure_state_vec, word, history>>

ExpandSat ==
  /\ pc = "expand"
  /\ \E e \in SatEdges :
       /\ \A d \in SatEdges : EdgeLen(game, Top.state, e[1], e[2])
                               <= EdgeLen(game, Top.state, d[1], d[2])
       /\ tr_left' = EdgeLen(game, Top.state, e[1], e[2])
  /\ pc' = "trace" /\ ahead' = {Top.state}
  /\ UNCHANGED <<game, searcher, winning_state_vec, failure_state_vec, result, history>>

\* unsat while looking for a new Y: the state loses.
UnsatFinish ==
  /\ pc = "expand" /\ SatEdges = {} /\ IsNotTryingY(Top) /\ Depth = 1
  /\ Finish("Unrealizable")
  /\ UNCHANGED <<game, searcher, winning_state_vec, failure_state_vec, word, history>>

UnsatPop ==
  /\ pc = "expand" /\ SatEdges = {} /\ IsNotTryingY(Top) /\ Depth > 1
  /\ failure_state_vec' = insert_state(failure_state_vec, Top.state)
  /\ PopFailing
  /\ pc' = "check"
  /\ UNCHANGED <<game, winning_state_vec, result, word, looped, unaccepted>>

\* unsat while looking for a new X under current_Y: signal NoWay, whose handler
\* leaves the frame alone (current_Y included) when no output works at all.
\* (Mutant: the failing state is not recorded.)
UnsatStateFails_Forgets ==
  /\ pc = "expand" /\ SatEdges = {} /\ ~IsNotTryingY(Top) /\ NoWayAtAll(Top)
  /\ pc' = "check"
  /\ UNCHANGED <<game, searcher, winning_state_vec, failure_state_vec, result, word, history>>

UnsatStateFails ==
  /\ pc = "expand" /\ SatEdges = {} /\ ~IsNotTryingY(Top) /\ NoWayAtAll(Top)
  /\ failure_state_vec' = insert_state(failure_state_vec, Top.state)
  /\ pc' = "check"
  /\ UNCHANGED <<game, searcher, winning_state_vec, result, word, history>>

UnsatNoWay ==
  /\ pc = "expand" /\ SatEdges = {} /\ ~IsNotTryingY(Top) /\ ~NoWayAtAll(Top)
  /\ \E f \in NoWay(Top) : searcher' = SetTop(f)
  /\ pc' = "check"
  /\ UNCHANGED <<game, winning_state_vec, failure_state_vec, result, word, history>>

-----------------------------------------------------------------------------
\* Where the word is after the label e, for every value of the missing inputs.
After(e) == {Succ(game, t, e[1], x) : t \in ahead, x \in Completions(e[2])}

\* Labels that the satisfying word may have at the top frame.
TraceEdges ==
  {e \in YEdges \X XParts :
     /\ {e[1]} \X Completions(e[2]) \subseteq EdgeConstraint(Top)
     /\ IF tr_left = 1
        THEN \A t \in ahead, x \in Completions(e[2]) : Accepts(game, t, e[1], x)
        ELSE HaveCommonWord(game, After(e), tr_left - 1)}

Travelled(e) == SetTravelDirection(Top, e[1], e[2])

\* The search itself progresses by the label as it is.
Successor(e) == Succ(game, Top.state, e[1], e[2])

\* (Mutant: only the top of the stack is compared.)
repeat_with_prefix_TopOnly(s) == Same(game, s, Top.state)

repeat_with_prefix(s) == \E i \in 1 .. Depth : Same(game, s, searcher[i].state)

EndOfWalk == pc' = "check" /\ tr_left' = 0 /\ ahead' = {}

\* The edge e has been taken and the top frame gets To_failure_state.
BlockOutput(e) ==
  \E f \in To_failure_state(Travelled(e)) :
    /\ searcher' = SetTop(f)
    /\ unreached' = (unreached \/ ~AllFollowed(Travelled(e), f))

\* A position of the word before the last one.
TraceRepeat ==
  /\ pc = "trace" /\ tr_left > 1
  /\ \E e \in TraceEdges :
       /\ repeat_with_prefix(Successor(e))
       /\ looped' = (looped \/ ~Same(game, Successor(e), Top.state))
       /\ BlockOutput(e)
  /\ EndOfWalk
  /\ UNCHANGED <<game, winning_state_vec, failure_state_vec, result, unaccepted>>

TraceKnownFailure ==
  /\ pc = "trace" /\ tr_left > 1
  /\ \E e \in TraceEdges :
       /\ ~repeat_with_prefix(Successor(e))
       /\ KnownFailure(Syn_Frame(Successor(e)))
       /\ failure_state_vec' = insert_state(failure_state_vec, Successor(e))
       /\ BlockOutput(e)
  /\ EndOfWalk
  /\ UNCHANGED <<game, winning_state_vec, result, looped, unaccepted>>

TraceKnownWinning ==
  /\ pc = "trace" /\ tr_left > 1
  /\ \E e \in TraceEdges :
       /\ ~repeat_with_prefix(Successor(e))
       /\ ~KnownFailure(Syn_Frame(Successor(e)))
       /\ KnownWinning(Syn_Frame(Successor(e)))
       /\ winning_state_vec' = insert_state(winning_state_vec, Successor(e))
       /\ \E f \in To_winning_state(Travelled(e)) : searcher' = SetTop(f)
  /\ EndOfWalk
  /\ UNCHANGED <<game, failure_state_vec, result, history>>

TracePush ==
  /\ pc = "trace" /\ tr_left > 1
  /\ \E e \in TraceEdges :
       LET frame == Syn_Frame(Successor(e))
       IN /\ ~repeat_with_prefix(Successor(e))
          /\ ~KnownFailure(frame) /\ ~KnownWinning(frame)
          /\ searcher' = Append(SetTop(Travelled(e)), FailureScanned(WinningScanned(frame)))
          /\ ahead' = After(e)
  /\ tr_left' = tr_left - 1
  /\ UNCHANGED <<game, winning_state_vec, failure_state_vec, pc, result, history>>

\* The last position: BaseWinningAtY on the Y literals may answer yes only when
\* every X accepts, and being syntactic it may also answer no then.
BaseWinning(y) == \A x \in XEdges : Accepts(game, Top.state, y, x)

TraceBaseFinish ==
  /\ pc = "trace" /\ tr_left = 1 /\ Depth = 1
  /\ \E e \in TraceEdges : BaseWinning(e[1])
  /\ Finish("Realizable") /\ tr_left' = 0 /\ ahead' = {}
  /\ UNCHANGED <<game, searcher, winning_state_vec, failure_state_vec, history>>

TraceBasePop ==
  /\ pc = "trace" /\ tr_left = 1 /\ Depth > 1
  /\ \E e \in TraceEdges : BaseWinning(e[1])
  /\ winning_state_vec' = insert_state(winning_state_vec, Top.state)
  /\ \E f \in To_winning_state(searcher[Depth - 1]) : searcher' = PopAndSet(f)
  /\ EndOfWalk
  /\ UNCHANGED <<game, failure_state_vec, result, history>>

\* The word ends here, but nothing tests that the state reached accepts the edge.
TraceAccepting ==
  /\ pc = "trace" /\ tr_left = 1
  /\ \E e \in TraceEdges :
       /\ unaccepted' = (unaccepted \/ ~Accepts(game, Top.state, e[1], e[2]))
       /\ \E f \in Accepting_edge(Travelled(e)) : searcher' = SetTop(f)
  /\ EndOfWalk
  /\ UNCHANGED <<game, winning_state_vec, failure_state_vec, result, looped, unreached>>

Terminated ==
  /\ pc = "done"
  /\ UNCHANGED vars

Next ==
  \/ FinishRealizable \/ PopRealizable
  \/ FinishUnrealizable \/ PopUnrealizable
  \/ CallExpand
  \/ RunTimeout \/ ExpandSat
  \/ UnsatFinish \/ UnsatPop \/ UnsatStateFails \/ UnsatNoWay
  \/ TraceRepeat \/ TraceKnownFailure \/ TraceKnownWinning \/ TracePush
  \/ TraceBaseFinish \/ TraceBasePop \/ TraceAccepting
  \/ Terminated

Spec == Init /\ [][Next]_vars

\* The program is sequential: as long as it can take a step it takes one.
FairSpec == Spec /\ WF_vars(Next)

-----------------------------------------------------------------------------
(***************************************************************************)
(* Properties.                                                              *)
(***************************************************************************)
\* Every state learnt as winning (by a BaseWinningAtY test, by exhausting the inputs
\* of a frame or by implication) is one the system wins from, as long as every edge
\* that Accepting_edge was sent for accepts the state it is taken from.
WinningSound == ~unaccepted => \A s \in Members(winning_state_vec) : s \in Win(game)

\* ... and then is_realizable returns true only for a realisable specification.
RealizableSound == result = "Realizable" /\ ~unaccepted => game.init \in Win(game)

\* As long as repeat_with_prefix has cut off no loop to a frame below the top and no
\* output has been given up for a state that only a partial edge leads to, every
\* state learnt as failing is one the system cannot win from.
Reliable == ~looped /\ ~unreached

FailureSound == Reliable => \A s \in Members(failure_state_vec) : s \notin Win(game)

\* ... and then is_realizable returns false only for an unrealisable specification.
UnrealizableSound ==
  result = "Unrealizable" /\ Reliable => game.init \notin Win(game)

\* So main prints a right answer, apart from these reservations.
VerdictSound == RealizableSound /\ UnrealizableSound

\* The answer without reservation, which is what main prints and what the
\* states backtracked as "failure/unrealizable" are taken for.
UnrealizableVerdict == result = "Unrealizable" => game.init \notin Win(game)

\* What a frame's constraints have given up is justified: an input outside X_base
\* is answered by every output, an input outside X_constraint by current_Y, and an
\* output outside Y_constraint has an input that defeats it, all inputs being total.
XBaseJustified(f) ==
  \A x \in XEdges \ f.X_base : \A y \in YEdges : Accepts(game, f.state, y, x)

XConstraintJustified(f) ==
  IF f.current_Y = NULL THEN f.X_constraint = XEdges
  ELSE \A x \in XEdges \ f.X_constraint :
         Accepts(game, f.state, f.current_Y, x) \/ Succ(game, f.state, f.current_Y, x) \in Win(game)

YConstraintJustified(f) ==
  \A y \in YEdges \ f.Y_constraint : \E x \in XEdges :
    /\ ~Accepts(game, f.state, y, x)
    /\ \/ Succ(game, f.state, y, x) \notin Win(game)
       \/ Same(game, Succ(game, f.state, y, x), f.state)

ConstraintsJustified ==
  \A i \in 1 .. Depth :
    /\ XBaseJustified(searcher[i])
    /\ ~unaccepted => XConstraintJustified(searcher[i])
    /\ Reliable => YConstraintJustified(searcher[i])

\* The stack is a simple path: each frame waits on the edge it chose, which accepts
\* for no value of its missing inputs and whose progression is the state of the next
\* frame, and no BDD occurs twice.
StackIsPath ==
  /\ searcher[1].state = game.init
  /\ \A i \in 1 .. Depth - 1 :
       LET f == searcher[i]
       IN /\ f.current_Y \in YEdges /\ f.current_X \in XParts
          /\ \A x \in Completions(f.current_X) : ~Accepts(game, f.state, f.current_Y, x)
          /\ Succ(game, f.state, f.current_Y, f.current_X) = searcher[i + 1].state
  /\ \A i, j \in 1 .. Depth : Same(game, searcher[i].state, searcher[j].state) => i = j

\* The incremental scans miss nothing: a state sent to the satisfiability checker
\* is neither implied by a learnt winning state nor implies a learnt failing one,
\* the ones learnt while its frame was buried in the stack included.
ScansComplete ==
  pc = "expand" =>
    /\ \A s \in Members(winning_state_vec) : ~Implies(game, s, Top.state)
    /\ \A s \in Members(failure_state_vec) : ~Implies(game, Top.state, s)

\* Every step brings the search nearer to a verdict, in lexicographic order: a frame
\* gives up an output, or an input under its output, and what is above it is dropped,
\* or the stack gets a frame more (StackIsPath bounds it by the number of states); or
\* a state is learnt as failing; or Expand is called, or its word walked.
GivesUp(f, h) ==
  \/ h.Y_constraint \subseteq f.Y_constraint /\ h.Y_constraint # f.Y_constraint
  \/ /\ h.Y_constraint = f.Y_constraint
     /\ h.X_constraint \subseteq f.X_constraint /\ h.X_constraint # f.X_constraint

SameConstraints(f, h) == h.Y_constraint = f.Y_constraint /\ h.X_constraint = f.X_constraint

StackAdvances ==
  \E k \in 1 .. Len(searcher') :
    /\ \A i \in 1 .. k - 1 : i <= Depth /\ SameConstraints(searcher[i], searcher'[i])
    /\ k <= Depth => GivesUp(searcher[k], searcher'[k])

StackStays ==
  /\ Len(searcher') = Depth
  /\ \A i \in 1 .. Depth : SameConstraints(searcher[i], searcher'[i])

Advances ==
  \/ pc' = "done"
  \/ StackAdvances
  \/ /\ StackStays
     /\ \/ \E s \in Members(failure_state_vec') : s \notin Members(failure_state_vec)
        \/ <<pc, pc'>> \in {<<"check", "expand">>, <<"expand", "trace">>}

Progress == [][Advances]_vars

\* The search ends with a verdict (or with the time limit).
Termination == <>(pc = "done")
=============================================================================
