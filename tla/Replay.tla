-------------------------------- MODULE Replay ------------------------------
(***************************************************************************)
(* A satisfying word on its way from the checker to the synthesis.  The    *)
(* checker searches the checker's formula of the state; each transition    *)
(* pushes a label, the values of the atoms it depended on (Evidence).  The *)
(* label is split into outputs and inputs, missing outputs are filled in,  *)
(* and Expand follows the game's formula along these edges.                *)
(*                                                                         *)
(* A word is chosen among the shortest ones (CarChecker), and the solver's *)
(* assignment makes exactly the nexts true that hold of the word, which    *)
(* SatEncoding!WordsHaveModels says is one of its assignments.             *)
(***************************************************************************)
EXTENDS Progression, CnfEncoding, FormulaInBdd

CONSTANTS Starts,      \* the states Expand is called on
          env_var,     \* the names of the inputs
          Words,       \* the words among which the shortest are chosen
          Rests        \* the words a play may go on with

VARIABLES start,       \* the state Expand was called on
          goal,        \* its checker's formula
          word,        \* the word that satisfies it
          conjuncts,   \* the state of the checker's search
          sat_trace_,  \* the edges pushed so far, [Y |-> .., X |-> ..]
          searcher,    \* the states that Expand has reached, the last on top
          pc
vars == <<start, goal, word, conjuncts, sat_trace_, searcher, pc>>

(* Expand: add_tail, remove_wnext, simplify, split_next.                   *)
CheckerFormOf(f) == split_next(simplify(remove_wnext(add_tail(f))))

var_X == AtomsOf(start) \cap env_var
var_Y == AtomsOf(start) \ env_var

Init ==
  /\ start \in Starts
  /\ goal = CheckerFormOf(start)
  /\ word \in {MarkEnd(w) : w \in Words}
  /\ Holds(word, 1, goal)
  /\ \A w \in Words : Len(w) < Len(word) => ~ Holds(MarkEnd(w), 1, goal)
  /\ conjuncts = to_set(goal)
  /\ sat_trace_ = <<>>
  /\ searcher = <<start>>
  /\ pc = "search"

(* The literals of the cone of influence that hold, if the formula of the  *)
(* solver has them.                                                        *)
LabelAt(i) ==
  LET atoms == {a \in CoiOf(conjuncts) : oper(a) = "atom"}
      lits == {a \in atoms : a[2] \in word[i]}
              \cup {Not(a) : a \in {b \in atoms : b[2] \notin word[i]}}
  IN lits \cap Subformulas(goal)

(* fill_in_Y: an output without a value is given the value true.           *)
(* (Mutant: every output is filled in.)                                    *)
fill_in_Y_Always(Y) == Y \cup {Atom(y) : y \in var_Y}
fill_in_Y(Y) == Y \cup {Atom(y) : y \in {z \in var_Y : {Atom(z), Not(Atom(z))} \cap Y = {}}}

(* Evidence::push of a label: Tail is dropped, what is no output is an     *)
(* input.                                                                  *)
AtomOf(lit) == IF oper(lit) = "Not" THEN lit[2] ELSE lit
EdgeOf(label) ==
  LET lits == {l \in label : AtomOf(l) # TAIL}
      Y == {l \in lits : AtomOf(l)[2] \in var_Y}
  IN [Y |-> fill_in_Y(Y), X |-> lits \ Y]

(* One transition of the checker, and the last label (sat_once).           *)
Position == Len(sat_trace_) + 1
Search ==
  /\ pc = "search"
  /\ sat_trace_' = Append(sat_trace_, EdgeOf(LabelAt(Position)))
  /\ IF Position < Len(word)
     THEN /\ conjuncts' = {x[2] : x \in {v \in CoiOf(conjuncts) :
                              oper(v) = "Next" /\ Holds(word, Position + 1, v[2])}} \ {True}
          /\ pc' = pc
     ELSE conjuncts' = {} /\ pc' = "follow"
  /\ UNCHANGED <<start, goal, word, searcher>>

(* The loop of Expand: the state that the next edge leads to is pushed,    *)
(* unless it is known already: it repeats the stack, or its node is the    *)
(* constant true or false, the first of the known states.                  *)
Top == searcher[Len(searcher)]
Literals(edge) == edge.Y \cup edge.X
Successor == FormulaProgression(Top, Literals(sat_trace_[Len(searcher)]))
Same(f, g) == SameNode(f, g, CreatedMap(f) \cup CreatedMap(g))
IsKnown(f) ==
  \/ Same(f, True) \/ Same(f, False)
  \/ \E i \in 1 .. Len(searcher) : Same(f, searcher[i])

Push ==
  /\ pc = "follow" /\ Len(searcher) < Len(sat_trace_) /\ ~ IsKnown(Successor)
  /\ searcher' = Append(searcher, Successor)
  /\ UNCHANGED <<start, goal, word, conjuncts, sat_trace_, pc>>

Known ==
  /\ pc = "follow" /\ Len(searcher) < Len(sat_trace_) /\ IsKnown(Successor)
  /\ pc' = "known"
  /\ UNCHANGED <<start, goal, word, conjuncts, sat_trace_, searcher>>

LastPosition ==
  /\ pc = "follow" /\ Len(searcher) = Len(sat_trace_)
  /\ pc' = "last"
  /\ UNCHANGED <<start, goal, word, conjuncts, sat_trace_, searcher>>

Next == Search \/ Push \/ Known \/ LastPosition
Spec == Init /\ [][Next]_vars

-----------------------------------------------------------------------------
(* Properties.                                                             *)

(* The letters that have the values an edge gives.                         *)
Completions(edge) ==
  {(l \cup {y[2] : y \in {z \in edge.Y : oper(z) = "atom"}}) : l \in
     {k \in SUBSET var_X : \A x \in edge.X :
        IF oper(x) = "Not" THEN x[2][2] \notin k ELSE x[2] \in k}}

RECURSIVE Plays(_)
Plays(n) == IF n = 0 THEN {<<>>}
            ELSE {Append(p, l) : p \in Plays(n - 1), l \in Completions(sat_trace_[n])}

(* Whatever values the missing inputs have, a state reached along the word *)
(* asks at least what is left of the source formula: a win from it is a    *)
(* win along every completion of the edges.  (The converse fails: it may   *)
(* ask for more, see LastEdgeAccepts.)                                     *)
ReachedStatesSound ==
  pc # "search" =>
    \A p \in Plays(Len(searcher) - 1), w \in Rests :
      Holds(w, 1, Top) => Holds(p \o w, 1, start)

(* The word the checker found satisfies the source formula, whatever the   *)
(* missing inputs are and with the outputs filled in as they were: the     *)
(* edges are a strategy for this word.                                     *)
TraceSatisfies ==
  pc \in {"known", "last"} => \A p \in Plays(Len(sat_trace_)) : Holds(p, 1, start)

(* Expand treats the last edge as accepting.  When no edge leaves out an   *)
(* input, it is.                                                           *)
LastAccepts == IsAcc(Top, Literals(sat_trace_[Len(sat_trace_)]))
TotalTraceAccepted ==
  pc = "last" /\ (\A i \in 1 .. Len(sat_trace_) : Cardinality(Completions(sat_trace_[i])) = 1)
    => LastAccepts

(* The last position of the word is an accepting edge of the state reached *)
(* (the comment of Expand).                                                *)
LastEdgeAccepts == pc = "last" => LastAccepts
=============================================================================
