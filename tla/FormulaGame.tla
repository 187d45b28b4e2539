----------------------------- MODULE FormulaGame ----------------------------
(***************************************************************************)
(* The game the synthesis plays, at the level of formulas: progression,    *)
(* acceptance and base winning (synthesis.cpp), the ternary tests that     *)
(* shrink an edge (generalizer.cpp) and the identity of states             *)
(* (FormulaInBdd).  SynGame takes these operations as a parameter with     *)
(* assumptions; here the assumptions are what is checked.                  *)
(*                                                                         *)
(* A play moves along edges that give every output and some of the inputs  *)
(* (Evidence::push fills in outputs only).  At any state any such edge may *)
(* be generalised, accepting or not: Generalize_ visits the literals of    *)
(* to_reduce in the order of a hash set, here in every order.              *)
(***************************************************************************)
EXTENDS FormulaInBdd, Expansion

CONSTANTS Starts,      \* the formulas the program is started with
          env_var,     \* the names of the inputs
          MaxMoves,    \* bound: the length of a play, longer than any before
                       \* an edge is generalised
          Words        \* the words states are compared on

VARIABLES start,       \* the source formula
          state,       \* the state reached
          played,      \* the edges taken
          signal,      \* the kind of generalisation under way, or "none"
          save, to_reduce, reduced,   \* as in Generalize_
          visit        \* the literals of to_reduce still to be visited
vars == <<start, state, played, signal, save, to_reduce, reduced, visit>>

-----------------------------------------------------------------------------
(* Edges.                                                                  *)

(* PartitionAtoms: var_X and var_Y.                                        *)
var_X == AtomsOf(start) \cap env_var
var_Y == AtomsOf(start) \ env_var

Letters == SUBSET AtomsOf(start)
TotalEdge(letter) == Edge(letter, AtomsOf(start))

(* The edges that give the outputs and the inputs of V, and all edges.     *)
EdgesOver(V) == {Edge(letter, var_Y \cup V) : letter \in SUBSET (var_Y \cup V)}
Edges == UNION {EdgesOver(V) : V \in SUBSET var_X}
AtomsIn(edge) == {a \in AtomsOf(start) : {Atom(a), Not(Atom(a))} \cap edge # {}}
YOf(edge) == {l \in edge : AtomsOf(l) \subseteq var_Y}
XOf(edge) == {l \in edge : AtomsOf(l) \subseteq var_X}

(* The letters that have the values an edge gives, whatever the others are.*)
Completions(edge) == {letter \in Letters : edge \subseteq TotalEdge(letter)}
IsTotal(edge) == AtomsIn(edge) = AtomsOf(start)

-----------------------------------------------------------------------------
Init ==
  /\ start \in Starts
  /\ state = start
  /\ played = <<>>
  /\ signal = "none"
  /\ save = {} /\ to_reduce = {} /\ reduced = {} /\ visit = {}

(* Expand: the next edge of the word.                                      *)
Move ==
  /\ signal = "none" /\ Len(played) < MaxMoves
  /\ \E edge \in Edges :
       /\ state' = FormulaProgression(state, edge)
       /\ played' = Append(played, edge)
  /\ UNCHANGED <<start, signal, save, to_reduce, reduced, visit>>

(* Generalize (state, Y, X, signal), except for NoWay: an edge to a        *)
(* winning state and an edge taken for an accepting one (Expand sends      *)
(* Accepting_edge for the last of a word, whether it is or not) keep Y and *)
(* reduce X, an edge to a failing state keeps X and reduces Y.  Nobody sends Incomplete_Y at      *)
(* present; it is for outputs that some inputs take to no successor, and   *)
(* has no inputs to keep.                                                  *)
Incomplete(Y) == \E x \in SUBSET var_X : FormulaProgression(state, Y \cup Edge(x, var_X)) = False

Generalize ==
  /\ signal = "none" /\ Len(played) < MaxMoves
  /\ \E edge \in Edges, s \in {"To_winning_state", "To_failure_state", "Accepting_edge", "Incomplete_Y"} :
       LET Y == YOf(edge)
           X == XOf(edge)
       IN /\ s = "Incomplete_Y" => Incomplete(Y)
          /\ signal' = s
          /\ save' = IF s = "Incomplete_Y" THEN {} ELSE IF s = "To_failure_state" THEN X ELSE Y
          /\ to_reduce' = IF s \in {"To_failure_state", "Incomplete_Y"} THEN Y ELSE X
          /\ visit' = to_reduce'
          /\ reduced' = {}
  /\ UNCHANGED <<start, state, played>>

Simulate(lit) ==
  LET edge == save \cup to_reduce
  IN CASE signal = "Accepting_edge" -> TestAcc(state, edge, reduced, lit)
       [] signal = "Incomplete_Y" -> TestIncompleteY(state, edge, reduced, lit)
       [] OTHER -> TestFprog(state, edge, reduced, lit)

(* One turn of the loop of Generalize_.                                    *)
Visit ==
  /\ \E lit \in visit :
       /\ visit' = visit \ {lit}
       /\ IF Simulate(lit) # "Undefined"
          THEN /\ reduced' = reduced \cup {lit}
               /\ to_reduce' = to_reduce \ {lit}
          ELSE UNCHANGED <<reduced, to_reduce>>
  /\ UNCHANGED <<start, state, played, signal, save>>

(* The reduced edge is returned.                                           *)
Return ==
  /\ signal # "none" /\ visit = {}
  /\ signal' = "none"
  /\ save' = {} /\ to_reduce' = {} /\ reduced' = {}
  /\ UNCHANGED <<start, state, played, visit>>

Next == Move \/ Generalize \/ Visit \/ Return
Spec == Init /\ [][Next]_vars

-----------------------------------------------------------------------------
(* Properties.                                                             *)

(* The letters the play may have gone through, whatever the missing inputs *)
(* are.                                                                    *)
Plays == {p \in [1 .. Len(played) -> Letters] :
            \A i \in 1 .. Len(played) : p[i] \in Completions(played[i])}
TotalPlay == \A i \in 1 .. Len(played) : IsTotal(played[i])

(* A word that satisfies the state reached satisfies, after any play along *)
(* the edges, the source formula; when no input was missing, only such a   *)
(* word does.  An edge leads to a state at least as strong as those that   *)
(* its letters lead to.  Bringing the state into xnf first would change    *)
(* neither that nor which edges are accepting.                             *)
ProgressionExact ==
  signal = "none" =>
    /\ \A p \in Plays, w \in Words :
         /\ Holds(w, 1, state) => Holds(p \o w, 1, start)
         /\ TotalPlay /\ Holds(p \o w, 1, start) => Holds(w, 1, state)
    /\ \A edge \in Edges :
         /\ IsAcc(xnf(state), edge) <=> IsAcc(state, edge)
         /\ LET successor == FormulaProgression(state, edge)
                ofXnf == FormulaProgression(xnf(state), edge)
                completed == {FormulaProgression(state, TotalEdge(l)) : l \in Completions(edge)}
            IN \A w \in Words :
                 /\ Holds(w, 1, ofXnf) <=> Holds(w, 1, successor)
                 /\ Holds(w, 1, successor) => \A f \in completed : Holds(w, 1, f)

(* The play may end with an edge that IsAcc accepts, whatever the missing  *)
(* inputs are, and when none was missing with no other; outputs alone, or  *)
(* inputs alone (calc_X_base), that are base winning may end it whatever   *)
(* the rest is.  Outputs that CheckCompleteY finds decisive are: the next  *)
(* state is False for none of the inputs or for all.                       *)
AcceptanceExact ==
  signal = "none" =>
    /\ \A edge \in Edges : \A lits \in {edge, YOf(edge), XOf(edge)} :
         BaseWinningAtY(state, lits) =>
           \A letter \in Completions(lits), p \in Plays :
             IsAcc(state, TotalEdge(letter)) /\ Holds(Append(p, letter), 1, start)
    /\ TotalPlay => \A letter \in Letters, p \in Plays :
         Holds(Append(p, letter), 1, start) => IsAcc(state, TotalEdge(letter))
    /\ \A edge \in EdgesOver({}) :
         CASE CheckCompleteY(state, edge) = "Tt" -> ~ Incomplete(edge)
           [] CheckCompleteY(state, edge) = "Ff" ->
                \A x \in SUBSET var_X : FormulaProgression(state, edge \cup Edge(x, var_X)) = False
           [] OTHER -> TRUE


(* However the checker's formula of a state is taken apart, nothing is lost *)
(* and nothing gained.  A word satisfies it if and only if                 *)
(*  - its leaves are a model of the flattened formula, the marks telling   *)
(*    which untils are met (every model that agrees with the word will do, *)
(*    whatever its marks); and they are a model of this formula without    *)
(*    the source formula's unless it satisfies that too;                   *)
(*  - it is its last letter and a model, or its rest satisfies what        *)
(*    progression leaves, or some clause of the normal form holds now and  *)
(*    of the rest.                                                         *)
(* A letter that off accepts satisfies the formula when it is repeated,    *)
(* and one that cf rejects is the first of no word that satisfies it.      *)
CheckerFormOf(f) == simplify(remove_wnext(add_tail(f)))
search == CheckerFormOf(state)
Repeated(letter) == [i \in 1 .. 5 |-> letter]

ExpansionExact ==
  signal = "none" =>
    LET flat == flatted(search)
        models == SAT(flat)
        source == flatted(CheckerFormOf(start))
        without == And(flat, Not(source))
        others == IF IsNode(source) /\ flat \notin {True, False} THEN SAT(without) ELSE {}
        clauses == dnf_formula(search)
        untils == UntilsOf(search)
    IN \A v \in Words :
         LET w == MarkEnd(v)
             rest == Tail(w)
             letter == Edge(w[1], AtomsOf(search))
             holds == Holds(w, 1, search)
         IN /\ holds <=> LeavesOf(flat, w) \in models
            /\ \A P \in models : Agrees(w, P) => holds
            /\ others # {} =>
                 (holds /\ ~ Holds(w, 1, CheckerFormOf(start))) <=> LeavesOf(without, w) \in others
            /\ holds <=> Holds(w, 1, Unmarked(flat, Met(search, w)))
            /\ \A U \in SUBSET untils : Holds(w, 1, Unmarked(flat, U)) => holds
            /\ holds => Holds(w, 1, cf(search))
            /\ Holds(v, 1, off(state)) => Holds(Repeated(v[1]), 1, state)
            /\ IF rest = <<>> THEN holds <=> model(search, letter)
               ELSE /\ holds <=> Holds(rest, 1, Unmarked(progf(search, letter), Met(search, w)))
                    /\ holds <=> Holds(rest, 1, Unmarked(progf(search, letter), untils))
                    /\ holds <=> \E c \in clauses : Holds(w, 1, c.current) /\ Holds(rest, 1, c.next)

(* The nodes that stand for states: every key that ConstructBdd looks up   *)
(* for a state of the game is in the map that was built from the source    *)
(* formula; and implication between states (KnownWinning, KnownFailure)    *)
(* and equality of their nodes hold of the languages.  Implication lasts:  *)
(* a state that implies another one accepts only if that one does, and     *)
(* implies it after any edge that leaves nothing out.  (Not after one that *)
(* leaves out an input of the first state only: progression keeps f itself *)
(* where it would only add something that implies f.)  The source formula  *)
(* and the state's own successors stand for the other states.              *)
NodesSound ==
  /\ Lookups(state) \subseteq CreatedMap(start)
  /\ signal = "none" =>
       LET keys == CreatedMap(start)
           states == {start, state} \cup {FormulaProgression(state, edge) : edge \in Edges}
           known == {f \in states : Lookups(f) \subseteq keys}
       IN \A f, g \in known : Implies(f, g, keys) =>
            /\ \A w \in Words : Holds(w, 1, f) => Holds(w, 1, g)
            /\ \A edge \in EdgesOver(var_X) :
                 /\ IsAcc(f, edge) => IsAcc(g, edge)
                 /\ Implies(FormulaProgression(f, edge), FormulaProgression(g, edge), keys)
=============================================================================
