------------------------------- MODULE Watches ------------------------------
(***************************************************************************)
(* How MiniSat finds unit clauses: propagate with two watched literals per *)
(* clause, their blockers, and lists that are cleaned of removed clauses   *)
(* only when the next propagate starts.  Module MiniSat takes propagate by *)
(* what it promises; here the promise is checked of the lists.             *)
(*                                                                         *)
(* A clause is a sequence and its first two literals are watched: the      *)
(* watches of a literal are the clauses that watch its negation.  What     *)
(* search does around propagate is kept as far as the lists see it:        *)
(* decisions, backjumps with a learnt clause, restarts, added and removed  *)
(* clauses.  A learnt clause is any clause of false literals with one of   *)
(* the current level, as analyze returns it.                               *)
(***************************************************************************)
EXTENDS Integers, Sequences, SequencesExt

CONSTANTS Vars,
          NewClauses,     \* the clauses addClause_ gets, one after the other
          Units,          \* the literals it may get as unit clauses
          Decisions,      \* the literals search may decide
          MaxRemoved,     \* bound on the number of removed clauses
          MaxClauses      \* bound on the number of clauses ever stored

Lits == Vars \cup {-v : v \in Vars}
(* addClause_ has sorted a clause and dropped repeated literals.           *)
ASSUME VarsAssumption == Vars \subseteq Nat \ {0}
ASSUME ClausesAssumption ==
  /\ NewClauses \in Seq(Seq(Lits))
  /\ \A k \in 1 .. Len(NewClauses) : IsInjective(NewClauses[k])
ASSUME LiteralsAssumption == Units \subseteq Lits /\ Decisions \subseteq Lits

var(l) == IF l < 0 THEN -l ELSE l
None == 0

VARIABLES
  ca,        \* the clauses by reference, removed ones among them
  removed,   \* references to clauses that are marked as deleted
  learnt,    \* references to learnt clauses
  watches,   \* per literal: <<reference, blocker>> pairs
  dirty,     \* literals whose lists may hold removed clauses
  trail, trail_lim, qhead,
  reason,    \* per variable: a reference or None
  pc,        \* "search", "propagate", "visit" or "conflict"
  kept       \* visit: how many watches of the list were kept or dropped so far
vars == <<ca, removed, learnt, watches, dirty, trail, trail_lim, qhead, reason, pc, kept>>

db == <<ca, removed, learnt>>
assignment == <<trail, trail_lim, reason>>

-----------------------------------------------------------------------------
IsTrue(l) == \E i \in 1 .. Len(trail) : trail[i] = l
IsFalse(l) == IsTrue(-l)
IsUndef(l) == ~ IsTrue(l) /\ ~ IsFalse(l)
decisionLevel == Len(trail_lim)
levelOf(l) ==
  LET i == CHOOSE j \in 1 .. Len(trail) : var(trail[j]) = var(l)
  IN Cardinality({k \in 1 .. decisionLevel : trail_lim[k] < i})

Attached == (1 .. Len(ca)) \ removed
LitsOf(cr) == {ca[cr][k] : k \in 1 .. Len(ca[cr])}
locked(cr) == IsTrue(ca[cr][1]) /\ reason[var(ca[cr][1])] = cr
Propagated == pc = "search" /\ qhead = Len(trail)

Enqueue(l, cr) ==
  /\ trail' = Append(trail, l)
  /\ reason' = [reason EXCEPT ![var(l)] = cr]

(* A sequence without the elements that are bad: the loop that copies the  *)
(* others to the front, in addClause_ and in clean.                        *)
Without(s, bad) ==
  LET copied[i \in 0 .. Len(s)] ==
        IF i = 0 THEN <<>>
        ELSE IF s[i] \in bad THEN copied[i - 1] ELSE Append(copied[i - 1], s[i])
  IN copied[Len(s)]

(* attachClause: both watched literals, each with the other as blocker.    *)
AttachTo(w, c, cr) ==
  [w EXCEPT ![-c[1]] = Append(@, <<cr, c[2]>>), ![-c[2]] = Append(@, <<cr, c[1]>>)]

Init ==
  /\ ca = <<>> /\ removed = {} /\ learnt = {}
  /\ watches = [l \in Lits |-> <<>>] /\ dirty = {}
  /\ trail = <<>> /\ trail_lim = <<>> /\ qhead = 0
  /\ reason = [v \in Vars |-> None]
  /\ pc = "search" /\ kept = 0

-----------------------------------------------------------------------------
(* What addClause_ and search do around propagate.                         *)

AddClause ==
  /\ Propagated /\ decisionLevel = 0 /\ Len(ca) < Len(NewClauses)
  /\ LET c == NewClauses[Len(ca) + 1]
         rest == Without(c, {l \in Lits : IsFalse(l)})
     IN /\ \A k \in 1 .. Len(c) : ~ IsTrue(c[k])
        /\ Len(rest) > 1
        /\ ca' = Append(ca, rest)
        /\ watches' = AttachTo(watches, rest, Len(ca'))
  /\ UNCHANGED <<removed, learnt, dirty, assignment, qhead, pc, kept>>

Decide ==
  /\ Propagated
  /\ \E l \in Decisions : IsUndef(l) /\ Enqueue(l, None)
  /\ trail_lim' = Append(trail_lim, Len(trail))
  /\ UNCHANGED <<db, watches, dirty, qhead, pc, kept>>

(* addClause_ with one literal left.                                       *)
AddUnit ==
  /\ Propagated /\ decisionLevel = 0
  /\ \E l \in Units : IsUndef(l) /\ Enqueue(l, None)
  /\ UNCHANGED <<db, watches, dirty, trail_lim, qhead, pc, kept>>

(* removeClause, called by reduceDB for learnt clauses that are no reason  *)
(* and by simplify at level 0 for satisfied clauses.  (Mutant: the lists   *)
(* are not marked.)                                                        *)
removeClause_Unmarked ==
  /\ Propagated /\ Cardinality(removed) < MaxRemoved
  /\ \E cr \in Attached :
       /\ \/ cr \in learnt /\ ~ locked(cr)
          \/ decisionLevel = 0 /\ \E l \in LitsOf(cr) : IsTrue(l)
       /\ removed' = removed \cup {cr} /\ ca' = [ca EXCEPT ![cr] = <<>>]
       /\ learnt' = learnt \ {cr}
       /\ reason' = [v \in Vars |-> IF reason[v] = cr /\ locked(cr) THEN None ELSE reason[v]]
  /\ UNCHANGED <<watches, dirty, trail, trail_lim, qhead, pc, kept>>
removeClause ==
  /\ Propagated /\ Cardinality(removed) < MaxRemoved
  /\ \E cr \in Attached :
       /\ \/ cr \in learnt /\ ~ locked(cr)
          \/ decisionLevel = 0 /\ \E l \in LitsOf(cr) : IsTrue(l)
       /\ removed' = removed \cup {cr} /\ ca' = [ca EXCEPT ![cr] = <<>>]
       /\ learnt' = learnt \ {cr}
       /\ dirty' = dirty \cup {-ca[cr][1], -ca[cr][2]}
       /\ reason' = [v \in Vars |-> IF reason[v] = cr /\ locked(cr) THEN None ELSE reason[v]]
  /\ UNCHANGED <<watches, trail, trail_lim, qhead, pc, kept>>

(* cancelUntil.                                                            *)
cancelUntil(n) ==
  /\ trail_lim' = SubSeq(trail_lim, 1, n)
  /\ qhead' = trail_lim[n + 1]
ReasonsUntil(n) ==
  [v \in Vars |-> IF \E i \in 1 .. trail_lim[n + 1] : var(trail[i]) = v
                  THEN reason[v] ELSE None]

Restart ==
  /\ Propagated /\ decisionLevel > 0
  /\ cancelUntil(0)
  /\ trail' = SubSeq(trail, 1, trail_lim[1])
  /\ reason' = ReasonsUntil(0)
  /\ UNCHANGED <<db, watches, dirty, pc, kept>>

(* The learnt clause asserts uip at the level of its second literal.       *)
Backjump ==
  /\ pc = "conflict" /\ decisionLevel > 0
  /\ \E n \in 0 .. (decisionLevel - 1) :
     \E uip \in {l \in Lits : IsFalse(l) /\ levelOf(l) = decisionLevel} :
     \E others \in SUBSET {l \in Lits : IsFalse(l) /\ levelOf(l) \in 1 .. n} :
       LET top == {l \in others : levelOf(l) = n}
           second == CHOOSE l \in top : TRUE
           c == <<uip, second>> \o SetToSeq(others \ {second})
       IN /\ (others = {}) = (n = 0) /\ (top = {}) = (n = 0)
          /\ cancelUntil(n)
          /\ trail' = Append(SubSeq(trail, 1, trail_lim[n + 1]), uip)
          /\ IF n = 0
             THEN /\ reason' = ReasonsUntil(n)
                  /\ UNCHANGED <<ca, learnt, watches>>
             ELSE /\ Len(ca) < MaxClauses
                  /\ ca' = Append(ca, c)
                  /\ learnt' = learnt \cup {Len(ca')}
                  /\ watches' = AttachTo(watches, c, Len(ca'))
                  /\ reason' = [ReasonsUntil(n) EXCEPT ![var(uip)] = Len(ca')]
  /\ pc' = "search"
  /\ UNCHANGED <<removed, dirty, kept>>

-----------------------------------------------------------------------------
(* propagate.                                                              *)

(* It starts by cleaning the marked lists.                                 *)
Propagate ==
  /\ pc = "search" /\ (qhead < Len(trail) \/ dirty # {})
  /\ watches' = [l \in Lits |->
       IF l \in dirty THEN Without(watches[l], removed \X Lits)
                      ELSE watches[l]]
  /\ dirty' = {}
  /\ pc' = "propagate"
  /\ UNCHANGED <<db, assignment, qhead, kept>>

TakeFact ==
  /\ pc = "propagate" /\ qhead < Len(trail)
  /\ qhead' = qhead + 1
  /\ pc' = "visit" /\ kept' = 0
  /\ UNCHANGED <<db, watches, dirty, assignment>>

QueueEmpty ==
  /\ pc = "propagate" /\ qhead = Len(trail)
  /\ pc' = "search"
  /\ UNCHANGED <<db, watches, dirty, assignment, qhead, kept>>

(* The next watch of the fact p; the list keeps its first kept entries.    *)
p == trail[qhead]
More == pc = "visit" /\ kept < Len(watches[p])
cref == watches[p][kept + 1][1]
blocker == watches[p][kept + 1][2]

(* The clause with the false literal in second place.                      *)
Ordered ==
  LET c == ca[cref]
  IN IF c[1] = -p THEN [c EXCEPT ![1] = c[2], ![2] = -p] ELSE c
first == Ordered[1]

BlockerTrue ==
  /\ More /\ IsTrue(blocker)
  /\ kept' = kept + 1
  /\ UNCHANGED <<db, watches, dirty, assignment, qhead, pc>>

(* What the visit of a clause without true blocker does in any case.       *)
Visit ==
  /\ More /\ ~ IsTrue(blocker)
  /\ UNCHANGED <<removed, learnt, dirty, trail_lim>>

KeepWatch ==
  /\ watches' = [watches EXCEPT ![p][kept + 1] = <<cref, first>>]
  /\ kept' = kept + 1
  /\ ca' = [ca EXCEPT ![cref] = Ordered]

FirstTrue ==
  /\ Visit /\ IsTrue(first)
  /\ KeepWatch
  /\ UNCHANGED <<trail, reason, qhead, pc>>

(* Another literal that is not false is watched instead: the first one.    *)
Others == {k \in 3 .. Len(Ordered) : ~ IsFalse(Ordered[k])}
NewWatch ==
  /\ Visit /\ ~ IsTrue(first)
  /\ \E k \in Others :
       /\ \A m \in Others : k <= m
       /\ ca' = [ca EXCEPT ![cref] = [Ordered EXCEPT ![2] = Ordered[k], ![k] = -p]]
       /\ watches' = [watches EXCEPT ![-Ordered[k]] = Append(@, <<cref, first>>),
                                     ![p] = RemoveAt(@, kept + 1)]
  /\ UNCHANGED <<trail, reason, qhead, pc, kept>>

UnitClause ==
  /\ Visit /\ Others = {} /\ IsUndef(first)
  /\ KeepWatch
  /\ Enqueue(first, cref)
  /\ UNCHANGED <<qhead, pc>>

(* A conflict empties the queue; the rest of the list is kept.             *)
Conflict ==
  /\ Visit /\ Others = {} /\ IsFalse(first)
  /\ watches' = [watches EXCEPT ![p][kept + 1] = <<cref, first>>]
  /\ ca' = [ca EXCEPT ![cref] = Ordered]
  /\ kept' = 0
  /\ qhead' = Len(trail)
  /\ pc' = "conflict"
  /\ UNCHANGED <<trail, reason>>

ListDone ==
  /\ pc = "visit" /\ kept = Len(watches[p])
  /\ pc' = "propagate" /\ kept' = 0
  /\ UNCHANGED <<db, watches, dirty, assignment, qhead>>

Next ==
  \/ AddClause \/ AddUnit \/ Decide \/ removeClause \/ Restart \/ Backjump
  \/ Propagate \/ TakeFact \/ QueueEmpty
  \/ BlockerTrue \/ FirstTrue \/ NewWatch \/ UnitClause \/ Conflict \/ ListDone

Spec == Init /\ [][Next]_vars

-----------------------------------------------------------------------------
(* Properties.                                                             *)

(* propagate misses nothing: when it returns without a conflict, every     *)
(* clause is true or has two literals that are not false (the guard of     *)
(* MiniSat's Propagated), although a literal is watched no more once its   *)
(* clause found another, a clause with a true blocker is not looked at,    *)
(* and backjumps leave the lists as they are.  It never visits a removed   *)
(* clause.  And the literal that a reason implied is in its first place,   *)
(* where analyze and locked expect it.                                     *)
NothingMissed ==
  /\ Propagated =>
       \A cr \in Attached :
         \/ \E l \in LitsOf(cr) : IsTrue(l)
         \/ Cardinality({l \in LitsOf(cr) : ~ IsFalse(l)}) > 1
  /\ More => cref \notin removed
  /\ \A i \in 1 .. Len(trail) :
       LET cr == reason[var(trail[i])] IN cr # None => ca[cr][1] = trail[i]
=============================================================================
