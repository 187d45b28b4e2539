------------------------------- MODULE MiniSat ------------------------------
(***************************************************************************)
(* The incremental SAT solver under every checker (minisat/core/Solver.cc),*)
(* as AaltaSolver drives it: clauses are added at level 0, and solve_ is   *)
(* called with assumptions, any number of times and in any order.          *)
(*                                                                         *)
(* A literal is a variable's number or its negation, as in AaltaSolver     *)
(* (lit_id).  Abstracted: a clause is the set of its literals; the watch   *)
(* lists that find the unit clauses (module Watches); activities, saved    *)
(* phases and the order heap, so that any unassigned variable may be       *)
(* decided either way; and the limits that decide when to restart, to      *)
(* simplify and which learnt clauses to drop, so that each may happen      *)
(* whenever search allows it.                                              *)
(***************************************************************************)
EXTENDS Integers, Sequences, FiniteSets

CONSTANTS Vars,          \* the variables made by newVar
          Problems,      \* the sets of clauses the users may add, one by one
          Assumptions    \* the sequences of assumptions they may solve under

Lits == Vars \cup {-v : v \in Vars}
var(l) == IF l < 0 THEN -l ELSE l
NoClause == {}

ASSUME VarsAssumption == Vars \subseteq Nat \ {0}
ASSUME ProblemsAssumption == Problems \subseteq SUBSET SUBSET Lits
ASSUME AssumptionsAssumption == Assumptions \subseteq Seq(Lits)

VARIABLES
  given,         \* every clause the users added so far (not kept by the code)
  solved,        \* those given when solve_ was last called (not kept either)
  ok,            \* FALSE once the clauses are known to contradict each other
  clauses,       \* the stored clauses of two literals or more
  learnts,       \* the learnt ones
  trail,         \* the true literals in the order of their assignment
  trail_lim,     \* where in the trail each decision level starts
  reason,        \* per variable: the clause that implied it, or NoClause
  level,         \* per variable: the decision level it was assigned at
  pc,            \* the function at work
  caller,        \* who called propagate: addClause_ or search
  assumptions,
  confl,         \* analyze: the clause to look at next
  pending,       \* analyze: seen literals of the current level (pathC of them)
  out_learnt,    \* analyze: seen literals of the levels below
  seen,          \* analyzeFinal: the variables still to be explained
  index,         \* analyzeFinal: where it is in the trail
  conflict,      \* the final conflict, in negated assumptions
  model,         \* the true literals of the model
  status         \* what solve_ returned last: "Undef", "True" or "False"

database == <<given, ok, clauses, learnts>>
assignment == <<trail, trail_lim, reason, level>>
analysis == <<confl, pending, out_learnt>>
final == <<seen, index, conflict>>
control == <<caller, assumptions>>
answer == <<solved, model, status>>
vars == <<database, assignment, pc, control, analysis, final, answer>>

-----------------------------------------------------------------------------
(* The assignment.                                                         *)

Trues == {trail[i] : i \in 1 .. Len(trail)}
IsTrue(l) == l \in Trues
IsFalse(l) == -l \in Trues
IsUndef(l) == ~ IsTrue(l) /\ ~ IsFalse(l)
decisionLevel == Len(trail_lim)

satisfied(c) == \E l \in c : IsTrue(l)
locked(c) == \E l \in c : IsTrue(l) /\ reason[var(l)] = c

(* The trail up to the start of level n + 1, as cancelUntil (n) leaves it. *)
TrailUntil(n) == IF n < decisionLevel THEN SubSeq(trail, 1, trail_lim[n + 1]) ELSE trail
LimUntil(n) == IF n < decisionLevel THEN SubSeq(trail_lim, 1, n) ELSE trail_lim

(* uncheckedEnqueue on the trail t with the level starts lim.              *)
Enqueue(l, from, t, lim) ==
  /\ trail' = Append(t, l) /\ trail_lim' = lim
  /\ reason' = [reason EXCEPT ![var(l)] = from]
  /\ level' = [level EXCEPT ![var(l)] = Len(lim)]

cancelUntil(n) ==
  /\ trail' = TrailUntil(n) /\ trail_lim' = LimUntil(n)
  /\ UNCHANGED <<reason, level>>

Init ==
  /\ given = {} /\ solved = {} /\ ok = TRUE /\ clauses = {} /\ learnts = {}
  /\ trail = <<>> /\ trail_lim = <<>>
  /\ reason = [v \in Vars |-> NoClause] /\ level = [v \in Vars |-> 0]
  /\ pc = "idle" /\ caller = "addClause_" /\ assumptions = <<>>
  /\ confl = NoClause /\ pending = {} /\ out_learnt = {}
  /\ seen = {} /\ index = 0 /\ conflict = {} /\ model = {} /\ status = "Undef"

-----------------------------------------------------------------------------
(* addClause_.                                                             *)

Adds(c) ==
  /\ pc = "idle" /\ ok /\ c \notin given
  /\ given' = given \cup {c}
  /\ \E P \in Problems : given' \subseteq P
Redundant(c) == satisfied(c) \/ \E l \in c : -l \in c
NotFalse(c) == {l \in c : ~ IsFalse(l)}

AddRedundant(c) ==
  /\ Adds(c) /\ Redundant(c)
  /\ UNCHANGED <<ok, clauses, learnts, assignment, pc, control, analysis, final, answer>>

AddEmpty(c) ==
  /\ Adds(c) /\ ~ Redundant(c) /\ NotFalse(c) = {}
  /\ ok' = FALSE
  /\ UNCHANGED <<clauses, learnts, assignment, pc, control, analysis, final, answer>>

AddUnit(c) ==
  /\ Adds(c) /\ ~ Redundant(c)
  /\ \E l \in Lits : NotFalse(c) = {l} /\ Enqueue(l, NoClause, trail, trail_lim)
  /\ pc' = "propagate" /\ caller' = "addClause_"
  /\ UNCHANGED <<ok, clauses, learnts, assumptions, analysis, final, answer>>

AddLong(c) ==
  /\ Adds(c) /\ ~ Redundant(c)
  /\ NotFalse(c) # {} /\ \A l \in Lits : NotFalse(c) # {l}
  /\ clauses' = clauses \cup {NotFalse(c)}
  /\ UNCHANGED <<ok, learnts, assignment, pc, control, analysis, final, answer>>

-----------------------------------------------------------------------------
(* propagate.                                                              *)

Database == clauses \cup learnts
AllFalse(c) == \A l \in c : IsFalse(l)
Implies(c, l) == l \in c /\ IsUndef(l) /\ \A k \in c \ {l} : IsFalse(k)

Imply ==
  /\ pc = "propagate"
  /\ \E c \in Database, l \in Lits :
       Implies(c, l) /\ Enqueue(l, c, trail, trail_lim)
  /\ UNCHANGED <<database, pc, control, analysis, final, answer>>

(* Nothing is left to propagate.                                           *)
Propagated ==
  /\ pc = "propagate"
  /\ \A c \in Database : ~ AllFalse(c) /\ \A l \in c : ~ Implies(c, l)
  /\ pc' = IF caller = "addClause_" THEN "idle" ELSE "simplify"
  /\ UNCHANGED <<database, assignment, control, analysis, final, answer>>

(* A conflict at level 0: the clauses contradict each other.               *)
Contradiction ==
  /\ pc = "propagate" /\ decisionLevel = 0
  /\ \E c \in Database : AllFalse(c)
  /\ ok' = FALSE /\ pc' = "idle"
  /\ status' = IF caller = "search" THEN "False" ELSE status
  /\ UNCHANGED <<given, clauses, learnts, assignment, control, analysis, final, solved, model>>

Conflict ==
  /\ pc = "propagate" /\ decisionLevel > 0
  /\ \E c \in Database : AllFalse(c) /\ confl' = c
  /\ pc' = "analyze"
  /\ UNCHANGED <<database, assignment, control, pending, out_learnt, final, answer>>

-----------------------------------------------------------------------------
(* analyze: the false literals of the current level are replaced by the    *)
(* reasons of their variables, latest first, until one of them is left.    *)

Fresh == {q \in confl : IsFalse(q) /\ level[var(q)] > 0 /\ q \notin pending \cup out_learnt}
SeenNow == pending \cup {q \in Fresh : level[var(q)] >= decisionLevel}
SeenBelow == out_learnt \cup {q \in Fresh : level[var(q)] < decisionLevel}
Latest(i, S) == -trail[i] \in S /\ \A j \in (i + 1) .. Len(trail) : -trail[j] \notin S

Resolve ==
  /\ pc = "analyze"
  /\ \E i \in 1 .. Len(trail) :
       /\ Latest(i, SeenNow) /\ SeenNow # {-trail[i]}
       /\ pending' = SeenNow \ {-trail[i]}
       /\ confl' = reason[var(trail[i])]
  /\ out_learnt' = SeenBelow
  /\ UNCHANGED <<database, assignment, pc, control, final, answer>>

(* The first unique implication point: its negation will be asserted.      *)
FirstUIP ==
  /\ pc = "analyze"
  /\ \E i \in 1 .. Len(trail) : Latest(i, SeenNow) /\ SeenNow = {-trail[i]}
  /\ pending' = SeenNow /\ out_learnt' = SeenBelow
  /\ pc' = "learn"
  /\ UNCHANGED <<database, assignment, control, confl, final, answer>>

(* litRedundant: l follows from other literals of the learnt clause; the   *)
(* walk through the reasons closes a set S of literals.                    *)
(* (Mutant: whatever was implied is dropped, by whichever literals.)       *)
litRedundant_Implied(l) == reason[var(l)] # NoClause
litRedundant(l) ==
  \E S \in SUBSET {q \in Lits : IsFalse(q)} :
    /\ l \in S
    /\ \A q \in S : /\ reason[var(q)] # NoClause
                    /\ \A r \in reason[var(q)] \ {-q} :
                         level[var(r)] = 0 \/ r \in out_learnt \cup S

Kept == {l \in out_learnt : ~ litRedundant(l)}

(* The backtrack level is the highest level of what is kept.               *)
BacktrackLevel(n) ==
  /\ \A l \in Kept : level[var(l)] <= n
  /\ n = 0 \/ \E l \in Kept : level[var(l)] = n

Learn ==
  /\ pc = "learn"
  /\ \E n \in 0 .. (decisionLevel - 1), uip \in pending :
       LET learnt == Kept \cup {uip} IN
       /\ BacktrackLevel(n)
       /\ learnts' = IF Kept = {} THEN learnts ELSE learnts \cup {learnt}
       /\ Enqueue(uip, IF Kept = {} THEN NoClause ELSE learnt, TrailUntil(n), LimUntil(n))
  /\ confl' = NoClause /\ pending' = {} /\ out_learnt' = {}
  /\ pc' = "propagate"
  /\ UNCHANGED <<given, ok, clauses, control, final, answer>>

-----------------------------------------------------------------------------
(* search and solve_.                                                      *)

(* solve_ (assumptions).                                                   *)
Solve ==
  /\ pc = "idle"
  /\ assumptions' \in Assumptions
  /\ model' = {} /\ conflict' = {} /\ solved' = given
  /\ IF ok THEN pc' = "propagate" /\ caller' = "search" /\ status' = "Undef"
           ELSE status' = "False" /\ UNCHANGED <<pc, caller>>
  /\ UNCHANGED <<database, assignment, analysis, seen, index>>

(* The bound on the number of conflicts is reached: search starts again.   *)
Restart ==
  /\ pc = "simplify" /\ decisionLevel > 0
  /\ cancelUntil(0)
  /\ pc' = "propagate"
  /\ UNCHANGED <<database, control, analysis, final, answer>>

(* simplify: at level 0 the satisfied clauses go, a reason among them too. *)
Simplify ==
  /\ pc = "simplify" /\ decisionLevel = 0
  /\ clauses' = {c \in clauses : ~ satisfied(c)}
  /\ learnts' = {c \in learnts : ~ satisfied(c)}
  /\ reason' = [v \in Vars |-> IF reason[v] \in clauses' \cup learnts' THEN reason[v] ELSE NoClause]
  /\ pc' = "reduceDB"
  /\ UNCHANGED <<given, ok, trail, trail_lim, level, control, analysis, final, answer>>

(* Below a decision, and when nothing was assigned since, it does nothing. *)
NoSimplify ==
  /\ pc = "simplify"
  /\ pc' = "reduceDB"
  /\ UNCHANGED <<database, assignment, control, analysis, final, answer>>

(* reduceDB: neither binary clauses nor reasons are dropped.               *)
reduceDB ==
  /\ pc = "reduceDB"
  /\ \E dropped \in SUBSET {c \in learnts : ~ locked(c) /\ Cardinality(c) > 2} :
       learnts' = learnts \ dropped
  /\ pc' = "decide"
  /\ UNCHANGED <<given, ok, clauses, assignment, control, analysis, final, answer>>

(* The next assumption; one that is true already gets a level of its own.  *)
Assumption == assumptions[decisionLevel + 1]

AssumeTrue ==
  /\ pc = "decide" /\ decisionLevel < Len(assumptions) /\ IsTrue(Assumption)
  /\ trail_lim' = Append(trail_lim, Len(trail))
  /\ UNCHANGED <<database, trail, reason, level, pc, control, analysis, final, answer>>

Assume ==
  /\ pc = "decide" /\ decisionLevel < Len(assumptions) /\ IsUndef(Assumption)
  /\ Enqueue(Assumption, NoClause, trail, Append(trail_lim, Len(trail)))
  /\ pc' = "propagate"
  /\ UNCHANGED <<database, control, analysis, final, answer>>

(* analyzeFinal starts from the assumption that is false.                  *)
AssumeFalse ==
  /\ pc = "decide" /\ decisionLevel < Len(assumptions) /\ IsFalse(Assumption)
  /\ conflict' = {-Assumption}
  /\ seen' = IF decisionLevel = 0 THEN {} ELSE {var(Assumption)}
  /\ index' = Len(trail)
  /\ pc' = "analyzeFinal"
  /\ UNCHANGED <<database, assignment, control, analysis, answer>>

(* pickBranchLit.                                                          *)
Decide ==
  /\ pc = "decide" /\ decisionLevel >= Len(assumptions)
  /\ \E l \in Lits :
       IsUndef(l) /\ Enqueue(l, NoClause, trail, Append(trail_lim, Len(trail)))
  /\ pc' = "propagate"
  /\ UNCHANGED <<database, control, analysis, final, answer>>

ModelFound ==
  /\ pc = "decide" /\ decisionLevel >= Len(assumptions)
  /\ \A l \in Lits : ~ IsUndef(l)
  /\ model' = Trues /\ status' = "True"
  /\ cancelUntil(0)
  /\ pc' = "idle"
  /\ UNCHANGED <<database, control, analysis, final, solved>>

(* analyzeFinal: down the trail to the first decision; a seen literal is   *)
(* an assumption, or stands for the others of its reason.                  *)
LastOfLevel0 == IF decisionLevel = 0 THEN Len(trail) ELSE trail_lim[1]

(* (Mutant: a second reason replaces what the first one left to explain.)  *)
Explain_Replaces ==
  /\ pc = "analyzeFinal" /\ index > LastOfLevel0
  /\ LET x == var(trail[index])
         others == {v \in {var(l) : l \in reason[x]} : level[v] > 0}
     IN /\ conflict' = IF x \in seen /\ reason[x] = NoClause
                       THEN conflict \cup {-trail[index]} ELSE conflict
        /\ seen' = (IF x \in seen THEN others ELSE seen) \ {x}
  /\ index' = index - 1
  /\ UNCHANGED <<database, assignment, pc, control, analysis, answer>>
Explain ==
  /\ pc = "analyzeFinal" /\ index > LastOfLevel0
  /\ LET x == var(trail[index])
         others == {v \in {var(l) : l \in reason[x]} : level[v] > 0}
     IN /\ conflict' = IF x \in seen /\ reason[x] = NoClause
                       THEN conflict \cup {-trail[index]} ELSE conflict
        /\ seen' = (IF x \in seen THEN seen \cup others ELSE seen) \ {x}
  /\ index' = index - 1
  /\ UNCHANGED <<database, assignment, pc, control, analysis, answer>>

Refuted ==
  /\ pc = "analyzeFinal" /\ index = LastOfLevel0
  /\ status' = "False"
  /\ cancelUntil(0)
  /\ pc' = "idle"
  /\ index' = 0 /\ seen' = {}
  /\ UNCHANGED <<database, control, analysis, conflict, solved, model>>

AddClause ==
  \E c \in UNION Problems : AddRedundant(c) \/ AddEmpty(c) \/ AddUnit(c) \/ AddLong(c)

Next ==
  \/ AddClause
  \/ Imply \/ Propagated \/ Contradiction \/ Conflict
  \/ Resolve \/ FirstUIP \/ Learn
  \/ Solve \/ Restart \/ Simplify \/ NoSimplify \/ reduceDB
  \/ AssumeTrue \/ Assume \/ AssumeFalse \/ Decide \/ ModelFound
  \/ Explain \/ Refuted

Spec == Init /\ [][Next]_vars

-----------------------------------------------------------------------------
(* Properties.                                                             *)

(* An assignment of all variables, as the set of its true literals.        *)
Assignments == {a \in SUBSET Lits : \A v \in Vars : (v \in a) # (-v \in a)}
Satisfies(a, C) == \A c \in C : c \cap a # {}
Follows(c) == \A a \in Assignments : Satisfies(a, given) => c \cap a # {}

(* What the users of the solver rely on, however many calls came before:   *)
(* a model satisfies every clause given and every assumption; a final      *)
(* conflict is made of negated assumptions and follows from the clauses;   *)
(* with an empty one the clauses contradict each other.                    *)
AnswerSound ==
  pc = "idle" =>
    /\ status = "True" =>
         /\ model \in Assignments /\ Satisfies(model, solved)
         /\ \A i \in 1 .. Len(assumptions) : assumptions[i] \in model
    /\ status = "False" =>
         /\ conflict \subseteq {-assumptions[i] : i \in 1 .. Len(assumptions)}
         /\ Follows(conflict)

(* The solver loses no clause and invents none: what it stores, learns and *)
(* holds at level 0 follows from the clauses given, and these follow from  *)
(* what it stores and holds at level 0.                                    *)
Level0 == {l \in Trues : level[var(l)] = 0}
SameSolutions ==
  /\ \A c \in Database : Follows(c)
  /\ \A l \in Level0 : Follows({l})
  /\ ok => \A a \in Assignments :
             Satisfies(a, clauses) /\ Level0 \subseteq a => Satisfies(a, given)
  /\ ~ ok => Follows({})
=============================================================================
