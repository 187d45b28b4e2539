---------------------------- MODULE MiniSatProofs ---------------------------
(***************************************************************************)
(* Proofs about MiniSat, for every set of variables, every set of problems *)
(* and every set of assumption sequences.                                  *)
(***************************************************************************)
EXTENDS MiniSat, SequenceTheorems, WellFoundedInduction, TLAPS

-----------------------------------------------------------------------------
(***************************************************************************)
(* The inductive invariant.  Its parts are operators of the trail t, the   *)
(* level starts lim, the reasons rs, the levels lv and the clauses g given *)
(* so far, so that a lemma can state them of the next assignment.          *)
(***************************************************************************)

Clause == SUBSET Lits
Holds(g, c) == \A a \in Assignments : Satisfies(a, g) => c \cap a # {}

TypeOK ==
  /\ given \subseteq Clause /\ solved \subseteq Clause /\ ok \in BOOLEAN
  /\ clauses \subseteq Clause /\ learnts \subseteq Clause
  /\ trail \in Seq(Lits) /\ trail_lim \in Seq(Nat)
  /\ reason \in [Vars -> Clause] /\ level \in [Vars -> Nat]
  /\ pc \in {"idle", "propagate", "analyze", "learn", "simplify", "reduceDB",
             "decide", "analyzeFinal"}
  /\ caller \in {"addClause_", "search"}
  /\ assumptions \in Seq(Lits)
  /\ confl \in Clause /\ pending \in Clause /\ out_learnt \in Clause
  /\ seen \subseteq Vars /\ index \in Nat
  /\ conflict \in Clause /\ model \in Clause
  /\ status \in {"Undef", "True", "False"}

(* No variable is assigned twice.                                          *)
Distinct(t) == \A i, j \in 1 .. Len(t) : var(t[i]) = var(t[j]) => i = j
(* A decision level n is the part of the trail that starts after lim[n].   *)
LevelsMatch(t, lim, lv) ==
  /\ \A n \in 1 .. Len(lim) : lim[n] <= Len(t)
  /\ \A m, n \in 1 .. Len(lim) : m <= n => lim[m] <= lim[n]
  /\ \A i \in 1 .. Len(t) :
       /\ lv[var(t[i])] <= Len(lim)
       /\ \A n \in 1 .. Len(lim) : n <= lv[var(t[i])] <=> lim[n] < i
(* The other literals of a reason were false before; what has no reason    *)
(* above level 0 is the first of its level.                                *)
ReasonsMatch(t, lim, rs, lv) ==
  \A i \in 1 .. Len(t) :
    /\ rs[var(t[i])] # {} =>
         /\ t[i] \in rs[var(t[i])]
         /\ \A q \in rs[var(t[i])] \ {t[i]} : \E j \in 1 .. (i - 1) : t[j] = -q
    /\ rs[var(t[i])] = {} /\ lv[var(t[i])] > 0 => i = lim[lv[var(t[i])]] + 1
Consistent(t, lim, rs, lv) ==
  Distinct(t) /\ LevelsMatch(t, lim, lv) /\ ReasonsMatch(t, lim, rs, lv)

(* Each reason follows from the clauses given; so does level 0.            *)
Justified(t, rs, lv, g) ==
  \A i \in 1 .. Len(t) :
    /\ rs[var(t[i])] # {} => Holds(g, rs[var(t[i])])
    /\ lv[var(t[i])] = 0 => Holds(g, {t[i]})

(* The first levels are those of the assumptions as.                       *)
LevelsAssume(t, lim, lv, as) ==
  \A n \in 1 .. Len(lim) : n <= Len(as) =>
    \E i \in 1 .. Len(t) : t[i] = as[n] /\ lv[var(t[i])] <= n
DecisionsAssume(t, rs, lv, as) ==
  \A i \in 1 .. Len(t) :
    rs[var(t[i])] = {} /\ lv[var(t[i])] > 0 /\ lv[var(t[i])] <= Len(as)
      => t[i] = as[lv[var(t[i])]]
Assumed(t, lim, rs, lv, as) == LevelsAssume(t, lim, lv, as) /\ DecisionsAssume(t, rs, lv, as)

(* What is stored follows from what was given, and the other way round.    *)
AtLevel0(t, lv) == {l \in Lits : lv[var(l)] = 0 /\ \E i \in 1 .. Len(t) : t[i] = l}
StoreFollows(g, cs, ls) == \A c \in cs \cup ls : Holds(g, c)
NothingLost(g, cs, z) ==
  \A a \in Assignments : Satisfies(a, cs) /\ z \subseteq a => Satisfies(a, g)
Store ==
  /\ StoreFollows(given, clauses, learnts)
  /\ ok => NothingLost(given, clauses, AtLevel0(trail, level))
  /\ ~ ok => Holds(given, {})

(* Where each function may be called.                                      *)
Searching == pc # "idle" /\ caller = "search"
Phases ==
  /\ pc # "idle" => ok
  /\ pc \notin {"idle", "propagate"} => caller = "search"
  /\ pc = "idle" \/ caller = "addClause_" => Len(trail_lim) = 0
  /\ Searching => /\ solved = given /\ status = "Undef"
                  /\ pc # "analyzeFinal" => conflict = {}
                  /\ Assumed(trail, trail_lim, reason, level, assumptions)

(* The false literals; search decides when no stored clause has only these.*)
Falses(t) == {q \in Lits : \E i \in 1 .. Len(t) : t[i] = -q}
NoneFalse(t, C) == \A c \in C : ~ (c \subseteq Falses(t))
Decides ==
  pc \in {"simplify", "reduceDB", "decide"} => NoneFalse(trail, clauses \cup learnts)

(* What the clauses say of the literals analyze has collected.             *)
Collected(t, lim, lv, P, O) ==
  /\ Len(lim) > 0
  /\ P \subseteq Falses(t) /\ O \subseteq Falses(t)
  /\ \A q \in P : lv[var(q)] >= Len(lim)
  /\ \A q \in O : lv[var(q)] > 0 /\ lv[var(q)] < Len(lim)
Analysis ==
  /\ pc \in {"analyze", "learn"} => Collected(trail, trail_lim, level, pending, out_learnt)
  /\ pc \notin {"analyze", "learn"} => pending = {} /\ out_learnt = {}
  /\ pc = "analyze" => Holds(given, (confl \cap Falses(trail)) \cup pending \cup out_learnt)
  /\ pc = "learn" => /\ Holds(given, pending \cup out_learnt)
                     /\ \A p, q \in pending : p = q

(* What is still to be explained of the final conflict.                    *)
Negated(as) == {-as[i] : i \in 1 .. Len(as)}
Unexplained(t, k, S) == {q \in Lits : var(q) \in S /\ \E j \in 1 .. k : t[j] = -q}
EndOfLevel0(t, lim) == IF Len(lim) = 0 THEN Len(t) ELSE lim[1]
Finals ==
  pc = "analyzeFinal" =>
    /\ EndOfLevel0(trail, trail_lim) <= index /\ index <= Len(trail)
    /\ Len(trail_lim) < Len(assumptions)
    /\ conflict \subseteq Negated(assumptions)
    /\ Holds(given, conflict \cup Unexplained(trail, index, seen))

(* AnswerSound at every step.                                              *)
Answers ==
  /\ status = "True" =>
       /\ model \in Assignments /\ Satisfies(model, solved)
       /\ \A i \in 1 .. Len(assumptions) : assumptions[i] \in model
  /\ status = "False" => conflict \subseteq Negated(assumptions) /\ Holds(given, conflict)

Assigned ==
  /\ Consistent(trail, trail_lim, reason, level)
  /\ Justified(trail, reason, level, given)
IInv == TypeOK /\ Assigned /\ Store /\ Phases /\ Decides /\ Analysis /\ Finals /\ Answers

-----------------------------------------------------------------------------
(***************************************************************************)
(* Literals, assignments and what follows from clauses.                    *)
(***************************************************************************)

\* A literal has a variable and a negation, and nothing else has that variable.
LEMMA Literals ==
  ASSUME NEW l \in Lits
  PROVE  /\ l \in Int /\ -l \in Lits /\ -(-l) = l /\ l # -l
         /\ var(l) \in Vars /\ var(-l) = var(l)
         /\ var(l) \in Lits /\ (l = var(l) \/ l = -var(l))
         /\ \A k \in Lits : var(k) = var(l) => k = l \/ k = -l
BY VarsAssumption DEF Lits, var

\* An assignment holds exactly one of a literal and its negation.
LEMMA OneOfTwo ==
  ASSUME NEW a \in Assignments, NEW l \in Lits
  PROVE  (l \in a) # (-l \in a)
<1>1. \A v \in Vars : (v \in a) # (-v \in a)
  BY DEF Assignments
<1> QED
  BY <1>1, VarsAssumption DEF Lits

\* A clause keeps following when clauses are added, and when literals are added to it.
LEMMA HoldsGrows ==
  ASSUME NEW g, NEW h, g \subseteq h, NEW c, NEW d, c \subseteq d, Holds(g, c)
  PROVE  Holds(h, d)
BY DEF Holds, Satisfies

\* A clause follows from itself.
LEMMA HoldsGiven ==
  ASSUME NEW g, NEW c \in g
  PROVE  Holds(g, c)
BY DEF Holds, Satisfies

\* What is stored keeps following when clauses are given.
LEMMA JustifiedGrows ==
  ASSUME NEW t, NEW rs, NEW lv, NEW g, NEW h, g \subseteq h, Justified(t, rs, lv, g)
  PROVE  Justified(t, rs, lv, h)
BY HoldsGrows DEF Justified

\* The values of a literal, as facts about the trail.
LEMMA Values ==
  ASSUME trail \in Seq(Lits), NEW l \in Lits
  PROVE  /\ IsTrue(l) <=> \E i \in 1 .. Len(trail) : trail[i] = l
         /\ IsFalse(l) <=> l \in Falses(trail)
         /\ IsUndef(l) <=> \A i \in 1 .. Len(trail) : var(trail[i]) # var(l)
<1>1. -l \in Lits /\ var(-l) = var(l) /\ \A k \in Lits : var(k) = var(l) => k = l \/ k = -l
  BY Literals
<1>2. \A i \in 1 .. Len(trail) : trail[i] \in Lits
  OBVIOUS
<1> QED
  BY <1>1, <1>2 DEF IsTrue, IsFalse, IsUndef, Trues, Falses

\* No literal is both true and false.
LEMMA NotBoth ==
  ASSUME NEW t \in Seq(Lits), Distinct(t), NEW i \in 1 .. Len(t)
  PROVE  t[i] \notin Falses(t)
<1>1. t[i] \in Lits /\ var(-t[i]) = var(t[i]) /\ t[i] # -t[i]
  BY Literals
<1> QED
  BY <1>1 DEF Distinct, Falses

\* A literal false at level 0 is in no assignment that satisfies the clauses given.
LEMMA FalseAtLevel0 ==
  ASSUME NEW t \in Seq(Lits), NEW rs, NEW lv, NEW g, Justified(t, rs, lv, g),
         NEW q \in Falses(t), lv[var(q)] = 0,
         NEW a \in Assignments, Satisfies(a, g)
  PROVE  q \notin a
<1>1. q \in Lits
  BY DEF Falses
<1>2. PICK i \in 1 .. Len(t) : t[i] = -q
  BY DEF Falses
<1>3. lv[var(t[i])] = 0
  BY <1>1, <1>2, Literals
<1>4. Holds(g, {t[i]})
  BY <1>3 DEF Justified
<1>5. -q \in a
  BY <1>4, <1>2 DEF Holds
<1> QED
  BY <1>1, <1>5, OneOfTwo

-----------------------------------------------------------------------------
(***************************************************************************)
(* The assignment: what cancelUntil leaves of it and uncheckedEnqueue adds. *)
(***************************************************************************)

TypedAssignment(t, lim, rs, lv) ==
  t \in Seq(Lits) /\ lim \in Seq(Nat) /\ rs \in [Vars -> Clause] /\ lv \in [Vars -> Nat]

\* A prefix of a sequence has its elements.
LEMMA Prefix ==
  ASSUME NEW S, NEW s \in Seq(S), NEW n \in Nat, n <= Len(s)
  PROVE  /\ SubSeq(s, 1, n) \in Seq(S) /\ Len(SubSeq(s, 1, n)) = n
         /\ \A i \in 1 .. n : SubSeq(s, 1, n)[i] = s[i]
<1>1. SubSeq(s, 1, n) \in Seq(S)
  BY SubSeqProperties
<1>2. Len(SubSeq(s, 1, n)) = n
  BY SubSeqProperties
<1>3. \A i \in 1 .. n : SubSeq(s, 1, n)[i] = s[i]
  BY SubSeqProperties
<1> QED
  BY <1>1, <1>2, <1>3

\* A trail and its level starts, cut at the end of level n.
TrailTo(t, lim, n) == IF n < Len(lim) THEN SubSeq(t, 1, lim[n + 1]) ELSE t
LimTo(lim, n) == IF n < Len(lim) THEN SubSeq(lim, 1, n) ELSE lim

\* cancelUntil keeps the literals of the levels up to n, and nothing else.
LEMMA CutKeeps ==
  ASSUME NEW t, NEW lim, NEW rs, NEW lv, TypedAssignment(t, lim, rs, lv),
         LevelsMatch(t, lim, lv), NEW n \in Nat, n <= Len(lim)
  PROVE  /\ TrailTo(t, lim, n) \in Seq(Lits) /\ LimTo(lim, n) \in Seq(Nat)
         /\ Len(LimTo(lim, n)) = n
         /\ \A m \in 1 .. n : LimTo(lim, n)[m] = lim[m]
         /\ Len(TrailTo(t, lim, n)) <= Len(t)
         /\ \A i \in 1 .. Len(TrailTo(t, lim, n)) : TrailTo(t, lim, n)[i] = t[i]
         /\ \A i \in 1 .. Len(t) : i <= Len(TrailTo(t, lim, n)) <=> lv[var(t[i])] <= n
<1> USE DEF TypedAssignment
<1>a. \A i \in 1 .. Len(t) : lv[var(t[i])] \in Nat /\ lv[var(t[i])] <= Len(lim)
  BY Literals DEF LevelsMatch
<1>1. CASE n < Len(lim)
  <2>1. n + 1 \in 1 .. Len(lim) /\ lim[n + 1] \in Nat /\ lim[n + 1] <= Len(t)
    BY <1>1 DEF LevelsMatch
  <2>2. /\ SubSeq(t, 1, lim[n + 1]) \in Seq(Lits) /\ Len(SubSeq(t, 1, lim[n + 1])) = lim[n + 1]
        /\ \A i \in 1 .. lim[n + 1] : SubSeq(t, 1, lim[n + 1])[i] = t[i]
    BY <2>1, Prefix
  <2>3. /\ SubSeq(lim, 1, n) \in Seq(Nat) /\ Len(SubSeq(lim, 1, n)) = n
        /\ \A m \in 1 .. n : SubSeq(lim, 1, n)[m] = lim[m]
    BY <1>1, Prefix
  <2>4. \A i \in 1 .. Len(t) : n + 1 <= lv[var(t[i])] <=> lim[n + 1] < i
    BY <2>1 DEF LevelsMatch
  <2>5. \A i \in 1 .. Len(t) : i <= lim[n + 1] <=> lv[var(t[i])] <= n
    BY <2>1, <2>4, <1>a
  <2> QED
    BY <1>1, <2>1, <2>2, <2>3, <2>5 DEF TrailTo, LimTo
<1>2. CASE ~ (n < Len(lim))
  <2>1. n = Len(lim) /\ TrailTo(t, lim, n) = t /\ LimTo(lim, n) = lim
    BY <1>2 DEF TrailTo, LimTo
  <2> QED
    BY <2>1, <1>a
<1> QED
  BY <1>1, <1>2

\* What holds of an assignment holds of what cancelUntil leaves of it, and level 0 is
\* left as it was.
LEMMA CutConsistent ==
  ASSUME NEW t, NEW lim, NEW rs, NEW lv, TypedAssignment(t, lim, rs, lv),
         Consistent(t, lim, rs, lv), NEW n \in Nat, n <= Len(lim)
  PROVE  /\ Consistent(TrailTo(t, lim, n), LimTo(lim, n), rs, lv)
         /\ \A g : Justified(t, rs, lv, g) => Justified(TrailTo(t, lim, n), rs, lv, g)
         /\ \A as \in Seq(Lits) : Assumed(t, lim, rs, lv, as)
                                    => Assumed(TrailTo(t, lim, n), LimTo(lim, n), rs, lv, as)
         /\ AtLevel0(TrailTo(t, lim, n), lv) = AtLevel0(t, lv)
<1> DEFINE T == TrailTo(t, lim, n)
           L == LimTo(lim, n)
<1>0. TypedAssignment(T, L, rs, lv)
  BY CutKeeps DEF TypedAssignment, Consistent
<1>1. /\ T \in Seq(Lits) /\ L \in Seq(Nat) /\ Len(L) = n
      /\ \A m \in 1 .. n : L[m] = lim[m]
      /\ Len(T) <= Len(t)
      /\ \A i \in 1 .. Len(T) : T[i] = t[i]
      /\ \A i \in 1 .. Len(t) : i <= Len(T) <=> lv[var(t[i])] <= n
  BY CutKeeps DEF Consistent
<1> HIDE DEF T, L
<1>2. Len(t) \in Nat /\ Len(lim) \in Nat /\ Len(T) \in Nat
  BY <1>1 DEF TypedAssignment
<1>3. \A i \in 1 .. Len(T) : i \in 1 .. Len(t) /\ T[i] = t[i] /\ t[i] \in Lits
                             /\ lv[var(t[i])] \in Nat
  BY <1>1, <1>2, Literals DEF TypedAssignment
<1>4. Distinct(T)
  BY <1>3 DEF Distinct, Consistent
<1>5. LevelsMatch(T, L, lv)
  <2>1. \A m \in 1 .. Len(L) : m \in 1 .. Len(lim) /\ L[m] = lim[m] /\ lim[m] \in Nat
    BY <1>1, <1>2 DEF TypedAssignment
  <2>2. \A m \in 1 .. Len(L) : L[m] <= Len(T)
    <3> SUFFICES ASSUME NEW m \in 1 .. Len(L)
                 PROVE  lim[m] <= Len(T)
      BY <2>1
    <3>1. SUFFICES ASSUME Len(T) < lim[m]
                   PROVE  FALSE
      BY <1>2, <2>1
    <3>2. Len(T) + 1 \in 1 .. Len(t)
      BY <3>1, <1>2, <2>1 DEF Consistent, LevelsMatch
    <3>3. ~ (lv[var(t[Len(T) + 1])] <= n) /\ lv[var(t[Len(T) + 1])] \in Nat
      BY <3>2, <1>1, <1>2, Literals DEF TypedAssignment
    <3>4. m <= lv[var(t[Len(T) + 1])]
      BY <3>3, <1>1
    <3>5. lim[m] < Len(T) + 1
      BY <3>2, <3>4, <2>1 DEF Consistent, LevelsMatch
    <3> QED
      BY <3>1, <3>5, <2>1, <1>2
  <2>3. \A k, m \in 1 .. Len(L) : k <= m => L[k] <= L[m]
    BY <2>1 DEF Consistent, LevelsMatch
  <2>4. \A i \in 1 .. Len(T) : lv[var(T[i])] <= Len(L)
    BY <1>1, <1>3
  <2>5. \A i \in 1 .. Len(T), m \in 1 .. Len(L) : m <= lv[var(T[i])] <=> L[m] < i
    BY <2>1, <1>3 DEF Consistent, LevelsMatch
  <2> QED
    BY <2>2, <2>3, <2>4, <2>5 DEF LevelsMatch
<1>6. ReasonsMatch(T, L, rs, lv)
  <2> SUFFICES ASSUME NEW i \in 1 .. Len(T)
               PROVE  /\ rs[var(t[i])] # {} =>
                           /\ t[i] \in rs[var(t[i])]
                           /\ \A q \in rs[var(t[i])] \ {t[i]} : \E j \in 1 .. (i - 1) : T[j] = -q
                      /\ rs[var(t[i])] = {} /\ lv[var(t[i])] > 0 => i = L[lv[var(t[i])]] + 1
    BY <1>3 DEF ReasonsMatch
  <2>1. i \in 1 .. Len(t) /\ lv[var(t[i])] \in Nat /\ lv[var(t[i])] <= n
    BY <1>1, <1>3
  <2>2. ASSUME rs[var(t[i])] # {}, NEW q \in rs[var(t[i])] \ {t[i]}
        PROVE  \E j \in 1 .. (i - 1) : T[j] = -q
    <3>1. PICK j \in 1 .. (i - 1) : t[j] = -q
      BY <2>1, <2>2 DEF Consistent, ReasonsMatch
    <3>2. j \in 1 .. Len(T)
      BY <1>2
    <3> QED
      BY <3>1, <3>2, <1>3
  <2>3. lv[var(t[i])] > 0 => L[lv[var(t[i])]] = lim[lv[var(t[i])]]
    BY <2>1, <1>1
  <2> QED
    BY <2>1, <2>2, <2>3 DEF Consistent, ReasonsMatch
<1>7. ASSUME NEW g, Justified(t, rs, lv, g)
      PROVE  Justified(T, rs, lv, g)
  BY <1>3, <1>7 DEF Justified
<1>8. ASSUME NEW as \in Seq(Lits), Assumed(t, lim, rs, lv, as)
      PROVE  Assumed(T, L, rs, lv, as)
  <2>1. DecisionsAssume(T, rs, lv, as)
    BY <1>3, <1>8 DEF Assumed, DecisionsAssume
  <2>2. ASSUME NEW m \in 1 .. Len(L), m <= Len(as)
        PROVE  \E i \in 1 .. Len(T) : T[i] = as[m] /\ lv[var(T[i])] <= m
    <3>1. m \in 1 .. Len(lim) /\ m <= n
      BY <1>1, <1>2
    <3>2. PICK i \in 1 .. Len(t) : t[i] = as[m] /\ lv[var(t[i])] <= m
      BY <3>1, <2>2, <1>8 DEF Assumed, LevelsAssume
    <3>3. lv[var(t[i])] \in Nat
      BY Literals DEF TypedAssignment
    <3> DEFINE v == lv[var(t[i])]
    <3>a. v \in Nat /\ v <= m
      BY <3>2, <3>3
    <3> HIDE DEF v
    <3>b. v <= n
      BY <3>1, <3>a, <1>2
    <3>4. lv[var(t[i])] <= n
      BY <3>b DEF v
    <3>5. i \in 1 .. Len(T)
      BY <3>4, <1>1, <1>2
    <3> QED
      BY <3>2, <3>5, <1>3
  <2> QED
    BY <2>1, <2>2 DEF Assumed, LevelsAssume
<1>9. AtLevel0(T, lv) = AtLevel0(t, lv)
  <2>1. \A l \in Lits : lv[var(l)] = 0 /\ (\E i \in 1 .. Len(t) : t[i] = l)
                          => \E i \in 1 .. Len(T) : T[i] = l
    BY <1>1, <1>2
  <2> QED
    BY <2>1, <1>3 DEF AtLevel0
<1> QED
  BY <1>4, <1>5, <1>6, <1>7, <1>8, <1>9 DEF Consistent, T, L

\* The assignment t2, rs2, lv2 is what uncheckedEnqueue (l, from) makes of one in which l
\* is unassigned, where from has no other literal that is not false, or is no clause and
\* l starts a level.
Enqueues(t, lim, rs, lv, l, from, t2, rs2, lv2) ==
  /\ TypedAssignment(t, lim, rs, lv) /\ Consistent(t, lim, rs, lv)
  /\ l \in Lits /\ \A i \in 1 .. Len(t) : var(t[i]) # var(l)
  /\ from \in Clause
  /\ from # {} => l \in from /\ from \ {l} \subseteq Falses(t)
  /\ from = {} /\ Len(lim) > 0 => lim[Len(lim)] = Len(t)
  /\ t2 = Append(t, l)
  /\ rs2 = [rs EXCEPT ![var(l)] = from] /\ lv2 = [lv EXCEPT ![var(l)] = Len(lim)]

\* What holds of an assignment holds of it after uncheckedEnqueue; level 0 loses nothing,
\* and gains the literal when there is no other level.
LEMMA EnqueueConsistent ==
  ASSUME NEW t, NEW lim, NEW rs, NEW lv, NEW l, NEW from, NEW t2, NEW rs2, NEW lv2,
         Enqueues(t, lim, rs, lv, l, from, t2, rs2, lv2)
  PROVE  /\ TypedAssignment(t2, lim, rs2, lv2)
         /\ Consistent(t2, lim, rs2, lv2)
         /\ \A g : /\ Justified(t, rs, lv, g)
                   /\ from # {} => Holds(g, from)
                   /\ Len(lim) = 0 => Holds(g, {l})
                   => Justified(t2, rs2, lv2, g)
         /\ \A as \in Seq(Lits) :
              /\ \A n \in 1 .. Len(lim) : n <= Len(as) =>
                   \/ l = as[n] /\ Len(lim) <= n
                   \/ \E i \in 1 .. Len(t) : t[i] = as[n] /\ lv[var(t[i])] <= n
              /\ DecisionsAssume(t, rs, lv, as)
              /\ from = {} /\ Len(lim) > 0 /\ Len(lim) <= Len(as) => l = as[Len(lim)]
              => Assumed(t2, lim, rs2, lv2, as)
         /\ AtLevel0(t, lv) \subseteq AtLevel0(t2, lv2)
         /\ Len(lim) > 0 => AtLevel0(t2, lv2) = AtLevel0(t, lv)
         /\ Len(lim) = 0 => l \in AtLevel0(t2, lv2)
<1>h. /\ TypedAssignment(t, lim, rs, lv) /\ Consistent(t, lim, rs, lv)
      /\ l \in Lits /\ (\A i \in 1 .. Len(t) : var(t[i]) # var(l))
      /\ from \in Clause
      /\ from # {} => l \in from /\ from \ {l} \subseteq Falses(t)
      /\ from = {} /\ Len(lim) > 0 => lim[Len(lim)] = Len(t)
      /\ t2 = Append(t, l)
      /\ rs2 = [rs EXCEPT ![var(l)] = from] /\ lv2 = [lv EXCEPT ![var(l)] = Len(lim)]
  BY DEF Enqueues
<1> DEFINE T == Append(t, l)
<1> USE <1>h DEF TypedAssignment
<1>1. T \in Seq(Lits) /\ Len(T) = Len(t) + 1 /\ T[Len(T)] = l
      /\ \A i \in 1 .. Len(t) : T[i] = t[i]
  OBVIOUS
<1> HIDE DEF T
<1>2. Len(t) \in Nat /\ Len(lim) \in Nat /\ Len(T) \in Nat /\ var(l) \in Vars
  BY <1>1, Literals
<1>3. TypedAssignment(T, lim, rs2, lv2)
  BY <1>1, <1>2
<1>4. rs2[var(l)] = from /\ lv2[var(l)] = Len(lim)
  BY <1>2
<1>5. \A i \in 1 .. Len(t) : /\ i \in 1 .. Len(T) /\ T[i] = t[i] /\ t[i] \in Lits
                             /\ rs2[var(t[i])] = rs[var(t[i])] /\ lv2[var(t[i])] = lv[var(t[i])]
                             /\ lv[var(t[i])] \in Nat
  BY <1>1, <1>2, Literals
<1>6. \A i \in 1 .. Len(T) : i \in 1 .. Len(t) \/ i = Len(T)
  BY <1>1, <1>2
<1>7. Distinct(T)
  BY <1>1, <1>5, <1>6 DEF Distinct, Consistent
<1>8. LevelsMatch(T, lim, lv2)
  <2>1. \A n \in 1 .. Len(lim) : lim[n] <= Len(t) /\ lim[n] \in Nat
    BY DEF Consistent, LevelsMatch
  <2>2. \A n \in 1 .. Len(lim) : lim[n] <= Len(T)
    BY <2>1, <1>1, <1>2
  <2>3. \A m, n \in 1 .. Len(lim) : m <= n => lim[m] <= lim[n]
    BY DEF Consistent, LevelsMatch
  <2>4. \A i \in 1 .. Len(t) :
          /\ lv2[var(T[i])] <= Len(lim)
          /\ \A n \in 1 .. Len(lim) : n <= lv2[var(T[i])] <=> lim[n] < i
    BY <1>5 DEF Consistent, LevelsMatch
  <2>5. /\ lv2[var(T[Len(T)])] <= Len(lim)
        /\ \A n \in 1 .. Len(lim) : n <= lv2[var(T[Len(T)])] <=> lim[n] < Len(T)
    BY <2>1, <1>1, <1>2, <1>4
  <2> QED
    BY <2>2, <2>3, <2>4, <2>5, <1>6 DEF LevelsMatch
<1>9. ReasonsMatch(T, lim, rs2, lv2)
  <2>1. ASSUME NEW i \in 1 .. Len(t)
        PROVE  /\ rs2[var(T[i])] # {} =>
                    /\ T[i] \in rs2[var(T[i])]
                    /\ \A q \in rs2[var(T[i])] \ {T[i]} : \E j \in 1 .. (i - 1) : T[j] = -q
               /\ rs2[var(T[i])] = {} /\ lv2[var(T[i])] > 0 => i = lim[lv2[var(T[i])]] + 1
    <3>1. \A j \in 1 .. (i - 1) : T[j] = t[j]
      BY <1>5, <1>2
    <3>2. i \in 1 .. Len(t) /\ T[i] = t[i] /\ rs2[var(t[i])] = rs[var(t[i])]
          /\ lv2[var(t[i])] = lv[var(t[i])]
      BY <1>5
    <3>3. rs[var(t[i])] # {} =>
            /\ t[i] \in rs[var(t[i])]
            /\ \A q \in rs[var(t[i])] \ {t[i]} : \E j \in 1 .. (i - 1) : t[j] = -q
      BY DEF Consistent, ReasonsMatch
    <3>4. rs[var(t[i])] = {} /\ lv[var(t[i])] > 0 => i = lim[lv[var(t[i])]] + 1
      BY DEF Consistent, ReasonsMatch
    <3> QED
      BY <3>1, <3>2, <3>3, <3>4
  <2>2. from # {} => l \in from /\ \A q \in from \ {l} : \E j \in 1 .. (Len(T) - 1) : T[j] = -q
    BY <1>1, <1>2, <1>5 DEF Falses
  <2>3. from = {} /\ Len(lim) > 0 => Len(T) = lim[Len(lim)] + 1
    BY <1>1, <1>2
  <2> QED
    BY <2>1, <2>2, <2>3, <1>1, <1>4, <1>6 DEF ReasonsMatch
<1>10. ASSUME NEW g, Justified(t, rs, lv, g),
              from # {} => Holds(g, from),
              Len(lim) = 0 => Holds(g, {l})
       PROVE  Justified(T, rs2, lv2, g)
  BY <1>1, <1>4, <1>5, <1>6, <1>10 DEF Justified
<1>11. ASSUME NEW as \in Seq(Lits),
              \A n \in 1 .. Len(lim) : n <= Len(as) =>
                \/ l = as[n] /\ Len(lim) <= n
                \/ \E i \in 1 .. Len(t) : t[i] = as[n] /\ lv[var(t[i])] <= n,
              DecisionsAssume(t, rs, lv, as),
              from = {} /\ Len(lim) > 0 /\ Len(lim) <= Len(as) => l = as[Len(lim)]
       PROVE  Assumed(T, lim, rs2, lv2, as)
  <2>1. LevelsAssume(T, lim, lv2, as)
    <3> SUFFICES ASSUME NEW n \in 1 .. Len(lim), n <= Len(as)
                 PROVE  \E i \in 1 .. Len(T) : T[i] = as[n] /\ lv2[var(T[i])] <= n
      BY DEF LevelsAssume
    <3>1. CASE l = as[n] /\ Len(lim) <= n
      <4>1. Len(T) \in 1 .. Len(T)
        BY <1>1, <1>2
      <4> QED
        BY <3>1, <4>1, <1>1, <1>4
    <3>2. CASE \E i \in 1 .. Len(t) : t[i] = as[n] /\ lv[var(t[i])] <= n
      BY <3>2, <1>5
    <3> QED
      BY <3>1, <3>2, <1>11
  <2>2. DecisionsAssume(T, rs2, lv2, as)
    <3> SUFFICES ASSUME NEW i \in 1 .. Len(T),
                        rs2[var(T[i])] = {}, lv2[var(T[i])] > 0, lv2[var(T[i])] <= Len(as)
                 PROVE  T[i] = as[lv2[var(T[i])]]
      BY DEF DecisionsAssume
    <3>1. CASE i = Len(T)
      BY <3>1, <1>1, <1>4, <1>11
    <3>2. CASE i \in 1 .. Len(t)
      <4>1. T[i] = t[i] /\ rs[var(t[i])] = {} /\ lv2[var(T[i])] = lv[var(t[i])]
        BY <3>2, <1>5
      <4>2. lv[var(t[i])] > 0 /\ lv[var(t[i])] <= Len(as)
        BY <4>1
      <4>3. t[i] = as[lv[var(t[i])]]
        BY <4>1, <4>2, <3>2, <1>11 DEF DecisionsAssume
      <4> QED
        BY <4>1, <4>3
    <3> QED
      BY <3>1, <3>2, <1>6
  <2> QED
    BY <2>1, <2>2 DEF Assumed
<1>12. AtLevel0(t, lv) \subseteq AtLevel0(T, lv2)
  BY <1>5 DEF AtLevel0
<1>13. Len(lim) > 0 => AtLevel0(T, lv2) = AtLevel0(t, lv)
  <2> SUFFICES ASSUME Len(lim) > 0, NEW k \in AtLevel0(T, lv2)
               PROVE  k \in AtLevel0(t, lv)
    BY <1>12
  <2>1. PICK i \in 1 .. Len(T) : T[i] = k
    BY DEF AtLevel0
  <2>2. i # Len(T)
    BY <2>1, <1>1, <1>4 DEF AtLevel0
  <2> QED
    BY <2>1, <2>2, <1>5, <1>6 DEF AtLevel0
<1>14. Len(lim) = 0 => l \in AtLevel0(T, lv2)
  BY <1>1, <1>2, <1>4 DEF AtLevel0
<1> QED
  BY <1>3, <1>7, <1>8, <1>9, <1>10, <1>11, <1>12, <1>13, <1>14, <1>h DEF Consistent, T

\* What the clauses justify stays justified.
LEMMA EnqueueJustified ==
  ASSUME NEW t, NEW lim, NEW rs, NEW lv, NEW l, NEW from, NEW t2, NEW rs2, NEW lv2,
         Enqueues(t, lim, rs, lv, l, from, t2, rs2, lv2),
         NEW g, Justified(t, rs, lv, g),
         from # {} => Holds(g, from),
         Len(lim) = 0 => Holds(g, {l})
  PROVE  Justified(t2, rs2, lv2, g)
BY EnqueueConsistent

\* A literal that starts a level assumes what its level is to assume.
LEMMA EnqueueAssumed ==
  ASSUME NEW t, NEW lim, NEW rs, NEW lv, NEW l, NEW from, NEW t2, NEW rs2, NEW lv2,
         Enqueues(t, lim, rs, lv, l, from, t2, rs2, lv2),
         NEW as \in Seq(Lits),
         \A n \in 1 .. Len(lim) : n <= Len(as) =>
           \/ l = as[n] /\ Len(lim) <= n
           \/ \E i \in 1 .. Len(t) : t[i] = as[n] /\ lv[var(t[i])] <= n,
         DecisionsAssume(t, rs, lv, as),
         from = {} /\ Len(lim) > 0 /\ Len(lim) <= Len(as) => l = as[Len(lim)]
  PROVE  Assumed(t2, lim, rs2, lv2, as)
BY EnqueueConsistent

\* An implied literal leaves the levels of the assumptions as they are.
LEMMA ImpliedAssumed ==
  ASSUME NEW t, NEW lim, NEW rs, NEW lv, NEW l, NEW from, NEW t2, NEW rs2, NEW lv2,
         Enqueues(t, lim, rs, lv, l, from, t2, rs2, lv2),
         NEW as \in Seq(Lits), Assumed(t, lim, rs, lv, as), from # {}
  PROVE  Assumed(t2, lim, rs2, lv2, as)
<1>1. \A n \in 1 .. Len(lim) : n <= Len(as) =>
        \/ l = as[n] /\ Len(lim) <= n
        \/ \E i \in 1 .. Len(t) : t[i] = as[n] /\ lv[var(t[i])] <= n
  BY DEF Assumed, LevelsAssume
<1>2. DecisionsAssume(t, rs, lv, as)
  BY DEF Assumed
<1> QED
  BY <1>1, <1>2, EnqueueAssumed

\* A new level may start at the end of the trail.
LEMMA LevelConsistent ==
  ASSUME NEW t, NEW lim, NEW rs, NEW lv, TypedAssignment(t, lim, rs, lv),
         Consistent(t, lim, rs, lv)
  PROVE  /\ TypedAssignment(t, Append(lim, Len(t)), rs, lv)
         /\ Consistent(t, Append(lim, Len(t)), rs, lv)
         /\ Len(Append(lim, Len(t))) = Len(lim) + 1
         /\ Append(lim, Len(t))[Len(lim) + 1] = Len(t)
         /\ \A n \in 1 .. Len(lim) : Append(lim, Len(t))[n] = lim[n]
<1> DEFINE L == Append(lim, Len(t))
<1> USE DEF TypedAssignment
<1>1. Len(t) \in Nat /\ Len(lim) \in Nat
  OBVIOUS
<1>2. L \in Seq(Nat) /\ Len(L) = Len(lim) + 1 /\ L[Len(lim) + 1] = Len(t)
      /\ \A n \in 1 .. Len(lim) : L[n] = lim[n]
  BY <1>1
<1> HIDE DEF L
<1>3. \A n \in 1 .. Len(L) : n = Len(lim) + 1 \/ n \in 1 .. Len(lim)
  BY <1>1, <1>2
<1>4. \A n \in 1 .. Len(lim) : L[n] = lim[n] /\ lim[n] <= Len(t) /\ lim[n] \in Nat
  BY <1>2 DEF Consistent, LevelsMatch
<1>5. \A i \in 1 .. Len(t) : lv[var(t[i])] \in Nat /\ lv[var(t[i])] <= Len(lim)
  BY Literals DEF Consistent, LevelsMatch
<1>6. LevelsMatch(t, L, lv)
  <2>1. \A n \in 1 .. Len(L) : L[n] <= Len(t)
    <3> SUFFICES ASSUME NEW n \in 1 .. Len(L)
                 PROVE  L[n] <= Len(t)
      OBVIOUS
    <3>1. CASE n = Len(lim) + 1
      BY <3>1, <1>1, <1>2
    <3>2. CASE n \in 1 .. Len(lim)
      BY <3>2, <1>4
    <3> QED
      BY <3>1, <3>2, <1>3
  <2>2. \A m, n \in 1 .. Len(L) : m <= n => L[m] <= L[n]
    <3> SUFFICES ASSUME NEW m \in 1 .. Len(L), NEW n \in 1 .. Len(L), m <= n
                 PROVE  L[m] <= L[n]
      OBVIOUS
    <3>1. CASE n = Len(lim) + 1
      BY <3>1, <2>1, <1>2
    <3>2. CASE n \in 1 .. Len(lim)
      <4>1. m \in 1 .. Len(lim)
        BY <3>2, <1>1
      <4> QED
        BY <4>1, <3>2, <1>4 DEF Consistent, LevelsMatch
    <3> QED
      BY <3>1, <3>2, <1>3
  <2>3. \A i \in 1 .. Len(t) : lv[var(t[i])] <= Len(L)
    BY <1>1, <1>2, <1>5
  <2>4. \A i \in 1 .. Len(t), n \in 1 .. Len(L) : n <= lv[var(t[i])] <=> L[n] < i
    <3> SUFFICES ASSUME NEW i \in 1 .. Len(t), NEW n \in 1 .. Len(L)
                 PROVE  n <= lv[var(t[i])] <=> L[n] < i
      OBVIOUS
    <3>1. CASE n = Len(lim) + 1
      BY <3>1, <1>1, <1>2, <1>5
    <3>2. CASE n \in 1 .. Len(lim)
      BY <3>2, <1>4 DEF Consistent, LevelsMatch
    <3> QED
      BY <3>1, <3>2, <1>3
  <2> QED
    BY <2>1, <2>2, <2>3, <2>4 DEF LevelsMatch
<1>7. ReasonsMatch(t, L, rs, lv)
  <2>1. \A i \in 1 .. Len(t) : lv[var(t[i])] > 0 => L[lv[var(t[i])]] = lim[lv[var(t[i])]]
    BY <1>1, <1>4, <1>5
  <2> QED
    BY <2>1 DEF Consistent, ReasonsMatch
<1> QED
  BY <1>2, <1>6, <1>7 DEF Consistent, L

-----------------------------------------------------------------------------
(***************************************************************************)
(* Each step preserves the invariant: addClause_.                          *)
(***************************************************************************)

\* The state's assignment has the types its operators expect.
LEMMA StateTyped ==
  ASSUME TypeOK
  PROVE  /\ TypedAssignment(trail, trail_lim, reason, level)
         /\ Len(trail) \in Nat /\ Len(trail_lim) \in Nat
         /\ \A i \in 1 .. Len(trail) : trail[i] \in Lits /\ var(trail[i]) \in Vars
                                       /\ level[var(trail[i])] \in Nat
BY Literals DEF TypeOK, TypedAssignment

\* With no decision level, what is true is true at level 0, and what is false is false in
\* every assignment that satisfies the clauses given.
LEMMA NoLevel ==
  ASSUME IInv, Len(trail_lim) = 0
  PROVE  /\ \A i \in 1 .. Len(trail) : level[var(trail[i])] = 0
         /\ \A l \in Lits : IsTrue(l) => l \in AtLevel0(trail, level)
         /\ \A a \in Assignments, q \in Falses(trail) : Satisfies(a, given) => q \notin a
<1>1. trail \in Seq(Lits)
  BY DEF IInv, TypeOK
<1>2. \A i \in 1 .. Len(trail) : level[var(trail[i])] = 0
  BY StateTyped DEF IInv, Assigned, Consistent, LevelsMatch
<1>3. ASSUME NEW l \in Lits, IsTrue(l)
      PROVE  l \in AtLevel0(trail, level)
  BY <1>1, <1>2, <1>3, Values DEF AtLevel0
<1>4. ASSUME NEW a \in Assignments, NEW q \in Falses(trail), Satisfies(a, given)
      PROVE  q \notin a
  <2>1. q \in Lits /\ level[var(q)] = 0
    <3>1. PICK i \in 1 .. Len(trail) : q \in Lits /\ trail[i] = -q
      BY DEF Falses
    <3> QED
      BY <3>1, <1>2, Literals
  <2>2. Justified(trail, reason, level, given)
    BY DEF IInv, Assigned
  <2> QED
    BY <2>1, <2>2, <1>1, <1>4, FalseAtLevel0
<1> QED
  BY <1>2, <1>3, <1>4

\* What the answer and the store say survives the clauses given later.
LEMMA AnswersGrow ==
  ASSUME Answers, given \subseteq given', UNCHANGED <<status, model, solved, assumptions, conflict>>
  PROVE  Answers'
<1>1. status = "False" => Holds(given', conflict)
  BY HoldsGrows DEF Answers
<1> QED
  BY <1>1 DEF Answers

LEMMA StoreGrows ==
  ASSUME NEW g, NEW h, g \subseteq h, NEW cs, NEW ls, StoreFollows(g, cs, ls)
  PROVE  StoreFollows(h, cs, ls)
BY HoldsGrows DEF StoreFollows

\* Where addClause_ finds the solver.
LEMMA Adding ==
  ASSUME IInv, NEW c \in UNION Problems, Adds(c)
  PROVE  /\ pc = "idle" /\ ok /\ Len(trail_lim) = 0 /\ c \in Clause
         /\ given' = given \cup {c} /\ given' \subseteq Clause /\ given \subseteq given'
         /\ pending = {} /\ out_learnt = {}
<1>1. pc = "idle" /\ ok /\ given' = given \cup {c}
  BY DEF Adds
<1>2. c \in Clause
  BY ProblemsAssumption DEF Clause
<1> QED
  BY <1>1, <1>2 DEF IInv, TypeOK, Phases, Analysis

\* A clause that is not redundant is as good as its literals that are not false.
LEMMA NotFalseEnough ==
  ASSUME IInv, NEW c \in Clause, Len(trail_lim) = 0,
         NEW a \in Assignments, Satisfies(a, given \cup {c})
  PROVE  NotFalse(c) \cap a # {}
<1>1. PICK q \in c : q \in a
  BY DEF Satisfies
<1>2. Satisfies(a, given)
  BY DEF Satisfies
<1>3. q \in Lits
  BY DEF Clause
<1>4. q \notin Falses(trail)
  BY <1>1, <1>2, NoLevel
<1>5. ~ IsFalse(q)
  BY <1>3, <1>4, Values DEF IInv, TypeOK
<1> QED
  BY <1>1, <1>5 DEF NotFalse

LEMMA AddRedundantStep ==
  ASSUME IInv, NEW c \in UNION Problems, AddRedundant(c)
  PROVE  IInv'
<1>0. Adds(c) /\ Redundant(c)
  BY DEF AddRedundant
<1>u. UNCHANGED <<ok, clauses, learnts, trail, trail_lim, reason, level, pc, caller, assumptions,
                  confl, pending, out_learnt, seen, index, conflict, solved, model, status>>
  BY DEF AddRedundant, assignment, control, analysis, final, answer
<1>1. /\ pc = "idle" /\ ok /\ Len(trail_lim) = 0 /\ c \in Clause
      /\ given' = given \cup {c} /\ given' \subseteq Clause /\ given \subseteq given'
      /\ pending = {} /\ out_learnt = {}
  BY <1>0, Adding
<1>2. TypeOK'
  BY <1>1, <1>u DEF IInv, TypeOK
<1>3. Assigned'
  BY <1>1, <1>u, JustifiedGrows DEF IInv, Assigned
<1>4. Store'
  <2>1. StoreFollows(given', clauses, learnts)
    BY <1>1, StoreGrows DEF IInv, Store
  <2>2. NothingLost(given', clauses, AtLevel0(trail, level))
    <3> SUFFICES ASSUME NEW a \in Assignments, Satisfies(a, clauses), AtLevel0(trail, level) \subseteq a
                 PROVE  Satisfies(a, given')
      BY DEF NothingLost
    <3>1. Satisfies(a, given)
      BY <1>1 DEF IInv, Store, NothingLost
    <3>2. c \cap a # {}
      <4>1. CASE satisfied(c)
        <5>1. PICK l \in c : IsTrue(l)
          BY <4>1 DEF satisfied
        <5>2. l \in AtLevel0(trail, level)
          BY <5>1, <1>1, NoLevel DEF Clause
        <5> QED
          BY <5>1, <5>2
      <4>2. CASE \E l \in c : -l \in c
        BY <4>2, <1>1, OneOfTwo DEF Clause
      <4> QED
        BY <4>1, <4>2, <1>0 DEF Redundant
    <3> QED
      BY <3>1, <3>2, <1>1 DEF Satisfies
  <2> QED
    BY <2>1, <2>2, <1>1, <1>u DEF Store
<1>5. Phases' /\ Decides' /\ Analysis' /\ Finals'
  BY <1>1, <1>u DEF IInv, Phases, Searching, Decides, Analysis, Finals
<1>6. Answers'
  BY <1>1, <1>u, AnswersGrow DEF IInv
<1> QED
  BY <1>2, <1>3, <1>4, <1>5, <1>6 DEF IInv

LEMMA AddEmptyStep ==
  ASSUME IInv, NEW c \in UNION Problems, AddEmpty(c)
  PROVE  IInv'
<1>0. Adds(c) /\ NotFalse(c) = {} /\ ok' = FALSE
  BY DEF AddEmpty
<1>u. UNCHANGED <<clauses, learnts, trail, trail_lim, reason, level, pc, caller, assumptions,
                  confl, pending, out_learnt, seen, index, conflict, solved, model, status>>
  BY DEF AddEmpty, assignment, control, analysis, final, answer
<1>1. /\ pc = "idle" /\ ok /\ Len(trail_lim) = 0 /\ c \in Clause
      /\ given' = given \cup {c} /\ given' \subseteq Clause /\ given \subseteq given'
      /\ pending = {} /\ out_learnt = {}
  BY <1>0, Adding
<1>2. TypeOK'
  BY <1>0, <1>1, <1>u DEF IInv, TypeOK
<1>3. Assigned'
  BY <1>1, <1>u, JustifiedGrows DEF IInv, Assigned
<1>4. Store'
  <2>1. StoreFollows(given', clauses, learnts)
    BY <1>1, StoreGrows DEF IInv, Store
  <2>2. Holds(given', {})
    BY <1>0, <1>1, NotFalseEnough DEF Holds
  <2> QED
    BY <2>1, <2>2, <1>0, <1>u DEF Store
<1>5. Phases' /\ Decides' /\ Analysis' /\ Finals'
  BY <1>1, <1>u DEF IInv, Phases, Searching, Decides, Analysis, Finals
<1>6. Answers'
  BY <1>1, <1>u, AnswersGrow DEF IInv
<1> QED
  BY <1>2, <1>3, <1>4, <1>5, <1>6 DEF IInv

LEMMA AddLongStep ==
  ASSUME IInv, NEW c \in UNION Problems, AddLong(c)
  PROVE  IInv'
<1>0. Adds(c) /\ clauses' = clauses \cup {NotFalse(c)}
  BY DEF AddLong
<1>u. UNCHANGED <<ok, learnts, trail, trail_lim, reason, level, pc, caller, assumptions,
                  confl, pending, out_learnt, seen, index, conflict, solved, model, status>>
  BY DEF AddLong, assignment, control, analysis, final, answer
<1>1. /\ pc = "idle" /\ ok /\ Len(trail_lim) = 0 /\ c \in Clause
      /\ given' = given \cup {c} /\ given' \subseteq Clause /\ given \subseteq given'
      /\ pending = {} /\ out_learnt = {}
  BY <1>0, Adding
<1>a. NotFalse(c) \subseteq c /\ NotFalse(c) \in Clause
  BY <1>1 DEF NotFalse, Clause
<1>2. TypeOK'
  BY <1>0, <1>1, <1>a, <1>u DEF IInv, TypeOK
<1>3. Assigned'
  BY <1>1, <1>u, JustifiedGrows DEF IInv, Assigned
<1>4. Store'
  <2>1. StoreFollows(given', clauses, learnts)
    BY <1>1, StoreGrows DEF IInv, Store
  <2>2. Holds(given', NotFalse(c))
    BY <1>1, NotFalseEnough DEF Holds
  <2>3. StoreFollows(given', clauses', learnts)
    BY <2>1, <2>2, <1>0 DEF StoreFollows
  <2>4. NothingLost(given', clauses', AtLevel0(trail, level))
    <3> SUFFICES ASSUME NEW a \in Assignments, Satisfies(a, clauses'), AtLevel0(trail, level) \subseteq a
                 PROVE  Satisfies(a, given')
      BY DEF NothingLost
    <3>1. Satisfies(a, clauses) /\ NotFalse(c) \cap a # {}
      BY <1>0 DEF Satisfies
    <3>2. Satisfies(a, given)
      BY <3>1, <1>1 DEF IInv, Store, NothingLost
    <3> QED
      BY <3>1, <3>2, <1>1, <1>a DEF Satisfies
  <2> QED
    BY <2>3, <2>4, <1>1, <1>u DEF Store
<1>5. Phases' /\ Decides' /\ Analysis' /\ Finals'
  BY <1>1, <1>u DEF IInv, Phases, Searching, Decides, Analysis, Finals
<1>6. Answers'
  BY <1>1, <1>u, AnswersGrow DEF IInv
<1> QED
  BY <1>2, <1>3, <1>4, <1>5, <1>6 DEF IInv

LEMMA AddUnitStep ==
  ASSUME IInv, NEW c \in UNION Problems, AddUnit(c)
  PROVE  IInv'
<1>0. PICK l \in Lits : NotFalse(c) = {l} /\ Enqueue(l, NoClause, trail, trail_lim)
  BY DEF AddUnit
<1>00. Adds(c) /\ ~ Redundant(c) /\ pc' = "propagate" /\ caller' = "addClause_"
  BY DEF AddUnit
<1>u. UNCHANGED <<ok, clauses, learnts, assumptions,
                  confl, pending, out_learnt, seen, index, conflict, solved, model, status>>
  BY DEF AddUnit, analysis, final, answer
<1>1. /\ pc = "idle" /\ ok /\ Len(trail_lim) = 0 /\ c \in Clause
      /\ given' = given \cup {c} /\ given' \subseteq Clause /\ given \subseteq given'
      /\ pending = {} /\ out_learnt = {}
  BY <1>00, Adding
<1>e. /\ trail' = Append(trail, l) /\ trail_lim' = trail_lim
      /\ reason' = [reason EXCEPT ![var(l)] = {}]
      /\ level' = [level EXCEPT ![var(l)] = Len(trail_lim)]
  BY <1>0 DEF Enqueue, NoClause
<1>a. l \in c /\ \A i \in 1 .. Len(trail) : var(trail[i]) # var(l)
  <2>1. l \in c /\ ~ IsFalse(l)
    BY <1>0 DEF NotFalse
  <2>2. ~ IsTrue(l)
    BY <2>1, <1>00 DEF Redundant, satisfied
  <2> QED
    BY <2>1, <2>2, Values DEF IInv, TypeOK, IsUndef
<1>b. Holds(given', {l})
  BY <1>0, <1>1, NotFalseEnough DEF Holds
<1>c. TypedAssignment(trail, trail_lim, reason, level)
      /\ Consistent(trail, trail_lim, reason, level)
      /\ Justified(trail, reason, level, given')
  BY <1>1, StateTyped, JustifiedGrows DEF IInv, Assigned
<1>d. {} \in Clause
  BY DEF Clause
<1>f. /\ TypedAssignment(trail', trail_lim, reason', level')
      /\ Consistent(trail', trail_lim, reason', level')
      /\ Justified(trail', reason', level', given')
      /\ AtLevel0(trail, level) \subseteq AtLevel0(trail', level')
      /\ l \in AtLevel0(trail', level')
  <2>1. Enqueues(trail, trail_lim, reason, level, l, {}, trail', reason', level')
    BY <1>1, <1>a, <1>c, <1>d, <1>e DEF Enqueues
  <2> QED
    BY <2>1, <1>1, <1>b, <1>c, EnqueueConsistent
<1>2. TypeOK'
  BY <1>00, <1>1, <1>e, <1>f, <1>u DEF IInv, TypeOK, TypedAssignment
<1>3. Assigned'
  BY <1>e, <1>f DEF Assigned
<1>4. Store'
  <2>1. StoreFollows(given', clauses, learnts)
    BY <1>1, StoreGrows DEF IInv, Store
  <2>2. NothingLost(given', clauses, AtLevel0(trail', level'))
    <3> SUFFICES ASSUME NEW a \in Assignments, Satisfies(a, clauses), AtLevel0(trail', level') \subseteq a
                 PROVE  Satisfies(a, given')
      BY DEF NothingLost
    <3>1. AtLevel0(trail, level) \subseteq a /\ l \in a
      BY <1>f
    <3>2. Satisfies(a, given)
      BY <3>1, <1>1 DEF IInv, Store, NothingLost
    <3> QED
      BY <3>1, <3>2, <1>1, <1>a DEF Satisfies
  <2> QED
    BY <2>1, <2>2, <1>1, <1>u DEF Store
<1>5. Phases' /\ Decides' /\ Analysis' /\ Finals'
  BY <1>00, <1>1, <1>e, <1>u DEF Phases, Searching, Decides, Analysis, Finals
<1>6. Answers'
  BY <1>1, <1>u, AnswersGrow DEF IInv
<1> QED
  BY <1>2, <1>3, <1>4, <1>5, <1>6 DEF IInv

-----------------------------------------------------------------------------
(***************************************************************************)
(* propagate.                                                              *)
(***************************************************************************)

\* A stored clause follows from the clauses given, and is all false when its literals are
\* among the false ones.
LEMMA Stored ==
  ASSUME IInv, NEW c \in Database
  PROVE  c \in Clause /\ Holds(given, c) /\ (AllFalse(c) <=> c \subseteq Falses(trail))
<1>1. c \in Clause /\ Holds(given, c)
  BY DEF Database, IInv, TypeOK, Store, StoreFollows
<1>2. \A l \in c : l \in Lits /\ (IsFalse(l) <=> l \in Falses(trail))
  BY <1>1, Values DEF Clause, IInv, TypeOK
<1> QED
  BY <1>1, <1>2 DEF AllFalse

LEMMA ImplyStep ==
  ASSUME IInv, Imply
  PROVE  IInv'
<1>0. PICK c \in Database, l \in Lits : Implies(c, l) /\ Enqueue(l, c, trail, trail_lim)
  BY DEF Imply
<1>p. pc = "propagate"
  BY DEF Imply
<1>u. UNCHANGED <<given, ok, clauses, learnts, pc, caller, assumptions,
                  confl, pending, out_learnt, seen, index, conflict, solved, model, status>>
  BY DEF Imply, database, control, analysis, final, answer
<1>e. /\ trail' = Append(trail, l) /\ trail_lim' = trail_lim
      /\ reason' = [reason EXCEPT ![var(l)] = c]
      /\ level' = [level EXCEPT ![var(l)] = Len(trail_lim)]
  BY <1>0 DEF Enqueue
<1>t. trail \in Seq(Lits)
  BY DEF IInv, TypeOK
<1>a. /\ l \in c /\ \A i \in 1 .. Len(trail) : var(trail[i]) # var(l)
      /\ c \in Clause /\ Holds(given, c) /\ c \ {l} \subseteq Falses(trail)
  <2>1. c \in Clause /\ Holds(given, c)
    BY Stored
  <2>2. l \in c /\ IsUndef(l) /\ \A k \in c \ {l} : IsFalse(k)
    BY <1>0 DEF Implies
  <2>3. \A k \in c \ {l} : k \in Falses(trail)
    BY <2>1, <2>2, <1>t, Values DEF Clause
  <2> QED
    BY <2>1, <2>2, <2>3, <1>t, Values
<1>b. Len(trail_lim) = 0 => Holds(given, {l})
  <2> SUFFICES ASSUME Len(trail_lim) = 0, NEW a \in Assignments, Satisfies(a, given)
               PROVE  l \in a
    BY DEF Holds
  <2>1. PICK q \in c : q \in a
    BY <1>a DEF Holds
  <2>2. q \notin Falses(trail)
    BY <2>1, NoLevel
  <2> QED
    BY <2>1, <2>2, <1>a
<1>f. Enqueues(trail, trail_lim, reason, level, l, c, trail', reason', level')
  BY <1>a, <1>e, StateTyped DEF IInv, Assigned, Enqueues
<1>g. /\ TypedAssignment(trail', trail_lim, reason', level')
      /\ Consistent(trail', trail_lim, reason', level')
      /\ Justified(trail', reason', level', given)
      /\ AtLevel0(trail, level) \subseteq AtLevel0(trail', level')
  BY <1>a, <1>b, <1>f, EnqueueConsistent DEF IInv, Assigned
<1>2. TypeOK'
  BY <1>e, <1>g, <1>u DEF IInv, TypeOK, TypedAssignment
<1>3. Assigned'
  BY <1>e, <1>g, <1>u DEF Assigned
<1>4. Store'
  <2>1. NothingLost(given, clauses, AtLevel0(trail', level'))
    BY <1>g, <1>p DEF NothingLost, IInv, Store, Phases
  <2> QED
    BY <2>1, <1>u DEF IInv, Store
<1>5. Phases'
  <2>1. ASSUME caller = "search"
        PROVE  Assumed(trail', trail_lim, reason', level', assumptions)
    <3>1. Assumed(trail, trail_lim, reason, level, assumptions) /\ assumptions \in Seq(Lits)
      BY <2>1, <1>p DEF IInv, TypeOK, Phases, Searching
    <3> QED
      BY <3>1, <1>a, <1>f, ImpliedAssumed
  <2> QED
    BY <2>1, <1>p, <1>e, <1>u DEF IInv, Phases, Searching
<1>6. Decides' /\ Analysis' /\ Finals' /\ Answers'
  BY <1>p, <1>u DEF IInv, Decides, Analysis, Finals, Answers
<1> QED
  BY <1>2, <1>3, <1>4, <1>5, <1>6 DEF IInv

LEMMA PropagatedStep ==
  ASSUME IInv, Propagated
  PROVE  IInv'
<1>p. /\ pc = "propagate" /\ \A c \in Database : ~ AllFalse(c)
      /\ pc' = IF caller = "addClause_" THEN "idle" ELSE "simplify"
  BY DEF Propagated
<1>u. UNCHANGED <<given, ok, clauses, learnts, trail, trail_lim, reason, level, caller, assumptions,
                  confl, pending, out_learnt, seen, index, conflict, solved, model, status>>
  BY DEF Propagated, database, assignment, control, analysis, final, answer
<1>2. TypeOK'
  BY <1>p, <1>u DEF IInv, TypeOK
<1>3. Assigned' /\ Store' /\ Answers'
  BY <1>u DEF IInv, Assigned, Store, Answers
<1>4. Phases'
  BY <1>p, <1>u DEF IInv, TypeOK, Phases, Searching
<1>5. Decides'
  BY <1>p, <1>u, Stored DEF Decides, NoneFalse, Database
<1>6. Analysis' /\ Finals'
  BY <1>p, <1>u DEF IInv, Analysis, Finals
<1> QED
  BY <1>2, <1>3, <1>4, <1>5, <1>6 DEF IInv

LEMMA ContradictionStep ==
  ASSUME IInv, Contradiction
  PROVE  IInv'
<1>p. /\ pc = "propagate" /\ Len(trail_lim) = 0 /\ ok' = FALSE /\ pc' = "idle"
      /\ status' = IF caller = "search" THEN "False" ELSE status
  BY DEF Contradiction, decisionLevel
<1>0. PICK c \in Database : AllFalse(c)
  BY DEF Contradiction
<1>u. UNCHANGED <<given, clauses, learnts, trail, trail_lim, reason, level, caller, assumptions,
                  confl, pending, out_learnt, seen, index, conflict, solved, model>>
  BY DEF Contradiction, assignment, control, analysis, final
<1>1. Holds(given, {})
  <2> SUFFICES ASSUME NEW a \in Assignments, Satisfies(a, given)
               PROVE  FALSE
    BY DEF Holds
  <2>1. PICK q \in c : q \in a
    BY Stored DEF Holds
  <2>2. q \in Falses(trail)
    BY <1>0, Stored
  <2> QED
    BY <2>1, <2>2, <1>p, NoLevel
<1>2. TypeOK'
  BY <1>p, <1>u DEF IInv, TypeOK
<1>3. Assigned'
  BY <1>u DEF IInv, Assigned
<1>4. Store'
  BY <1>1, <1>p, <1>u DEF IInv, Store
<1>5. Phases' /\ Decides' /\ Analysis' /\ Finals'
  BY <1>p, <1>u DEF IInv, Phases, Searching, Decides, Analysis, Finals
<1>6. Answers'
  <2>1. CASE caller = "search"
    <3>1. conflict = {} /\ status' = "False"
      BY <2>1, <1>p DEF IInv, Phases, Searching
    <3> QED
      BY <3>1, <1>1, <1>u DEF Answers
  <2>2. CASE caller # "search"
    BY <2>2, <1>p, <1>u DEF IInv, Answers
  <2> QED
    BY <2>1, <2>2
<1> QED
  BY <1>2, <1>3, <1>4, <1>5, <1>6 DEF IInv

LEMMA ConflictStep ==
  ASSUME IInv, Conflict
  PROVE  IInv'
<1>p. pc = "propagate" /\ Len(trail_lim) > 0 /\ pc' = "analyze"
  BY DEF Conflict, decisionLevel
<1>0. PICK c \in Database : AllFalse(c) /\ confl' = c
  BY DEF Conflict
<1>u. UNCHANGED <<given, ok, clauses, learnts, trail, trail_lim, reason, level, caller, assumptions,
                  pending, out_learnt, seen, index, conflict, solved, model, status>>
  BY DEF Conflict, database, assignment, control, final, answer
<1>1. c \in Clause /\ Holds(given, c) /\ c \subseteq Falses(trail)
  BY <1>0, Stored
<1>2. TypeOK'
  BY <1>0, <1>1, <1>p, <1>u DEF IInv, TypeOK
<1>3. Assigned' /\ Store' /\ Answers'
  BY <1>u DEF IInv, Assigned, Store, Answers
<1>4. Phases'
  BY <1>p, <1>u, StateTyped DEF IInv, TypeOK, Phases, Searching
<1>5. Decides' /\ Finals'
  BY <1>p DEF Decides, Finals
<1>6. Analysis'
  <2>1. pending = {} /\ out_learnt = {}
    BY <1>p DEF IInv, Analysis
  <2>2. Collected(trail, trail_lim, level, {}, {})
    BY <1>p DEF Collected
  <2>3. (c \cap Falses(trail)) \cup {} \cup {} = c
    BY <1>1
  <2>4. Holds(given, (c \cap Falses(trail)) \cup {} \cup {})
    BY <1>1, <2>3
  <2> QED
    BY <2>1, <2>2, <2>4, <1>0, <1>p, <1>u DEF Analysis
<1> QED
  BY <1>2, <1>3, <1>4, <1>5, <1>6 DEF IInv

-----------------------------------------------------------------------------
(***************************************************************************)
(* analyze.                                                                *)
(***************************************************************************)

\* A false literal stands at some place of the trail, with its level.
LEMMA FalsePlace ==
  ASSUME TypeOK, Consistent(trail, trail_lim, reason, level), NEW q \in Falses(trail)
  PROVE  /\ q \in Lits /\ level[var(q)] \in Nat /\ level[var(q)] <= Len(trail_lim)
         /\ \E i \in 1 .. Len(trail) : /\ trail[i] = -q /\ -trail[i] = q
                                       /\ var(trail[i]) = var(q)
<1>1. PICK i \in 1 .. Len(trail) : q \in Lits /\ trail[i] = -q
  BY DEF Falses
<1>2. -trail[i] = q /\ var(trail[i]) = var(q)
  BY <1>1, Literals
<1>3. level[var(q)] \in Nat
  BY <1>1, Literals DEF TypeOK
<1>4. level[var(trail[i])] <= Len(trail_lim)
  BY DEF Consistent, LevelsMatch
<1> QED
  BY <1>1, <1>2, <1>3, <1>4

\* The clauses given imply one of the literals analyze has seen.
LEMMA SeenFollows ==
  ASSUME IInv, pc = "analyze"
  PROVE  /\ Collected(trail, trail_lim, level, SeenNow, SeenBelow)
         /\ Holds(given, SeenNow \cup SeenBelow)
         /\ SeenNow \subseteq Lits /\ SeenBelow \subseteq Lits
<1>0. /\ Collected(trail, trail_lim, level, pending, out_learnt)
      /\ Holds(given, (confl \cap Falses(trail)) \cup pending \cup out_learnt)
  BY DEF IInv, Analysis
<1>t. confl \subseteq Lits /\ trail \in Seq(Lits) /\ Len(trail_lim) \in Nat
  BY DEF IInv, TypeOK, Clause
<1>1. \A q \in Falses(trail) : q \in Lits /\ level[var(q)] \in Nat
  BY FalsePlace DEF IInv, Assigned
<1>2. \A q \in Fresh : q \in confl /\ q \in Falses(trail) /\ level[var(q)] > 0
  BY <1>t, Values DEF Fresh
<1>3. /\ SeenNow = pending \cup {q \in Fresh : level[var(q)] >= Len(trail_lim)}
      /\ SeenBelow = out_learnt \cup {q \in Fresh : level[var(q)] < Len(trail_lim)}
  BY DEF SeenNow, SeenBelow, decisionLevel
<1>4. Collected(trail, trail_lim, level, SeenNow, SeenBelow)
  <2>1. SeenNow \subseteq Falses(trail) /\ SeenBelow \subseteq Falses(trail)
    BY <1>0, <1>2, <1>3 DEF Collected
  <2>2. \A q \in SeenNow : level[var(q)] >= Len(trail_lim)
    BY <1>0, <1>3 DEF Collected
  <2>3. \A q \in SeenBelow : level[var(q)] > 0 /\ level[var(q)] < Len(trail_lim)
    BY <1>0, <1>2, <1>3 DEF Collected
  <2> QED
    BY <2>1, <2>2, <2>3, <1>0 DEF Collected
<1>5. ASSUME NEW a \in Assignments, Satisfies(a, given)
      PROVE  (SeenNow \cup SeenBelow) \cap a # {}
  <2>1. PICK q \in (confl \cap Falses(trail)) \cup pending \cup out_learnt : q \in a
    BY <1>0, <1>5 DEF Holds
  <2>2. CASE q \in pending \cup out_learnt
    BY <2>1, <2>2, <1>3
  <2>3. CASE q \in confl /\ q \in Falses(trail) /\ q \notin pending \cup out_learnt
    <3>1. level[var(q)] # 0
      BY <2>1, <2>3, <1>5, <1>t, FalseAtLevel0 DEF IInv, Assigned
    <3>2. q \in Lits /\ level[var(q)] \in Nat
      BY <2>3, <1>1
    <3>3. level[var(q)] > 0
      BY <3>1, <3>2
    <3>4. q \in Fresh
      BY <2>3, <3>2, <3>3, <1>t, Values DEF Fresh
    <3>5. level[var(q)] >= Len(trail_lim) \/ level[var(q)] < Len(trail_lim)
      BY <3>2, <1>t
    <3> QED
      BY <2>1, <3>4, <3>5, <1>3
  <2> QED
    BY <2>1, <2>2, <2>3
<1> QED
  BY <1>1, <1>4, <1>5 DEF Holds, Collected

\* The latest of several seen literals of the current level was implied.
LEMMA LatestImplied ==
  ASSUME IInv, pc = "analyze", NEW i \in 1 .. Len(trail),
         Latest(i, SeenNow), SeenNow # {-trail[i]}
  PROVE  reason[var(trail[i])] # {}
<1> DEFINE d == Len(trail_lim)
<1>1. Collected(trail, trail_lim, level, SeenNow, SeenBelow) /\ SeenNow \subseteq Lits
  BY SeenFollows
<1>2. -trail[i] \in SeenNow /\ \A j \in (i + 1) .. Len(trail) : -trail[j] \notin SeenNow
  BY DEF Latest
<1>3. PICK q \in SeenNow : q # -trail[i]
  BY <1>2
<1>4. PICK j \in 1 .. Len(trail) : -trail[j] = q /\ var(trail[j]) = var(q)
  BY <1>1, FalsePlace DEF Collected, IInv, Assigned
<1>5. j # i /\ ~ (j \in (i + 1) .. Len(trail))
  BY <1>2, <1>3, <1>4
<1>6. j < i /\ i \in Nat /\ j \in Nat
  BY <1>5, StateTyped DEF IInv
<1>7. d \in Nat /\ d > 0 /\ d \in 1 .. Len(trail_lim) /\ trail_lim[d] \in Nat
  BY <1>1, StateTyped DEF Collected, IInv, TypeOK
<1>8. level[var(trail[j])] >= d /\ level[var(trail[j])] \in Nat
  BY <1>1, <1>4, StateTyped DEF Collected, IInv
<1>9. level[var(trail[i])] >= d /\ level[var(trail[i])] <= d /\ level[var(trail[i])] \in Nat
  <2>1. trail[i] \in Lits /\ level[var(trail[i])] \in Nat
    BY StateTyped DEF IInv
  <2>2. var(-trail[i]) = var(trail[i])
    BY <2>1, Literals
  <2>3. level[var(trail[i])] >= d
    BY <2>2, <1>1, <1>2 DEF Collected
  <2> QED
    BY <2>1, <2>3 DEF IInv, Assigned, Consistent, LevelsMatch
<1> HIDE DEF d
<1>10. level[var(trail[i])] = d
  BY <1>7, <1>9
<1>11. trail_lim[d] < j
  <2>1. d <= level[var(trail[j])] <=> trail_lim[d] < j
    BY <1>7 DEF IInv, Assigned, Consistent, LevelsMatch, d
  <2> QED
    BY <2>1, <1>7, <1>8
<1>12. reason[var(trail[i])] = {} => i = trail_lim[d] + 1
  <2>1. reason[var(trail[i])] = {} /\ level[var(trail[i])] > 0
           => i = trail_lim[level[var(trail[i])]] + 1
    BY DEF IInv, Assigned, Consistent, ReasonsMatch
  <2> QED
    BY <2>1, <1>7, <1>10
<1> QED
  BY <1>6, <1>7, <1>11, <1>12

LEMMA ResolveStep ==
  ASSUME IInv, Resolve
  PROVE  IInv'
<1>p. pc = "analyze" /\ out_learnt' = SeenBelow
  BY DEF Resolve
<1>0. PICK i \in 1 .. Len(trail) : /\ Latest(i, SeenNow) /\ SeenNow # {-trail[i]}
                                   /\ pending' = SeenNow \ {-trail[i]}
                                   /\ confl' = reason[var(trail[i])]
  BY DEF Resolve
<1>u. UNCHANGED <<given, ok, clauses, learnts, trail, trail_lim, reason, level, pc, caller,
                  assumptions, seen, index, conflict, solved, model, status>>
  BY DEF Resolve, database, assignment, control, final, answer
<1>1. /\ Collected(trail, trail_lim, level, SeenNow, SeenBelow)
      /\ Holds(given, SeenNow \cup SeenBelow)
      /\ SeenNow \subseteq Lits /\ SeenBelow \subseteq Lits
  BY <1>p, SeenFollows
<1>a. trail[i] \in Lits /\ var(trail[i]) \in Vars /\ -trail[i] \in Lits
  BY StateTyped, Literals DEF IInv
<1>2. TypeOK'
  BY <1>0, <1>1, <1>a, <1>p, <1>u DEF IInv, TypeOK, Clause
<1>3. Assigned' /\ Store' /\ Answers' /\ Finals' /\ Decides'
  BY <1>p, <1>u DEF IInv, Assigned, Store, Answers, Finals, Decides
<1>4. Phases'
  BY <1>p, <1>u DEF IInv, Phases, Searching
<1>5. Analysis'
  <2> DEFINE r == reason[var(trail[i])]
             d == (r \cap Falses(trail)) \cup (SeenNow \ {-trail[i]}) \cup SeenBelow
  <2>1. r # {} /\ trail[i] \in r /\ r \subseteq Lits /\ Holds(given, r)
    BY <1>0, <1>p, <1>a, LatestImplied
       DEF IInv, TypeOK, Clause, Assigned, Consistent, ReasonsMatch, Justified
  <2>2. \A q \in r \ {trail[i]} : q \in Falses(trail)
    <3> SUFFICES ASSUME NEW q \in r \ {trail[i]}
                 PROVE  q \in Falses(trail)
      OBVIOUS
    <3>1. \E j \in 1 .. (i - 1) : trail[j] = -q
      BY <2>1 DEF IInv, Assigned, Consistent, ReasonsMatch
    <3>2. \A j \in 1 .. (i - 1) : j \in 1 .. Len(trail)
      BY StateTyped DEF IInv
    <3> QED
      BY <2>1, <3>1, <3>2 DEF Falses
  <2>3. Holds(given, d)
    <3> SUFFICES ASSUME NEW a \in Assignments, Satisfies(a, given)
                 PROVE  d \cap a # {}
      BY DEF Holds
    <3>1. PICK q \in SeenNow \cup SeenBelow : q \in a
      BY <1>1 DEF Holds
    <3>2. CASE q # -trail[i]
      BY <3>1, <3>2
    <3>3. CASE q = -trail[i]
      <4>1. trail[i] \notin a
        BY <3>1, <3>3, <1>a, OneOfTwo
      <4>2. PICK k \in r : k \in a
        BY <2>1 DEF Holds
      <4>3. k \in Falses(trail)
        BY <4>1, <4>2, <2>2
      <4> QED
        BY <4>2, <4>3
    <3> QED
      BY <3>2, <3>3
  <2>4. Collected(trail, trail_lim, level, SeenNow \ {-trail[i]}, SeenBelow)
    BY <1>1 DEF Collected
  <2> QED
    BY <2>3, <2>4, <1>0, <1>p, <1>u DEF Analysis
<1> QED
  BY <1>2, <1>3, <1>4, <1>5 DEF IInv

LEMMA FirstUIPStep ==
  ASSUME IInv, FirstUIP
  PROVE  IInv'
<1>p. pc = "analyze" /\ pending' = SeenNow /\ out_learnt' = SeenBelow /\ pc' = "learn"
  BY DEF FirstUIP
<1>0. PICK i \in 1 .. Len(trail) : SeenNow = {-trail[i]}
  BY DEF FirstUIP
<1>u. UNCHANGED <<given, ok, clauses, learnts, trail, trail_lim, reason, level, confl, caller,
                  assumptions, seen, index, conflict, solved, model, status>>
  BY DEF FirstUIP, database, assignment, control, final, answer
<1>1. /\ Collected(trail, trail_lim, level, SeenNow, SeenBelow)
      /\ Holds(given, SeenNow \cup SeenBelow)
      /\ SeenNow \subseteq Lits /\ SeenBelow \subseteq Lits
  BY <1>p, SeenFollows
<1>2. TypeOK'
  BY <1>1, <1>p, <1>u DEF IInv, TypeOK, Clause
<1>3. Assigned' /\ Store' /\ Answers' /\ Finals' /\ Decides'
  BY <1>p, <1>u DEF IInv, Assigned, Store, Answers, Finals, Decides
<1>4. Phases'
  BY <1>p, <1>u DEF IInv, Phases, Searching
<1>5. Analysis'
  BY <1>0, <1>1, <1>p, <1>u DEF Analysis
<1> QED
  BY <1>2, <1>3, <1>4, <1>5 DEF IInv

\* A non-empty set of natural numbers has a smallest element.
LEMMA Smallest ==
  ASSUME NEW S \in SUBSET Nat, S # {}
  PROVE  \E n \in S : \A k \in S : n <= k
<1> DEFINE LT == {ss \in Nat \X Nat : ss[1] < ss[2]}
<1>1. IsWellFoundedOn(LT, Nat)
  BY NatLessThanWellFounded DEF OpToRel
<1> HIDE DEF LT
<1>2. PICK n \in S : \A k \in S : ~ (<<k, n>> \in LT)
  BY <1>1, WFMin
<1>3. \A k \in S : k < n => <<k, n>> \in LT
  BY DEF LT
<1>4. n \in Nat /\ \A k \in S : k \in Nat
  OBVIOUS
<1>5. \A k \in S : ~ (k < n)
  BY <1>2, <1>3
<1> QED
  BY <1>4, <1>5

\* litRedundant drops no literal the clause needs: the clauses given imply the uip or one
\* of the literals kept.  Of the dropped literals an assignment makes true, take the one
\* assigned first: its reason gives the assignment an earlier one.
LEMMA LearntFollows ==
  ASSUME IInv, pc = "learn"
  PROVE  Holds(given, pending \cup Kept)
<1> SUFFICES ASSUME NEW a \in Assignments, Satisfies(a, given),
                    \A q \in pending \cup Kept : q \notin a
             PROVE  FALSE
  BY DEF Holds
<1>0. /\ Collected(trail, trail_lim, level, pending, out_learnt)
      /\ Holds(given, pending \cup out_learnt)
  BY DEF IInv, Analysis
<1> DEFINE Bad == {k \in 1 .. Len(trail) : -trail[k] \in a /\ litRedundant(-trail[k])}
<1>p. \A q \in Falses(trail) : /\ q \in Lits
                               /\ \E i \in 1 .. Len(trail) : /\ trail[i] = -q /\ -trail[i] = q
                                                             /\ var(trail[i]) = var(q)
  BY FalsePlace DEF IInv, Assigned
<1>1. Bad # {}
  <2>1. PICK q \in out_learnt : q \in a
    BY <1>0 DEF Holds
  <2>2. litRedundant(q)
    BY <2>1 DEF Kept
  <2>3. PICK i \in 1 .. Len(trail) : -trail[i] = q
    BY <2>1, <1>0, <1>p DEF Collected
  <2> QED
    BY <2>1, <2>2, <2>3
<1>2. PICK k \in Bad : \A j \in Bad : k <= j
  <2>1. Bad \in SUBSET Nat
    BY StateTyped DEF IInv
  <2> HIDE DEF Bad
  <2> QED
    BY <2>1, <1>1, Smallest
<1> DEFINE q == -trail[k]
           r == reason[var(trail[k])]
<1>3. /\ k \in 1 .. Len(trail) /\ q \in a /\ litRedundant(q)
      /\ trail[k] \in Lits /\ var(trail[k]) \in Vars /\ q \in Lits /\ -q = trail[k] /\ var(q) = var(trail[k])
  BY StateTyped, Literals DEF IInv
<1>4. PICK S \in SUBSET {l \in Lits : IsFalse(l)} :
        /\ q \in S
        /\ \A s \in S : /\ reason[var(s)] # NoClause
                        /\ \A x \in reason[var(s)] \ {-s} :
                             level[var(x)] = 0 \/ x \in out_learnt \cup S
  BY <1>3 DEF litRedundant
<1>5. r # {} /\ \A x \in r \ {trail[k]} : level[var(x)] = 0 \/ x \in out_learnt \cup S
  BY <1>3, <1>4 DEF NoClause
<1>6. Holds(given, r) /\ \A x \in r \ {trail[k]} : \E j \in 1 .. (k - 1) : trail[j] = -x
  BY <1>3, <1>5 DEF IInv, Assigned, Consistent, ReasonsMatch, Justified
<1>7. PICK x \in r : x \in a
  BY <1>6 DEF Holds
<1>8. x # trail[k]
  BY <1>3, <1>7, OneOfTwo
<1>9. PICK j \in 1 .. (k - 1) : trail[j] = -x
  BY <1>6, <1>7, <1>8
<1>10. j \in 1 .. Len(trail) /\ j < k /\ k \in Nat /\ j \in Nat
  BY <1>3, <1>9, StateTyped DEF IInv
<1>11. x \in Lits
  BY <1>3, <1>7 DEF IInv, TypeOK, Clause
<1>12. -trail[j] = x /\ x \in Falses(trail)
  BY <1>9, <1>10, <1>11, Literals DEF Falses
<1>13. level[var(x)] # 0
  BY <1>7, <1>12, FalseAtLevel0 DEF IInv, TypeOK, Assigned
<1>14. x \in out_learnt \cup S
  BY <1>5, <1>7, <1>8, <1>13
<1>15. litRedundant(x)
  <2>1. CASE x \in S
    BY <2>1, <1>4 DEF litRedundant
  <2>2. CASE x \in out_learnt
    BY <2>2, <1>7 DEF Kept
  <2> QED
    BY <2>1, <2>2, <1>14
<1>16. j \in Bad
  BY <1>7, <1>10, <1>12, <1>15
<1>17. k <= j
  BY <1>2, <1>16
<1> QED
  BY <1>10, <1>17

LEMMA LearnStep ==
  ASSUME IInv, Learn
  PROVE  IInv'
<1>p. pc = "learn" /\ pending' = {} /\ out_learnt' = {} /\ confl' = {} /\ pc' = "propagate"
  BY DEF Learn, NoClause
<1>u. UNCHANGED <<given, ok, clauses, caller, assumptions, seen, index, conflict, solved, model, status>>
  BY DEF Learn, control, final, answer
<1>0. PICK n \in 0 .. (Len(trail_lim) - 1), uip \in pending :
        /\ BacktrackLevel(n)
        /\ learnts' = IF Kept = {} THEN learnts ELSE learnts \cup {Kept \cup {uip}}
        /\ Enqueue(uip, IF Kept = {} THEN NoClause ELSE Kept \cup {uip}, TrailUntil(n), LimUntil(n))
  BY DEF Learn, decisionLevel
<1> DEFINE from == IF Kept = {} THEN {} ELSE Kept \cup {uip}
           T == TrailTo(trail, trail_lim, n)
           L == LimTo(trail_lim, n)
<1>e. /\ trail' = Append(T, uip) /\ trail_lim' = L
      /\ reason' = [reason EXCEPT ![var(uip)] = from]
      /\ level' = [level EXCEPT ![var(uip)] = Len(L)]
  BY <1>0 DEF Enqueue, NoClause, TrailUntil, LimUntil, TrailTo, LimTo, decisionLevel
<1>n. n \in Nat /\ n < Len(trail_lim) /\ n <= Len(trail_lim) /\ Len(trail_lim) \in Nat
  BY StateTyped DEF IInv
<1>a. Collected(trail, trail_lim, level, pending, out_learnt) /\ Holds(given, pending \cup Kept)
      /\ pending = {uip}
  BY <1>p, LearntFollows DEF IInv, Analysis
<1>b. /\ Kept \subseteq Lits /\ uip \in Lits /\ uip \in Falses(trail) /\ Kept \subseteq Falses(trail)
      /\ level[var(uip)] >= Len(trail_lim) /\ level[var(uip)] \in Nat
      /\ \A l \in Kept : level[var(l)] > 0 /\ level[var(l)] <= n /\ level[var(l)] \in Nat
  <2>1. Kept \subseteq out_learnt
    BY DEF Kept
  <2>2. uip \in Falses(trail) /\ Kept \subseteq Falses(trail)
    BY <2>1, <1>a DEF Collected
  <2>3. \A l \in Falses(trail) : l \in Lits /\ level[var(l)] \in Nat
    BY FalsePlace DEF IInv, Assigned
  <2>4. \A l \in Kept : level[var(l)] > 0 /\ level[var(l)] <= n
    BY <2>1, <1>0, <1>a DEF Collected, BacktrackLevel
  <2>5. level[var(uip)] >= Len(trail_lim)
    BY <1>a DEF Collected
  <2> QED
    BY <2>2, <2>3, <2>4, <2>5
<1>c. Kept = {} <=> n = 0
  BY <1>0, <1>b, <1>n DEF BacktrackLevel
<1>d. /\ T \in Seq(Lits) /\ L \in Seq(Nat) /\ Len(L) = n /\ Len(T) <= Len(trail)
      /\ \A i \in 1 .. Len(T) : T[i] = trail[i]
      /\ \A i \in 1 .. Len(trail) : i <= Len(T) <=> level[var(trail[i])] <= n
  BY <1>n, StateTyped, CutKeeps DEF IInv, Assigned, Consistent
<1>f. /\ Consistent(T, L, reason, level) /\ Justified(T, reason, level, given)
      /\ Assumed(trail, trail_lim, reason, level, assumptions) => Assumed(T, L, reason, level, assumptions)
      /\ AtLevel0(T, level) = AtLevel0(trail, level)
  <2>1. TypedAssignment(trail, trail_lim, reason, level) /\ assumptions \in Seq(Lits)
        /\ Consistent(trail, trail_lim, reason, level) /\ Justified(trail, reason, level, given)
    BY StateTyped DEF IInv, TypeOK, Assigned
  <2> QED
    BY <2>1, <1>n, CutConsistent
<1> HIDE DEF T, L
<1>g. TypedAssignment(T, L, reason, level) /\ Len(T) \in Nat
  BY <1>d DEF TypedAssignment, IInv, TypeOK
<1>h. \A i \in 1 .. Len(T) : i \in 1 .. Len(trail) /\ T[i] = trail[i] /\ level[var(trail[i])] <= n
  BY <1>d, <1>g, StateTyped DEF IInv
<1>i. \A i \in 1 .. Len(T) : var(T[i]) # var(uip)
  <2> SUFFICES ASSUME NEW i \in 1 .. Len(T), var(T[i]) = var(uip)
               PROVE  FALSE
    OBVIOUS
  <2>1. level[var(uip)] <= n
    BY <1>h
  <2> QED
    BY <2>1, <1>b, <1>n
<1>j. Kept \subseteq Falses(T)
  <2> SUFFICES ASSUME NEW l \in Kept
               PROVE  l \in Falses(T)
    OBVIOUS
  <2>1. l \in Lits /\ level[var(l)] <= n
    BY <1>b
  <2>2. PICK i \in 1 .. Len(trail) : trail[i] = -l /\ var(trail[i]) = var(l)
    BY <1>b, FalsePlace DEF IInv, Assigned
  <2>3. i <= Len(T)
    BY <2>1, <2>2, <1>d
  <2>4. i \in 1 .. Len(T)
    BY <2>3, <1>g
  <2> QED
    BY <2>1, <2>2, <2>4, <1>h DEF Falses
<1>k. from \in Clause /\ (from = {} => Len(L) = 0)
  BY <1>c, <1>d, <1>b DEF Clause
<1>l. Enqueues(T, L, reason, level, uip, from, trail', reason', level')
  <2>1. from \in Clause /\ (from # {} => uip \in from /\ from \ {uip} \subseteq Falses(T))
    BY <1>b, <1>j DEF Clause
  <2> HIDE DEF from
  <2>2. from = {} /\ Len(L) > 0 => L[Len(L)] = Len(T)
    BY <1>k, <2>1
  <2> QED
    BY <2>1, <2>2, <1>b, <1>e, <1>f, <1>g, <1>i DEF Enqueues
<1>m. (from # {} => Holds(given, from)) /\ (Len(L) = 0 => Holds(given, {uip}))
  <2>1. pending \cup Kept = Kept \cup {uip}
    BY <1>a
  <2>2. Kept = {} => pending \cup Kept = {uip}
    BY <1>a
  <2> QED
    BY <2>1, <2>2, <1>a, <1>c, <1>d
<1>o. /\ TypedAssignment(trail', trail_lim', reason', level')
      /\ Consistent(trail', trail_lim', reason', level')
      /\ Justified(trail', reason', level', given)
      /\ AtLevel0(trail, level) \subseteq AtLevel0(trail', level')
  <2> HIDE DEF from
  <2>1. Justified(trail', reason', level', given)
    BY <1>f, <1>l, <1>m, EnqueueJustified
  <2>2. /\ TypedAssignment(trail', L, reason', level') /\ Consistent(trail', L, reason', level')
        /\ AtLevel0(T, level) \subseteq AtLevel0(trail', level')
    BY <1>l, EnqueueConsistent
  <2> QED
    BY <2>1, <2>2, <1>e, <1>f
<1>2. TypeOK'
  <2>1. learnts' \subseteq Clause
    BY <1>0, <1>b DEF IInv, TypeOK, Clause
  <2>2. {} \in Clause
    BY DEF Clause
  <2> QED
    BY <2>1, <2>2, <1>o, <1>p, <1>u DEF IInv, TypeOK, TypedAssignment
<1>3. Assigned'
  BY <1>o, <1>u DEF Assigned
<1>4. Store'
  <2>1. NothingLost(given, clauses, AtLevel0(trail', level'))
    BY <1>o, <1>p DEF NothingLost, IInv, Store, Phases
  <2>2. StoreFollows(given, clauses, learnts')
    <3>1. Kept # {} => Holds(given, Kept \cup {uip})
      BY <1>m
    <3> QED
      BY <3>1, <1>0 DEF IInv, Store, StoreFollows
  <2>3. ok
    BY <1>p DEF IInv, Phases
  <2> QED
    BY <2>1, <2>2, <2>3, <1>u DEF Store
<1>5. Phases'
  <2>1. Assumed(trail', trail_lim', reason', level', assumptions)
    <3>1. Assumed(T, L, reason, level, assumptions) /\ assumptions \in Seq(Lits)
      BY <1>f, <1>p DEF IInv, TypeOK, Phases, Searching
    <3> HIDE DEF from
    <3>2. CASE from # {}
      BY <3>1, <3>2, <1>e, <1>l, ImpliedAssumed
    <3>3. CASE from = {}
      <4>1. Len(L) = 0
        BY <3>3, <1>k
      <4>2. DecisionsAssume(T, reason, level, assumptions)
        BY <3>1 DEF Assumed
      <4>3. \A m \in 1 .. Len(L) : FALSE
        BY <4>1
      <4>4. Assumed(trail', L, reason', level', assumptions)
        BY <3>1, <4>1, <4>2, <4>3, <1>l, EnqueueAssumed
      <4> QED
        BY <4>4, <1>e
    <3> QED
      BY <3>2, <3>3
  <2> QED
    BY <2>1, <1>p, <1>u DEF IInv, Phases, Searching
<1>6. Decides' /\ Analysis' /\ Finals' /\ Answers'
  BY <1>p, <1>u DEF IInv, Decides, Analysis, Finals, Answers
<1> QED
  BY <1>2, <1>3, <1>4, <1>5, <1>6 DEF IInv

-----------------------------------------------------------------------------
(***************************************************************************)
(* search and solve_.                                                      *)
(***************************************************************************)

LEMMA SolveStep ==
  ASSUME IInv, Solve
  PROVE  IInv'
<1>p. pc = "idle" /\ model' = {} /\ conflict' = {} /\ solved' = given
  BY DEF Solve
<1>u. UNCHANGED <<given, ok, clauses, learnts, trail, trail_lim, reason, level,
                  confl, pending, out_learnt, seen, index>>
  BY DEF Solve, database, assignment, analysis
<1>c. /\ ok => pc' = "propagate" /\ caller' = "search" /\ status' = "Undef"
      /\ ~ ok => pc' = "idle" /\ caller' = caller /\ status' = "False"
  BY DEF Solve
<1>a. assumptions' \in Seq(Lits)
  BY AssumptionsAssumption DEF Solve
<1>o. ok \in BOOLEAN
  BY DEF IInv, TypeOK
<1>2. TypeOK'
  <2>1. {} \in Clause
    BY DEF Clause
  <2>2. CASE ok
    BY <2>1, <2>2, <1>p, <1>u, <1>c, <1>a DEF IInv, TypeOK
  <2>3. CASE ~ ok
    BY <2>1, <2>3, <1>p, <1>u, <1>c, <1>a DEF IInv, TypeOK
  <2> QED
    BY <2>2, <2>3
<1>3. Assigned' /\ Store'
  BY <1>u DEF IInv, Assigned, Store
<1>4. Phases'
  <2>1. Len(trail_lim) = 0
    BY <1>p DEF IInv, Phases
  <2>2. Assumed(trail, trail_lim, reason, level, assumptions')
    <3>1. \A i \in 1 .. Len(trail) : level[var(trail[i])] = 0
      BY <2>1, NoLevel
    <3>2. DecisionsAssume(trail, reason, level, assumptions')
      BY <3>1 DEF DecisionsAssume
    <3>3. LevelsAssume(trail, trail_lim, level, assumptions')
      BY <2>1 DEF LevelsAssume
    <3> QED
      BY <3>2, <3>3 DEF Assumed
  <2> QED
    BY <2>1, <2>2, <1>p, <1>u, <1>c, <1>o DEF Phases, Searching
<1>5. Decides' /\ Analysis' /\ Finals'
  BY <1>p, <1>u, <1>c, <1>o DEF IInv, Decides, Analysis, Finals
<1>6. Answers'
  <2>1. status' = "False" => Holds(given, {})
    BY <1>c DEF IInv, Store
  <2>2. status' # "True"
    BY <1>c, <1>o
  <2> QED
    BY <2>1, <2>2, <1>p, <1>u DEF Answers
<1> QED
  BY <1>2, <1>3, <1>4, <1>5, <1>6 DEF IInv

\* cancelUntil (0) leaves an assignment of level 0 alone.
LEMMA CancelStep ==
  ASSUME IInv, cancelUntil(0), UNCHANGED given
  PROVE  /\ TypedAssignment(trail', trail_lim', reason', level')
         /\ Assigned'
         /\ Len(trail_lim') = 0
         /\ AtLevel0(trail', level') = AtLevel0(trail, level)
         /\ Assumed(trail, trail_lim, reason, level, assumptions)
              => Assumed(trail', trail_lim', reason', level', assumptions)
<1>1. /\ trail' = TrailTo(trail, trail_lim, 0) /\ trail_lim' = LimTo(trail_lim, 0)
      /\ reason' = reason /\ level' = level
  BY DEF cancelUntil, TrailUntil, LimUntil, TrailTo, LimTo, decisionLevel
<1>2. /\ TypedAssignment(trail, trail_lim, reason, level) /\ assumptions \in Seq(Lits)
      /\ Consistent(trail, trail_lim, reason, level) /\ Justified(trail, reason, level, given)
      /\ LevelsMatch(trail, trail_lim, level)
      /\ 0 \in Nat /\ 0 <= Len(trail_lim)
  BY StateTyped DEF IInv, TypeOK, Assigned, Consistent
<1>3. TypedAssignment(trail', trail_lim', reason', level') /\ Len(trail_lim') = 0
  <2>1. /\ TrailTo(trail, trail_lim, 0) \in Seq(Lits) /\ LimTo(trail_lim, 0) \in Seq(Nat)
        /\ Len(LimTo(trail_lim, 0)) = 0
    BY <1>2, CutKeeps
  <2> QED
    BY <2>1, <1>1, <1>2 DEF TypedAssignment
<1>4. /\ Consistent(TrailTo(trail, trail_lim, 0), LimTo(trail_lim, 0), reason, level)
      /\ Justified(TrailTo(trail, trail_lim, 0), reason, level, given)
      /\ Assumed(trail, trail_lim, reason, level, assumptions)
           => Assumed(TrailTo(trail, trail_lim, 0), LimTo(trail_lim, 0), reason, level, assumptions)
      /\ AtLevel0(TrailTo(trail, trail_lim, 0), level) = AtLevel0(trail, level)
  BY <1>2, CutConsistent
<1> QED
  BY <1>1, <1>3, <1>4 DEF Assigned

LEMMA RestartStep ==
  ASSUME IInv, Restart
  PROVE  IInv'
<1>p. pc = "simplify" /\ pc' = "propagate" /\ cancelUntil(0)
  BY DEF Restart
<1>u. UNCHANGED <<given, ok, clauses, learnts, caller, assumptions, confl, pending, out_learnt,
                  seen, index, conflict, solved, model, status>>
  BY DEF Restart, database, control, analysis, final, answer
<1>1. /\ TypedAssignment(trail', trail_lim', reason', level')
      /\ Assigned'
      /\ Len(trail_lim') = 0
      /\ AtLevel0(trail', level') = AtLevel0(trail, level)
      /\ Assumed(trail, trail_lim, reason, level, assumptions)
           => Assumed(trail', trail_lim', reason', level', assumptions)
  BY <1>p, <1>u, CancelStep
<1>2. TypeOK'
  BY <1>1, <1>p, <1>u DEF IInv, TypeOK, TypedAssignment
<1>3. Store'
  BY <1>1, <1>u DEF IInv, Store
<1>4. Phases'
  BY <1>1, <1>p, <1>u DEF IInv, Phases, Searching
<1>5. Decides' /\ Analysis' /\ Finals' /\ Answers'
  BY <1>p, <1>u DEF IInv, Decides, Analysis, Finals, Answers
<1> QED
  BY <1>1, <1>2, <1>3, <1>4, <1>5 DEF IInv

LEMMA SimplifyStep ==
  ASSUME IInv, Simplify
  PROVE  IInv'
<1>p. /\ pc = "simplify" /\ Len(trail_lim) = 0 /\ pc' = "reduceDB"
      /\ clauses' = {c \in clauses : ~ satisfied(c)}
      /\ learnts' = {c \in learnts : ~ satisfied(c)}
      /\ reason' = [v \in Vars |-> IF reason[v] \in clauses' \cup learnts' THEN reason[v] ELSE {}]
  BY DEF Simplify, decisionLevel, NoClause
<1>u. UNCHANGED <<given, ok, trail, trail_lim, level, caller, assumptions, confl, pending,
                  out_learnt, seen, index, conflict, solved, model, status>>
  BY DEF Simplify, control, analysis, final, answer
<1>z. \A i \in 1 .. Len(trail) : /\ level[var(trail[i])] = 0 /\ trail[i] \in Lits
                                 /\ var(trail[i]) \in Vars
  BY <1>p, NoLevel, StateTyped DEF IInv
<1>r. \A v \in Vars : reason'[v] = reason[v] \/ reason'[v] = {}
  BY <1>p
<1>2. TypeOK'
  <2>1. reason' \in [Vars -> Clause]
    BY <1>p DEF IInv, TypeOK, Clause
  <2>2. clauses' \subseteq Clause /\ learnts' \subseteq Clause
    BY <1>p DEF IInv, TypeOK
  <2> QED
    BY <2>1, <2>2, <1>p, <1>u DEF IInv, TypeOK
<1>3. Assigned'
  <2>1. ReasonsMatch(trail, trail_lim, reason', level)
    <3>1. ReasonsMatch(trail, trail_lim, reason, level)
      BY DEF IInv, Assigned, Consistent
    <3> SUFFICES ASSUME NEW i \in 1 .. Len(trail)
                 PROVE  /\ reason'[var(trail[i])] # {} =>
                             /\ trail[i] \in reason'[var(trail[i])]
                             /\ \A q \in reason'[var(trail[i])] \ {trail[i]} :
                                  \E j \in 1 .. (i - 1) : trail[j] = -q
                        /\ ~ (level[var(trail[i])] > 0)
      BY DEF ReasonsMatch
    <3>2. reason'[var(trail[i])] # {} => reason'[var(trail[i])] = reason[var(trail[i])]
      BY <1>r, <1>z
    <3>3. reason[var(trail[i])] # {} =>
            /\ trail[i] \in reason[var(trail[i])]
            /\ \A q \in reason[var(trail[i])] \ {trail[i]} : \E j \in 1 .. (i - 1) : trail[j] = -q
      BY <3>1 DEF ReasonsMatch
    <3> QED
      BY <3>2, <3>3, <1>z
  <2>2. Justified(trail, reason', level, given)
    BY <1>r, <1>z DEF IInv, Assigned, Justified
  <2> QED
    BY <2>1, <2>2, <1>u DEF IInv, Assigned, Consistent
<1>4. Store'
  <2>1. StoreFollows(given, clauses', learnts')
    BY <1>p DEF IInv, Store, StoreFollows
  <2>2. NothingLost(given, clauses', AtLevel0(trail, level))
    <3> SUFFICES ASSUME NEW a \in Assignments, Satisfies(a, clauses'), AtLevel0(trail, level) \subseteq a
                 PROVE  Satisfies(a, given)
      BY DEF NothingLost
    <3>1. ASSUME NEW c \in clauses
          PROVE  c \cap a # {}
      <4>1. CASE satisfied(c)
        <5>1. PICK l \in c : IsTrue(l)
          BY <4>1 DEF satisfied
        <5>2. l \in Lits
          BY DEF IInv, TypeOK, Clause
        <5>3. l \in AtLevel0(trail, level)
          BY <5>1, <5>2, <1>p, NoLevel
        <5> QED
          BY <5>1, <5>3
      <4>2. CASE ~ satisfied(c)
        BY <4>2, <1>p DEF Satisfies
      <4> QED
        BY <4>1, <4>2
    <3>2. ok
      BY <1>p DEF IInv, Phases
    <3> QED
      BY <3>1, <3>2 DEF IInv, Store, NothingLost, Satisfies
  <2>3. ok
    BY <1>p DEF IInv, Phases
  <2> QED
    BY <2>1, <2>2, <2>3, <1>u DEF Store
<1>5. Phases'
  <2>1. DecisionsAssume(trail, reason', level, assumptions)
    BY <1>z DEF DecisionsAssume
  <2>2. LevelsAssume(trail, trail_lim, level, assumptions)
    BY <1>p DEF LevelsAssume
  <2> QED
    BY <2>1, <2>2, <1>p, <1>u DEF IInv, Phases, Searching, Assumed
<1>6. Decides'
  <2>1. clauses' \subseteq clauses /\ learnts' \subseteq learnts
    BY <1>p
  <2> QED
    BY <2>1, <1>p, <1>u DEF IInv, Decides, NoneFalse
<1>7. Analysis' /\ Finals' /\ Answers'
  BY <1>p, <1>u DEF IInv, Analysis, Finals, Answers
<1> QED
  BY <1>2, <1>3, <1>4, <1>5, <1>6, <1>7 DEF IInv

LEMMA NoSimplifyStep ==
  ASSUME IInv, NoSimplify
  PROVE  IInv'
<1>p. pc = "simplify" /\ pc' = "reduceDB"
  BY DEF NoSimplify
<1>u. UNCHANGED <<given, ok, clauses, learnts, trail, trail_lim, reason, level, caller, assumptions,
                  confl, pending, out_learnt, seen, index, conflict, solved, model, status>>
  BY DEF NoSimplify, database, assignment, control, analysis, final, answer
<1>1. TypeOK'
  BY <1>p, <1>u DEF IInv, TypeOK
<1>2. Assigned' /\ Store' /\ Answers'
  BY <1>u DEF IInv, Assigned, Store, Answers
<1>3. Phases' /\ Decides' /\ Analysis' /\ Finals'
  BY <1>p, <1>u DEF IInv, Phases, Searching, Decides, Analysis, Finals
<1> QED
  BY <1>1, <1>2, <1>3 DEF IInv

LEMMA ReduceDBStep ==
  ASSUME IInv, reduceDB
  PROVE  IInv'
<1>p. pc = "reduceDB" /\ pc' = "decide" /\ learnts' \subseteq learnts
  BY DEF reduceDB
<1>u. UNCHANGED <<given, ok, clauses, trail, trail_lim, reason, level, caller, assumptions,
                  confl, pending, out_learnt, seen, index, conflict, solved, model, status>>
  BY DEF reduceDB, assignment, control, analysis, final, answer
<1>1. TypeOK'
  BY <1>p, <1>u DEF IInv, TypeOK
<1>2. Assigned' /\ Answers'
  BY <1>u DEF IInv, Assigned, Answers
<1>3. Store'
  BY <1>p, <1>u DEF IInv, Store, StoreFollows
<1>4. Phases' /\ Analysis' /\ Finals'
  BY <1>p, <1>u DEF IInv, Phases, Searching, Analysis, Finals
<1>5. Decides'
  BY <1>p, <1>u DEF IInv, Decides, NoneFalse
<1> QED
  BY <1>1, <1>2, <1>3, <1>4, <1>5 DEF IInv

\* An assumption is a literal.
LEMMA AssumptionTyped ==
  ASSUME IInv, Len(trail_lim) < Len(assumptions)
  PROVE  /\ Assumption = assumptions[Len(trail_lim) + 1] /\ Assumption \in Lits
         /\ Len(assumptions) \in Nat
<1>1. Len(trail_lim) \in Nat /\ assumptions \in Seq(Lits) /\ Len(assumptions) \in Nat
  BY DEF IInv, TypeOK
<1>2. Len(trail_lim) + 1 \in 1 .. Len(assumptions)
  BY <1>1
<1> QED
  BY <1>1, <1>2 DEF Assumption, decisionLevel

LEMMA AssumeTrueStep ==
  ASSUME IInv, AssumeTrue
  PROVE  IInv'
<1>p. /\ pc = "decide" /\ Len(trail_lim) < Len(assumptions) /\ IsTrue(Assumption)
      /\ trail_lim' = Append(trail_lim, Len(trail))
  BY DEF AssumeTrue, decisionLevel
<1>u. UNCHANGED <<given, ok, clauses, learnts, trail, reason, level, pc, caller, assumptions,
                  confl, pending, out_learnt, seen, index, conflict, solved, model, status>>
  BY DEF AssumeTrue, database, control, analysis, final, answer
<1> DEFINE L == Append(trail_lim, Len(trail))
<1>1. /\ TypedAssignment(trail, L, reason, level)
      /\ Consistent(trail, L, reason, level)
      /\ Len(L) = Len(trail_lim) + 1
  BY StateTyped, LevelConsistent DEF IInv, Assigned
<1> HIDE DEF L
<1>2. TypeOK'
  BY <1>1, <1>p, <1>u DEF IInv, TypeOK, TypedAssignment, L
<1>3. Assigned'
  BY <1>1, <1>p, <1>u DEF IInv, Assigned, L
<1>4. Phases'
  <2>1. Assumed(trail, trail_lim, reason, level, assumptions) /\ caller = "search"
    BY <1>p DEF IInv, Phases, Searching
  <2>2. LevelsAssume(trail, L, level, assumptions)
    <3> SUFFICES ASSUME NEW n \in 1 .. Len(L), n <= Len(assumptions)
                 PROVE  \E i \in 1 .. Len(trail) : trail[i] = assumptions[n] /\ level[var(trail[i])] <= n
      BY DEF LevelsAssume
    <3>0. Len(trail_lim) \in Nat
      BY StateTyped DEF IInv
    <3>1. CASE n \in 1 .. Len(trail_lim)
      BY <3>1, <2>1 DEF Assumed, LevelsAssume
    <3>2. CASE n = Len(trail_lim) + 1
      <4>1. PICK i \in 1 .. Len(trail) : trail[i] = assumptions[n]
        BY <3>2, <1>p, AssumptionTyped, Values DEF IInv, TypeOK
      <4>2. level[var(trail[i])] \in Nat /\ level[var(trail[i])] <= Len(trail_lim)
        BY StateTyped DEF IInv, Assigned, Consistent, LevelsMatch
      <4>3. level[var(trail[i])] <= n
        BY <4>2, <3>0, <3>2
      <4> QED
        BY <4>1, <4>3
    <3> QED
      BY <3>0, <3>1, <3>2, <1>1
  <2> QED
    BY <2>1, <2>2, <1>p, <1>u DEF IInv, Phases, Searching, Assumed, L
<1>5. Store' /\ Decides' /\ Analysis' /\ Finals' /\ Answers'
  BY <1>p, <1>u DEF IInv, Store, Decides, Analysis, Finals, Answers
<1> QED
  BY <1>2, <1>3, <1>4, <1>5 DEF IInv

\* A literal that starts a level: the next assumption, or a decision after the last one.
LEMMA NewLevel ==
  ASSUME IInv, pc = "decide", NEW l \in Lits, IsUndef(l),
         Enqueue(l, NoClause, trail, Append(trail_lim, Len(trail))),
         \/ Len(trail_lim) < Len(assumptions) /\ l = assumptions[Len(trail_lim) + 1]
         \/ Len(trail_lim) >= Len(assumptions),
         pc' = "propagate",
         UNCHANGED <<given, ok, clauses, learnts, caller, assumptions, confl, pending, out_learnt,
                     seen, index, conflict, solved, model, status>>
  PROVE  IInv'
<1> DEFINE L == Append(trail_lim, Len(trail))
<1>e. /\ trail' = Append(trail, l) /\ trail_lim' = L
      /\ reason' = [reason EXCEPT ![var(l)] = {}]
      /\ level' = [level EXCEPT ![var(l)] = Len(L)]
  BY DEF Enqueue, NoClause
<1>1. /\ TypedAssignment(trail, L, reason, level)
      /\ Consistent(trail, L, reason, level)
      /\ Len(L) = Len(trail_lim) + 1 /\ L[Len(trail_lim) + 1] = Len(trail)
  BY StateTyped, LevelConsistent DEF IInv, Assigned
<1> HIDE DEF L
<1>2. Len(trail_lim) \in Nat /\ Len(assumptions) \in Nat /\ assumptions \in Seq(Lits)
  BY DEF IInv, TypeOK
<1>3. Enqueues(trail, L, reason, level, l, {}, trail', reason', level')
  <2>1. \A i \in 1 .. Len(trail) : var(trail[i]) # var(l)
    BY Values DEF IInv, TypeOK
  <2>2. {} \in Clause
    BY DEF Clause
  <2> QED
    BY <2>1, <2>2, <1>1, <1>e DEF Enqueues
<1>4. Justified(trail', reason', level', given)
  <2>1. Len(L) # 0
    BY <1>1, <1>2
  <2>2. Justified(trail, reason, level, given)
    BY DEF IInv, Assigned
  <2> QED
    BY <2>1, <2>2, <1>3, EnqueueJustified
<1>5. /\ TypedAssignment(trail', L, reason', level')
      /\ Consistent(trail', L, reason', level')
      /\ AtLevel0(trail, level) \subseteq AtLevel0(trail', level')
  BY <1>3, EnqueueConsistent
<1>6. TypeOK'
  BY <1>5, <1>e DEF IInv, TypeOK, TypedAssignment
<1>7. Assigned'
  BY <1>4, <1>5, <1>e DEF Assigned
<1>8. Store'
  <2>1. NothingLost(given, clauses, AtLevel0(trail', level'))
    BY <1>5 DEF NothingLost, IInv, Store, Phases
  <2> QED
    BY <2>1 DEF IInv, Store
<1>9. Phases'
  <2>1. Assumed(trail, trail_lim, reason, level, assumptions) /\ caller = "search"
    BY DEF IInv, Phases, Searching
  <2>2. \A n \in 1 .. Len(L) : n <= Len(assumptions) =>
          \/ l = assumptions[n] /\ Len(L) <= n
          \/ \E i \in 1 .. Len(trail) : trail[i] = assumptions[n] /\ level[var(trail[i])] <= n
    <3> SUFFICES ASSUME NEW n \in 1 .. Len(L), n <= Len(assumptions)
                 PROVE  \/ l = assumptions[n] /\ Len(L) <= n
                        \/ \E i \in 1 .. Len(trail) : /\ trail[i] = assumptions[n]
                                                      /\ level[var(trail[i])] <= n
      OBVIOUS
    <3>1. CASE n \in 1 .. Len(trail_lim)
      BY <3>1, <2>1 DEF Assumed, LevelsAssume
    <3>2. CASE n = Len(trail_lim) + 1
      BY <3>2, <1>1, <1>2
    <3> QED
      BY <3>1, <3>2, <1>1, <1>2
  <2>3. DecisionsAssume(trail, reason, level, assumptions)
    BY <2>1 DEF Assumed
  <2>4. Len(L) <= Len(assumptions) => l = assumptions[Len(L)]
    BY <1>1, <1>2
  <2>5. Assumed(trail', L, reason', level', assumptions)
    BY <2>2, <2>3, <2>4, <1>2, <1>3, EnqueueAssumed
  <2> QED
    BY <2>1, <2>5, <1>e DEF IInv, Phases, Searching
<1>10. Decides' /\ Analysis' /\ Finals' /\ Answers'
  BY DEF IInv, Decides, Analysis, Finals, Answers
<1> QED
  BY <1>6, <1>7, <1>8, <1>9, <1>10 DEF IInv

LEMMA AssumeStep ==
  ASSUME IInv, Assume
  PROVE  IInv'
<1>1. /\ pc = "decide" /\ Len(trail_lim) < Len(assumptions) /\ IsUndef(Assumption)
      /\ Enqueue(Assumption, NoClause, trail, Append(trail_lim, Len(trail)))
      /\ pc' = "propagate"
  BY DEF Assume, decisionLevel
<1>2. UNCHANGED <<given, ok, clauses, learnts, caller, assumptions, confl, pending, out_learnt,
                  seen, index, conflict, solved, model, status>>
  BY DEF Assume, database, control, analysis, final, answer
<1>3. Assumption \in Lits /\ Assumption = assumptions[Len(trail_lim) + 1]
  BY <1>1, AssumptionTyped
<1> QED
  BY <1>1, <1>2, <1>3, NewLevel

LEMMA DecideStep ==
  ASSUME IInv, Decide
  PROVE  IInv'
<1>1. PICK l \in Lits : IsUndef(l) /\ Enqueue(l, NoClause, trail, Append(trail_lim, Len(trail)))
  BY DEF Decide
<1>2. pc = "decide" /\ Len(trail_lim) >= Len(assumptions) /\ pc' = "propagate"
  BY DEF Decide, decisionLevel
<1>3. UNCHANGED <<given, ok, clauses, learnts, caller, assumptions, confl, pending, out_learnt,
                  seen, index, conflict, solved, model, status>>
  BY DEF Decide, database, control, analysis, final, answer
<1> QED
  BY <1>1, <1>2, <1>3, NewLevel

\* The end of level 0 is a place of the trail; a literal up to there is of level 0, and
\* one after it is not.
LEMMA EndOfLevel0Place ==
  ASSUME IInv
  PROVE  /\ EndOfLevel0(trail, trail_lim) \in Nat
         /\ EndOfLevel0(trail, trail_lim) <= Len(trail)
         /\ EndOfLevel0(trail, trail_lim) = LastOfLevel0
         /\ \A i \in 1 .. Len(trail) :
              i <= EndOfLevel0(trail, trail_lim) <=> level[var(trail[i])] = 0
<1>t. trail_lim \in Seq(Nat) /\ Len(trail_lim) \in Nat /\ Len(trail) \in Nat
      /\ \A i \in 1 .. Len(trail) : level[var(trail[i])] \in Nat
  BY StateTyped DEF IInv, TypeOK
<1>l. EndOfLevel0(trail, trail_lim) = LastOfLevel0
  BY DEF EndOfLevel0, LastOfLevel0, decisionLevel
<1>1. CASE Len(trail_lim) = 0
  <2>1. \A i \in 1 .. Len(trail) : level[var(trail[i])] = 0
    BY <1>1, NoLevel
  <2> QED
    BY <2>1, <1>1, <1>t, <1>l DEF EndOfLevel0
<1>2. CASE Len(trail_lim) # 0
  <2>1. 1 \in 1 .. Len(trail_lim) /\ trail_lim[1] \in Nat
    BY <1>2, <1>t
  <2>2. trail_lim[1] <= Len(trail)
    BY <2>1 DEF IInv, Assigned, Consistent, LevelsMatch
  <2>3. \A i \in 1 .. Len(trail) : 1 <= level[var(trail[i])] <=> trail_lim[1] < i
    BY <2>1 DEF IInv, Assigned, Consistent, LevelsMatch
  <2>4. \A i \in 1 .. Len(trail) : i <= trail_lim[1] <=> level[var(trail[i])] = 0
    <3> SUFFICES ASSUME NEW i \in 1 .. Len(trail)
                 PROVE  i <= trail_lim[1] <=> level[var(trail[i])] = 0
      OBVIOUS
    <3> DEFINE v == level[var(trail[i])]
    <3>1. (1 <= v <=> trail_lim[1] < i) /\ v \in Nat
      BY <2>3, <1>t
    <3> HIDE DEF v
    <3>2. i <= trail_lim[1] <=> v = 0
      BY <3>1, <2>1
    <3> QED
      BY <3>2 DEF v
  <2> QED
    BY <2>1, <2>2, <2>4, <1>2, <1>l DEF EndOfLevel0
<1> QED
  BY <1>1, <1>2

LEMMA AssumeFalseStep ==
  ASSUME IInv, AssumeFalse
  PROVE  IInv'
<1> DEFINE A == Assumption
<1>p. /\ pc = "decide" /\ Len(trail_lim) < Len(assumptions) /\ IsFalse(A)
      /\ conflict' = {-A} /\ seen' = (IF Len(trail_lim) = 0 THEN {} ELSE {var(A)})
      /\ index' = Len(trail) /\ pc' = "analyzeFinal"
  BY DEF AssumeFalse, decisionLevel
<1>u. UNCHANGED <<given, ok, clauses, learnts, trail, trail_lim, reason, level, caller, assumptions,
                  confl, pending, out_learnt, solved, model, status>>
  BY DEF AssumeFalse, database, assignment, control, analysis, answer
<1>a. /\ A = assumptions[Len(trail_lim) + 1] /\ A \in Lits /\ A \in Falses(trail)
      /\ -A \in Lits /\ var(A) \in Vars /\ Len(trail) \in Nat
  BY <1>p, AssumptionTyped, Values, Literals DEF IInv, TypeOK
<1> HIDE DEF A
<1>2. TypeOK'
  BY <1>a, <1>p, <1>u DEF IInv, TypeOK, Clause
<1>3. Assigned' /\ Store'
  BY <1>u DEF IInv, Assigned, Store
<1>4. Phases' /\ Decides' /\ Analysis'
  BY <1>p, <1>u DEF IInv, Phases, Searching, Decides, Analysis
<1>5. Finals'
  <2>1. -A \in Negated(assumptions)
    <3>1. Len(trail_lim) + 1 \in 1 .. Len(assumptions)
      BY <1>p DEF IInv, TypeOK
    <3> QED
      BY <3>1, <1>a DEF Negated
  <2>2. Holds(given, {-A} \cup Unexplained(trail, Len(trail), seen'))
    <3> SUFFICES ASSUME NEW a \in Assignments, Satisfies(a, given), -A \notin a
                 PROVE  Unexplained(trail, Len(trail), seen') \cap a # {}
      BY DEF Holds
    <3>1. A \in a
      BY <1>a, OneOfTwo
    <3>2. Len(trail_lim) # 0
      BY <3>1, <1>a, NoLevel
    <3>3. A \in Unexplained(trail, Len(trail), seen')
      BY <3>2, <1>a, <1>p DEF Unexplained, Falses
    <3> QED
      BY <3>1, <3>3
  <2> QED
    BY <2>1, <2>2, <1>a, <1>p, <1>u, EndOfLevel0Place DEF Finals
<1>6. Answers'
  <2>1. status = "Undef"
    BY <1>p DEF IInv, Phases, Searching
  <2> QED
    BY <2>1, <1>u DEF Answers
<1> QED
  BY <1>2, <1>3, <1>4, <1>5, <1>6 DEF IInv

LEMMA ModelFoundStep ==
  ASSUME IInv, ModelFound
  PROVE  IInv'
<1>p. /\ pc = "decide" /\ Len(trail_lim) >= Len(assumptions)
      /\ (\A l \in Lits : ~ IsUndef(l))
      /\ model' = Trues /\ status' = "True" /\ pc' = "idle" /\ cancelUntil(0)
  BY DEF ModelFound, decisionLevel
<1>u. UNCHANGED <<given, ok, clauses, learnts, caller, assumptions, confl, pending, out_learnt,
                  seen, index, conflict, solved>>
  BY DEF ModelFound, database, control, analysis, final
<1>1. /\ TypedAssignment(trail', trail_lim', reason', level')
      /\ Assigned'
      /\ Len(trail_lim') = 0
      /\ AtLevel0(trail', level') = AtLevel0(trail, level)
  BY <1>p, <1>u, CancelStep
<1>t. trail \in Seq(Lits) /\ \A i \in 1 .. Len(trail) : trail[i] \in Lits
  BY DEF IInv, TypeOK
<1>a. Trues \subseteq Lits
  BY <1>t DEF Trues
<1>b. \A l \in Lits : IsTrue(l) \/ IsFalse(l)
  BY <1>p DEF IsUndef
<1>c. Trues \in Assignments
  <2>1. ASSUME NEW v \in Vars
        PROVE  (v \in Trues) # (-v \in Trues)
    <3>1. v \in Lits
      BY DEF Lits
    <3>2. v \in Trues \/ -v \in Trues
      BY <3>1, <1>b DEF IsTrue, IsFalse
    <3>3. ~ (v \in Trues /\ -v \in Trues)
      <4>1. SUFFICES ASSUME v \in Trues, -v \in Trues
                     PROVE  FALSE
        OBVIOUS
      <4>2. PICK i \in 1 .. Len(trail) : trail[i] = v
        BY <4>1 DEF Trues
      <4>3. v \in Falses(trail)
        BY <4>1, <3>1 DEF Trues, Falses
      <4>4. trail[i] \notin Falses(trail)
        BY <1>t, NotBoth DEF IInv, Assigned, Consistent
      <4> QED
        BY <4>2, <4>3, <4>4
    <3> QED
      BY <3>2, <3>3
  <2> QED
    BY <2>1, <1>a DEF Assignments
<1>d. Satisfies(Trues, given)
  <2>1. ASSUME NEW c \in clauses
        PROVE  c \cap Trues # {}
    <3>1. ~ (c \subseteq Falses(trail)) /\ c \subseteq Lits
      BY <1>p DEF IInv, TypeOK, Clause, Decides, NoneFalse
    <3>2. PICK l \in c : l \notin Falses(trail) /\ l \in Lits
      BY <3>1
    <3>3. IsTrue(l)
      BY <3>2, <1>b, <1>t, Values
    <3> QED
      BY <3>2, <3>3 DEF IsTrue
  <2>2. AtLevel0(trail, level) \subseteq Trues
    BY DEF AtLevel0, Trues
  <2>3. NothingLost(given, clauses, AtLevel0(trail, level))
    BY <1>p DEF IInv, Phases, Store
  <2> QED
    BY <2>1, <2>2, <2>3, <1>c DEF NothingLost, Satisfies
<1>e. \A i \in 1 .. Len(assumptions) : assumptions[i] \in Trues
  <2>1. LevelsAssume(trail, trail_lim, level, assumptions)
    BY <1>p DEF IInv, Phases, Searching, Assumed
  <2>2. \A i \in 1 .. Len(assumptions) : i \in 1 .. Len(trail_lim)
    BY <1>p DEF IInv, TypeOK
  <2> QED
    BY <2>1, <2>2 DEF LevelsAssume, Trues
<1>2. TypeOK'
  BY <1>1, <1>a, <1>p, <1>u DEF IInv, TypeOK, TypedAssignment, Clause
<1>3. Store'
  BY <1>1, <1>u DEF IInv, Store
<1>4. Phases' /\ Decides' /\ Analysis' /\ Finals'
  BY <1>1, <1>p, <1>u DEF IInv, Phases, Searching, Decides, Analysis, Finals
<1>5. Answers'
  <2>1. solved = given
    BY <1>p DEF IInv, Phases, Searching
  <2> QED
    BY <2>1, <1>c, <1>d, <1>e, <1>p, <1>u DEF Answers
<1> QED
  BY <1>1, <1>2, <1>3, <1>4, <1>5 DEF IInv

\* A literal analyzeFinal comes to is above level 0; what it leaves to explain are the
\* literals of the reason assigned before.
LEMMA ExplainStep ==
  ASSUME IInv, Explain
  PROVE  IInv'
<1> DEFINE p == trail[index]
           x == var(trail[index])
           r == reason[x]
           others == {v \in {var(l) : l \in r} : level[v] > 0}
<1>p. /\ pc = "analyzeFinal" /\ index > LastOfLevel0
      /\ conflict' = (IF x \in seen /\ r = {} THEN conflict \cup {-p} ELSE conflict)
      /\ seen' = (IF x \in seen THEN seen \cup others ELSE seen) \ {x}
      /\ index' = index - 1
  BY DEF Explain, NoClause
<1>u. UNCHANGED <<given, ok, clauses, learnts, trail, trail_lim, reason, level, pc, caller,
                  assumptions, confl, pending, out_learnt, solved, model, status>>
  BY DEF Explain, database, assignment, control, analysis, answer
<1>f. /\ EndOfLevel0(trail, trail_lim) <= index /\ index <= Len(trail)
      /\ Len(trail_lim) < Len(assumptions)
      /\ conflict \subseteq Negated(assumptions)
      /\ Holds(given, conflict \cup Unexplained(trail, index, seen))
  BY <1>p DEF IInv, Finals
<1>i. /\ index \in Nat /\ index - 1 \in Nat /\ index \in 1 .. Len(trail)
      /\ EndOfLevel0(trail, trail_lim) <= index - 1 /\ Len(trail) \in Nat
      /\ level[x] # 0
  <2>1. index \in Nat /\ Len(trail) \in Nat
    BY DEF IInv, TypeOK
  <2>2. /\ EndOfLevel0(trail, trail_lim) \in Nat /\ EndOfLevel0(trail, trail_lim) = LastOfLevel0
        /\ \A i \in 1 .. Len(trail) :
             i <= EndOfLevel0(trail, trail_lim) <=> level[var(trail[i])] = 0
    BY EndOfLevel0Place
  <2>3. index \in 1 .. Len(trail) /\ index - 1 \in Nat
        /\ EndOfLevel0(trail, trail_lim) <= index - 1 /\ ~ (index <= EndOfLevel0(trail, trail_lim))
    BY <2>1, <2>2, <1>f, <1>p
  <2> QED
    BY <2>1, <2>2, <2>3
<1>v. /\ p \in Lits /\ -p \in Lits /\ x \in Vars /\ level[x] \in Nat /\ r \subseteq Lits
      /\ level[x] <= Len(trail_lim) /\ Len(trail_lim) \in Nat
  <2>1. p \in Lits /\ x \in Vars /\ level[x] \in Nat
    BY <1>i, StateTyped DEF IInv
  <2>2. r \subseteq Lits
    BY <2>1 DEF IInv, TypeOK, Clause
  <2>3. level[x] <= Len(trail_lim)
    BY <1>i DEF IInv, Assigned, Consistent, LevelsMatch
  <2> QED
    BY <2>1, <2>2, <2>3, Literals DEF IInv, TypeOK
<1>r. r # {} => /\ p \in r /\ Holds(given, r)
                /\ \A q \in r \ {p} : \E j \in 1 .. (index - 1) : trail[j] = -q
  BY <1>i DEF IInv, Assigned, Consistent, ReasonsMatch, Justified
<1>d. \A j \in 1 .. (index - 1) : j \in 1 .. Len(trail) /\ var(trail[j]) # x
  <2>1. \A j \in 1 .. (index - 1) : j \in 1 .. Len(trail) /\ j # index
    BY <1>i
  <2> QED
    BY <2>1, <1>i DEF IInv, Assigned, Consistent, Distinct
<1>s. seen' \subseteq Vars
  <2>1. others \subseteq Vars
    BY <1>v, Literals
  <2> HIDE DEF others
  <2> QED
    BY <2>1, <1>p DEF IInv, TypeOK
<1>n. r = {} => -p \in Negated(assumptions)
  <2> SUFFICES ASSUME r = {}
               PROVE  -p \in Negated(assumptions)
    OBVIOUS
  <2>1. DecisionsAssume(trail, reason, level, assumptions)
    BY <1>p DEF IInv, Phases, Searching, Assumed
  <2> DEFINE k == level[x]
  <2>2. k \in Nat /\ k # 0 /\ k <= Len(trail_lim)
    BY <1>i, <1>v
  <2>3. Len(assumptions) \in Nat
    BY DEF IInv, TypeOK
  <2> HIDE DEF k
  <2>4. k > 0 /\ k <= Len(assumptions) /\ k \in 1 .. Len(assumptions)
    BY <2>2, <2>3, <1>f, <1>v
  <2>5. p = assumptions[k]
    BY <2>1, <2>4, <1>i DEF DecisionsAssume, k
  <2> QED
    BY <2>4, <2>5 DEF Negated
<1>2. TypeOK'
  BY <1>i, <1>p, <1>s, <1>u, <1>v DEF IInv, TypeOK, Clause
<1>3. Assigned' /\ Store' /\ Decides' /\ Analysis'
  BY <1>p, <1>u DEF IInv, Assigned, Store, Decides, Analysis
<1>4. Phases'
  BY <1>p, <1>u DEF IInv, Phases, Searching
<1>5. Finals'
  <2>1. conflict' \subseteq Negated(assumptions)
    BY <1>f, <1>n, <1>p
  <2>2. Holds(given, conflict' \cup Unexplained(trail, index - 1, seen'))
    <3> SUFFICES ASSUME NEW a \in Assignments, Satisfies(a, given),
                        conflict' \cap a = {}
                 PROVE  \E k \in Unexplained(trail, index - 1, seen') : k \in a
      BY DEF Holds
    <3>1. conflict \subseteq conflict'
      BY <1>p
    <3>2. PICK q \in Unexplained(trail, index, seen) : q \in a
      BY <3>1, <1>f DEF Holds
    <3>3. PICK j \in 1 .. index : trail[j] = -q /\ q \in Lits /\ var(q) \in seen
      BY <3>2 DEF Unexplained
    <3>4. CASE j # index
      <4>1. j \in 1 .. (index - 1)
        BY <3>3, <3>4, <1>i
      <4>2. var(q) # x
        BY <4>1, <3>3, <1>d, Literals
      <4>3. var(q) \in seen'
        BY <4>2, <3>3, <1>p
      <4> QED
        BY <4>1, <4>3, <3>2, <3>3 DEF Unexplained
    <3>5. CASE j = index
      <4>1. p = -q /\ q = -p /\ x = var(q) /\ x \in seen /\ -p \in a
        BY <3>2, <3>3, <3>5, Literals
      <4>2. r # {}
        BY <4>1, <1>p
      <4>3. PICK k \in r : k \in a
        BY <4>2, <1>r DEF Holds
      <4>4. k # p /\ k \in Lits
        BY <4>1, <4>3, <1>v, OneOfTwo
      <4>5. PICK m \in 1 .. (index - 1) : trail[m] = -k
        BY <4>2, <4>3, <4>4, <1>r
      <4>6. m \in 1 .. Len(trail) /\ var(trail[m]) # x /\ var(k) # x
        BY <4>4, <4>5, <1>d, Literals
      <4>7. k \in Falses(trail)
        BY <4>4, <4>5, <4>6 DEF Falses
      <4>8. level[var(k)] # 0 /\ level[var(k)] \in Nat
        BY <4>3, <4>7, FalseAtLevel0, FalsePlace DEF IInv, Assigned, TypeOK
      <4>9. var(k) \in others
        BY <4>3, <4>8
      <4>10. var(k) \in seen'
        BY <4>1, <4>6, <4>9, <1>p
      <4> QED
        BY <4>3, <4>4, <4>5, <4>10 DEF Unexplained
    <3> QED
      BY <3>4, <3>5
  <2>3. index - 1 <= Len(trail)
    BY <1>i
  <2> QED
    BY <2>1, <2>2, <2>3, <1>f, <1>i, <1>p, <1>u DEF Finals
<1>6. Answers'
  <2>1. status = "Undef"
    BY <1>p DEF IInv, Phases, Searching
  <2> QED
    BY <2>1, <1>u DEF Answers
<1> QED
  BY <1>2, <1>3, <1>4, <1>5, <1>6 DEF IInv

LEMMA RefutedStep ==
  ASSUME IInv, Refuted
  PROVE  IInv'
<1>p. /\ pc = "analyzeFinal" /\ index = LastOfLevel0
      /\ status' = "False" /\ pc' = "idle" /\ cancelUntil(0)
      /\ index' = 0 /\ seen' = {}
  BY DEF Refuted
<1>u. UNCHANGED <<given, ok, clauses, learnts, caller, assumptions, confl, pending, out_learnt,
                  conflict, solved, model>>
  BY DEF Refuted, database, control, analysis
<1>1. /\ TypedAssignment(trail', trail_lim', reason', level')
      /\ Assigned'
      /\ Len(trail_lim') = 0
      /\ AtLevel0(trail', level') = AtLevel0(trail, level)
  BY <1>p, <1>u, CancelStep
<1>2. TypeOK'
  BY <1>1, <1>p, <1>u DEF IInv, TypeOK, TypedAssignment
<1>3. Store'
  BY <1>1, <1>u DEF IInv, Store
<1>4. Phases' /\ Decides' /\ Analysis' /\ Finals'
  BY <1>1, <1>p, <1>u DEF IInv, Phases, Searching, Decides, Analysis, Finals
<1>5. Holds(given, conflict)
  <2>1. Holds(given, conflict \cup Unexplained(trail, index, seen))
    BY <1>p DEF IInv, Finals
  <2>2. \A i \in 1 .. index : i \in 1 .. Len(trail) /\ level[var(trail[i])] = 0
    <3>1. \A i \in 1 .. index : i \in 1 .. Len(trail) /\ i <= EndOfLevel0(trail, trail_lim)
      BY <1>p, EndOfLevel0Place, StateTyped DEF IInv
    <3> QED
      BY <3>1, EndOfLevel0Place
  <2>3. ASSUME NEW a \in Assignments, Satisfies(a, given), NEW q \in Unexplained(trail, index, seen)
        PROVE  q \notin a
    <3>1. PICK j \in 1 .. index : trail[j] = -q /\ q \in Lits
      BY DEF Unexplained
    <3>2. q \in Falses(trail) /\ level[var(q)] = 0
      BY <3>1, <2>2, Literals DEF Falses
    <3> QED
      BY <2>3, <3>2, FalseAtLevel0 DEF IInv, TypeOK, Assigned
  <2> QED
    BY <2>1, <2>3 DEF Holds
<1>6. Answers'
  <2>1. conflict \subseteq Negated(assumptions)
    BY <1>p DEF IInv, Finals
  <2> QED
    BY <2>1, <1>5, <1>p, <1>u DEF Answers
<1> QED
  BY <1>1, <1>2, <1>3, <1>4, <1>5, <1>6 DEF IInv

-----------------------------------------------------------------------------
(***************************************************************************)
(* The invariant, and what it says of the answers.                         *)
(***************************************************************************)

LEMMA InitInvariant == Init => IInv
<1> SUFFICES ASSUME Init
             PROVE  IInv
  OBVIOUS
<1> USE DEF Init, NoClause
<1>1. Len(trail) = 0 /\ Len(trail_lim) = 0 /\ trail \in Seq(Lits) /\ trail_lim \in Seq(Nat)
      /\ assumptions \in Seq(Lits)
  OBVIOUS
<1>2. TypeOK
  BY <1>1 DEF TypeOK, Clause
<1>3. Consistent(trail, trail_lim, reason, level) /\ Justified(trail, reason, level, given)
  BY <1>1 DEF Consistent, Distinct, LevelsMatch, ReasonsMatch, Justified
<1>4. Store
  BY DEF Store, StoreFollows, NothingLost, Satisfies
<1>5. Phases /\ Decides /\ Analysis /\ Finals /\ Answers
  BY <1>1 DEF Phases, Searching, Decides, Analysis, Finals, Answers
<1> QED
  BY <1>2, <1>3, <1>4, <1>5 DEF IInv, Assigned

LEMMA NextInvariant == IInv /\ [Next]_vars => IInv'
<1> SUFFICES ASSUME IInv, [Next]_vars
             PROVE  IInv'
  OBVIOUS
<1>1. CASE UNCHANGED vars
  <2>1. UNCHANGED <<given, ok, clauses, learnts, trail, trail_lim, reason, level, pc, caller,
                    assumptions, confl, pending, out_learnt, seen, index, conflict, solved,
                    model, status>>
    BY <1>1 DEF vars, database, assignment, control, analysis, final, answer
  <2>2. TypeOK' /\ Assigned'
    BY <2>1 DEF IInv, TypeOK, Assigned
  <2>3. Store' /\ Phases' /\ Decides'
    BY <2>1 DEF IInv, Store, Phases, Searching, Decides
  <2>4. Analysis' /\ Finals' /\ Answers'
    BY <2>1 DEF IInv, Analysis, Finals, Answers
  <2> QED
    BY <2>2, <2>3, <2>4 DEF IInv
<1>2. CASE AddClause
  <2>1. PICK c \in UNION Problems : AddRedundant(c) \/ AddEmpty(c) \/ AddUnit(c) \/ AddLong(c)
    BY <1>2 DEF AddClause
  <2> QED
    BY <2>1, AddRedundantStep, AddEmptyStep, AddUnitStep, AddLongStep
<1>3. CASE Imply \/ Propagated \/ Contradiction \/ Conflict
  BY <1>3, ImplyStep, PropagatedStep, ContradictionStep, ConflictStep
<1>4. CASE Resolve \/ FirstUIP \/ Learn
  BY <1>4, ResolveStep, FirstUIPStep, LearnStep
<1>5. CASE Solve \/ Restart \/ Simplify \/ NoSimplify \/ reduceDB
  BY <1>5, SolveStep, RestartStep, SimplifyStep, NoSimplifyStep, ReduceDBStep
<1>6. CASE AssumeTrue \/ Assume \/ AssumeFalse \/ Decide \/ ModelFound
  BY <1>6, AssumeTrueStep, AssumeStep, AssumeFalseStep, DecideStep, ModelFoundStep
<1>7. CASE Explain \/ Refuted
  BY <1>7, ExplainStep, RefutedStep
<1> QED
  BY <1>1, <1>2, <1>3, <1>4, <1>5, <1>6, <1>7 DEF Next

\* The invariant holds of every state the solver reaches.
THEOREM SpecIInv == Spec => []IInv
BY InitInvariant, NextInvariant, PTL DEF Spec

LEMMA HoldsIsFollows ==
  ASSUME NEW c
  PROVE  Holds(given, c) <=> Follows(c)
BY DEF Holds, Follows

\* The solver loses no clause and invents none (clauses stored, learnt, dropped and
\* simplified; literals implied at level 0), however many calls came before.
THEOREM SpecSameSolutions == Spec => []SameSolutions
<1>1. IInv => SameSolutions
  <2> SUFFICES ASSUME IInv
               PROVE  SameSolutions
    OBVIOUS
  <2>1. \A c \in Database : Follows(c)
    BY Stored, HoldsIsFollows
  <2>2. \A l \in Level0 : l \in AtLevel0(trail, level) /\ Follows({l})
    <3> SUFFICES ASSUME NEW l \in Level0
                 PROVE  l \in AtLevel0(trail, level) /\ Follows({l})
      OBVIOUS
    <3>1. PICK i \in 1 .. Len(trail) : trail[i] = l /\ level[var(l)] = 0
      BY DEF Level0, Trues
    <3>2. l \in Lits
      BY <3>1 DEF IInv, TypeOK
    <3>3. Holds(given, {l})
      BY <3>1 DEF IInv, Assigned, Justified
    <3> QED
      BY <3>1, <3>2, <3>3, HoldsIsFollows DEF AtLevel0
  <2>3. AtLevel0(trail, level) \subseteq Level0
    BY DEF AtLevel0, Level0, Trues
  <2>4. ok => \A a \in Assignments :
                Satisfies(a, clauses) /\ Level0 \subseteq a => Satisfies(a, given)
    BY <2>3 DEF IInv, Store, NothingLost
  <2>5. ~ ok => Follows({})
    BY HoldsIsFollows DEF IInv, Store
  <2> QED
    BY <2>1, <2>2, <2>4, <2>5 DEF SameSolutions
<1> QED
  BY <1>1, SpecIInv, PTL

\* Every answer of solve_ is sound: a model satisfies the clauses given and the assumptions;
\* a final conflict is made of negated assumptions and follows from the clauses given.
THEOREM SpecAnswerSound == Spec => []AnswerSound
<1>1. IInv => AnswerSound
  BY HoldsIsFollows DEF IInv, Answers, AnswerSound, Negated
<1> QED
  BY <1>1, SpecIInv, PTL
=============================================================================
