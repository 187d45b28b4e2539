---------------------------- MODULE WatchesProofs ---------------------------
(***************************************************************************)
(* Proofs about Watches, for every set of variables, every sequence of     *)
(* clauses and every set of decisions: propagate misses no unit clause and *)
(* no conflict.                                                            *)
(***************************************************************************)
EXTENDS Watches, FiniteSetTheorems, FunctionTheorems, SequenceTheorems,
        WellFoundedInduction, TLAPS

-----------------------------------------------------------------------------
(***************************************************************************)
(* The inductive invariant.  Its parts are operators of the clauses cs,    *)
(* the removed references R, the lists ws with the marked ones D, the      *)
(* trail t with the level starts lim, and the reasons rs, so that a lemma  *)
(* can state them of the next state.                                       *)
(***************************************************************************)

TypeOK ==
  /\ ca \in Seq(Seq(Lits)) /\ removed \subseteq 1 .. Len(ca)
  /\ watches \in [Lits -> Seq(Nat \X Lits)] /\ dirty \subseteq Lits
  /\ trail \in Seq(Lits) /\ trail_lim \in Seq(Nat) /\ qhead \in Nat
  /\ reason \in [Vars -> Nat]
  /\ pc \in {"search", "propagate", "visit", "conflict"} /\ kept \in Nat

(* No variable is assigned twice; the levels start one after the other on  *)
(* the trail, and what is still to be propagated is of the current level.  *)
Distinct(t) == \A i, j \in 1 .. Len(t) : var(t[i]) = var(t[j]) => i = j
Rising(t, lim, q) ==
  /\ q <= Len(t)
  /\ \A n \in 1 .. Len(lim) : lim[n] <= q
  /\ \A m, n \in 1 .. Len(lim) : m <= n => lim[m] <= lim[n]
Visiting ==
  pc = "visit" => /\ 0 < qhead /\ kept <= Len(watches[p])
                  /\ \A n \in 1 .. Len(trail_lim) : trail_lim[n] < qhead

(* The literals of a clause are different; it is in the lists of the first *)
(* two, once in each, and in no other.  Removed clauses are in marked      *)
(* lists only.                                                             *)
LitsIn(c) == {c[k] : k \in 1 .. Len(c)}
Clauses(cs, R) ==
  \A cr \in (1 .. Len(cs)) \ R : Len(cs[cr]) > 1 /\ IsInjective(cs[cr])
Entry(cs, R, l, w) ==
  /\ w[1] \in 1 .. Len(cs)
  /\ w[1] \notin R => l \in {-cs[w[1]][1], -cs[w[1]][2]} /\ w[2] \in LitsIn(cs[w[1]])
Listed(cs, R, ws) == \A l \in Lits : \A k \in 1 .. Len(ws[l]) : Entry(cs, R, l, ws[l][k])
Holds(list, cr) == \E k \in 1 .. Len(list) : list[k][1] = cr
Watching(cs, R, ws) ==
  \A cr \in (1 .. Len(cs)) \ R : Holds(ws[-cs[cr][1]], cr) /\ Holds(ws[-cs[cr][2]], cr)
OnceIn(list) == \A j, k \in 1 .. Len(list) : list[j][1] = list[k][1] => j = k
Once(ws) == \A l \in Lits : OnceIn(ws[l])
Clean(R, ws, D) == \A l \in Lits \ D : \A k \in 1 .. Len(ws[l]) : ws[l][k][1] \notin R
Lists(cs, R, ws, D) ==
  Clauses(cs, R) /\ Listed(cs, R, ws) /\ Watching(cs, R, ws) /\ Once(ws) /\ Clean(R, ws, D)

(* A clause that is listed at literal i of the trail, its negation, is     *)
(* safe when a literal is true that no backjump unassigns before that one. *)
NoHigher(lim, j, i) == \A n \in 1 .. Len(lim) : lim[n] < j => lim[n] < i
Safe(t, lim, i, C) == \E j \in 1 .. Len(t) : t[j] \in C /\ NoHigher(lim, j, i)
(* The watch k in the list of literal i of the trail has been visited.     *)
Visited(i, k) ==
  \/ pc \in {"search", "propagate"} /\ i <= qhead
  \/ pc = "visit" /\ (i < qhead \/ (i = qhead /\ k <= kept))
  \/ pc = "conflict" /\ \E n \in 1 .. Len(trail_lim) : i <= trail_lim[n]
VisitedSafe ==
  \A i \in 1 .. Len(trail) : \A k \in 1 .. Len(watches[trail[i]]) :
    Visited(i, k) /\ watches[trail[i]][k][1] \notin removed
      => Safe(trail, trail_lim, i, LitsIn(ca[watches[trail[i]][k][1]]))

(* The literal a reason implied is its first.                              *)
ReasonsFirst(cs, t, rs) ==
  \A i \in 1 .. Len(t) : rs[var(t[i])] # None =>
    rs[var(t[i])] \in 1 .. Len(cs) /\ cs[rs[var(t[i])]][1] = t[i]

IInv ==
  /\ TypeOK
  /\ Distinct(trail) /\ Rising(trail, trail_lim, qhead) /\ Visiting
  /\ pc # "search" => dirty = {}
  /\ Lists(ca, removed, watches, dirty)
  /\ VisitedSafe
  /\ ReasonsFirst(ca, trail, reason)

-----------------------------------------------------------------------------
(***************************************************************************)
(* Literals and sequences.                                                 *)
(***************************************************************************)

\* A literal has a variable and a negation, and nothing else has that variable.
LEMMA Literals ==
  ASSUME NEW l \in Lits
  PROVE  /\ l \in Int /\ l # None /\ -l \in Lits /\ -(-l) = l /\ l # -l
         /\ var(l) \in Vars /\ var(-l) = var(l)
         /\ \A k \in Lits : var(k) = var(l) => k = l \/ k = -l
         /\ \A k \in Lits : (k = -l <=> l = -k) /\ (-k = -l => k = l)
BY VarsAssumption DEF Lits, var, None

\* Every set of natural numbers has a least element.
LEMMA Smallest ==
  ASSUME NEW S \in SUBSET Nat, S # {}
  PROVE  \E n \in S : \A k \in S : n <= k
<1> DEFINE LT == {ss \in Nat \X Nat : ss[1] < ss[2]}
<1>1. IsWellFoundedOn(LT, Nat)
  BY NatLessThanWellFounded DEF OpToRel
<1> HIDE DEF LT
<1>2. PICK n \in S : \A k \in S : ~ (<<k, n>> \in LT)
  BY <1>1, WFMin
<1>3. \A k \in S : k < n => <<k, n>> \in LT
  BY DEF LT
<1>4. n \in Nat /\ \A k \in S : k \in Nat
  OBVIOUS
<1>5. \A k \in S : ~ (k < n)
  BY <1>2, <1>3
<1> QED
  BY <1>4, <1>5

\* A property that the lengths up to n inherit from the ones before holds of n.
LEMMA Upwards ==
  ASSUME NEW n \in Nat, NEW Good, 0 \in Good,
         \A i \in 1 .. n : i - 1 \in Good => i \in Good
  PROVE  \A i \in 0 .. n : i \in Good
<1> DEFINE Bad == {i \in 0 .. n : i \notin Good}
<1> SUFFICES ASSUME Bad # {} PROVE FALSE
  OBVIOUS
<1>1. PICK m \in Bad : \A k \in Bad : m <= k
  <2>1. Bad \in SUBSET Nat
    OBVIOUS
  <2> HIDE DEF Bad
  <2> QED
    BY <2>1, Smallest
<1>2. m \in 1 .. n /\ m - 1 \in 0 .. n /\ ~ (m <= m - 1)
  BY <1>1
<1>3. m - 1 \in Good
  BY <1>1, <1>2
<1> QED
  BY <1>1, <1>2, <1>3

\* The loop of Without, whose result after i elements is the value at i.
Copies(f, s, bad) ==
  /\ f[0] = <<>>
  /\ \A i \in 1 .. Len(s) :
       f[i] = IF s[i] \in bad THEN f[i - 1] ELSE Append(f[i - 1], s[i])
\* Without is such a loop.
LEMMA WithoutCopies ==
  ASSUME NEW S, NEW s \in Seq(S), NEW bad
  PROVE  \E f : Copies(f, s, bad) /\ Without(s, bad) = f[Len(s)]
<1> DEFINE N == Len(s)
           Next1(i, t) == IF s[i] \in bad THEN t ELSE Append(t, s[i])
           Approx(n, f) == /\ f \in [0 .. n -> Seq(S)] /\ f[0] = <<>>
                           /\ \A i \in 1 .. n : f[i] = Next1(i, f[i - 1])
           Good == {n \in 0 .. N : \E f : Approx(n, f)}
           Rec(f) == [i \in 0 .. N |-> IF i = 0 THEN <<>> ELSE Next1(i, f[i - 1])]
           c == CHOOSE g : g = Rec(g)
<1>1. N \in Nat
  OBVIOUS
<1>8. Without(s, bad) = c[N]
  BY DEF Without
<1>2. 0 \in Good
  <2> DEFINE g == [i \in 0 .. 0 |-> <<>>]
  <2>1. g \in [0 .. 0 -> Seq(S)] /\ g[0] = <<>> /\ 1 .. 0 = {}
    OBVIOUS
  <2>2. Approx(0, g)
    BY <2>1
  <2> HIDE DEF g, Approx
  <2> QED
    BY <2>2, <1>1
<1>3. ASSUME NEW i \in 1 .. N, i - 1 \in Good
      PROVE  i \in Good
  <2>1. PICK f : Approx(i - 1, f)
    BY <1>3
  <2> DEFINE g == [k \in 0 .. i |-> IF k = i THEN Next1(i, f[i - 1]) ELSE f[k]]
  <2>2. f[i - 1] \in Seq(S) /\ s[i] \in S /\ i \in Nat
    BY <2>1, <1>1
  <2>3. Next1(i, f[i - 1]) \in Seq(S)
    BY <2>2
  <2>4. g \in [0 .. i -> Seq(S)] /\ g[0] = <<>>
    BY <2>1, <2>2, <2>3
  <2>5. ASSUME NEW k \in 1 .. i
        PROVE  g[k] = Next1(k, g[k - 1])
    <3>1. g[k - 1] = f[k - 1] /\ k \in 0 .. i
      BY <2>2
    <3>2. CASE k = i
      BY <3>1, <3>2
    <3>3. CASE k # i
      <4>1. k \in 1 .. (i - 1) /\ g[k] = f[k]
        BY <3>3, <2>2
      <4> QED
        BY <4>1, <3>1, <2>1
    <3> QED
      BY <3>2, <3>3
  <2>6. Approx(i, g)
    BY <2>4, <2>5
  <2> HIDE DEF g, Approx
  <2> QED
    BY <2>6, <1>1
<1>4. N \in Good
  <2> HIDE DEF Good
  <2>1. \A i \in 0 .. N : i \in Good
    BY <1>1, <1>2, <1>3, Upwards
  <2> QED
    BY <2>1, <1>1
<1>5. PICK f : Approx(N, f)
  BY <1>4
<1>6. f = Rec(f)
  <2>1. f \in [0 .. N -> Seq(S)] /\ f[0] = <<>> /\ \A i \in 1 .. N : f[i] = Next1(i, f[i - 1])
    BY <1>5
  <2> HIDE DEF Next1, N
  <2>2. \A i \in 0 .. N : i = 0 \/ i \in 1 .. N
    BY <1>1
  <2>3. \A i \in 0 .. N : f[i] = Rec(f)[i]
    BY <2>1, <2>2
  <2> QED
    BY <2>1, <2>3
<1>7. c = Rec(c)
  <2> HIDE DEF Rec
  <2> QED
    BY <1>6
<1> HIDE DEF c
<1>9. c[0] = <<>> /\ \A i \in 1 .. N : c[i] = Next1(i, c[i - 1])
  <2> HIDE DEF Next1, N
  <2>1. 0 \in 0 .. N /\ \A i \in 1 .. N : i \in 0 .. N /\ i # 0
    BY <1>1
  <2> QED
    BY <1>7, <2>1
<1> QED
  BY <1>8, <1>9 DEF Copies

\* Place e[i] of s is where element i of t comes from; t has every element of the first n
\* that is not bad, once.
Picks(e, s, n, t, bad) ==
  /\ e \in [1 .. Len(t) -> 1 .. n]
  /\ \A i \in 1 .. Len(t) : t[i] = s[e[i]] /\ s[e[i]] \notin bad
  /\ \A i, j \in 1 .. Len(t) : e[i] = e[j] => i = j
  /\ \A k \in 1 .. n : s[k] \notin bad => \E i \in 1 .. Len(t) : e[i] = k
\* Without picks the elements that are not bad, each once.
LEMMA WithoutPicks ==
  ASSUME NEW S, NEW s \in Seq(S), NEW bad
  PROVE  /\ Without(s, bad) \in Seq(S)
         /\ \E e : Picks(e, s, Len(s), Without(s, bad), bad)
<1>1. PICK f : Copies(f, s, bad) /\ Without(s, bad) = f[Len(s)]
  BY WithoutCopies
<1> DEFINE N == Len(s)
           Picked(i) == f[i] \in Seq(S) /\ \E e : Picks(e, s, i, f[i], bad)
           Good == {i \in 0 .. N : Picked(i)}
<1>2. N \in Nat
  OBVIOUS
<1>3. Picked(0)
  <2>1. f[0] = <<>> /\ Len(f[0]) = 0 /\ f[0] \in Seq(S)
    BY <1>1 DEF Copies
  <2>2. Picks(<<>>, s, 0, f[0], bad)
    <3>1. 1 .. 0 = {} /\ <<>> \in [1 .. 0 -> 1 .. 0]
      OBVIOUS
    <3> QED
      BY <2>1, <3>1 DEF Picks
  <2> QED
    BY <2>1, <2>2
<1>4. ASSUME NEW i \in 1 .. N, Picked(i - 1)
      PROVE  Picked(i)
  <2>1. PICK e : Picks(e, s, i - 1, f[i - 1], bad)
    BY <1>4
  <2>2. i \in Nat /\ i - 1 \in Nat /\ s[i] \in S /\ f[i - 1] \in Seq(S)
        /\ Len(f[i - 1]) \in Nat /\ i \in 1 .. i
        /\ \A k \in 1 .. (i - 1) : k \in 1 .. i /\ k # i
    BY <1>4
  <2>3. CASE s[i] \in bad
    <3>1. f[i] = f[i - 1]
      BY <2>3, <1>1 DEF Copies
    <3>2. Picks(e, s, i, f[i - 1], bad)
      BY <2>1, <2>2, <2>3 DEF Picks
    <3> QED
      BY <3>1, <3>2, <2>2
  <2>4. CASE s[i] \notin bad
    <3> DEFINE t == f[i - 1]
               n == Len(t)
               u == Append(t, s[i])
               g == [k \in 1 .. n + 1 |-> IF k = n + 1 THEN i ELSE e[k]]
    <3>1. f[i] = u
      BY <2>4, <1>1 DEF Copies
    <3>2. u \in Seq(S) /\ Len(u) = n + 1 /\ u[n + 1] = s[i] /\ n \in Nat
          /\ \A k \in 1 .. n : u[k] = t[k]
      BY <2>2
    <3>3. e \in [1 .. n -> 1 .. (i - 1)]
          /\ (\A k \in 1 .. n : t[k] = s[e[k]] /\ s[e[k]] \notin bad)
          /\ (\A k, j \in 1 .. n : e[k] = e[j] => k = j)
          /\ (\A k \in 1 .. (i - 1) : s[k] \notin bad => \E j \in 1 .. n : e[j] = k)
      BY <2>1 DEF Picks
    <3>4. \A k \in 1 .. n : g[k] = e[k] /\ g[k] \in 1 .. i /\ g[k] # i /\ k \in 1 .. n + 1
      BY <3>2, <3>3, <2>2
    <3>5. g[n + 1] = i /\ n + 1 \in 1 .. n + 1 /\ \A k \in 1 .. n + 1 : (k \in 1 .. n \/ k = n + 1)
      BY <3>2
    <3> HIDE DEF t, n, u, g
    <3>6. g \in [1 .. n + 1 -> 1 .. i]
      BY <3>4, <3>5, <2>2 DEF g
    <3>7. \A k \in 1 .. n + 1 : u[k] = s[g[k]] /\ s[g[k]] \notin bad
      BY <3>2, <3>3, <3>4, <3>5, <2>4
    <3>8. \A k, j \in 1 .. n + 1 : g[k] = g[j] => k = j
      BY <3>3, <3>4, <3>5
    <3>9. \A k \in 1 .. i : s[k] \notin bad => \E j \in 1 .. n + 1 : g[j] = k
      <4> SUFFICES ASSUME NEW k \in 1 .. i, s[k] \notin bad
                   PROVE  \E j \in 1 .. n + 1 : g[j] = k
        OBVIOUS
      <4>1. k = i \/ k \in 1 .. (i - 1)
        BY <2>2
      <4> QED
        BY <4>1, <3>3, <3>4, <3>5
    <3>10. Picks(g, s, i, u, bad)
      BY <3>2, <3>6, <3>7, <3>8, <3>9 DEF Picks
    <3> QED
      BY <3>1, <3>2, <3>10
  <2> QED
    BY <2>3, <2>4
<1>5. 0 \in Good /\ \A i \in 1 .. N : i - 1 \in Good => i \in Good
  <2> HIDE DEF Picked
  <2> QED
    BY <1>2, <1>3, <1>4
<1>6. N \in Good
  <2> HIDE DEF Good
  <2>1. \A i \in 0 .. N : i \in Good
    BY <1>2, <1>5, Upwards
  <2> QED
    BY <2>1, <1>2
<1> QED
  BY <1>1, <1>6

\* Two elements of a sequence change places.
Swapped(c, i, j) == [c EXCEPT ![i] = c[j], ![j] = c[i]]
\* The literals stay the same, and so does all but the two places.
LEMMA SwapFacts ==
  ASSUME NEW c \in Seq(Lits), NEW i \in 1 .. Len(c), NEW j \in 1 .. Len(c), i # j
  PROVE  /\ Swapped(c, i, j) \in Seq(Lits) /\ Len(Swapped(c, i, j)) = Len(c)
         /\ Swapped(c, i, j)[i] = c[j] /\ Swapped(c, i, j)[j] = c[i]
         /\ \A k \in 1 .. Len(c) : k # i /\ k # j => Swapped(c, i, j)[k] = c[k]
         /\ LitsIn(Swapped(c, i, j)) = LitsIn(c)
         /\ IsInjective(c) => IsInjective(Swapped(c, i, j))
<1> DEFINE d == Swapped(c, i, j)
<1>0. d = [c EXCEPT ![i] = c[j], ![j] = c[i]]
  BY DEF Swapped
<1> HIDE DEF d
<1>1. c[i] \in Lits /\ c[j] \in Lits /\ Len(c) \in Nat
  OBVIOUS
<1>2. d \in Seq(Lits) /\ Len(d) = Len(c)
  BY <1>0, <1>1
<1>3. d[i] = c[j] /\ d[j] = c[i]
      /\ \A k \in 1 .. Len(c) : k # i /\ k # j => d[k] = c[k]
  BY <1>0, <1>1
<1>4. LitsIn(d) = LitsIn(c)
  BY <1>2, <1>3 DEF LitsIn
<1>5. DOMAIN c = 1 .. Len(c) /\ DOMAIN d = 1 .. Len(c)
  BY <1>2
<1>6. ASSUME IsInjective(c) PROVE IsInjective(d)
  <2>1. \A k, m \in 1 .. Len(c) : c[k] = c[m] => k = m
    BY <1>5, <1>6 DEF IsInjective
  <2>2. \A k, m \in 1 .. Len(c) : d[k] = d[m] => k = m
    BY <2>1, <1>3
  <2> QED
    BY <2>2, <1>5 DEF IsInjective
<1> QED
  BY <1>2, <1>3, <1>4, <1>6 DEF d

\* An element is appended.
LEMMA AppendFacts ==
  ASSUME NEW S, NEW s \in Seq(S), NEW x \in S
  PROVE  /\ Append(s, x) \in Seq(S) /\ Len(Append(s, x)) = Len(s) + 1
         /\ Append(s, x)[Len(s) + 1] = x
         /\ \A i \in 1 .. Len(s) : Append(s, x)[i] = s[i]
OBVIOUS

\* A prefix of a sequence has its elements.
LEMMA Prefix ==
  ASSUME NEW S, NEW s \in Seq(S), NEW n \in Nat, n <= Len(s)
  PROVE  /\ SubSeq(s, 1, n) \in Seq(S) /\ Len(SubSeq(s, 1, n)) = n
         /\ \A i \in 1 .. n : SubSeq(s, 1, n)[i] = s[i]
<1>1. SubSeq(s, 1, n) \in Seq(S)
  BY SubSeqProperties
<1>2. Len(SubSeq(s, 1, n)) = n
  BY SubSeqProperties
<1>3. \A i \in 1 .. n : SubSeq(s, 1, n)[i] = s[i]
  BY SubSeqProperties
<1> QED
  BY <1>1, <1>2, <1>3

\* An element is removed, and those behind it move up.
LEMMA RemoveAtFacts ==
  ASSUME NEW S, NEW s \in Seq(S), NEW k \in 1 .. Len(s)
  PROVE  /\ RemoveAt(s, k) \in Seq(S) /\ Len(RemoveAt(s, k)) = Len(s) - 1
         /\ \A i \in 1 .. (Len(s) - 1) :
              RemoveAt(s, k)[i] = IF i < k THEN s[i] ELSE s[i + 1]
<1> DEFINE a == SubSeq(s, 1, k - 1)
           b == SubSeq(s, k + 1, Len(s))
<1>1. k \in Nat /\ Len(s) \in Nat /\ 1 <= k /\ k <= Len(s)
  OBVIOUS
<1>2. a \in Seq(S) /\ Len(a) = k - 1 /\ \A i \in 1 .. (k - 1) : a[i] = s[i]
  BY <1>1, Prefix
<1>3. b \in Seq(S)
  <2>1. \A i \in k + 1 .. Len(s) : s[i] \in S
    BY <1>1
  <2> QED
    BY <1>1, <2>1, SubSeqProperties
<1>4. Len(b) = Len(s) - k
  BY <1>1, SubSeqProperties
<1>5. \A i \in 1 .. (Len(s) - k) : b[i] = s[k + i]
  BY <1>1, SubSeqProperties
<1>6. RemoveAt(s, k) = a \o b
  BY DEF RemoveAt
<1> HIDE DEF a, b
<1>7. a \o b \in Seq(S) /\ Len(a \o b) = Len(s) - 1
  BY <1>1, <1>2, <1>3, <1>4
<1>8. ASSUME NEW i \in 1 .. (Len(s) - 1)
      PROVE  (a \o b)[i] = IF i < k THEN s[i] ELSE s[i + 1]
  <2>1. CASE i < k
    <3>1. (a \o b)[i] = a[i]
      BY <2>1, <1>1, <1>2, <1>3, <1>4
    <3> QED
      BY <2>1, <3>1, <1>1, <1>2
  <2>2. CASE ~ (i < k)
    <3>1. (a \o b)[i] = b[i - (k - 1)]
      BY <2>2, <1>1, <1>2, <1>3, <1>4
    <3>2. i - (k - 1) \in 1 .. (Len(s) - k) /\ k + (i - (k - 1)) = i + 1
      BY <2>2, <1>1
    <3> QED
      BY <2>2, <3>1, <3>2, <1>5
  <2> QED
    BY <2>1, <2>2
<1> QED
  BY <1>6, <1>7, <1>8

-----------------------------------------------------------------------------
(***************************************************************************)
(* The trail.                                                              *)
(***************************************************************************)

\* The values of a literal, as facts about the trail.
LEMMA Values ==
  ASSUME trail \in Seq(Lits), Distinct(trail), NEW l \in Lits
  PROVE  /\ IsUndef(l) <=> \A i \in 1 .. Len(trail) : var(trail[i]) # var(l)
         /\ IsTrue(l) => ~ IsFalse(l)
<1>1. /\ -l \in Lits /\ var(-l) = var(l) /\ l # -l
      /\ \A k \in Lits : var(k) = var(l) => (k = l \/ k = -l)
  BY Literals
<1>2. \A i \in 1 .. Len(trail) : trail[i] \in Lits
  OBVIOUS
<1> QED
  BY <1>1, <1>2 DEF IsTrue, IsFalse, IsUndef, Distinct

TypedTrail(t, lim, q) == t \in Seq(Lits) /\ lim \in Seq(Nat) /\ q \in Nat

\* uncheckedEnqueue keeps the trail in order, and every clause that is safe.
LEMMA EnqueueTrail ==
  ASSUME NEW t, NEW lim, NEW q, TypedTrail(t, lim, q), NEW l \in Lits,
         Distinct(t), Rising(t, lim, q), \A i \in 1 .. Len(t) : var(t[i]) # var(l)
  PROVE  /\ TypedTrail(Append(t, l), lim, q)
         /\ Distinct(Append(t, l)) /\ Rising(Append(t, l), lim, q)
         /\ \A i, C : Safe(t, lim, i, C) => Safe(Append(t, l), lim, i, C)
<1> USE DEF TypedTrail
<1>1. /\ Append(t, l) \in Seq(Lits) /\ Len(Append(t, l)) = Len(t) + 1
      /\ Append(t, l)[Len(t) + 1] = l
      /\ \A i \in 1 .. Len(t) : Append(t, l)[i] = t[i]
  BY AppendFacts
<1>2. Len(t) \in Nat /\ \A i \in 1 .. Len(t) + 1 : (i \in 1 .. Len(t) \/ i = Len(t) + 1)
  OBVIOUS
<1>3. Distinct(Append(t, l))
  BY <1>1, <1>2 DEF Distinct
<1>4. Rising(Append(t, l), lim, q)
  BY <1>1, <1>2 DEF Rising
<1>5. \A i, C : Safe(t, lim, i, C) => Safe(Append(t, l), lim, i, C)
  <2>1. \A j \in 1 .. Len(t) : j \in 1 .. Len(Append(t, l)) /\ Append(t, l)[j] = t[j]
    BY <1>1, <1>2
  <2> HIDE DEF TypedTrail
  <2> QED
    BY <2>1 DEF Safe
<1> QED
  BY <1>1, <1>3, <1>4, <1>5

\* So does a new level.
LEMMA NewLevelTrail ==
  ASSUME NEW t, NEW lim, NEW q, TypedTrail(t, lim, q), Rising(t, lim, q), q = Len(t)
  PROVE  /\ TypedTrail(t, Append(lim, Len(t)), q) /\ Rising(t, Append(lim, Len(t)), q)
         /\ \A i, C : Safe(t, lim, i, C) => Safe(t, Append(lim, Len(t)), i, C)
<1> USE DEF TypedTrail
<1> DEFINE L == Append(lim, Len(t))
<1>1. /\ L \in Seq(Nat) /\ Len(L) = Len(lim) + 1 /\ L[Len(lim) + 1] = Len(t)
      /\ \A n \in 1 .. Len(lim) : L[n] = lim[n]
  BY AppendFacts
<1>2. /\ Len(t) \in Nat /\ Len(lim) \in Nat
      /\ \A n \in 1 .. Len(lim) + 1 : (n \in 1 .. Len(lim) \/ n = Len(lim) + 1)
      /\ \A n \in 1 .. Len(lim) : lim[n] \in Nat
  OBVIOUS
<1> HIDE DEF L
<1>3. \A n \in 1 .. Len(L) : L[n] <= q
  BY <1>1, <1>2 DEF Rising
<1>4. ASSUME NEW m \in 1 .. Len(L), NEW n \in 1 .. Len(L), m <= n
      PROVE  L[m] <= L[n]
  <2>1. CASE n = Len(lim) + 1
    BY <2>1, <1>1, <1>3
  <2>2. CASE n # Len(lim) + 1
    <3>1. m \in 1 .. Len(lim) /\ n \in 1 .. Len(lim)
      BY <2>2, <1>1, <1>2, <1>4
    <3> QED
      BY <3>1, <1>1, <1>4 DEF Rising
  <2> QED
    BY <2>1, <2>2
<1>5. ASSUME NEW i, NEW C, Safe(t, lim, i, C)
      PROVE  Safe(t, L, i, C)
  <2>1. PICK j \in 1 .. Len(t) : t[j] \in C /\ NoHigher(lim, j, i)
    BY <1>5 DEF Safe
  <2>2. ~ (Len(t) < j)
    BY <1>2
  <2>3. NoHigher(L, j, i)
    BY <2>1, <2>2, <1>1, <1>2 DEF NoHigher
  <2> QED
    BY <2>1, <2>3 DEF Safe
<1>6. Rising(t, L, q)
  BY <1>3, <1>4 DEF Rising
<1> QED
  BY <1>1, <1>5, <1>6 DEF L

\* cancelUntil keeps the trail in order, and every clause that is safe for a literal
\* that stays.
LEMMA CancelTrail ==
  ASSUME NEW t, NEW lim, NEW q, TypedTrail(t, lim, q), Distinct(t), Rising(t, lim, q),
         NEW n \in 0 .. (Len(lim) - 1)
  PROVE  /\ TypedTrail(SubSeq(t, 1, lim[n + 1]), SubSeq(lim, 1, n), lim[n + 1])
         /\ Distinct(SubSeq(t, 1, lim[n + 1]))
         /\ Rising(SubSeq(t, 1, lim[n + 1]), SubSeq(lim, 1, n), lim[n + 1])
         /\ Len(SubSeq(t, 1, lim[n + 1])) = lim[n + 1]
         /\ n + 1 \in 1 .. Len(lim) /\ lim[n + 1] \in Nat /\ lim[n + 1] <= Len(t)
         /\ \A i \in 1 .. lim[n + 1] : SubSeq(t, 1, lim[n + 1])[i] = t[i]
         /\ Len(SubSeq(lim, 1, n)) = n
         /\ \A m \in 1 .. n : SubSeq(lim, 1, n)[m] = lim[m]
         /\ \A i \in 1 .. lim[n + 1] : \A C :
              Safe(t, lim, i, C) => Safe(SubSeq(t, 1, lim[n + 1]), SubSeq(lim, 1, n), i, C)
<1> USE DEF TypedTrail
<1> DEFINE T == SubSeq(t, 1, lim[n + 1])
           L == SubSeq(lim, 1, n)
<1>1. n \in Nat /\ n <= Len(lim) /\ n + 1 \in 1 .. Len(lim) /\ lim[n + 1] \in Nat
      /\ Len(t) \in Nat /\ Len(lim) \in Nat
  OBVIOUS
<1>2. lim[n + 1] <= q /\ q <= Len(t)
  BY <1>1 DEF Rising
<1>3. lim[n + 1] <= Len(t)
  BY <1>1, <1>2
<1>4. T \in Seq(Lits) /\ Len(T) = lim[n + 1] /\ \A i \in 1 .. lim[n + 1] : T[i] = t[i]
  BY <1>1, <1>3, Prefix
<1>5. L \in Seq(Nat) /\ Len(L) = n /\ \A m \in 1 .. n : L[m] = lim[m]
  BY <1>1, Prefix
<1> HIDE DEF T, L
<1>6. \A m \in 1 .. n : m \in 1 .. Len(lim) /\ m <= n + 1
  BY <1>1
<1>7. \A i \in 1 .. lim[n + 1] : i \in 1 .. Len(t)
  BY <1>1, <1>3
<1>8. Distinct(T)
  BY <1>4, <1>7 DEF Distinct
<1>9. Rising(T, L, lim[n + 1])
  <2>1. \A m \in 1 .. n : L[m] <= lim[n + 1]
    BY <1>1, <1>5, <1>6 DEF Rising
  <2>2. \A m, k \in 1 .. n : m <= k => L[m] <= L[k]
    BY <1>5, <1>6 DEF Rising
  <2> QED
    BY <1>1, <1>4, <1>5, <2>1, <2>2 DEF Rising
<1>10. ASSUME NEW i \in 1 .. lim[n + 1], NEW C, Safe(t, lim, i, C)
       PROVE  Safe(T, L, i, C)
  <2>1. PICK j \in 1 .. Len(t) : t[j] \in C /\ NoHigher(lim, j, i)
    BY <1>10 DEF Safe
  <2>2. lim[n + 1] < j => lim[n + 1] < i
    BY <2>1, <1>1 DEF NoHigher
  <2>3. j \in 1 .. lim[n + 1]
    BY <2>2, <1>1
  <2>4. NoHigher(L, j, i)
    BY <2>1, <1>5, <1>6 DEF NoHigher
  <2> QED
    BY <2>1, <2>3, <2>4, <1>4 DEF Safe
<1> QED
  BY <1>1, <1>3, <1>4, <1>5, <1>8, <1>9, <1>10 DEF T, L

-----------------------------------------------------------------------------
(***************************************************************************)
(* The lists.                                                              *)
(***************************************************************************)
TypedLists(cs, R, ws) ==
  cs \in Seq(Seq(Lits)) /\ R \subseteq 1 .. Len(cs) /\ ws \in [Lits -> Seq(Nat \X Lits)]

\* What the types say of the clauses and of the lists.
LEMMA Stored ==
  ASSUME NEW cs, NEW R, NEW ws, TypedLists(cs, R, ws)
  PROVE  /\ \A cr \in 1 .. Len(cs) : cs[cr] \in Seq(Lits)
         /\ \A l \in Lits : ws[l] \in Seq(Nat \X Lits) /\ Len(ws[l]) \in Nat
         /\ \A l \in Lits : \A k \in 1 .. Len(ws[l]) :
              ws[l][k] \in Nat \X Lits /\ ws[l][k][1] \in Nat /\ ws[l][k][2] \in Lits
<1> USE DEF TypedLists
<1>1. \A cr \in 1 .. Len(cs) : cs[cr] \in Seq(Lits)
  OBVIOUS
<1>2. \A l \in Lits : ws[l] \in Seq(Nat \X Lits)
  OBVIOUS
<1>3. ASSUME NEW l \in Lits, NEW k \in 1 .. Len(ws[l])
      PROVE  ws[l][k] \in Nat \X Lits
  BY <1>2
<1> QED
  BY <1>1, <1>2, <1>3

\* The watched literals of a clause are different literals of it.
LEMMA Watched ==
  ASSUME NEW c \in Seq(Lits), Len(c) > 1, IsInjective(c)
  PROVE  /\ c[1] \in Lits /\ c[2] \in Lits /\ c[1] # c[2]
         /\ -c[1] \in Lits /\ -c[2] \in Lits /\ -c[1] # -c[2]
         /\ c[1] \in LitsIn(c) /\ c[2] \in LitsIn(c) /\ LitsIn(c) \subseteq Lits
         /\ \A k, m \in 1 .. Len(c) : c[k] = c[m] => k = m
<1>1. 1 \in 1 .. Len(c) /\ 2 \in 1 .. Len(c) /\ DOMAIN c = 1 .. Len(c)
      /\ \A k \in 1 .. Len(c) : c[k] \in Lits
  OBVIOUS
<1>2. \A k, m \in 1 .. Len(c) : c[k] = c[m] => k = m
  BY <1>1 DEF IsInjective
<1>3. c[1] # c[2]
  BY <1>1, <1>2
<1> QED
  BY <1>1, <1>2, <1>3, Literals DEF LitsIn

\* Clause cr with its literals in another order, the same two in front or not.
Reordered(cs, cr, d) ==
  d \in Seq(Lits) /\ Len(d) = Len(cs[cr]) /\ LitsIn(d) = LitsIn(cs[cr]) /\ IsInjective(d)

\* A watch is kept: its clause still has the same literals in front, and its blocker
\* may be another literal of the clause.
SameWatched(cs, cr, d) == {d[1], d[2]} = {cs[cr][1], cs[cr][2]}
Rewritten(cs, cr, d) == [cs EXCEPT ![cr] = d]
Entered(ws, l, k, cr, b) == [ws EXCEPT ![l][k] = <<cr, b>>]
KeptWatch(cs, R, ws, l, k, cr, d, b) ==
  /\ l \in Lits /\ k \in 1 .. Len(ws[l]) /\ cr = ws[l][k][1] /\ cr \notin R
  /\ Reordered(cs, cr, d) /\ SameWatched(cs, cr, d) /\ b \in LitsIn(d)
\* A kept watch leaves the lists in order.
LEMMA ListsKeep ==
  ASSUME NEW cs, NEW R, NEW ws, NEW D, TypedLists(cs, R, ws), Lists(cs, R, ws, D),
         NEW l, NEW k, NEW cr, NEW d, NEW b, KeptWatch(cs, R, ws, l, k, cr, d, b)
  PROVE  /\ TypedLists(Rewritten(cs, cr, d), R, Entered(ws, l, k, cr, b))
         /\ Lists(Rewritten(cs, cr, d), R, Entered(ws, l, k, cr, b), D)
<1> DEFINE cs2 == Rewritten(cs, cr, d)
           ws2 == Entered(ws, l, k, cr, b)
<1>0. /\ l \in Lits /\ k \in 1 .. Len(ws[l]) /\ cr = ws[l][k][1] /\ cr \notin R
      /\ Reordered(cs, cr, d) /\ SameWatched(cs, cr, d) /\ b \in LitsIn(d)
  BY DEF KeptWatch
<1>20. cs2 = [cs EXCEPT ![cr] = d] /\ ws2 = [ws EXCEPT ![l][k] = <<cr, b>>]
  BY DEF Rewritten, Entered
<1> HIDE DEF cs2, ws2
<1> USE <1>0
<1>1. cr \in 1 .. Len(cs) /\ Len(cs[cr]) > 1 /\ cs[cr] \in Seq(Lits)
  BY Stored DEF Lists, Listed, Entry, Clauses
<1>2. /\ cs2 \in Seq(Seq(Lits)) /\ Len(cs2) = Len(cs) /\ cs2[cr] = d
      /\ \A r \in 1 .. Len(cs) : r # cr => cs2[r] = cs[r]
  BY <1>1, <1>20 DEF TypedLists, Reordered
<1>3. d \in Seq(Lits) /\ Len(d) > 1 /\ IsInjective(d) /\ LitsIn(d) = LitsIn(cs[cr])
  BY <1>1 DEF Reordered
<1>4. b \in Lits /\ cr \in Nat
  BY <1>1, <1>3, Watched
<1> DEFINE w == <<cr, b>>
           list == [ws[l] EXCEPT ![k] = w]
<1>5. w \in Nat \X Lits /\ w[1] = cr /\ w[2] = b
  BY <1>4
<1>6. ws[l] \in Seq(Nat \X Lits)
  BY Stored
<1> HIDE DEF w
<1>7. /\ list \in Seq(Nat \X Lits) /\ Len(list) = Len(ws[l]) /\ list[k] = w
      /\ \A j \in 1 .. Len(ws[l]) : j # k => list[j] = ws[l][j]
  BY <1>5, <1>6
<1>8. ws2 = [ws EXCEPT ![l] = list]
  BY <1>20 DEF w
<1> HIDE DEF list
<1>9. ws2 \in [Lits -> Seq(Nat \X Lits)] /\ ws2[l] = list
      /\ \A m \in Lits : m # l => ws2[m] = ws[m]
  BY <1>7, <1>8 DEF TypedLists
<1>10. /\ \A m \in Lits : Len(ws2[m]) = Len(ws[m])
       /\ \A m \in Lits : \A j \in 1 .. Len(ws[m]) : ws2[m][j][1] = ws[m][j][1]
       /\ \A m \in Lits : \A j \in 1 .. Len(ws[m]) : m # l \/ j # k => ws2[m][j] = ws[m][j]
       /\ ws2[l][k] = w
  <2>1. \A m \in Lits : Len(ws2[m]) = Len(ws[m])
    BY <1>7, <1>9
  <2>2. \A m \in Lits : \A j \in 1 .. Len(ws[m]) : m # l \/ j # k => ws2[m][j] = ws[m][j]
    BY <1>7, <1>9
  <2>3. ws2[l][k] = w /\ ws[l][k][1] = cr
    BY <1>7, <1>9
  <2>4. ASSUME NEW m \in Lits, NEW j \in 1 .. Len(ws[m])
        PROVE  ws2[m][j][1] = ws[m][j][1]
    BY <1>5, <2>2, <2>3
  <2> QED
    BY <2>1, <2>2, <2>3, <2>4
<1>11. Clauses(cs2, R)
  BY <1>2, <1>3 DEF Lists, Clauses
<1>12. \A r \in 1 .. Len(cs) :
         /\ \/ cs2[r][1] = cs[r][1] /\ cs2[r][2] = cs[r][2]
            \/ cs2[r][1] = cs[r][2] /\ cs2[r][2] = cs[r][1]
         /\ LitsIn(cs2[r]) = LitsIn(cs[r])
  <2>1. \/ d[1] = cs[cr][1] /\ d[2] = cs[cr][2]
        \/ d[1] = cs[cr][2] /\ d[2] = cs[cr][1]
    BY DEF SameWatched
  <2> QED
    BY <2>1, <1>2, <1>3
<1>13. Listed(cs2, R, ws2)
  <2> SUFFICES ASSUME NEW m \in Lits, NEW j \in 1 .. Len(ws2[m])
               PROVE  Entry(cs2, R, m, ws2[m][j])
    BY DEF Listed
  <2>1. j \in 1 .. Len(ws[m]) /\ Entry(cs, R, m, ws[m][j])
    BY <1>10 DEF Lists, Listed
  <2>2. ws2[m][j][1] = ws[m][j][1]
    BY <2>1, <1>10
  <2>3. ws2[m][j][1] \in 1 .. Len(cs2)
    BY <2>1, <2>2, <1>2 DEF Entry
  <2>4. ASSUME ws2[m][j][1] \notin R
        PROVE  /\ m \in {-cs2[ws2[m][j][1]][1], -cs2[ws2[m][j][1]][2]}
               /\ ws2[m][j][2] \in LitsIn(cs2[ws2[m][j][1]])
    <3> DEFINE r == ws2[m][j][1]
    <3>1. r \in 1 .. Len(cs) /\ m \in {-cs[r][1], -cs[r][2]} /\ ws[m][j][2] \in LitsIn(cs[r])
      BY <2>1, <2>2, <2>4 DEF Entry
    <3> HIDE DEF r
    <3>2. m \in {-cs2[r][1], -cs2[r][2]}
      BY <3>1, <1>12
    <3>3. ws2[m][j][2] \in LitsIn(cs2[r])
      <4>1. CASE m = l /\ j = k
        <5>1. r = cr /\ ws2[m][j][2] = b
          BY <4>1, <2>2, <1>5, <1>10 DEF r
        <5> QED
          BY <5>1, <1>2
      <4>2. CASE ~ (m = l /\ j = k)
        BY <4>2, <2>1, <3>1, <1>10, <1>12
      <4> QED
        BY <4>1, <4>2
    <3> QED
      BY <3>2, <3>3 DEF r
  <2> QED
    BY <2>3, <2>4 DEF Entry
<1>14. Watching(cs2, R, ws2)
  <2> SUFFICES ASSUME NEW r \in (1 .. Len(cs2)) \ R
               PROVE  Holds(ws2[-cs2[r][1]], r) /\ Holds(ws2[-cs2[r][2]], r)
    BY DEF Watching
  <2>1. r \in (1 .. Len(cs)) \ R
    BY <1>2
  <2>2. -cs[r][1] \in Lits /\ -cs[r][2] \in Lits
    BY <2>1, Stored, Watched DEF Lists, Clauses
  <2>3. Holds(ws[-cs[r][1]], r) /\ Holds(ws[-cs[r][2]], r)
    BY <2>1 DEF Lists, Watching
  <2>4. ASSUME NEW m \in Lits, Holds(ws[m], r)
        PROVE  Holds(ws2[m], r)
    BY <2>4, <1>10 DEF Holds
  <2> QED
    BY <2>1, <2>2, <2>3, <2>4, <1>12
<1>15. Once(ws2)
  BY <1>10 DEF Lists, Once, OnceIn
<1>16. Clean(R, ws2, D)
  BY <1>10 DEF Lists, Clean
<1> QED
  BY <1>2, <1>9, <1>11, <1>13, <1>14, <1>15, <1>16 DEF Lists, TypedLists, cs2, ws2

\* Another literal of a clause is watched instead of one of the two: the clause leaves
\* the list of the one and joins that of the other.
MovedWatch(cs, R, ws, l, k, cr, d, b) ==
  /\ l \in Lits /\ k \in 1 .. Len(ws[l]) /\ cr = ws[l][k][1] /\ cr \notin R
  /\ Reordered(cs, cr, d) /\ d[1] \in {cs[cr][1], cs[cr][2]} /\ d[1] # -l
  /\ d[2] \notin {cs[cr][1], cs[cr][2]} /\ b \in LitsIn(d)
Moved(ws, l, k, cr, d, b) ==
  [ws EXCEPT ![-d[2]] = Append(@, <<cr, b>>), ![l] = RemoveAt(@, k)]
MovedEntries(ws, ws2, l, k, q) ==
  /\ Len(ws2[l]) = Len(ws[l]) - 1 /\ \A j \in 1 .. Len(ws2[l]) : j < k => ws2[l][j] = ws[l][j]
  /\ \A m \in Lits \ {q} : \A j \in 1 .. Len(ws2[m]) :
       \E i \in 1 .. Len(ws[m]) : ws2[m][j] = ws[m][i]
\* A moved watch leaves the lists in order, and only the list it joins gets a new entry.
LEMMA ListsMove ==
  ASSUME NEW cs, NEW R, NEW ws, NEW D, TypedLists(cs, R, ws), Lists(cs, R, ws, D),
         NEW l, NEW k, NEW cr, NEW d, NEW b, MovedWatch(cs, R, ws, l, k, cr, d, b)
  PROVE  /\ TypedLists(Rewritten(cs, cr, d), R, Moved(ws, l, k, cr, d, b))
         /\ Lists(Rewritten(cs, cr, d), R, Moved(ws, l, k, cr, d, b), D)
         /\ MovedEntries(ws, Moved(ws, l, k, cr, d, b), l, k, -d[2])
<1> DEFINE cs2 == Rewritten(cs, cr, d)
           ws2 == Moved(ws, l, k, cr, d, b)
           q == -d[2]
<1>0. /\ l \in Lits /\ k \in 1 .. Len(ws[l]) /\ cr = ws[l][k][1] /\ cr \notin R
      /\ Reordered(cs, cr, d) /\ d[1] \in {cs[cr][1], cs[cr][2]} /\ d[1] # -l
      /\ d[2] \notin {cs[cr][1], cs[cr][2]} /\ b \in LitsIn(d)
  BY DEF MovedWatch
<1>20. /\ cs2 = [cs EXCEPT ![cr] = d]
       /\ ws2 = [ws EXCEPT ![q] = Append(@, <<cr, b>>), ![l] = RemoveAt(@, k)]
  BY DEF Rewritten, Moved
<1> HIDE DEF cs2, ws2
<1> USE <1>0
<1> DEFINE c == cs[cr]
           w == <<cr, b>>
<1>1. cr \in 1 .. Len(cs) /\ Len(c) > 1 /\ c \in Seq(Lits) /\ IsInjective(c)
      /\ l \in {-c[1], -c[2]}
  BY Stored DEF Lists, Listed, Entry, Clauses
<1>2. /\ cs2 \in Seq(Seq(Lits)) /\ Len(cs2) = Len(cs) /\ cs2[cr] = d
      /\ \A r \in 1 .. Len(cs) : r # cr => cs2[r] = cs[r]
  BY <1>1, <1>20 DEF TypedLists, Reordered
<1>3. d \in Seq(Lits) /\ Len(d) > 1 /\ IsInjective(d) /\ LitsIn(d) = LitsIn(c)
  BY <1>1 DEF Reordered
<1>4. /\ b \in Lits /\ cr \in Nat /\ d[1] # d[2]
      /\ c[1] \in Lits /\ c[2] \in Lits /\ d[1] \in Lits /\ d[2] \in Lits
      /\ -c[1] \in Lits /\ -c[2] \in Lits /\ -d[1] \in Lits /\ q \in Lits
      /\ -c[1] # -c[2]
  BY <1>1, <1>3, Watched
<1>5. w \in Nat \X Lits /\ w[1] = cr /\ w[2] = b
  BY <1>4
<1> HIDE DEF w
\* The clause watched -l and d[1], and now d[1] and d[2].
<1>6. -(-c[1]) = c[1] /\ -(-c[2]) = c[2] /\ -(-d[1]) = d[1] /\ -q = d[2]
  BY <1>4, Literals
<1>7. q # l /\ -d[1] # l /\ -d[1] # q /\ {-c[1], -c[2]} = {l, -d[1]} /\ q \notin {-c[1], -c[2]}
  BY <1>1, <1>4, <1>6
<1> HIDE DEF c
<1> DEFINE more == Append(ws[q], w)
           less == RemoveAt(ws[l], k)
<1>8. ws[q] \in Seq(Nat \X Lits) /\ ws[l] \in Seq(Nat \X Lits)
      /\ Len(ws[q]) \in Nat /\ Len(ws[l]) \in Nat
  BY <1>4, Stored
<1>9. /\ more \in Seq(Nat \X Lits) /\ Len(more) = Len(ws[q]) + 1 /\ more[Len(ws[q]) + 1] = w
      /\ \A j \in 1 .. Len(ws[q]) : more[j] = ws[q][j]
  BY <1>5, <1>8, AppendFacts
<1>10. /\ less \in Seq(Nat \X Lits) /\ Len(less) = Len(ws[l]) - 1
       /\ \A j \in 1 .. (Len(ws[l]) - 1) : less[j] = IF j < k THEN ws[l][j] ELSE ws[l][j + 1]
  BY <1>8, RemoveAtFacts
<1>11. ws2 = [ws EXCEPT ![q] = more, ![l] = less]
  BY <1>4, <1>7, <1>20 DEF TypedLists, w
<1> HIDE DEF more, less
<1>12. /\ ws2 \in [Lits -> Seq(Nat \X Lits)] /\ ws2[q] = more /\ ws2[l] = less
       /\ \A m \in Lits : m # l /\ m # q => ws2[m] = ws[m]
  <2>1. ws \in [Lits -> Seq(Nat \X Lits)] /\ q \in Lits /\ l \in Lits /\ q # l
        /\ more \in Seq(Nat \X Lits) /\ less \in Seq(Nat \X Lits)
    BY <1>4, <1>7, <1>9, <1>10 DEF TypedLists
  <2> DEFINE T == Seq(Nat \X Lits)
  <2> HIDE DEF T
  <2>2. ws \in [Lits -> T] /\ more \in T /\ less \in T
    BY <2>1 DEF T
  <2>3. ws2[q] = more /\ ws2[l] = less
    BY <2>1, <2>2, <1>11
  <2>4. \A m \in Lits : m # l /\ m # q => ws2[m] = ws[m]
    BY <2>1, <2>2, <1>11
  <2>5. ws2 \in [Lits -> T]
    BY <2>1, <2>2, <1>11
  <2> QED
    BY <2>3, <2>4, <2>5 DEF T
\* Every entry is an old one of its list, and not of cr in the list of l; or it is the new one.
<1>13. ASSUME NEW m \in Lits, NEW j \in 1 .. Len(ws2[m])
       PROVE  \/ \E i \in 1 .. Len(ws[m]) : /\ ws2[m][j] = ws[m][i]
                                            /\ m = l => i # k
                                            /\ ws[m][i][1] = cr => m = -d[1]
              \/ m = q /\ j = Len(ws[q]) + 1 /\ ws2[m][j] = w
  <2>1. ASSUME NEW i \in 1 .. Len(ws[m]), ws[m][i][1] = cr, m = l => i # k
        PROVE  m = -d[1]
    <3>1. m \in {-c[1], -c[2]}
      BY <2>1 DEF Lists, Listed, Entry, c
    <3>2. m = l \/ m = -d[1]
      BY <3>1, <1>7
    <3>3. m = l => i = k
      BY <2>1 DEF Lists, Once, OnceIn
    <3> QED
      BY <3>2, <3>3, <2>1
  <2>2. CASE m = l
    <3> DEFINE i == IF j < k THEN j ELSE j + 1
    <3>1. j \in 1 .. (Len(ws[l]) - 1)
      BY <2>2, <1>10, <1>12
    <3>2. i \in 1 .. Len(ws[l]) /\ i # k
      BY <3>1, <1>8
    <3>3. ws2[m][j] = ws[m][i]
      BY <2>2, <3>1, <1>10, <1>12
    <3> HIDE DEF i
    <3> QED
      BY <2>1, <2>2, <3>2, <3>3
  <2>3. CASE m = q
    <3>1. j \in 1 .. Len(ws[q]) \/ j = Len(ws[q]) + 1
      BY <2>3, <1>8, <1>9, <1>12
    <3> QED
      BY <2>1, <2>3, <3>1, <1>7, <1>9, <1>12
  <2>4. CASE m # l /\ m # q
    BY <2>1, <2>4, <1>12
  <2> QED
    BY <2>2, <2>3, <2>4
<1>14. Clauses(cs2, R)
  BY <1>2, <1>3 DEF Lists, Clauses
<1>15. Listed(cs2, R, ws2)
  <2> SUFFICES ASSUME NEW m \in Lits, NEW j \in 1 .. Len(ws2[m])
               PROVE  Entry(cs2, R, m, ws2[m][j])
    BY DEF Listed
  <2>1. CASE \E i \in 1 .. Len(ws[m]) : /\ ws2[m][j] = ws[m][i]
                                        /\ m = l => i # k
                                        /\ ws[m][i][1] = cr => m = -d[1]
    <3>1. PICK i \in 1 .. Len(ws[m]) : ws2[m][j] = ws[m][i] /\ (ws[m][i][1] = cr => m = -d[1])
      BY <2>1
    <3>2. Entry(cs, R, m, ws2[m][j])
      BY <3>1 DEF Lists, Listed
    <3>3. CASE ws2[m][j][1] = cr
      BY <3>1, <3>2, <3>3, <1>2, <1>3 DEF Entry, c
    <3>4. CASE ws2[m][j][1] # cr
      BY <3>2, <3>4, <1>2 DEF Entry
    <3> QED
      BY <3>3, <3>4
  <2>2. CASE m = q /\ ws2[m][j] = w
    <3>1. m = -cs2[cr][2] /\ b \in LitsIn(cs2[cr])
      BY <2>2, <1>2
    <3> QED
      BY <2>2, <3>1, <1>1, <1>2, <1>5 DEF Entry
  <2> QED
    BY <1>13, <2>1, <2>2
<1>16. ASSUME NEW m \in Lits, NEW r, Holds(ws[m], r), m = l => r # cr
       PROVE  Holds(ws2[m], r)
  <2>1. PICK i \in 1 .. Len(ws[m]) : ws[m][i][1] = r
    BY <1>16 DEF Holds
  <2>2. CASE m = l
    <3>1. i # k
      BY <2>1, <2>2, <1>16
    <3> DEFINE j == IF i < k THEN i ELSE i - 1
    <3>2. j \in 1 .. (Len(ws[l]) - 1) /\ (IF j < k THEN j ELSE j + 1) = i
      BY <3>1, <2>2, <1>8
    <3>3. less[j] = ws[l][i]
      BY <3>2, <1>10
    <3>4. j \in 1 .. Len(less)
      BY <3>2, <1>10
    <3> HIDE DEF j
    <3> QED
      BY <2>1, <2>2, <3>3, <3>4, <1>12 DEF Holds
  <2>3. CASE m = q
    <3>1. i \in 1 .. Len(more) /\ more[i] = ws[q][i]
      BY <2>3, <1>8, <1>9
    <3> QED
      BY <2>1, <2>3, <3>1, <1>12 DEF Holds
  <2>4. CASE m # l /\ m # q
    BY <2>4, <1>12, <1>16
  <2> QED
    BY <2>2, <2>3, <2>4
<1>17. Watching(cs2, R, ws2)
  <2> SUFFICES ASSUME NEW r \in (1 .. Len(cs2)) \ R
               PROVE  Holds(ws2[-cs2[r][1]], r) /\ Holds(ws2[-cs2[r][2]], r)
    BY DEF Watching
  <2>1. r \in (1 .. Len(cs)) \ R /\ Holds(ws[-cs[r][1]], r) /\ Holds(ws[-cs[r][2]], r)
    BY <1>2 DEF Lists, Watching
  <2>2. CASE r = cr
    <3>1. -d[1] \in {-c[1], -c[2]}
      BY <1>7
    <3>2. Holds(ws[-d[1]], cr)
      BY <2>1, <2>2, <3>1 DEF c
    <3>3. Holds(ws2[-d[1]], cr)
      BY <3>2, <1>4, <1>7, <1>16
    <3>4. Len(ws[q]) + 1 \in 1 .. Len(more)
      BY <1>8, <1>9
    <3>5. Holds(ws2[q], cr)
      BY <3>4, <1>5, <1>9, <1>12 DEF Holds
    <3> QED
      BY <2>2, <3>3, <3>5, <1>2
  <2>3. CASE r # cr
    <3>1. cs[r][1] \in Lits /\ cs[r][2] \in Lits /\ -cs[r][1] \in Lits /\ -cs[r][2] \in Lits
      BY <2>1, Stored, Watched DEF Lists, Clauses
    <3> QED
      BY <2>1, <2>3, <3>1, <1>2, <1>16
  <2> QED
    BY <2>2, <2>3
<1>18. Once(ws2)
  <2> SUFFICES ASSUME NEW m \in Lits, NEW i \in 1 .. Len(ws2[m]), NEW j \in 1 .. Len(ws2[m]),
                      ws2[m][i][1] = ws2[m][j][1]
               PROVE  i = j
    BY DEF Once, OnceIn
  <2>1. \A x, y \in 1 .. Len(ws[m]) : ws[m][x][1] = ws[m][y][1] => x = y
    BY DEF Lists, Once, OnceIn
  <2>2. CASE m = l
    <3>1. i \in 1 .. (Len(ws[l]) - 1) /\ j \in 1 .. (Len(ws[l]) - 1)
      BY <2>2, <1>10, <1>12
    <3> DEFINE N == Len(ws[l])
               at(x) == IF x < k THEN x ELSE x + 1
    <3>2. k \in Nat /\ N \in Nat
      BY <1>8
    <3> HIDE DEF N
    <3>3. \A x \in 1 .. (N - 1) : at(x) \in 1 .. N
      BY <3>2
    <3>4. \A x, y \in 1 .. (N - 1) : at(x) = at(y) => x = y
      BY <3>2
    <3>5. ws2[m][i] = ws[l][at(i)] /\ ws2[m][j] = ws[l][at(j)]
      BY <2>2, <3>1, <1>10, <1>12
    <3> HIDE DEF at
    <3>6. i \in 1 .. (N - 1) /\ j \in 1 .. (N - 1)
      BY <3>1 DEF N
    <3>7. at(i) \in 1 .. Len(ws[m]) /\ at(j) \in 1 .. Len(ws[m])
      BY <3>3, <3>6, <2>2 DEF N
    <3>8. at(i) = at(j)
      BY <2>1, <2>2, <3>5, <3>7
    <3> QED
      BY <3>4, <3>6, <3>8
  <2>3. CASE m = q
    <3>1. \A x \in 1 .. Len(ws[q]) : more[x][1] # cr
      <4> SUFFICES ASSUME NEW x \in 1 .. Len(ws[q]), ws[q][x][1] = cr
                   PROVE  FALSE
        BY <1>9
      <4>1. Entry(cs, R, q, ws[q][x])
        BY <1>4 DEF Lists, Listed
      <4>2. q \in {-c[1], -c[2]}
        BY <4>1 DEF Entry, c
      <4> QED
        BY <4>2, <1>7
    <3>2. \A x \in 1 .. Len(more) : x \in 1 .. Len(ws[q]) \/ x = Len(ws[q]) + 1
      BY <1>8, <1>9
    <3> QED
      <4>1. i \in 1 .. Len(more) /\ j \in 1 .. Len(more) /\ more[i][1] = more[j][1]
        BY <2>3, <1>12
      <4>2. \A x \in 1 .. Len(ws[q]) : more[x] = ws[m][x]
        BY <2>3, <1>9
      <4>3. more[Len(ws[q]) + 1][1] = cr
        BY <1>5, <1>9
      <4>4. CASE i \in 1 .. Len(ws[q]) /\ j \in 1 .. Len(ws[q])
        BY <4>1, <4>2, <4>4, <2>1, <2>3
      <4>5. CASE i = Len(ws[q]) + 1
        BY <4>1, <4>3, <4>5, <3>1, <3>2
      <4>6. CASE j = Len(ws[q]) + 1
        BY <4>1, <4>3, <4>6, <3>1, <3>2
      <4> QED
        BY <4>1, <4>4, <4>5, <4>6, <3>2
  <2>4. CASE m # l /\ m # q
    BY <2>1, <2>4, <1>12
  <2> QED
    BY <2>2, <2>3, <2>4
<1>19. Clean(R, ws2, D)
  <2> SUFFICES ASSUME NEW m \in Lits \ D, NEW j \in 1 .. Len(ws2[m])
               PROVE  ws2[m][j][1] \notin R
    BY DEF Clean
  <2>0. m \in Lits
    OBVIOUS
  <2>1. \A i \in 1 .. Len(ws[m]) : ws[m][i][1] \notin R
    BY DEF Lists, Clean
  <2>2. (\E i \in 1 .. Len(ws[m]) : ws2[m][j] = ws[m][i]) \/ ws2[m][j] = w
    BY <1>13, <2>0
  <2> QED
    BY <2>1, <2>2, <1>5
<1>21. MovedEntries(ws, ws2, l, k, q)
  <2>1. Len(ws2[l]) = Len(ws[l]) - 1
        /\ \A j \in 1 .. Len(ws2[l]) : j < k => ws2[l][j] = ws[l][j]
    BY <1>8, <1>10, <1>12
  <2>2. \A m \in Lits \ {q} : \A j \in 1 .. Len(ws2[m]) :
          \E i \in 1 .. Len(ws[m]) : ws2[m][j] = ws[m][i]
    <3> HIDE DEF q
    <3> QED
      BY <1>13
  <2> QED
    BY <2>1, <2>2 DEF MovedEntries
<1>22. TypedLists(cs2, R, ws2)
  BY <1>2, <1>12 DEF TypedLists
<1>23. Lists(cs2, R, ws2, D)
  BY <1>14, <1>15, <1>17, <1>18, <1>19 DEF Lists
<1> QED
  BY <1>21, <1>22, <1>23 DEF cs2, ws2, q

\* attachClause: a new clause joins the lists of its first two literals.
LEMMA ListsAttach ==
  ASSUME NEW cs, NEW R, NEW ws, NEW D, TypedLists(cs, R, ws), Lists(cs, R, ws, D),
         NEW c \in Seq(Lits), Len(c) > 1, IsInjective(c),
         NEW cr, cr = Len(cs) + 1
  PROVE  /\ TypedLists(Append(cs, c), R, AttachTo(ws, c, cr))
         /\ Lists(Append(cs, c), R, AttachTo(ws, c, cr), D)
         /\ Len(Append(cs, c)) = cr /\ Append(cs, c)[cr] = c
         /\ \A r \in 1 .. Len(cs) : Append(cs, c)[r] = cs[r]
         /\ \A m \in Lits : \A j \in 1 .. Len(AttachTo(ws, c, cr)[m]) :
              \/ j \in 1 .. Len(ws[m]) /\ AttachTo(ws, c, cr)[m][j] = ws[m][j]
              \/ m \in {-c[1], -c[2]} /\ AttachTo(ws, c, cr)[m][j][1] = cr
<1> DEFINE cs2 == Append(cs, c)
           ws2 == AttachTo(ws, c, cr)
           q1 == -c[1]
           q2 == -c[2]
           w1 == <<cr, c[2]>>
           w2 == <<cr, c[1]>>
           list1 == Append(ws[q1], w1)
           list2 == Append(ws[q2], w2)
<1>1. /\ c[1] \in Lits /\ c[2] \in Lits /\ c[1] \in LitsIn(c) /\ c[2] \in LitsIn(c)
      /\ q1 \in Lits /\ q2 \in Lits /\ q1 # q2
  BY Watched
<1>2. Len(cs) \in Nat /\ cr \in Nat /\ cr \notin 1 .. Len(cs) /\ cr \in 1 .. cr /\ cr \notin R
      /\ 1 .. cr = (1 .. Len(cs)) \cup {cr}
  BY DEF TypedLists
<1>3. /\ cs2 \in Seq(Seq(Lits)) /\ Len(cs2) = cr /\ cs2[cr] = c
      /\ \A r \in 1 .. Len(cs) : cs2[r] = cs[r]
  BY <1>2, AppendFacts DEF TypedLists
<1>4. w1 \in Nat \X Lits /\ w1[1] = cr /\ w1[2] = c[2]
      /\ w2 \in Nat \X Lits /\ w2[1] = cr /\ w2[2] = c[1]
  BY <1>1, <1>2
<1>5. ws2 = [ws EXCEPT ![q1] = list1, ![q2] = list2]
  BY <1>1 DEF AttachTo, TypedLists
<1> HIDE DEF w1, w2, cs2, ws2
<1>6. /\ list1 \in Seq(Nat \X Lits) /\ Len(list1) = Len(ws[q1]) + 1 /\ list1[Len(ws[q1]) + 1] = w1
      /\ \A j \in 1 .. Len(ws[q1]) : list1[j] = ws[q1][j]
  BY <1>1, <1>4, Stored, AppendFacts
<1>7. /\ list2 \in Seq(Nat \X Lits) /\ Len(list2) = Len(ws[q2]) + 1 /\ list2[Len(ws[q2]) + 1] = w2
      /\ \A j \in 1 .. Len(ws[q2]) : list2[j] = ws[q2][j]
  BY <1>1, <1>4, Stored, AppendFacts
<1> HIDE DEF list1, list2
<1>8. /\ ws2[q1] = list1 /\ ws2[q2] = list2
      /\ \A m \in Lits : m # q1 /\ m # q2 => ws2[m] = ws[m]
      /\ ws2 \in [Lits -> Seq(Nat \X Lits)]
  <2> DEFINE T == Seq(Nat \X Lits)
  <2>1. ws \in [Lits -> T] /\ list1 \in T /\ list2 \in T
    BY <1>6, <1>7 DEF TypedLists
  <2> HIDE DEF T, q1, q2
  <2>2. ws2[q1] = list1 /\ ws2[q2] = list2
    BY <2>1, <1>1, <1>5
  <2>3. \A m \in Lits : m # q1 /\ m # q2 => ws2[m] = ws[m]
    BY <2>1, <1>1, <1>5
  <2>4. ws2 \in [Lits -> T]
    BY <2>1, <1>1, <1>5
  <2> QED
    BY <2>2, <2>3, <2>4 DEF T
<1> HIDE DEF q1, q2
<1>9. \A m \in Lits : Len(ws[m]) \in Nat
  BY Stored
\* A list has its old entries and, if c watches for it, one more.
<1>10. ASSUME NEW m \in Lits
       PROVE  /\ \A j \in 1 .. Len(ws[m]) : j \in 1 .. Len(ws2[m]) /\ ws2[m][j] = ws[m][j]
              /\ \A j \in 1 .. Len(ws2[m]) :
                   \/ j \in 1 .. Len(ws[m])
                   \/ j = Len(ws[m]) + 1 /\ m = q1 /\ ws2[m][j] = w1
                   \/ j = Len(ws[m]) + 1 /\ m = q2 /\ ws2[m][j] = w2
              /\ m \in {q1, q2} => Len(ws[m]) + 1 \in 1 .. Len(ws2[m])
  <2>1. CASE m = q1
    <3>1. ws2[m] = list1 /\ Len(ws[m]) \in Nat /\ Len(list1) = Len(ws[m]) + 1
          /\ list1[Len(ws[m]) + 1] = w1 /\ \A j \in 1 .. Len(ws[m]) : list1[j] = ws[m][j]
      BY <2>1, <1>1, <1>6, <1>8, <1>9
    <3>2. \A j \in 1 .. Len(list1) : j \in 1 .. Len(ws[m]) \/ j = Len(ws[m]) + 1
      BY <3>1
    <3>3. Len(ws[m]) + 1 \in 1 .. Len(list1) /\ \A j \in 1 .. Len(ws[m]) : j \in 1 .. Len(list1)
      BY <3>1
    <3> QED
      BY <2>1, <3>1, <3>2, <3>3
  <2>2. CASE m = q2
    <3>1. ws2[m] = list2 /\ Len(ws[m]) \in Nat /\ Len(list2) = Len(ws[m]) + 1
          /\ list2[Len(ws[m]) + 1] = w2 /\ \A j \in 1 .. Len(ws[m]) : list2[j] = ws[m][j]
      BY <2>2, <1>1, <1>7, <1>8, <1>9
    <3>2. \A j \in 1 .. Len(list2) : j \in 1 .. Len(ws[m]) \/ j = Len(ws[m]) + 1
      BY <3>1
    <3>3. Len(ws[m]) + 1 \in 1 .. Len(list2) /\ \A j \in 1 .. Len(ws[m]) : j \in 1 .. Len(list2)
      BY <3>1
    <3> QED
      BY <2>2, <3>1, <3>2, <3>3
  <2>3. CASE m # q1 /\ m # q2
    BY <2>3, <1>8, <1>9
  <2> QED
    BY <2>1, <2>2, <2>3
<1>11. Clauses(cs2, R)
  BY <1>2, <1>3 DEF Lists, Clauses
<1>12. Listed(cs2, R, ws2)
  <2> SUFFICES ASSUME NEW m \in Lits, NEW j \in 1 .. Len(ws2[m])
               PROVE  Entry(cs2, R, m, ws2[m][j])
    BY DEF Listed
  <2>1. CASE j \in 1 .. Len(ws[m])
    <3>1. Entry(cs, R, m, ws[m][j]) /\ ws2[m][j] = ws[m][j]
      BY <2>1, <1>10 DEF Lists, Listed
    <3> QED
      BY <3>1, <1>2, <1>3 DEF Entry
  <2>2. CASE m = q1 /\ ws2[m][j] = w1
    BY <2>2, <1>1, <1>2, <1>3, <1>4 DEF Entry, q1
  <2>3. CASE m = q2 /\ ws2[m][j] = w2
    BY <2>3, <1>1, <1>2, <1>3, <1>4 DEF Entry, q2
  <2> QED
    BY <1>10, <2>1, <2>2, <2>3
<1>13. Watching(cs2, R, ws2)
  <2> SUFFICES ASSUME NEW r \in (1 .. Len(cs2)) \ R
               PROVE  Holds(ws2[-cs2[r][1]], r) /\ Holds(ws2[-cs2[r][2]], r)
    BY DEF Watching
  <2>1. CASE r = cr
    <3>1. ws2[q1][Len(ws[q1]) + 1][1] = cr /\ ws2[q2][Len(ws[q2]) + 1][1] = cr
      BY <1>4, <1>6, <1>7, <1>8
    <3>2. Holds(ws2[q1], cr) /\ Holds(ws2[q2], cr)
      BY <3>1, <1>1, <1>10 DEF Holds
    <3> QED
      BY <2>1, <3>2, <1>3 DEF q1, q2
  <2>2. CASE r # cr
    <3>1. r \in (1 .. Len(cs)) \ R /\ cs2[r] = cs[r]
      BY <2>2, <1>2, <1>3
    <3>2. -cs[r][1] \in Lits /\ -cs[r][2] \in Lits
      BY <3>1, Stored, Watched DEF Lists, Clauses
    <3>3. Holds(ws[-cs[r][1]], r) /\ Holds(ws[-cs[r][2]], r)
      BY <3>1 DEF Lists, Watching
    <3> QED
      <4>1. ASSUME NEW m \in Lits, Holds(ws[m], r)
            PROVE  Holds(ws2[m], r)
        BY <4>1, <1>10 DEF Holds
      <4> QED
        BY <3>1, <3>2, <3>3, <4>1
  <2> QED
    BY <2>1, <2>2
<1>14. Once(ws2)
  <2> SUFFICES ASSUME NEW m \in Lits, NEW i \in 1 .. Len(ws2[m]), NEW j \in 1 .. Len(ws2[m]),
                      ws2[m][i][1] = ws2[m][j][1]
               PROVE  i = j
    BY DEF Once, OnceIn
  <2>1. \A x, y \in 1 .. Len(ws[m]) : ws[m][x][1] = ws[m][y][1] => x = y
    BY DEF Lists, Once, OnceIn
  <2>2. \A x \in 1 .. Len(ws[m]) : ws2[m][x] = ws[m][x] /\ ws2[m][x][1] # cr
    <3>1. \A x \in 1 .. Len(ws[m]) : ws[m][x][1] \in 1 .. Len(cs)
      BY DEF Lists, Listed, Entry
    <3> QED
      BY <3>1, <1>2, <1>10
  <2>3. \A x \in 1 .. Len(ws2[m]) : x \in 1 .. Len(ws[m])
                                    \/ (x = Len(ws[m]) + 1 /\ ws2[m][x][1] = cr)
    BY <1>4, <1>10
  <2> QED
    BY <2>1, <2>2, <2>3
<1>15. Clean(R, ws2, D)
  <2> SUFFICES ASSUME NEW m \in Lits, m \notin D, NEW j \in 1 .. Len(ws2[m])
               PROVE  ws2[m][j][1] \notin R
    BY DEF Clean
  <2>1. \A i \in 1 .. Len(ws[m]) : ws[m][i][1] \notin R
    BY DEF Lists, Clean
  <2> QED
    <3>1. CASE j \in 1 .. Len(ws[m])
      BY <3>1, <2>1, <1>10
    <3>2. CASE j \notin 1 .. Len(ws[m])
      BY <3>2, <1>2, <1>4, <1>10
    <3> QED
      BY <3>1, <3>2
<1>16. \A m \in Lits : \A j \in 1 .. Len(ws2[m]) :
         \/ j \in 1 .. Len(ws[m]) /\ ws2[m][j] = ws[m][j]
         \/ m \in {q1, q2} /\ ws2[m][j][1] = cr
  BY <1>4, <1>10
<1>17. TypedLists(cs2, R, ws2)
  BY <1>2, <1>3, <1>8 DEF TypedLists
<1>18. Lists(cs2, R, ws2, D)
  BY <1>11, <1>12, <1>13, <1>14, <1>15 DEF Lists
<1> QED
  BY <1>3, <1>16, <1>17, <1>18 DEF cs2, ws2, q1, q2

\* clean, at the start of propagate: the marked lists lose what was removed.
Cleaned(R, ws, D) ==
  [l \in Lits |-> IF l \in D THEN Without(ws[l], R \X Lits) ELSE ws[l]]
EntriesFrom(ws2, ws) ==
  \A l \in Lits : \A j \in 1 .. Len(ws2[l]) : \E k \in 1 .. Len(ws[l]) : ws2[l][j] = ws[l][k]
\* A cleaned list has entries it had, none of a removed clause.
LEMMA ListsClean ==
  ASSUME NEW cs, NEW R, NEW ws, NEW D, TypedLists(cs, R, ws), Lists(cs, R, ws, D)
  PROVE  /\ TypedLists(cs, R, Cleaned(R, ws, D)) /\ Lists(cs, R, Cleaned(R, ws, D), {})
         /\ EntriesFrom(Cleaned(R, ws, D), ws)
<1> DEFINE ws2 == Cleaned(R, ws, D)
<1>0. ws2 = [l \in Lits |-> IF l \in D THEN Without(ws[l], R \X Lits) ELSE ws[l]]
  BY DEF Cleaned
<1> HIDE DEF ws2
<1>1. ASSUME NEW l \in Lits
      PROVE  /\ ws2[l] \in Seq(Nat \X Lits)
             /\ \A j \in 1 .. Len(ws2[l]) : /\ \E k \in 1 .. Len(ws[l]) : ws2[l][j] = ws[l][k]
                                            /\ ws2[l][j][1] \notin R
             /\ OnceIn(ws2[l])
             /\ \A cr : Holds(ws[l], cr) /\ cr \notin R => Holds(ws2[l], cr)
  <2>1. ws[l] \in Seq(Nat \X Lits)
        /\ \A k \in 1 .. Len(ws[l]) : ws[l][k] \in Nat \X Lits /\ ws[l][k][2] \in Lits
    BY Stored
  <2>2. \A i, k \in 1 .. Len(ws[l]) : ws[l][i][1] = ws[l][k][1] => i = k
    BY DEF Lists, Once, OnceIn
  <2>3. CASE l \in D
    <3> DEFINE bad == R \X Lits
               t == Without(ws[l], bad)
    <3>1. ws2[l] = t
      BY <2>3, <1>0
    <3>2. \A k \in 1 .. Len(ws[l]) : ws[l][k] \in bad <=> ws[l][k][1] \in R
      BY <2>1
    <3>3. t \in Seq(Nat \X Lits) /\ \E e : Picks(e, ws[l], Len(ws[l]), t, bad)
      BY <2>1, WithoutPicks
    <3> HIDE DEF bad, t
    <3>4. PICK e : Picks(e, ws[l], Len(ws[l]), t, bad)
      BY <3>3
    <3>5. \A j \in 1 .. Len(t) : /\ e[j] \in 1 .. Len(ws[l]) /\ t[j] = ws[l][e[j]]
                                 /\ ws[l][e[j]][1] \notin R
      BY <3>2, <3>4 DEF Picks
    <3>6. OnceIn(t)
      BY <2>2, <3>4, <3>5 DEF OnceIn, Picks
    <3>7. ASSUME NEW cr, Holds(ws[l], cr), cr \notin R
          PROVE  Holds(t, cr)
      <4>1. PICK k \in 1 .. Len(ws[l]) : ws[l][k][1] = cr
        BY <3>7 DEF Holds
      <4>2. PICK j \in 1 .. Len(t) : e[j] = k
        BY <4>1, <3>2, <3>4, <3>7 DEF Picks
      <4> QED
        BY <4>1, <4>2, <3>5 DEF Holds
    <3> QED
      BY <3>1, <3>3, <3>5, <3>6, <3>7
  <2>4. CASE l \notin D
    <3>1. ws2[l] = ws[l]
      BY <2>4, <1>0
    <3>2. \A k \in 1 .. Len(ws[l]) : ws[l][k][1] \notin R
      BY <2>4 DEF Lists, Clean
    <3>3. OnceIn(ws[l])
      BY <2>2 DEF OnceIn
    <3>4. \A j \in 1 .. Len(ws[l]) : \E k \in 1 .. Len(ws[l]) : ws[l][j] = ws[l][k]
      OBVIOUS
    <3> QED
      BY <3>1, <3>2, <3>3, <3>4, <2>1
  <2> QED
    BY <2>3, <2>4
<1>2. ws2 \in [Lits -> Seq(Nat \X Lits)]
  <2> DEFINE T == Seq(Nat \X Lits)
  <2>1. \A l \in Lits : ws2[l] \in T
    BY <1>1
  <2> HIDE DEF T
  <2>2. ws2 \in [Lits -> T]
    BY <2>1, <1>0
  <2> QED
    BY <2>2 DEF T
<1>3. Listed(cs, R, ws2)
  <2> SUFFICES ASSUME NEW l \in Lits, NEW j \in 1 .. Len(ws2[l])
               PROVE  Entry(cs, R, l, ws2[l][j])
    BY DEF Listed
  <2>1. PICK k \in 1 .. Len(ws[l]) : ws2[l][j] = ws[l][k]
    BY <1>1
  <2>2. Entry(cs, R, l, ws[l][k])
    BY DEF Lists, Listed
  <2> QED
    BY <2>1, <2>2
<1>4. Watching(cs, R, ws2)
  <2> SUFFICES ASSUME NEW r \in (1 .. Len(cs)) \ R
               PROVE  Holds(ws2[-cs[r][1]], r) /\ Holds(ws2[-cs[r][2]], r)
    BY DEF Watching
  <2>1. -cs[r][1] \in Lits /\ -cs[r][2] \in Lits
    BY Stored, Watched DEF Lists, Clauses
  <2>2. Holds(ws[-cs[r][1]], r) /\ Holds(ws[-cs[r][2]], r)
    BY DEF Lists, Watching
  <2> QED
    BY <2>1, <2>2, <1>1
<1>5. Once(ws2) /\ Clean(R, ws2, {}) /\ Clauses(cs, R)
  BY <1>1 DEF Lists, Once, Clean
<1> QED
  BY <1>1, <1>2, <1>3, <1>4, <1>5 DEF TypedLists, Lists, EntriesFrom, ws2

\* removeClause marks the lists it leaves the clause in.
LEMMA ListsRemove ==
  ASSUME NEW cs, NEW R, NEW ws, NEW D, TypedLists(cs, R, ws), Lists(cs, R, ws, D),
         NEW cr \in (1 .. Len(cs)) \ R, NEW cs2, cs2 = [cs EXCEPT ![cr] = <<>>]
  PROVE  /\ TypedLists(cs2, R \cup {cr}, ws)
         /\ Lists(cs2, R \cup {cr}, ws, D \cup {-cs[cr][1], -cs[cr][2]})
<1>1. /\ cs2 \in Seq(Seq(Lits)) /\ Len(cs2) = Len(cs)
      /\ \A r \in 1 .. Len(cs) : r # cr => cs2[r] = cs[r]
  BY DEF TypedLists
<1>2. Clauses(cs2, R \cup {cr}) /\ Once(ws)
  BY <1>1 DEF Lists, Clauses
<1>3. Listed(cs2, R \cup {cr}, ws)
  BY <1>1 DEF Lists, Listed, Entry
<1>4. Watching(cs2, R \cup {cr}, ws)
  BY <1>1 DEF Lists, Watching
<1>5. Clean(R \cup {cr}, ws, D \cup {-cs[cr][1], -cs[cr][2]})
  <2> SUFFICES ASSUME NEW m \in Lits, m \notin D, m \notin {-cs[cr][1], -cs[cr][2]},
                      NEW j \in 1 .. Len(ws[m])
               PROVE  ws[m][j][1] \notin R \cup {cr}
    BY DEF Clean
  <2>1. ws[m][j][1] \notin R
    BY DEF Lists, Clean
  <2>2. Entry(cs, R, m, ws[m][j])
    BY DEF Lists, Listed
  <2> QED
    BY <2>1, <2>2 DEF Entry
<1> QED
  BY <1>1, <1>2, <1>3, <1>4, <1>5 DEF TypedLists, Lists

-----------------------------------------------------------------------------
(***************************************************************************)
(* The steps around propagate.                                             *)
(***************************************************************************)

\* The types of the trail and of the lists.
LEMMA StateTyped ==
  ASSUME TypeOK
  PROVE  TypedTrail(trail, trail_lim, qhead) /\ TypedLists(ca, removed, watches)
BY DEF TypeOK, TypedTrail, TypedLists

\* The literals of the trail, and what the lists hold of them.
LEMMA OnTrail ==
  ASSUME TypeOK
  PROVE  \A i \in 1 .. Len(trail) :
           /\ trail[i] \in Lits /\ var(trail[i]) \in Vars
           /\ IsTrue(trail[i]) /\ watches[trail[i]] \in Seq(Nat \X Lits)
<1>1. \A i \in 1 .. Len(trail) : trail[i] \in Lits
  BY DEF TypeOK
<1>2. \A i \in 1 .. Len(trail) : watches[trail[i]] \in Seq(Nat \X Lits)
  BY <1>1, StateTyped, Stored
<1> QED
  BY <1>1, <1>2, Literals DEF IsTrue

\* uncheckedEnqueue: the new literal is the first of its reason, if it has one.
LEMMA ReasonsEnqueue ==
  ASSUME NEW cs, NEW t \in Seq(Lits), NEW rs \in [Vars -> Nat], ReasonsFirst(cs, t, rs),
         NEW l \in Lits, \A i \in 1 .. Len(t) : var(t[i]) # var(l),
         NEW cr \in Nat, cr # None => cr \in 1 .. Len(cs) /\ cs[cr][1] = l
  PROVE  /\ ReasonsFirst(cs, Append(t, l), [rs EXCEPT ![var(l)] = cr])
         /\ [rs EXCEPT ![var(l)] = cr] \in [Vars -> Nat]
<1> DEFINE T == Append(t, l)
           S == [rs EXCEPT ![var(l)] = cr]
<1>1. /\ Len(T) = Len(t) + 1 /\ T[Len(t) + 1] = l
      /\ \A i \in 1 .. Len(t) : T[i] = t[i]
  BY AppendFacts
<1>2. var(l) \in Vars /\ \A i \in 1 .. Len(t) : var(t[i]) \in Vars
  <2>1. \A i \in 1 .. Len(t) : t[i] \in Lits
    OBVIOUS
  <2> QED
    BY <2>1, Literals
<1>3. S[var(l)] = cr /\ \A i \in 1 .. Len(t) : S[var(t[i])] = rs[var(t[i])]
  BY <1>2
<1>4. S \in [Vars -> Nat]
  OBVIOUS
<1> HIDE DEF T, S
<1>5. ASSUME NEW i \in 1 .. Len(T), S[var(T[i])] # None
      PROVE  S[var(T[i])] \in 1 .. Len(cs) /\ cs[S[var(T[i])]][1] = T[i]
  <2>1. i \in 1 .. Len(t) \/ i = Len(t) + 1
    BY <1>1
  <2>2. CASE i \in 1 .. Len(t)
    BY <2>2, <1>1, <1>3, <1>5 DEF ReasonsFirst
  <2>3. CASE i = Len(t) + 1
    BY <2>3, <1>1, <1>3, <1>5
  <2> QED
    BY <2>1, <2>2, <2>3
<1>6. ReasonsFirst(cs, T, S)
  BY <1>5 DEF ReasonsFirst
<1> QED
  BY <1>4, <1>6 DEF T, S

\* addClause_ stores a clause whose literals have no value.
LEMMA AddClauseStep ==
  ASSUME IInv, AddClause
  PROVE  IInv'
<1> DEFINE c == NewClauses[Len(ca) + 1]
           falses == {l \in Lits : IsFalse(l)}
           rest == Without(c, falses)
           cr == Len(ca) + 1
<1>1. /\ TypeOK /\ Distinct(trail) /\ Rising(trail, trail_lim, qhead)
      /\ Lists(ca, removed, watches, dirty) /\ VisitedSafe
      /\ ReasonsFirst(ca, trail, reason) /\ TypedLists(ca, removed, watches)
  BY StateTyped DEF IInv
<1>2. /\ Propagated /\ Len(ca) < Len(NewClauses) /\ Len(rest) > 1
      /\ \A k \in 1 .. Len(c) : ~ IsTrue(c[k])
      /\ ca' = Append(ca, rest) /\ watches' = AttachTo(watches, rest, Len(ca'))
      /\ UNCHANGED <<removed, learnt, dirty, assignment, qhead, pc, kept>>
  BY DEF AddClause
<1>3. c \in Seq(Lits) /\ IsInjective(c)
  <2>1. Len(ca) \in Nat /\ Len(NewClauses) \in Nat
    BY <1>1, ClausesAssumption DEF TypeOK
  <2>2. Len(ca) + 1 \in 1 .. Len(NewClauses)
    BY <1>2, <2>1
  <2> QED
    BY <2>2, ClausesAssumption
<1>4. rest \in Seq(Lits) /\ \E e : Picks(e, c, Len(c), rest, falses)
  BY <1>3, WithoutPicks
<1> HIDE DEF rest, c, falses
<1>5. PICK e : Picks(e, c, Len(c), rest, falses)
  BY <1>4
<1>6. IsInjective(rest)
  <2>1. DOMAIN c = 1 .. Len(c) /\ DOMAIN rest = 1 .. Len(rest)
    BY <1>3, <1>4
  <2>2. \A k, m \in 1 .. Len(c) : c[k] = c[m] => k = m
    BY <1>3, <2>1 DEF IsInjective
  <2>3. \A i, j \in 1 .. Len(rest) : rest[i] = rest[j] => i = j
    BY <1>5, <2>2 DEF Picks
  <2> QED
    BY <2>1, <2>3 DEF IsInjective
<1>7. \A i \in 1 .. Len(rest) : rest[i] \in Lits /\ ~ IsFalse(rest[i])
  BY <1>4, <1>5 DEF Picks, falses
<1>8. -rest[1] \in Lits /\ -rest[2] \in Lits
      /\ ~ IsTrue(-rest[1]) /\ ~ IsTrue(-rest[2])
  <2>1. 1 \in 1 .. Len(rest) /\ 2 \in 1 .. Len(rest)
    BY <1>2, <1>4
  <2> QED
    BY <2>1, <1>7, Literals DEF IsFalse
<1>9. /\ TypedLists(ca', removed, watches') /\ Lists(ca', removed, watches', dirty)
      /\ Len(ca') = cr /\ \A r \in 1 .. Len(ca) : ca'[r] = ca[r]
      /\ \A m \in Lits : \A j \in 1 .. Len(watches'[m]) :
           \/ j \in 1 .. Len(watches[m]) /\ watches'[m][j] = watches[m][j]
           \/ m \in {-rest[1], -rest[2]}
  <2>1. Len(Append(ca, rest)) = cr
    BY <1>1, <1>4, <1>6, <1>2, ListsAttach
  <2>2. watches' = AttachTo(watches, rest, cr)
    BY <1>2, <2>1
  <2> HIDE DEF cr
  <2>3. cr = Len(ca) + 1
    BY DEF cr
  <2> QED
    BY <1>1, <1>2, <1>4, <1>6, <2>1, <2>2, <2>3, ListsAttach
<1>10. VisitedSafe'
  <2> SUFFICES ASSUME NEW i \in 1 .. Len(trail), NEW k \in 1 .. Len(watches'[trail[i]]),
                      Visited(i, k)', watches'[trail[i]][k][1] \notin removed
               PROVE  Safe(trail, trail_lim, i, LitsIn(ca'[watches'[trail[i]][k][1]]))
    BY <1>2 DEF VisitedSafe, assignment
  <2>1. trail[i] \in Lits /\ trail[i] \notin {-rest[1], -rest[2]}
    BY <1>1, <1>8, OnTrail
  <2>2. k \in 1 .. Len(watches[trail[i]]) /\ watches'[trail[i]][k] = watches[trail[i]][k]
    BY <2>1, <1>9
  <2>3. Visited(i, k)
    BY <1>2 DEF Visited, assignment
  <2>4. Safe(trail, trail_lim, i, LitsIn(ca[watches[trail[i]][k][1]]))
    BY <2>2, <2>3, <1>1 DEF VisitedSafe
  <2>5. watches[trail[i]][k][1] \in 1 .. Len(ca)
    BY <2>1, <2>2, <1>1 DEF Lists, Listed, Entry
  <2> QED
    BY <2>2, <2>4, <2>5, <1>9
<1>11. ReasonsFirst(ca', trail, reason)
  <2>1. 1 .. Len(ca) \subseteq 1 .. Len(ca')
    BY <1>1, <1>9 DEF TypeOK
  <2> QED
    BY <2>1, <1>1, <1>9 DEF ReasonsFirst
<1>12. TypeOK'
  BY <1>1, <1>2, <1>9 DEF TypeOK, TypedLists, assignment
<1>13. Visiting' /\ (pc # "search" => dirty = {})'
  BY <1>2 DEF Visiting, Propagated, IInv
<1> QED
  BY <1>1, <1>2, <1>9, <1>10, <1>11, <1>12, <1>13 DEF IInv, assignment

\* search decides a literal at a new level.
LEMMA DecideStep ==
  ASSUME IInv, Decide
  PROVE  IInv'
<1>1. /\ TypeOK /\ Distinct(trail) /\ Rising(trail, trail_lim, qhead) /\ VisitedSafe
      /\ ReasonsFirst(ca, trail, reason) /\ TypedTrail(trail, trail_lim, qhead)
  BY StateTyped DEF IInv
<1>2. PICK l \in Decisions : IsUndef(l) /\ Enqueue(l, None)
  BY DEF Decide
<1>3. /\ pc = "search" /\ qhead = Len(trail) /\ trail_lim' = Append(trail_lim, Len(trail))
      /\ trail' = Append(trail, l) /\ reason' = [reason EXCEPT ![var(l)] = None]
      /\ UNCHANGED <<db, watches, dirty, qhead, pc, kept>>
  BY <1>2 DEF Decide, Propagated, Enqueue
<1>4. l \in Lits /\ \A i \in 1 .. Len(trail) : var(trail[i]) # var(l)
  BY <1>1, <1>2, Values, LiteralsAssumption DEF TypeOK
<1>5. /\ TypedTrail(trail, trail_lim', qhead) /\ Rising(trail, trail_lim', qhead)
      /\ \A i, C : Safe(trail, trail_lim, i, C) => Safe(trail, trail_lim', i, C)
  BY <1>1, <1>3, NewLevelTrail
<1>6. /\ TypedTrail(trail', trail_lim', qhead) /\ Distinct(trail')
      /\ Rising(trail', trail_lim', qhead)
      /\ \A i, C : Safe(trail, trail_lim', i, C) => Safe(trail', trail_lim', i, C)
  <2> HIDE DEF Rising
  <2> QED
    BY <1>1, <1>3, <1>4, <1>5, EnqueueTrail
<1>7. ReasonsFirst(ca, trail', reason') /\ reason' \in [Vars -> Nat]
  BY <1>1, <1>3, <1>4, ReasonsEnqueue DEF TypeOK, None
<1>8. VisitedSafe'
  <2> SUFFICES ASSUME NEW i \in 1 .. Len(trail'), NEW k \in 1 .. Len(watches[trail'[i]]),
                      Visited(i, k)', watches[trail'[i]][k][1] \notin removed
               PROVE  Safe(trail', trail_lim', i, LitsIn(ca[watches[trail'[i]][k][1]]))
    BY <1>3 DEF VisitedSafe, db
  <2>1. i \in 1 .. Len(trail) /\ Visited(i, k)
    BY <1>1, <1>3 DEF Visited, TypedTrail
  <2>2. trail'[i] = trail[i]
    BY <2>1, <1>1, <1>3, <1>4, AppendFacts DEF TypedTrail
  <2>3. Safe(trail, trail_lim, i, LitsIn(ca[watches[trail[i]][k][1]]))
    BY <2>1, <2>2, <1>1 DEF VisitedSafe
  <2> QED
    BY <2>2, <2>3, <1>5, <1>6
<1>9. TypeOK'
  BY <1>1, <1>3, <1>6, <1>7 DEF TypeOK, TypedTrail, db
<1>10. Visiting' /\ (pc # "search" => dirty = {})'
  BY <1>3 DEF Visiting
<1> QED
  BY <1>3, <1>6, <1>7, <1>8, <1>9, <1>10 DEF IInv, db

\* addClause_ enqueues the one literal that is left.
LEMMA AddUnitStep ==
  ASSUME IInv, AddUnit
  PROVE  IInv'
<1>1. /\ TypeOK /\ Distinct(trail) /\ Rising(trail, trail_lim, qhead) /\ VisitedSafe
      /\ ReasonsFirst(ca, trail, reason) /\ TypedTrail(trail, trail_lim, qhead)
  BY StateTyped DEF IInv
<1>2. PICK l \in Units : IsUndef(l) /\ Enqueue(l, None)
  BY DEF AddUnit
<1>3. /\ pc = "search" /\ qhead = Len(trail)
      /\ trail' = Append(trail, l) /\ reason' = [reason EXCEPT ![var(l)] = None]
      /\ UNCHANGED <<db, watches, dirty, trail_lim, qhead, pc, kept>>
  BY <1>2 DEF AddUnit, Propagated, Enqueue
<1>4. l \in Lits /\ \A i \in 1 .. Len(trail) : var(trail[i]) # var(l)
  BY <1>1, <1>2, Values, LiteralsAssumption DEF TypeOK
<1>6. /\ TypedTrail(trail', trail_lim, qhead) /\ Distinct(trail')
      /\ Rising(trail', trail_lim, qhead)
      /\ \A i, C : Safe(trail, trail_lim, i, C) => Safe(trail', trail_lim, i, C)
  BY <1>1, <1>3, <1>4, EnqueueTrail
<1>7. ReasonsFirst(ca, trail', reason') /\ reason' \in [Vars -> Nat]
  BY <1>1, <1>3, <1>4, ReasonsEnqueue DEF TypeOK, None
<1>8. VisitedSafe'
  <2> SUFFICES ASSUME NEW i \in 1 .. Len(trail'), NEW k \in 1 .. Len(watches[trail'[i]]),
                      Visited(i, k)', watches[trail'[i]][k][1] \notin removed
               PROVE  Safe(trail', trail_lim, i, LitsIn(ca[watches[trail'[i]][k][1]]))
    BY <1>3 DEF VisitedSafe, db
  <2>1. i \in 1 .. Len(trail) /\ Visited(i, k)
    BY <1>1, <1>3 DEF Visited, TypedTrail
  <2>2. trail'[i] = trail[i]
    BY <2>1, <1>1, <1>3, <1>4, AppendFacts DEF TypedTrail
  <2>3. Safe(trail, trail_lim, i, LitsIn(ca[watches[trail[i]][k][1]]))
    BY <2>1, <2>2, <1>1 DEF VisitedSafe
  <2> QED
    BY <2>2, <2>3, <1>6
<1>9. TypeOK'
  BY <1>1, <1>3, <1>6, <1>7 DEF TypeOK, TypedTrail, db
<1>10. Visiting' /\ (pc # "search" => dirty = {})'
  BY <1>3 DEF Visiting
<1> QED
  BY <1>3, <1>6, <1>7, <1>8, <1>9, <1>10 DEF IInv, db

\* A clause is removed that no assigned variable keeps as its reason.
LEMMA RemoveStep ==
  ASSUME IInv, removeClause
  PROVE  IInv'
<1>1. /\ TypeOK /\ Distinct(trail) /\ Rising(trail, trail_lim, qhead) /\ VisitedSafe
      /\ Lists(ca, removed, watches, dirty)
      /\ ReasonsFirst(ca, trail, reason) /\ TypedLists(ca, removed, watches)
  BY StateTyped DEF IInv
<1>2. PICK cr \in Attached :
        /\ \/ cr \in learnt /\ ~ locked(cr)
           \/ decisionLevel = 0 /\ \E l \in LitsOf(cr) : IsTrue(l)
        /\ removed' = removed \cup {cr} /\ ca' = [ca EXCEPT ![cr] = <<>>]
        /\ learnt' = learnt \ {cr}
        /\ dirty' = dirty \cup {-ca[cr][1], -ca[cr][2]}
        /\ reason' = [v \in Vars |-> IF reason[v] = cr /\ locked(cr) THEN None ELSE reason[v]]
  BY DEF removeClause
<1>3. pc = "search" /\ UNCHANGED <<watches, trail, trail_lim, qhead, pc, kept>>
  BY DEF removeClause, Propagated
<1>4. cr \in (1 .. Len(ca)) \ removed
  BY DEF Attached
<1>5. /\ TypedLists(ca', removed', watches) /\ Lists(ca', removed', watches, dirty')
  BY <1>1, <1>2, <1>4, ListsRemove
<1>6. Len(ca') = Len(ca) /\ \A r \in 1 .. Len(ca) : r # cr => ca'[r] = ca[r]
  BY <1>1, <1>2, <1>4 DEF TypeOK
<1>7. reason' \in [Vars -> Nat]
  BY <1>1, <1>2 DEF TypeOK, None
<1>8. ReasonsFirst(ca', trail, reason')
  <2> SUFFICES ASSUME NEW i \in 1 .. Len(trail), reason'[var(trail[i])] # None
               PROVE  /\ reason'[var(trail[i])] \in 1 .. Len(ca')
                      /\ ca'[reason'[var(trail[i])]][1] = trail[i]
    BY DEF ReasonsFirst
  <2>1. var(trail[i]) \in Vars
    BY <1>1, OnTrail
  <2>2. reason'[var(trail[i])] = reason[var(trail[i])]
        /\ ~ (reason[var(trail[i])] = cr /\ locked(cr))
    BY <2>1, <1>2
  <2>3. reason[var(trail[i])] \in 1 .. Len(ca) /\ ca[reason[var(trail[i])]][1] = trail[i]
    BY <2>2, <1>1 DEF ReasonsFirst
  <2>4. reason[var(trail[i])] # cr
    <3> SUFFICES ASSUME reason[var(trail[i])] = cr PROVE FALSE
      OBVIOUS
    <3>1. ca[cr][1] = trail[i] /\ IsTrue(trail[i])
      BY <2>3, <1>1, OnTrail
    <3>2. locked(cr)
      BY <3>1 DEF locked
    <3> QED
      BY <2>2, <3>2
  <2> QED
    BY <2>2, <2>3, <2>4, <1>6
<1>9. VisitedSafe'
  <2> SUFFICES ASSUME NEW i \in 1 .. Len(trail), NEW k \in 1 .. Len(watches[trail[i]]),
                      Visited(i, k)', watches[trail[i]][k][1] \notin removed'
               PROVE  Safe(trail, trail_lim, i, LitsIn(ca'[watches[trail[i]][k][1]]))
    BY <1>3 DEF VisitedSafe
  <2>1. Visited(i, k)
    BY <1>3 DEF Visited
  <2>2. watches[trail[i]][k][1] \notin removed /\ watches[trail[i]][k][1] # cr
    BY <1>2
  <2>3. Safe(trail, trail_lim, i, LitsIn(ca[watches[trail[i]][k][1]]))
    BY <2>1, <2>2, <1>1 DEF VisitedSafe
  <2>4. watches[trail[i]][k][1] \in 1 .. Len(ca)
    BY <1>1, OnTrail DEF Lists, Listed, Entry
  <2> QED
    BY <2>2, <2>3, <2>4, <1>6
<1>10. dirty' \subseteq Lits
  <2>1. -ca[cr][1] \in Lits /\ -ca[cr][2] \in Lits
    BY <1>1, <1>4, Stored, Watched DEF Lists, Clauses
  <2> QED
    BY <2>1, <1>1, <1>2 DEF TypeOK
<1>11. TypeOK'
  BY <1>1, <1>3, <1>5, <1>7, <1>10 DEF TypeOK, TypedLists
<1>12. Visiting' /\ (pc # "search" => dirty = {})'
  BY <1>3 DEF Visiting
<1> QED
  BY <1>1, <1>3, <1>5, <1>8, <1>9, <1>11, <1>12 DEF IInv

-----------------------------------------------------------------------------
(***************************************************************************)
(* Restarts and backjumps.                                                 *)
(***************************************************************************)

\* The trail and the level starts that are left of the first n levels.
TrailTo(n) == SubSeq(trail, 1, trail_lim[n + 1])
LimTo(n) == SubSeq(trail_lim, 1, n)

\* cancelUntil: what is left of the assignment, and what holds of the lists for it when
\* everything up to level n was visited.
LEMMA CancelFacts ==
  ASSUME IInv, NEW n \in 0 .. (decisionLevel - 1),
         pc = "conflict" \/ (pc = "search" /\ qhead = Len(trail))
  PROVE  /\ TypedTrail(TrailTo(n), LimTo(n), trail_lim[n + 1])
         /\ Distinct(TrailTo(n)) /\ Rising(TrailTo(n), LimTo(n), trail_lim[n + 1])
         /\ Len(TrailTo(n)) = trail_lim[n + 1] /\ trail_lim[n + 1] \in Nat
         /\ Len(LimTo(n)) = n
         /\ \A m \in 1 .. n : m \in 1 .. Len(trail_lim) /\ LimTo(n)[m] = trail_lim[m]
         /\ \A i \in 1 .. trail_lim[n + 1] : i \in 1 .. Len(trail) /\ TrailTo(n)[i] = trail[i]
         /\ n + 1 \in 1 .. Len(trail_lim)
         /\ ReasonsFirst(ca, TrailTo(n), ReasonsUntil(n)) /\ ReasonsUntil(n) \in [Vars -> Nat]
         /\ \A v \in Vars : (\A i \in 1 .. trail_lim[n + 1] : var(trail[i]) # v)
                                => ReasonsUntil(n)[v] = None
         /\ \A i \in 1 .. trail_lim[n + 1] : \A k \in 1 .. Len(watches[TrailTo(n)[i]]) :
              watches[TrailTo(n)[i]][k][1] \notin removed
                => Safe(TrailTo(n), LimTo(n), i, LitsIn(ca[watches[TrailTo(n)[i]][k][1]]))
<1> DEFINE T == TrailTo(n)
           L == LimTo(n)
           q == trail_lim[n + 1]
<1>1. /\ TypeOK /\ Distinct(trail) /\ Rising(trail, trail_lim, qhead) /\ VisitedSafe
      /\ ReasonsFirst(ca, trail, reason) /\ TypedTrail(trail, trail_lim, qhead)
  BY StateTyped DEF IInv
<1>2. n \in 0 .. (Len(trail_lim) - 1)
  BY DEF decisionLevel
<1>3. /\ TypedTrail(T, L, q) /\ Distinct(T) /\ Rising(T, L, q) /\ Len(T) = q
      /\ n + 1 \in 1 .. Len(trail_lim) /\ q \in Nat /\ q <= Len(trail)
      /\ Len(L) = n /\ \A m \in 1 .. n : L[m] = trail_lim[m]
      /\ \A i \in 1 .. q : T[i] = trail[i]
      /\ \A i \in 1 .. q : \A C : Safe(trail, trail_lim, i, C) => Safe(T, L, i, C)
  BY <1>1, <1>2, CancelTrail DEF TrailTo, LimTo
<1> HIDE DEF T, L, q
<1>4. \A i \in 1 .. q : i \in 1 .. Len(trail)
  BY <1>1, <1>3 DEF TypedTrail
<1>5. \A m \in 1 .. n : m \in 1 .. Len(trail_lim)
  BY <1>1, <1>2 DEF TypedTrail
<1>6. \A v \in Vars : ReasonsUntil(n)[v] = IF \E i \in 1 .. q : var(trail[i]) = v
                                           THEN reason[v] ELSE None
  BY DEF ReasonsUntil, q
<1>7. ReasonsUntil(n) \in [Vars -> Nat]
  BY <1>1 DEF ReasonsUntil, TypeOK, None
<1>8. ReasonsFirst(ca, T, ReasonsUntil(n))
  <2> SUFFICES ASSUME NEW i \in 1 .. q, ReasonsUntil(n)[var(T[i])] # None
               PROVE  /\ ReasonsUntil(n)[var(T[i])] \in 1 .. Len(ca)
                      /\ ca[ReasonsUntil(n)[var(T[i])]][1] = T[i]
    BY <1>3 DEF ReasonsFirst
  <2>1. T[i] = trail[i] /\ i \in 1 .. Len(trail) /\ var(trail[i]) \in Vars
    BY <1>1, <1>3, <1>4, OnTrail
  <2>2. ReasonsUntil(n)[var(T[i])] = reason[var(trail[i])]
    BY <2>1, <1>6
  <2> QED
    BY <2>1, <2>2, <1>1 DEF ReasonsFirst
<1>9. \A v \in Vars : (\A i \in 1 .. q : var(trail[i]) # v) => ReasonsUntil(n)[v] = None
  BY <1>3, <1>6
<1>10. ASSUME NEW i \in 1 .. q, NEW k \in 1 .. Len(watches[T[i]]),
              watches[T[i]][k][1] \notin removed
       PROVE  Safe(T, L, i, LitsIn(ca[watches[T[i]][k][1]]))
  <2>1. Visited(i, k)
    <3>1. CASE pc = "conflict"
      <4>1. i <= trail_lim[n + 1]
        BY DEF q
      <4> QED
        BY <3>1, <4>1, <1>3 DEF Visited
    <3>2. CASE pc = "search" /\ qhead = Len(trail)
      <4>1. i <= qhead
        BY <3>2, <1>1, <1>4 DEF TypedTrail
      <4> QED
        BY <3>2, <4>1 DEF Visited
    <3> QED
      BY <3>1, <3>2
  <2>2. T[i] = trail[i] /\ i \in 1 .. Len(trail)
    BY <1>3, <1>4
  <2>3. Safe(trail, trail_lim, i, LitsIn(ca[watches[trail[i]][k][1]]))
    BY <2>1, <2>2, <1>1, <1>10 DEF VisitedSafe
  <2> QED
    BY <2>2, <2>3, <1>3
<1> QED
  BY <1>3, <1>4, <1>5, <1>7, <1>8, <1>9, <1>10 DEF T, L, q

\* A restart goes back to level 0.
LEMMA RestartStep ==
  ASSUME IInv, Restart
  PROVE  IInv'
<1>1. TypeOK /\ Lists(ca, removed, watches, dirty) /\ Len(trail_lim) \in Nat
  BY DEF IInv, TypeOK
<1>2. /\ pc = "search" /\ qhead = Len(trail) /\ 0 \in 0 .. (decisionLevel - 1)
      /\ trail_lim' = SubSeq(trail_lim, 1, 0) /\ qhead' = trail_lim[0 + 1]
      /\ trail' = SubSeq(trail, 1, trail_lim[0 + 1]) /\ reason' = ReasonsUntil(0)
      /\ UNCHANGED <<db, watches, dirty, pc, kept>>
  BY <1>1 DEF Restart, Propagated, cancelUntil, decisionLevel
<1>3. /\ TypedTrail(trail', trail_lim', qhead') /\ Distinct(trail')
      /\ Rising(trail', trail_lim', qhead') /\ Len(trail') = qhead'
      /\ ReasonsFirst(ca, trail', reason') /\ reason' \in [Vars -> Nat]
      /\ \A i \in 1 .. qhead' : \A k \in 1 .. Len(watches[trail'[i]]) :
           watches[trail'[i]][k][1] \notin removed
             => Safe(trail', trail_lim', i, LitsIn(ca[watches[trail'[i]][k][1]]))
  <2>1. trail' = TrailTo(0) /\ trail_lim' = LimTo(0) /\ qhead' = trail_lim[0 + 1]
    BY <1>2 DEF TrailTo, LimTo
  <2> QED
    BY <1>2, <2>1, CancelFacts
<1>4. VisitedSafe'
  BY <1>2, <1>3 DEF VisitedSafe, db
<1>5. TypeOK'
  BY <1>1, <1>2, <1>3 DEF TypeOK, TypedTrail, db
<1>6. Visiting' /\ (pc # "search" => dirty = {})'
  BY <1>2 DEF Visiting
<1> QED
  BY <1>1, <1>2, <1>3, <1>4, <1>5, <1>6 DEF IInv, db

\* The levels up to that of an assigned literal start before it.
LEMMA LevelFacts ==
  ASSUME IInv, NEW l, NEW i \in 1 .. Len(trail), var(trail[i]) = var(l)
  PROVE  \A m \in 1 .. Len(trail_lim) : m <= levelOf(l) => trail_lim[m] < i
<1> DEFINE S == {k \in 1 .. Len(trail_lim) : trail_lim[k] < i}
<1>1. /\ Distinct(trail) /\ Rising(trail, trail_lim, qhead)
      /\ Len(trail_lim) \in Nat /\ \A k \in 1 .. Len(trail_lim) : trail_lim[k] \in Nat
      /\ i \in Nat
  BY DEF IInv, TypeOK
<1>2. \A j \in 1 .. Len(trail) : var(trail[j]) = var(l) => j = i
  BY <1>1 DEF Distinct
<1>3. (CHOOSE j \in 1 .. Len(trail) : var(trail[j]) = var(l)) = i
  BY <1>2
<1>4. levelOf(l) = Cardinality(S)
  BY <1>3 DEF levelOf, decisionLevel
<1> SUFFICES ASSUME NEW m \in 1 .. Len(trail_lim), m <= levelOf(l), ~ (trail_lim[m] < i)
             PROVE  FALSE
  OBVIOUS
<1>5. \A k \in 1 .. Len(trail_lim) : m <= k => trail_lim[m] <= trail_lim[k]
  BY <1>1 DEF Rising
<1>6. S \subseteq 1 .. (m - 1)
  BY <1>1, <1>5
<1>7. m \in Int /\ 1 \in Int /\ m - 1 \in Int
  OBVIOUS
<1>8. IsFiniteSet(1 .. (m - 1))
  BY <1>7, FS_Interval
<1>9. Cardinality(1 .. (m - 1)) = IF 1 > m - 1 THEN 0 ELSE (m - 1) - 1 + 1
  BY <1>7, FS_Interval
<1>10. Cardinality(1 .. (m - 1)) = m - 1
  BY <1>7, <1>9
<1>11. IsFiniteSet(S) /\ Cardinality(S) <= Cardinality(1 .. (m - 1))
  BY <1>6, <1>8, FS_Subset
<1>12. Cardinality(S) \in Nat
  BY <1>11, FS_CardinalityType
<1> QED
  BY <1>4, <1>7, <1>10, <1>11, <1>12

\* SetToSeq lists a finite set without repetition.
LEMMA SetToSeqFacts ==
  ASSUME NEW S, IsFiniteSet(S)
  PROVE  SetToSeq(S) \in Seq(S) /\ IsInjective(SetToSeq(S))
<1>1. Cardinality(S) \in Nat /\ ExistsBijection(1 .. Cardinality(S), S)
  BY FS_CardinalityType
<1>2. \E f \in [1 .. Cardinality(S) -> S] : IsInjective(f)
  BY <1>1 DEF ExistsBijection, Bijection, Injection
<1>3. SetToSeq(S) \in [1 .. Cardinality(S) -> S] /\ IsInjective(SetToSeq(S))
  BY <1>2 DEF SetToSeq
<1> QED
  BY <1>1, <1>3

\* There are finitely many false literals.
LEMMA FalsesFinite ==
  ASSUME TypeOK
  PROVE  IsFiniteSet({l \in Lits : IsFalse(l)})
<1> DEFINE F == {-trail[i] : i \in 1 .. Len(trail)}
           f == [i \in 1 .. Len(trail) |-> -trail[i]]
<1>1. Len(trail) \in Nat
  BY DEF TypeOK
<1>2. IsFiniteSet(1 .. Len(trail))
  BY <1>1, FS_Interval
<1>3. f \in Surjection(1 .. Len(trail), F)
  BY DEF Surjection
<1>4. IsFiniteSet(F)
  BY <1>2, <1>3, FS_Surjection
<1>5. {l \in Lits : IsFalse(l)} \subseteq F
  <2> SUFFICES ASSUME NEW l \in Lits, IsFalse(l) PROVE l \in F
    OBVIOUS
  <2>1. PICK i \in 1 .. Len(trail) : trail[i] = -l
    BY DEF IsFalse, IsTrue
  <2>2. l = -trail[i]
    BY <2>1, Literals
  <2> QED
    BY <2>2
<1> QED
  BY <1>4, <1>5, FS_Subset

\* After a conflict: what the learnt clause consists of.
LearntClause(c, uip, second) ==
  c \in Seq(Lits) /\ Len(c) > 1 /\ IsInjective(c) /\ c[1] = uip /\ c[2] = second
\* It is a clause of different literals, with the asserting one and one of the level to
\* jump to in front.
LEMMA LearntFacts ==
  ASSUME IInv, NEW n \in 1 .. (decisionLevel - 1),
         NEW uip \in Lits, levelOf(uip) = decisionLevel,
         NEW others \in SUBSET Lits, \A l \in others : IsFalse(l) /\ levelOf(l) \in 1 .. n,
         NEW second \in others,
         NEW c, c = <<uip, second>> \o SetToSeq(others \ {second})
  PROVE  LearntClause(c, uip, second)
<1> DEFINE s == SetToSeq(others \ {second})
<1>1. TypeOK /\ decisionLevel \in Nat
  BY DEF IInv, TypeOK, decisionLevel
<1>2. IsFiniteSet(others \ {second})
  <2>1. others \ {second} \in SUBSET {l \in Lits : IsFalse(l)}
    OBVIOUS
  <2> QED
    BY <1>1, <2>1, FalsesFinite, FS_Subset
<1>3. s \in Seq(others \ {second}) /\ IsInjective(s)
  BY <1>2, SetToSeqFacts
<1>4. uip \notin others /\ uip \in Lits /\ second \in Lits /\ others \subseteq Lits
  BY <1>1
<1> HIDE DEF s
<1>5. /\ Len(s) \in Nat /\ s \in Seq(Lits) /\ DOMAIN s = 1 .. Len(s)
      /\ \A i \in 1 .. Len(s) : s[i] \in others /\ s[i] # second
  BY <1>3, <1>4
<1>6. \A i, j \in 1 .. Len(s) : s[i] = s[j] => i = j
  BY <1>3, <1>5 DEF IsInjective
<1>7. c = <<uip, second>> \o s
  BY DEF s
<1> DEFINE a == <<uip, second>>
<1>8. /\ a \in Seq(Lits) /\ Len(a) = 2 /\ a[1] = uip /\ a[2] = second
  <2>1. a \in Seq(Lits)
    BY <1>4
  <2> QED
    BY <2>1
<1>13. c = a \o s
  BY <1>7
<1> HIDE DEF a
<1>9. /\ c \in Seq(Lits) /\ Len(c) = Len(s) + 2 /\ c[1] = uip /\ c[2] = second
      /\ \A i \in 3 .. Len(s) + 2 : c[i] = s[i - 2]
  <2>0. /\ a \o s \in Seq(Lits) /\ Len(a \o s) = Len(a) + Len(s)
        /\ \A i \in 1 .. Len(a) + Len(s) :
             (a \o s)[i] = IF i <= Len(a) THEN a[i] ELSE s[i - Len(a)]
    BY <1>5, <1>8, ConcatProperties
  <2>1. c \in Seq(Lits) /\ Len(c) = Len(s) + 2
    <3>1. c \in Seq(Lits) /\ Len(c) = Len(a) + Len(s)
      BY <2>0, <1>13
    <3>2. Len(a) + Len(s) = Len(s) + 2
      BY <1>5, <1>8
    <3> QED
      BY <3>1, <3>2
  <2>2. c[1] = uip /\ c[2] = second
    <3>1. 1 \in 1 .. Len(a) + Len(s) /\ 2 \in 1 .. Len(a) + Len(s)
      BY <1>5, <1>8
    <3> QED
      BY <2>0, <3>1, <1>8, <1>13
  <2>3. \A i \in 3 .. Len(s) + 2 : c[i] = s[i - 2]
    <3>1. \A i \in 3 .. Len(s) + 2 : i \in 1 .. Len(a) + Len(s) /\ ~ (i <= Len(a))
      BY <1>5, <1>8
    <3> QED
      BY <2>0, <3>1, <1>8, <1>13
  <2> QED
    BY <2>1, <2>2, <2>3
<1>10. ASSUME NEW i \in 1 .. Len(c), NEW j \in 1 .. Len(c), c[i] = c[j], i <= j
       PROVE  i = j
  <2>1. \A k \in 3 .. Len(s) + 2 : k - 2 \in 1 .. Len(s)
    BY <1>5
  <2>2. \A k \in 3 .. Len(s) + 2 : c[k] # uip /\ c[k] # second
    BY <2>1, <1>4, <1>5, <1>9
  <2>3. uip # second
    BY <1>4
  <2>4. CASE i = 1
    <3>1. j = 1 \/ j = 2 \/ j \in 3 .. Len(s) + 2
      BY <1>5, <1>9
    <3> QED
      BY <2>2, <2>3, <2>4, <3>1, <1>9, <1>10
  <2>5. CASE i = 2
    <3>1. j = 2 \/ j \in 3 .. Len(s) + 2
      BY <1>5, <1>9, <1>10, <2>5
    <3> QED
      BY <2>2, <2>5, <3>1, <1>9, <1>10
  <2>6. CASE i # 1 /\ i # 2
    <3>1. i \in 3 .. Len(s) + 2 /\ j \in 3 .. Len(s) + 2
      BY <1>5, <1>9, <1>10, <2>6
    <3>2. s[i - 2] = s[j - 2]
      BY <3>1, <1>9, <1>10
    <3>3. i - 2 = j - 2
      BY <3>1, <3>2, <2>1, <1>6
    <3> QED
      BY <3>1, <3>3, <1>5
  <2> QED
    BY <2>4, <2>5, <2>6
<1>11. \A i, j \in 1 .. Len(c) : c[i] = c[j] => i = j
  <2>1. \A i, j \in 1 .. Len(c) : i <= j \/ j <= i
    BY <1>5, <1>9
  <2> QED
    BY <2>1, <1>10
<1>12. IsInjective(c)
  <2>1. DOMAIN c = 1 .. Len(c)
    BY <1>9
  <2> QED
    BY <2>1, <1>11 DEF IsInjective
<1> QED
  BY <1>5, <1>9, <1>12 DEF LearntClause

\* The learnt clause becomes the reason of its first literal, and the list it joins at
\* a literal that stays assigned counts as visited: the clause is true, and at the level
\* of its second literal.
LEMMA BackjumpStep ==
  ASSUME IInv, Backjump
  PROVE  IInv'
<1>1. /\ TypeOK /\ Distinct(trail) /\ Rising(trail, trail_lim, qhead)
      /\ Lists(ca, removed, watches, dirty) /\ TypedLists(ca, removed, watches)
      /\ Len(trail_lim) \in Nat /\ decisionLevel = Len(trail_lim)
  BY StateTyped DEF IInv, TypeOK, decisionLevel
<1> DEFINE top(n, others) == {l \in others : levelOf(l) = n}
           second(n, others) == CHOOSE l \in top(n, others) : TRUE
           clause(n, uip, others) ==
             <<uip, second(n, others)>> \o SetToSeq(others \ {second(n, others)})
           Learns(n, uip, others) ==
             /\ (others = {}) = (n = 0) /\ (top(n, others) = {}) = (n = 0)
             /\ cancelUntil(n)
             /\ trail' = Append(SubSeq(trail, 1, trail_lim[n + 1]), uip)
             /\ IF n = 0
                THEN /\ reason' = ReasonsUntil(n)
                     /\ UNCHANGED <<ca, learnt, watches>>
                ELSE /\ ca' = Append(ca, clause(n, uip, others))
                     /\ watches' = AttachTo(watches, clause(n, uip, others), Len(ca'))
                     /\ reason' = [ReasonsUntil(n) EXCEPT ![var(uip)] = Len(ca')]
<1>0. PICK n \in 0 .. (decisionLevel - 1) :
        \E uip \in {l \in Lits : IsFalse(l) /\ levelOf(l) = decisionLevel} :
        \E others \in SUBSET {l \in Lits : IsFalse(l) /\ levelOf(l) \in 1 .. n} :
          Learns(n, uip, others)
  BY DEF Backjump
<1>2. PICK uip \in {l \in Lits : IsFalse(l) /\ levelOf(l) = decisionLevel},
           others \in SUBSET {l \in Lits : IsFalse(l) /\ levelOf(l) \in 1 .. n} :
        Learns(n, uip, others)
  BY <1>0
<1> DEFINE T == TrailTo(n)
           L == LimTo(n)
           q == trail_lim[n + 1]
           sec == second(n, others)
           c == clause(n, uip, others)
<1>3. /\ pc = "conflict" /\ pc' = "search" /\ UNCHANGED <<removed, dirty, kept>>
      /\ trail_lim' = L /\ qhead' = q /\ trail' = Append(T, uip)
  BY <1>2 DEF Backjump, cancelUntil, TrailTo, LimTo
<1>4. n \in Nat /\ n + 1 <= decisionLevel /\ uip \in Lits /\ IsFalse(uip)
  BY <1>1
<1>5. /\ TypedTrail(T, L, q) /\ Distinct(T) /\ Rising(T, L, q) /\ Len(T) = q /\ q \in Nat
      /\ Len(L) = n /\ \A m \in 1 .. n : m \in 1 .. Len(trail_lim) /\ L[m] = trail_lim[m]
      /\ \A i \in 1 .. q : i \in 1 .. Len(trail) /\ T[i] = trail[i]
      /\ n + 1 \in 1 .. Len(trail_lim)
      /\ ReasonsFirst(ca, T, ReasonsUntil(n)) /\ ReasonsUntil(n) \in [Vars -> Nat]
  BY <1>3, CancelFacts
<1>6. \A v \in Vars : (\A i \in 1 .. q : var(trail[i]) # v) => ReasonsUntil(n)[v] = None
  BY <1>3, CancelFacts
<1>7. \A i \in 1 .. q : \A k \in 1 .. Len(watches[T[i]]) :
        watches[T[i]][k][1] \notin removed => Safe(T, L, i, LitsIn(ca[watches[T[i]][k][1]]))
  BY <1>3, CancelFacts
\* The first literal of the clause is unassigned when the levels are left.
<1>8. \A i \in 1 .. q : var(trail[i]) # var(uip)
  <2>1. PICK j \in 1 .. Len(trail) : trail[j] = -uip
    BY <1>4 DEF IsFalse, IsTrue
  <2>2. var(trail[j]) = var(uip)
    BY <2>1, <1>4, Literals
  <2>3. trail_lim[n + 1] < j
    BY <2>2, <1>4, <1>5, LevelFacts
  <2>4. \A i \in 1 .. q : i # j /\ i \in 1 .. Len(trail)
    BY <2>3, <1>5
  <2> QED
    BY <2>2, <2>4, <1>1 DEF Distinct
<1>9. var(uip) \in Vars /\ ReasonsUntil(n)[var(uip)] = None
  BY <1>4, <1>6, <1>8, Literals
<1> HIDE DEF T, L, q
<1>10. \A i \in 1 .. Len(T) : var(T[i]) # var(uip)
  BY <1>5, <1>8
<1>11. /\ TypedTrail(trail', L, q) /\ Distinct(trail') /\ Rising(trail', L, q)
       /\ \A i, C : Safe(T, L, i, C) => Safe(trail', L, i, C)
  BY <1>3, <1>4, <1>5, <1>10, EnqueueTrail
<1>12. /\ Len(trail') = q + 1 /\ trail'[q + 1] = uip
       /\ \A i \in 1 .. q : trail'[i] = T[i] /\ trail'[i] \in Lits
  BY <1>3, <1>4, <1>5, AppendFacts DEF TypedTrail
<1>13. \A i \in 1 .. Len(trail') : \A k : Visited(i, k)' => i \in 1 .. q
  BY <1>3, <1>5 DEF Visited
<1>14. CASE n = 0
  <2>1. UNCHANGED <<ca, watches>> /\ reason' = ReasonsUntil(n)
    BY <1>2, <1>14
  <2>2. [ReasonsUntil(n) EXCEPT ![var(uip)] = None] = ReasonsUntil(n)
    BY <1>5, <1>9
  <2>3. ReasonsFirst(ca, trail', reason') /\ reason' \in [Vars -> Nat]
    <3>1. None \in Nat
      BY DEF None
    <3>2. ReasonsFirst(ca, Append(T, uip), [ReasonsUntil(n) EXCEPT ![var(uip)] = None])
      BY <3>1, <1>4, <1>5, <1>10, ReasonsEnqueue DEF TypedTrail
    <3> QED
      BY <2>1, <2>2, <3>2, <1>3, <1>5
  <2>4. VisitedSafe'
    <3> SUFFICES ASSUME NEW i \in 1 .. Len(trail'), NEW k \in 1 .. Len(watches[trail'[i]]),
                        Visited(i, k)', watches[trail'[i]][k][1] \notin removed
                 PROVE  Safe(trail', L, i, LitsIn(ca[watches[trail'[i]][k][1]]))
      BY <1>3, <2>1 DEF VisitedSafe
    <3>1. i \in 1 .. q /\ trail'[i] = T[i]
      BY <1>12, <1>13
    <3> QED
      BY <3>1, <1>7, <1>11
  <2>5. TypeOK'
    BY <1>1, <1>3, <1>11, <2>1, <2>3 DEF TypeOK, TypedTrail
  <2>6. Visiting' /\ (pc # "search" => dirty = {})'
    BY <1>3 DEF Visiting
  <2> QED
    BY <1>1, <1>3, <1>11, <2>1, <2>3, <2>4, <2>5, <2>6 DEF IInv
<1>15. CASE n # 0
  <2>1. /\ ca' = Append(ca, c) /\ watches' = AttachTo(watches, c, Len(ca'))
        /\ reason' = [ReasonsUntil(n) EXCEPT ![var(uip)] = Len(ca')]
    BY <1>2, <1>15
  <2>2. sec \in others /\ sec \in Lits /\ IsFalse(sec) /\ levelOf(sec) = n
    BY <1>2, <1>15
  <2>3. c \in Seq(Lits) /\ Len(c) > 1 /\ IsInjective(c) /\ c[1] = uip /\ c[2] = sec
    <3>1. n \in 1 .. (decisionLevel - 1)
      BY <1>1, <1>15
    <3>2. c = <<uip, sec>> \o SetToSeq(others \ {sec})
      OBVIOUS
    <3>3. uip \in Lits /\ levelOf(uip) = decisionLevel /\ others \in SUBSET Lits
          /\ \A l \in others : IsFalse(l) /\ levelOf(l) \in 1 .. n
      OBVIOUS
    <3> HIDE DEF c, sec, second, top, clause
    <3>4. LearntClause(c, uip, sec)
      BY <2>2, <3>1, <3>2, <3>3, LearntFacts
    <3> QED
      BY <3>4 DEF LearntClause
  <2> HIDE DEF c, sec, second, top, clause
  <2>4. Len(ca') = Len(ca) + 1 /\ Len(ca) \in Nat
    BY <1>1, <2>1, <2>3 DEF TypeOK
  <2>5. /\ TypedLists(ca', removed, watches') /\ Lists(ca', removed, watches', dirty)
        /\ ca'[Len(ca')] = c /\ \A r \in 1 .. Len(ca) : ca'[r] = ca[r]
        /\ \A m \in Lits : \A j \in 1 .. Len(watches'[m]) :
             \/ j \in 1 .. Len(watches[m]) /\ watches'[m][j] = watches[m][j]
             \/ m \in {-c[1], -c[2]} /\ watches'[m][j][1] = Len(ca')
    <3> DEFINE cr == Len(ca')
    <3>1. cr = Len(ca) + 1 /\ watches' = AttachTo(watches, c, cr)
      BY <2>1, <2>4
    <3> HIDE DEF cr
    <3>2. /\ TypedLists(ca', removed, watches') /\ Lists(ca', removed, watches', dirty)
          /\ ca'[cr] = c /\ \A r \in 1 .. Len(ca) : ca'[r] = ca[r]
          /\ \A m \in Lits : \A j \in 1 .. Len(watches'[m]) :
               \/ j \in 1 .. Len(watches[m]) /\ watches'[m][j] = watches[m][j]
               \/ m \in {-c[1], -c[2]} /\ watches'[m][j][1] = cr
      BY <1>1, <2>1, <2>3, <3>1, ListsAttach
    <3> QED
      BY <3>2 DEF cr
  <2>6. ReasonsFirst(ca', trail', reason') /\ reason' \in [Vars -> Nat]
    <3>1. 1 .. Len(ca) \subseteq 1 .. Len(ca') /\ Len(ca') \in 1 .. Len(ca') /\ Len(ca') \in Nat
      BY <2>4
    <3>2. ReasonsFirst(ca', T, ReasonsUntil(n))
      BY <3>1, <2>5, <1>5 DEF ReasonsFirst
    <3> DEFINE cr == Len(ca')
    <3>3. cr \in Nat /\ cr \in 1 .. Len(ca') /\ ca'[cr][1] = uip
      BY <3>1, <2>3, <2>5
    <3>4. T \in Seq(Lits) /\ trail' = Append(T, uip)
          /\ reason' = [ReasonsUntil(n) EXCEPT ![var(uip)] = cr]
      BY <2>1, <1>3, <1>5 DEF TypedTrail
    <3> HIDE DEF cr
    <3> QED
      BY <3>2, <3>3, <3>4, <1>4, <1>5, <1>10, ReasonsEnqueue
  <2>7. VisitedSafe'
    <3> SUFFICES ASSUME NEW i \in 1 .. Len(trail'), NEW k \in 1 .. Len(watches'[trail'[i]]),
                        Visited(i, k)', watches'[trail'[i]][k][1] \notin removed
                 PROVE  Safe(trail', L, i, LitsIn(ca'[watches'[trail'[i]][k][1]]))
      BY <1>3 DEF VisitedSafe
    <3>1. i \in 1 .. q /\ trail'[i] = T[i] /\ trail'[i] \in Lits
      BY <1>12, <1>13
    <3>2. CASE k \in 1 .. Len(watches[trail'[i]]) /\ watches'[trail'[i]][k] = watches[trail'[i]][k]
      <4>1. watches[trail'[i]][k][1] \in 1 .. Len(ca)
        BY <3>1, <3>2, <1>1 DEF Lists, Listed, Entry
      <4> QED
        BY <3>1, <3>2, <4>1, <2>5, <1>7, <1>11
    <3>3. CASE trail'[i] \in {-c[1], -c[2]} /\ watches'[trail'[i]][k][1] = Len(ca')
      <4>1. T[i] = trail[i] /\ var(T[i]) # var(uip) /\ i \in 1 .. Len(trail)
        BY <3>1, <1>5, <1>10
      <4>2. trail[i] = -sec
        BY <3>1, <3>3, <4>1, <2>3, <1>4, Literals
      <4>3. var(trail[i]) = var(sec)
        BY <4>2, <2>2, Literals
      <4>4. \A m \in 1 .. n : trail_lim[m] < i
        BY <4>1, <4>3, <1>5, <2>2, LevelFacts
      <4>5. NoHigher(L, q + 1, i)
        BY <4>4, <1>5 DEF NoHigher
      <4>6. uip \in LitsIn(c)
        BY <2>3, Watched
      <4>7. q + 1 \in 1 .. Len(trail')
        BY <1>5, <1>12
      <4> QED
        BY <3>3, <4>5, <4>6, <4>7, <1>12, <2>5 DEF Safe
    <3> QED
      BY <3>1, <3>2, <3>3, <2>5
  <2>8. TypeOK'
    BY <1>1, <1>3, <1>11, <2>5, <2>6 DEF TypeOK, TypedTrail, TypedLists
  <2>9. Visiting' /\ (pc # "search" => dirty = {})'
    BY <1>3 DEF Visiting
  <2> QED
    BY <1>1, <1>3, <1>11, <2>5, <2>6, <2>7, <2>8, <2>9 DEF IInv
<1> QED
  BY <1>14, <1>15

-----------------------------------------------------------------------------
(***************************************************************************)
(* The steps of propagate.                                                 *)
(***************************************************************************)

\* Propagate cleans the marked lists; their entries are entries they had.
LEMMA PropagateStep ==
  ASSUME IInv, Propagate
  PROVE  IInv'
<1>1. /\ TypeOK /\ Distinct(trail) /\ Rising(trail, trail_lim, qhead)
      /\ Lists(ca, removed, watches, dirty) /\ VisitedSafe
      /\ ReasonsFirst(ca, trail, reason) /\ TypedLists(ca, removed, watches)
  BY StateTyped DEF IInv
<1>2. /\ pc = "search" /\ pc' = "propagate" /\ dirty' = {}
      /\ UNCHANGED <<ca, removed, trail, trail_lim, reason, qhead, kept>>
  BY DEF Propagate, db, assignment
<1>8. watches' = Cleaned(removed, watches, dirty)
  BY DEF Propagate, Cleaned
<1>3. /\ TypedLists(ca, removed, watches') /\ Lists(ca, removed, watches', {})
      /\ EntriesFrom(watches', watches)
  BY <1>1, <1>8, ListsClean
<1>4. VisitedSafe'
  <2> SUFFICES ASSUME NEW i \in 1 .. Len(trail), NEW j \in 1 .. Len(watches'[trail[i]]),
                      Visited(i, j)', watches'[trail[i]][j][1] \notin removed
               PROVE  Safe(trail, trail_lim, i, LitsIn(ca[watches'[trail[i]][j][1]]))
    <3>1. UNCHANGED <<ca, removed, trail, trail_lim>>
      BY <1>2
    <3> QED
      BY <3>1 DEF VisitedSafe
  <2>1. trail[i] \in Lits
    BY <1>1, OnTrail
  <2>2. PICK k \in 1 .. Len(watches[trail[i]]) : watches'[trail[i]][j] = watches[trail[i]][k]
    BY <2>1, <1>3 DEF EntriesFrom
  <2>3. Visited(i, k)
    BY <1>2 DEF Visited
  <2> QED
    BY <2>2, <2>3, <1>1 DEF VisitedSafe
<1>5. TypeOK'
  BY <1>1, <1>2, <1>3 DEF TypeOK, TypedLists
<1>6. Visiting'
  BY <1>2 DEF Visiting
<1>7. Lists(ca, removed, watches, dirty)' /\ Distinct(trail)' /\ Rising(trail, trail_lim, qhead)'
      /\ ReasonsFirst(ca, trail, reason)'
  BY <1>1, <1>2, <1>3
<1> QED
  BY <1>2, <1>4, <1>5, <1>6, <1>7 DEF IInv

\* The next fact is taken; nothing of its list has been visited.
LEMMA TakeFactStep ==
  ASSUME IInv, TakeFact
  PROVE  IInv'
<1>1. /\ TypeOK /\ Distinct(trail) /\ Rising(trail, trail_lim, qhead) /\ dirty = {}
      /\ Lists(ca, removed, watches, dirty) /\ VisitedSafe
      /\ ReasonsFirst(ca, trail, reason)
  BY DEF IInv, TakeFact
<1>2. /\ pc = "propagate" /\ pc' = "visit" /\ qhead < Len(trail) /\ qhead' = qhead + 1 /\ kept' = 0
      /\ UNCHANGED <<ca, removed, watches, dirty, trail, trail_lim, reason>>
  BY DEF TakeFact, db, assignment
<1>3. /\ qhead \in Nat /\ Len(trail) \in Nat /\ Len(trail_lim) \in Nat
      /\ \A n \in 1 .. Len(trail_lim) : trail_lim[n] \in Nat
  BY <1>1 DEF TypeOK
<1>4. TypeOK'
  BY <1>1, <1>2 DEF TypeOK
<1>5. Rising(trail, trail_lim, qhead)'
  BY <1>1, <1>2, <1>3 DEF Rising
<1>6. Visiting'
  <2>1. qhead' \in 1 .. Len(trail)
    BY <1>2, <1>3
  <2>2. watches[trail[qhead']] \in Seq(Nat \X Lits)
    BY <2>1, <1>1, OnTrail
  <2>3. Len(watches[p])' = Len(watches[trail[qhead']])
    BY <1>2 DEF p
  <2>4. 0 <= Len(watches[trail[qhead']])
    BY <2>2
  <2>5. \A n \in 1 .. Len(trail_lim) : trail_lim[n] < qhead + 1
    BY <1>1, <1>3 DEF Rising
  <2> QED
    BY <2>3, <2>4, <2>5, <1>2, <1>3 DEF Visiting
<1>7. VisitedSafe'
  <2> SUFFICES ASSUME NEW i \in 1 .. Len(trail), NEW k \in 1 .. Len(watches[trail[i]]),
                      Visited(i, k)', watches[trail[i]][k][1] \notin removed
               PROVE  Safe(trail, trail_lim, i, LitsIn(ca[watches[trail[i]][k][1]]))
    BY <1>2 DEF VisitedSafe
  <2>1. Visited(i, k)
    BY <1>2, <1>3 DEF Visited
  <2> QED
    BY <2>1, <1>1 DEF VisitedSafe
<1> QED
  BY <1>1, <1>2, <1>4, <1>5, <1>6, <1>7 DEF IInv

\* The queue is empty: everything has been visited.
LEMMA QueueEmptyStep ==
  ASSUME IInv, QueueEmpty
  PROVE  IInv'
<1>1. /\ pc = "propagate" /\ pc' = "search"
      /\ UNCHANGED <<ca, removed, watches, dirty, trail, trail_lim, reason, qhead, kept>>
  BY DEF QueueEmpty, db, assignment
<1>2. TypeOK' /\ Visiting'
  BY <1>1 DEF IInv, TypeOK, Visiting
<1>3. VisitedSafe'
  <2> SUFFICES ASSUME NEW i \in 1 .. Len(trail), NEW k \in 1 .. Len(watches[trail[i]]),
                      Visited(i, k)', watches[trail[i]][k][1] \notin removed
               PROVE  Safe(trail, trail_lim, i, LitsIn(ca[watches[trail[i]][k][1]]))
    BY <1>1 DEF VisitedSafe
  <2>1. Visited(i, k)
    BY <1>1 DEF Visited
  <2> QED
    BY <2>1 DEF IInv, VisitedSafe
<1> QED
  BY <1>1, <1>2, <1>3 DEF IInv

\* A list is done when all of it has been visited.
LEMMA ListDoneStep ==
  ASSUME IInv, ListDone
  PROVE  IInv'
<1>1. /\ pc = "visit" /\ pc' = "propagate" /\ kept = Len(watches[p]) /\ kept' = 0
      /\ UNCHANGED <<ca, removed, watches, dirty, trail, trail_lim, reason, qhead>>
  BY DEF ListDone, db, assignment
<1>2. TypeOK' /\ Visiting'
  BY <1>1 DEF IInv, TypeOK, Visiting
<1>3. VisitedSafe'
  <2> SUFFICES ASSUME NEW i \in 1 .. Len(trail), NEW k \in 1 .. Len(watches[trail[i]]),
                      Visited(i, k)', watches[trail[i]][k][1] \notin removed
               PROVE  Safe(trail, trail_lim, i, LitsIn(ca[watches[trail[i]][k][1]]))
    BY <1>1 DEF VisitedSafe
  <2>1. qhead \in Nat /\ i <= qhead
    BY <1>1 DEF Visited, IInv, TypeOK
  <2>2. i = qhead => k <= kept
    BY <1>1 DEF p
  <2>3. Visited(i, k)
    BY <2>1, <2>2, <1>1 DEF Visited
  <2> QED
    BY <2>3 DEF IInv, VisitedSafe
<1>4. (pc # "search" => dirty = {})'
  BY <1>1 DEF IInv
<1> QED
  BY <1>1, <1>2, <1>3, <1>4 DEF IInv

\* What a visit finds: the clause is there, and with its false literal in second place
\* it has the same two literals in front; a clause whose first literal is true stays
\* as it is.
Visits ==
  /\ p \in Lits /\ -p \in Lits /\ qhead \in 1 .. Len(trail) /\ trail[qhead] = p
  /\ IsTrue(p) /\ ~ IsTrue(-p)
  /\ \A n \in 1 .. Len(trail_lim) : trail_lim[n] < qhead
  /\ kept + 1 \in 1 .. Len(watches[p])
  /\ cref \in 1 .. Len(ca) /\ cref # None /\ cref \notin removed
  /\ ca[cref] \in Seq(Lits) /\ Len(ca[cref]) > 1 /\ IsInjective(ca[cref])
  /\ blocker \in LitsIn(ca[cref])
OrderedFacts ==
  /\ Reordered(ca, cref, Ordered) /\ {Ordered[1], Ordered[2]} = {ca[cref][1], ca[cref][2]}
  /\ Len(Ordered) > 1 /\ Ordered[2] = -p /\ first # -p
  /\ first \in Lits /\ first \in LitsIn(Ordered)
  /\ IsTrue(ca[cref][1]) => Ordered = ca[cref]
\* The invariant gives a visit what it takes for granted.
LEMMA VisitFacts ==
  ASSUME IInv, More
  PROVE  Visits /\ OrderedFacts
<1>1. /\ TypeOK /\ Distinct(trail) /\ Rising(trail, trail_lim, qhead) /\ dirty = {}
      /\ Lists(ca, removed, watches, dirty) /\ TypedLists(ca, removed, watches)
      /\ pc = "visit" /\ kept < Len(watches[p]) /\ 0 < qhead
      /\ \A n \in 1 .. Len(trail_lim) : trail_lim[n] < qhead
  BY StateTyped DEF IInv, More, Visiting
<1>2. qhead \in 1 .. Len(trail)
  BY <1>1 DEF TypeOK, Rising
<1>3. p \in Lits /\ trail[qhead] = p /\ IsTrue(p) /\ watches[p] \in Seq(Nat \X Lits)
  BY <1>1, <1>2, OnTrail DEF p
<1>4. -p \in Lits /\ ~ IsTrue(-p)
  BY <1>1, <1>3, Values, Literals DEF TypeOK, IsFalse
<1>5. kept + 1 \in 1 .. Len(watches[p])
  BY <1>1, <1>3 DEF TypeOK
<1>6. Entry(ca, removed, p, watches[p][kept + 1]) /\ cref \notin removed
  BY <1>1, <1>3, <1>5 DEF Lists, Listed, Clean, cref
<1>7. cref \in 1 .. Len(ca) /\ p \in {-ca[cref][1], -ca[cref][2]} /\ blocker \in LitsIn(ca[cref])
  BY <1>6 DEF Entry, cref, blocker
<1>8. cref # None
  BY <1>7 DEF None
<1> DEFINE c == ca[cref]
<1>9. c \in Seq(Lits) /\ Len(c) > 1 /\ IsInjective(c)
  BY <1>1, <1>6, <1>7, Stored DEF Lists, Clauses
<1>10. Visits
  BY <1>1, <1>2, <1>3, <1>4, <1>5, <1>6, <1>7, <1>8, <1>9 DEF Visits
<1>11. /\ c[1] \in Lits /\ c[2] \in Lits /\ c[1] # c[2] /\ c[1] \in LitsIn(c)
       /\ 1 \in 1 .. Len(c) /\ 2 \in 1 .. Len(c)
  BY <1>9, Watched
<1>12. c[1] = -p \/ c[2] = -p
  BY <1>3, <1>7, <1>11, Literals
<1>13. Ordered = IF c[1] = -p THEN [c EXCEPT ![1] = c[2], ![2] = -p] ELSE c
  BY DEF Ordered
<1> HIDE DEF c
<1>14. CASE c[1] = -p
  <2>1. Ordered = Swapped(c, 1, 2)
    BY <1>13, <1>14 DEF Swapped
  <2>2. /\ Ordered \in Seq(Lits) /\ Len(Ordered) = Len(c)
        /\ Ordered[1] = c[2] /\ Ordered[2] = c[1]
        /\ LitsIn(Ordered) = LitsIn(c) /\ IsInjective(Ordered)
    BY <2>1, <1>9, <1>11, SwapFacts
  <2>3. Reordered(ca, cref, Ordered)
    BY <2>2 DEF Reordered, c
  <2>4. first = c[2] /\ first \in LitsIn(Ordered)
    BY <2>2, <1>9, Watched DEF first
  <2>5. {Ordered[1], Ordered[2]} = {c[1], c[2]} /\ Len(Ordered) > 1
    BY <2>2, <1>9
  <2>6. Ordered[2] = -p /\ first # -p /\ first \in Lits /\ ~ IsTrue(c[1])
    BY <2>2, <2>4, <1>4, <1>11, <1>14
  <2> QED
    BY <2>3, <2>4, <2>5, <2>6, <1>10 DEF OrderedFacts, c
<1>15. CASE c[1] # -p
  <2>1. Ordered = c
    BY <1>13, <1>15
  <2>2. Reordered(ca, cref, Ordered)
    BY <2>1, <1>9 DEF Reordered, c
  <2>3. first = c[1] /\ first \in Lits /\ first \in LitsIn(Ordered) /\ first # -p
    BY <2>1, <1>11, <1>15 DEF first
  <2>4. {Ordered[1], Ordered[2]} = {c[1], c[2]} /\ Len(Ordered) > 1 /\ Ordered[2] = -p
    BY <2>1, <1>9, <1>12, <1>15
  <2> QED
    BY <2>1, <2>2, <2>3, <2>4, <1>10 DEF OrderedFacts, c
<1> QED
  BY <1>10, <1>14, <1>15 DEF c

\* A true blocker is a literal of the clause: the clause is safe.
LEMMA BlockerTrueStep ==
  ASSUME IInv, BlockerTrue
  PROVE  IInv'
<1>1. /\ More /\ IsTrue(blocker) /\ kept' = kept + 1 /\ pc = "visit"
      /\ UNCHANGED <<ca, removed, watches, dirty, trail, trail_lim, reason, qhead, pc>>
  BY DEF BlockerTrue, More, db, assignment
<1>2. Visits /\ kept \in Nat
  BY <1>1, VisitFacts DEF IInv, TypeOK
<1>3. VisitedSafe'
  <2> SUFFICES ASSUME NEW i \in 1 .. Len(trail), NEW k \in 1 .. Len(watches[trail[i]]),
                      Visited(i, k)', watches[trail[i]][k][1] \notin removed
               PROVE  Safe(trail, trail_lim, i, LitsIn(ca[watches[trail[i]][k][1]]))
    BY <1>1 DEF VisitedSafe
  <2>1. Visited(i, k) \/ (i = qhead /\ k = kept + 1)
    BY <1>1, <1>2 DEF Visited
  <2>2. CASE Visited(i, k)
    BY <2>2 DEF IInv, VisitedSafe
  <2>3. CASE i = qhead /\ k = kept + 1
    <3>1. watches[trail[i]][k][1] = cref
      BY <2>3 DEF cref, p
    <3>2. PICK j \in 1 .. Len(trail) : trail[j] = blocker
      BY <1>1 DEF IsTrue
    <3>3. NoHigher(trail_lim, j, i)
      BY <2>3, <1>2 DEF NoHigher, Visits
    <3> QED
      BY <3>1, <3>2, <3>3, <1>2 DEF Safe, Visits
  <2> QED
    BY <2>1, <2>2, <2>3
<1>4. TypeOK'
  BY <1>1, <1>2 DEF IInv, TypeOK
<1>5. Visiting'
  <2>1. Len(watches[p])' = Len(watches[p])
    BY <1>1 DEF p
  <2> QED
    BY <2>1, <1>1, <1>2 DEF Visiting, Visits
<1> QED
  BY <1>1, <1>3, <1>4, <1>5 DEF IInv

\* A watch is kept and gets the first literal as blocker: every clause keeps its
\* literals, every list its clauses, and every reason its first literal.
SameEntries(ws, ws2) ==
  \A l \in Lits : Len(ws2[l]) = Len(ws[l]) /\ \A k \in 1 .. Len(ws[l]) : ws2[l][k][1] = ws[l][k][1]
SameLiterals(cs, cs2) ==
  Len(cs2) = Len(cs) /\ \A r \in 1 .. Len(cs) : LitsIn(cs2[r]) = LitsIn(cs[r])
KeptFacts ==
  /\ TypedLists(ca', removed, watches') /\ Lists(ca', removed, watches', dirty)
  /\ SameEntries(watches, watches') /\ SameLiterals(ca, ca') /\ ca'[cref] = Ordered
  /\ ReasonsFirst(ca', trail, reason)
\* The step of KeepWatch, without what follows it.
LEMMA KeepFacts ==
  ASSUME IInv, More, ca' = Rewritten(ca, cref, Ordered),
         watches' = Entered(watches, p, kept + 1, cref, first)
  PROVE  KeptFacts
<1>1. Visits /\ OrderedFacts
  BY VisitFacts
<1>2. /\ TypeOK /\ TypedLists(ca, removed, watches) /\ Lists(ca, removed, watches, dirty)
      /\ ReasonsFirst(ca, trail, reason)
  BY StateTyped DEF IInv
<1>3. TypedLists(ca', removed, watches') /\ Lists(ca', removed, watches', dirty)
  <2>1. KeptWatch(ca, removed, watches, p, kept + 1, cref, Ordered, first)
    BY <1>1 DEF KeptWatch, Visits, OrderedFacts, SameWatched, cref
  <2> QED
    BY <2>1, <1>2, ListsKeep
<1>4. /\ Len(ca') = Len(ca) /\ ca'[cref] = Ordered
      /\ \A r \in 1 .. Len(ca) : r # cref => ca'[r] = ca[r]
  <2> DEFINE T == Seq(Lits)
  <2>1. ca \in Seq(T) /\ cref \in 1 .. Len(ca) /\ Ordered \in T
    BY <1>1, <1>2 DEF TypeOK, Visits, OrderedFacts, Reordered
  <2> HIDE DEF T
  <2> QED
    BY <2>1 DEF Rewritten
<1>5. SameLiterals(ca, ca')
  BY <1>1, <1>4 DEF SameLiterals, OrderedFacts, Reordered
<1>6. SameEntries(watches, watches')
  <2> DEFINE list == [watches[p] EXCEPT ![kept + 1] = <<cref, first>>]
  <2>1. watches' = [watches EXCEPT ![p] = list]
    BY DEF Entered
  <2>2. watches[p] \in Seq(Nat \X Lits) /\ kept + 1 \in 1 .. Len(watches[p])
    BY <1>1, <1>2, Stored DEF Visits
  <2>3. /\ Len(list) = Len(watches[p]) /\ list[kept + 1][1] = cref
        /\ \A k \in 1 .. Len(watches[p]) : k # kept + 1 => list[k] = watches[p][k]
    BY <2>2
  <2> HIDE DEF list
  <2>4. watches'[p] = list /\ \A l \in Lits : l # p => watches'[l] = watches[l]
    BY <2>1, <1>1 DEF IInv, TypeOK, Visits
  <2> QED
    BY <2>3, <2>4 DEF SameEntries, cref
<1>7. ReasonsFirst(ca', trail, reason)
  <2> SUFFICES ASSUME NEW i \in 1 .. Len(trail), reason[var(trail[i])] # None
               PROVE  /\ reason[var(trail[i])] \in 1 .. Len(ca')
                      /\ ca'[reason[var(trail[i])]][1] = trail[i]
    BY DEF ReasonsFirst
  <2> DEFINE r == reason[var(trail[i])]
  <2>1. r \in 1 .. Len(ca) /\ ca[r][1] = trail[i]
    BY <1>2 DEF ReasonsFirst
  <2>2. r = cref => ca'[r] = ca[r]
    BY <2>1, <1>1, <1>4 DEF OrderedFacts, IsTrue
  <2> QED
    BY <2>1, <2>2, <1>4
<1> QED
  BY <1>3, <1>4, <1>5, <1>6, <1>7 DEF KeptFacts

\* What was visited before stays safe, and the clause of the kept watch is the visited one.
LEMMA KeptSafe ==
  ASSUME IInv, More, KeptFacts, NEW i \in 1 .. Len(trail), NEW k \in 1 .. Len(watches'[trail[i]])
  PROVE  /\ k \in 1 .. Len(watches[trail[i]])
         /\ watches'[trail[i]][k][1] = watches[trail[i]][k][1]
         /\ Visited(i, k) /\ watches'[trail[i]][k][1] \notin removed
              => Safe(trail, trail_lim, i, LitsIn(ca'[watches'[trail[i]][k][1]]))
         /\ i = qhead /\ k = kept + 1 => ca'[watches'[trail[i]][k][1]] = Ordered
<1>1. trail[i] \in Lits
  BY OnTrail DEF IInv
<1>2. k \in 1 .. Len(watches[trail[i]]) /\ watches'[trail[i]][k][1] = watches[trail[i]][k][1]
  BY <1>1 DEF KeptFacts, SameEntries
<1>3. watches[trail[i]][k][1] \in 1 .. Len(ca)
  BY <1>1, <1>2 DEF IInv, Lists, Listed, Entry
<1>4. ASSUME Visited(i, k), watches[trail[i]][k][1] \notin removed
      PROVE  Safe(trail, trail_lim, i, LitsIn(ca'[watches[trail[i]][k][1]]))
  <2>1. Safe(trail, trail_lim, i, LitsIn(ca[watches[trail[i]][k][1]]))
    BY <1>2, <1>4 DEF IInv, VisitedSafe
  <2>2. LitsIn(ca'[watches[trail[i]][k][1]]) = LitsIn(ca[watches[trail[i]][k][1]])
    BY <1>3 DEF KeptFacts, SameLiterals
  <2> QED
    BY <2>1, <2>2
<1>5. i = qhead /\ k = kept + 1 => ca'[watches[trail[i]][k][1]] = Ordered
  BY DEF KeptFacts, cref, p
<1> QED
  BY <1>2, <1>4, <1>5

\* The first literal is true: the clause is safe.
LEMMA FirstTrueStep ==
  ASSUME IInv, FirstTrue
  PROVE  IInv'
<1>1. /\ More /\ IsTrue(first) /\ kept' = kept + 1 /\ pc = "visit"
      /\ UNCHANGED <<removed, dirty, trail, trail_lim, reason, qhead, pc>>
  BY DEF FirstTrue, KeepWatch, Visit, More
<1>0. KeptFacts
  BY KeepFacts DEF Rewritten, Entered, FirstTrue, KeepWatch, Visit, More
<1>2. Visits /\ OrderedFacts /\ KeptFacts /\ TypeOK /\ kept \in Nat
  BY <1>0, <1>1, VisitFacts DEF IInv, TypeOK
<1>3. VisitedSafe'
  <2> SUFFICES ASSUME NEW i \in 1 .. Len(trail), NEW k \in 1 .. Len(watches'[trail[i]]),
                      Visited(i, k)', watches'[trail[i]][k][1] \notin removed
               PROVE  Safe(trail, trail_lim, i, LitsIn(ca'[watches'[trail[i]][k][1]]))
    BY <1>1 DEF VisitedSafe
  <2>1. Visited(i, k) \/ (i = qhead /\ k = kept + 1)
    BY <1>1, <1>2 DEF Visited
  <2>2. CASE Visited(i, k)
    BY <2>2, <1>1, <1>2, KeptSafe
  <2>3. CASE i = qhead /\ k = kept + 1
    <3>1. ca'[watches'[trail[i]][k][1]] = Ordered
      BY <2>3, <1>1, <1>2, KeptSafe
    <3>2. PICK j \in 1 .. Len(trail) : trail[j] = first
      BY <1>1 DEF IsTrue
    <3>3. NoHigher(trail_lim, j, i)
      BY <2>3, <1>2 DEF NoHigher, Visits
    <3> QED
      BY <3>1, <3>2, <3>3, <1>2 DEF Safe, OrderedFacts
  <2> QED
    BY <2>1, <2>2, <2>3
<1>4. TypeOK'
  BY <1>1, <1>2 DEF TypeOK, KeptFacts, TypedLists
<1>5. Visiting'
  <2>1. Len(watches[p])' = Len(watches[p])
    BY <1>1, <1>2 DEF p, KeptFacts, SameEntries, Visits
  <2> QED
    BY <2>1, <1>1, <1>2 DEF IInv, Visiting, Visits
<1>6. /\ Distinct(trail)' /\ Rising(trail, trail_lim, qhead)' /\ (pc # "search" => dirty = {})'
      /\ Lists(ca, removed, watches, dirty)' /\ ReasonsFirst(ca, trail, reason)'
  BY <1>1, <1>2 DEF IInv, KeptFacts
<1> QED
  BY <1>3, <1>4, <1>5, <1>6 DEF IInv

\* A conflict: what counts as visited is what the backjump keeps, and that was visited.
LEMMA ConflictStep ==
  ASSUME IInv, Conflict
  PROVE  IInv'
<1>1. /\ More /\ kept' = 0 /\ pc = "visit" /\ pc' = "conflict" /\ qhead' = Len(trail)
      /\ UNCHANGED <<removed, dirty, trail, trail_lim, reason>>
  BY DEF Conflict, Visit, More
<1>0. KeptFacts
  BY KeepFacts DEF Rewritten, Entered, Conflict, Visit, More
<1>2. Visits /\ OrderedFacts /\ KeptFacts /\ TypeOK /\ Len(trail) \in Nat /\ qhead \in Nat
      /\ \A n \in 1 .. Len(trail_lim) : trail_lim[n] \in Nat
  BY <1>0, <1>1, VisitFacts DEF IInv, TypeOK
<1>3. VisitedSafe'
  <2> SUFFICES ASSUME NEW i \in 1 .. Len(trail), NEW k \in 1 .. Len(watches'[trail[i]]),
                      Visited(i, k)', watches'[trail[i]][k][1] \notin removed
               PROVE  Safe(trail, trail_lim, i, LitsIn(ca'[watches'[trail[i]][k][1]]))
    BY <1>1 DEF VisitedSafe
  <2>1. PICK n \in 1 .. Len(trail_lim) : i <= trail_lim[n]
    BY <1>1 DEF Visited
  <2>2. i < qhead
    BY <2>1, <1>2 DEF Visits
  <2>3. Visited(i, k)
    BY <2>2, <1>1 DEF Visited
  <2> QED
    BY <2>3, <1>1, <1>2, KeptSafe
<1>4. TypeOK'
  BY <1>1, <1>2 DEF TypeOK, KeptFacts, TypedLists
<1>5. Visiting' /\ Rising(trail, trail_lim, qhead)'
  BY <1>1, <1>2 DEF IInv, Visiting, Rising
<1>6. /\ Distinct(trail)' /\ (pc # "search" => dirty = {})'
      /\ Lists(ca, removed, watches, dirty)' /\ ReasonsFirst(ca, trail, reason)'
  BY <1>1, <1>2 DEF IInv, KeptFacts
<1> QED
  BY <1>3, <1>4, <1>5, <1>6 DEF IInv

\* A unit clause: its first literal becomes true, at the current level.
LEMMA UnitClauseStep ==
  ASSUME IInv, UnitClause
  PROVE  IInv'
<1>1. /\ More /\ IsUndef(first) /\ kept' = kept + 1 /\ pc = "visit"
      /\ trail' = Append(trail, first) /\ reason' = [reason EXCEPT ![var(first)] = cref]
      /\ UNCHANGED <<removed, dirty, trail_lim, qhead, pc>>
  BY DEF UnitClause, KeepWatch, Visit, More, Enqueue
<1>0. KeptFacts
  BY KeepFacts DEF Rewritten, Entered, UnitClause, KeepWatch, Visit, More, Enqueue
<1>2. /\ Visits /\ OrderedFacts /\ KeptFacts /\ TypeOK /\ kept \in Nat
      /\ Distinct(trail) /\ Rising(trail, trail_lim, qhead)
      /\ TypedTrail(trail, trail_lim, qhead)
  BY <1>0, <1>1, VisitFacts, StateTyped DEF IInv, TypeOK
<1>3. first \in Lits /\ \A i \in 1 .. Len(trail) : var(trail[i]) # var(first)
  BY <1>1, <1>2, Values DEF OrderedFacts, TypeOK
<1>4. /\ TypedTrail(trail', trail_lim, qhead)
      /\ Distinct(trail') /\ Rising(trail', trail_lim, qhead)
      /\ \A i, C : Safe(trail, trail_lim, i, C) => Safe(trail', trail_lim, i, C)
  BY <1>1, <1>2, <1>3, EnqueueTrail
<1>5. /\ Len(trail) \in Nat /\ Len(trail') = Len(trail) + 1 /\ trail'[Len(trail) + 1] = first
      /\ \A i \in 1 .. Len(trail) : trail'[i] = trail[i]
  BY <1>1, <1>2, <1>3, AppendFacts DEF TypeOK
<1>6. ReasonsFirst(ca', trail', reason') /\ reason' \in [Vars -> Nat]
  <2>1. ReasonsFirst(ca', trail, reason) /\ ca'[cref] = Ordered /\ Len(ca') = Len(ca)
    BY <1>2 DEF KeptFacts, SameLiterals
  <2>2. cref \in Nat /\ cref \in 1 .. Len(ca') /\ ca'[cref][1] = first
    BY <2>1, <1>2 DEF Visits, first
  <2>3. trail \in Seq(Lits) /\ reason \in [Vars -> Nat]
    BY <1>2 DEF TypeOK
  <2> QED
    BY <2>1, <2>2, <2>3, <1>1, <1>3, ReasonsEnqueue
<1>7. VisitedSafe'
  <2> SUFFICES ASSUME NEW i \in 1 .. Len(trail'), NEW k \in 1 .. Len(watches'[trail'[i]]),
                      Visited(i, k)', watches'[trail'[i]][k][1] \notin removed
               PROVE  Safe(trail', trail_lim, i, LitsIn(ca'[watches'[trail'[i]][k][1]]))
    BY <1>1 DEF VisitedSafe
  <2>1. Visited(i, k) \/ (i = qhead /\ k = kept + 1)
    BY <1>1, <1>2 DEF Visited
  <2>2. i \in 1 .. Len(trail) /\ trail'[i] = trail[i]
    BY <2>1, <1>1, <1>2, <1>5 DEF Visited, Rising, TypeOK
  <2>3. CASE Visited(i, k)
    BY <2>2, <2>3, <1>1, <1>2, <1>4, KeptSafe
  <2>4. CASE i = qhead /\ k = kept + 1
    <3>1. ca'[watches'[trail'[i]][k][1]] = Ordered
      BY <2>2, <2>4, <1>1, <1>2, KeptSafe
    <3>2. NoHigher(trail_lim, Len(trail) + 1, i) /\ Len(trail) + 1 \in 1 .. Len(trail')
      BY <2>4, <1>2, <1>5 DEF NoHigher, Visits
    <3> QED
      BY <3>1, <3>2, <1>2, <1>5 DEF Safe, OrderedFacts
  <2> QED
    BY <2>1, <2>3, <2>4
<1>8. TypeOK'
  BY <1>1, <1>2, <1>4, <1>6 DEF TypeOK, KeptFacts, TypedLists, TypedTrail
<1>9. Visiting'
  <2>1. p' = p
    BY <1>1, <1>2, <1>5 DEF p, Visits
  <2>2. Len(watches'[p]) = Len(watches[p])
    BY <1>2 DEF KeptFacts, SameEntries, Visits
  <2> QED
    BY <2>1, <2>2, <1>1, <1>2 DEF IInv, Visiting, Visits
<1>10. /\ Distinct(trail)' /\ Rising(trail, trail_lim, qhead)' /\ (pc # "search" => dirty = {})'
       /\ Lists(ca, removed, watches, dirty)' /\ ReasonsFirst(ca, trail, reason)'
  BY <1>1, <1>2, <1>4, <1>6 DEF IInv, KeptFacts
<1> QED
  BY <1>7, <1>8, <1>9, <1>10 DEF IInv

\* Another literal is watched: it is not false, so the list that the clause joins is of
\* no literal on the trail.
LEMMA NewWatchStep ==
  ASSUME IInv, NewWatch
  PROVE  IInv'
<1>1. PICK k \in Others :
        /\ ca' = [ca EXCEPT ![cref] = [Ordered EXCEPT ![2] = Ordered[k], ![k] = -p]]
        /\ watches' = [watches EXCEPT ![-Ordered[k]] = Append(@, <<cref, first>>),
                                      ![p] = RemoveAt(@, kept + 1)]
  BY DEF NewWatch
<1> DEFINE d == Swapped(Ordered, 2, k)
<1>2. /\ More /\ pc = "visit" /\ ~ IsTrue(first)
      /\ UNCHANGED <<removed, dirty, trail, trail_lim, reason, qhead, pc, kept>>
  BY DEF NewWatch, Visit, More
<1>3. /\ Visits /\ OrderedFacts /\ TypeOK /\ kept \in Nat /\ qhead \in Nat
      /\ Lists(ca, removed, watches, dirty) /\ TypedLists(ca, removed, watches)
      /\ Distinct(trail) /\ Rising(trail, trail_lim, qhead)
      /\ ReasonsFirst(ca, trail, reason) /\ VisitedSafe
  BY <1>2, VisitFacts, StateTyped DEF IInv, TypeOK
<1>4. /\ Ordered \in Seq(Lits) /\ Len(Ordered) = Len(ca[cref]) /\ Len(Ordered) > 1
      /\ LitsIn(Ordered) = LitsIn(ca[cref]) /\ IsInjective(Ordered)
      /\ {Ordered[1], Ordered[2]} = {ca[cref][1], ca[cref][2]} /\ Ordered[2] = -p
      /\ Ordered[1] = first /\ first # -p
  BY <1>3 DEF OrderedFacts, Reordered, first
<1>5. /\ k \in 1 .. Len(Ordered) /\ 2 \in 1 .. Len(Ordered) /\ 1 \in 1 .. Len(Ordered)
      /\ k # 1 /\ k # 2 /\ ~ IsFalse(Ordered[k])
  BY <1>4 DEF Others
<1>6. Ordered[k] # Ordered[1] /\ Ordered[k] # Ordered[2]
  BY <1>4, <1>5, Watched
<1>7. /\ d \in Seq(Lits) /\ Len(d) = Len(Ordered) /\ d[2] = Ordered[k] /\ d[1] = first
      /\ LitsIn(d) = LitsIn(Ordered) /\ IsInjective(d)
  BY <1>4, <1>5, SwapFacts
<1>8. MovedWatch(ca, removed, watches, p, kept + 1, cref, d, first)
  <2>1. Reordered(ca, cref, d)
    BY <1>4, <1>7 DEF Reordered
  <2>2. d[1] \in {ca[cref][1], ca[cref][2]} /\ d[1] # -p /\ d[2] \notin {ca[cref][1], ca[cref][2]}
    BY <1>4, <1>6, <1>7
  <2>3. first \in LitsIn(d)
    BY <1>3, <1>7 DEF OrderedFacts
  <2> HIDE DEF d
  <2> QED
    BY <2>1, <2>2, <2>3, <1>3 DEF MovedWatch, Visits, cref
<1>9. ca' = Rewritten(ca, cref, d) /\ watches' = Moved(watches, p, kept + 1, cref, d, first)
  <2>1. d = [Ordered EXCEPT ![2] = Ordered[k], ![k] = -p]
    BY <1>4 DEF Swapped
  <2> HIDE DEF d
  <2> QED
    BY <2>1, <1>1, <1>7 DEF Rewritten, Moved
<1> HIDE DEF d
<1>10. /\ TypedLists(ca', removed, watches') /\ Lists(ca', removed, watches', dirty)
       /\ MovedEntries(watches, watches', p, kept + 1, -d[2])
  BY <1>3, <1>8, <1>9, ListsMove
<1>11. /\ Len(ca') = Len(ca) /\ ca'[cref] = d
       /\ \A r \in 1 .. Len(ca) : r # cref => ca'[r] = ca[r]
  <2> DEFINE T == Seq(Lits)
  <2>1. ca \in Seq(T) /\ cref \in 1 .. Len(ca) /\ d \in T
    BY <1>3, <1>7 DEF TypeOK, Visits
  <2> HIDE DEF T
  <2> QED
    BY <2>1, <1>9 DEF Rewritten
<1>12. \A r \in 1 .. Len(ca) : LitsIn(ca'[r]) = LitsIn(ca[r])
  BY <1>4, <1>7, <1>11
<1>13. ReasonsFirst(ca', trail, reason)
  <2> SUFFICES ASSUME NEW i \in 1 .. Len(trail), reason[var(trail[i])] # None
               PROVE  /\ reason[var(trail[i])] \in 1 .. Len(ca')
                      /\ ca'[reason[var(trail[i])]][1] = trail[i]
    BY DEF ReasonsFirst
  <2> DEFINE r == reason[var(trail[i])]
  <2>1. r \in 1 .. Len(ca) /\ ca[r][1] = trail[i]
    BY <1>3 DEF ReasonsFirst
  <2>2. r # cref
    <3> SUFFICES ASSUME r = cref PROVE FALSE
      OBVIOUS
    <3>1. IsTrue(ca[cref][1])
      BY <2>1 DEF IsTrue
    <3>2. first = ca[cref][1]
      BY <3>1, <1>3 DEF OrderedFacts, first
    <3> QED
      BY <3>1, <3>2, <1>2
  <2> QED
    BY <2>1, <2>2, <1>11
<1>14. VisitedSafe'
  <2> SUFFICES ASSUME NEW i \in 1 .. Len(trail), NEW j \in 1 .. Len(watches'[trail[i]]),
                      Visited(i, j)', watches'[trail[i]][j][1] \notin removed
               PROVE  Safe(trail, trail_lim, i, LitsIn(ca'[watches'[trail[i]][j][1]]))
    BY <1>2 DEF VisitedSafe
  <2>1. trail[i] \in Lits /\ IsTrue(trail[i])
    BY <1>3, OnTrail
  <2>2. trail[i] # -d[2]
    <3>1. Ordered[k] \in Lits
      BY <1>4, <1>5
    <3>2. ~ IsTrue(-Ordered[k])
      BY <1>5 DEF IsFalse
    <3> QED
      BY <2>1, <3>2, <1>7
  <2>3. Visited(i, j)
    BY <1>2 DEF Visited
  <2>4. PICK m \in 1 .. Len(watches[trail[i]]) :
          watches'[trail[i]][j] = watches[trail[i]][m] /\ Visited(i, m)
    <3>1. CASE i = qhead
      <4>1. trail[i] = p /\ j <= kept /\ j \in Nat
        BY <3>1, <2>3, <1>2, <1>3 DEF Visited, Visits
      <4>2. watches'[trail[i]][j] = watches[trail[i]][j] /\ j \in 1 .. Len(watches[trail[i]])
        <5>1. j < kept + 1 /\ j \in 1 .. Len(watches'[p])
          BY <4>1, <1>3
        <5>2. kept + 1 \in 1 .. Len(watches[p])
          BY <1>3 DEF Visits
        <5> QED
          BY <4>1, <5>1, <5>2, <1>10 DEF MovedEntries
      <4> QED
        BY <4>2, <2>3
    <3>2. CASE i # qhead
      <4>1. i < qhead
        BY <3>2, <2>3, <1>2 DEF Visited
      <4>2. \A m : Visited(i, m)
        BY <4>1, <1>2 DEF Visited
      <4>3. \E m \in 1 .. Len(watches[trail[i]]) : watches'[trail[i]][j] = watches[trail[i]][m]
        BY <2>1, <2>2, <1>10 DEF MovedEntries
      <4> QED
        BY <4>2, <4>3
    <3> QED
      BY <3>1, <3>2
  <2>5. Safe(trail, trail_lim, i, LitsIn(ca[watches'[trail[i]][j][1]]))
    BY <2>4, <1>3 DEF VisitedSafe
  <2>6. watches'[trail[i]][j][1] \in 1 .. Len(ca)
    BY <2>1, <2>4, <1>3 DEF Lists, Listed, Entry
  <2> QED
    BY <2>5, <2>6, <1>12
<1>15. TypeOK'
  BY <1>2, <1>3, <1>10 DEF TypeOK, TypedLists
<1>16. Visiting'
  <2>1. p' = p
    BY <1>2 DEF p
  <2>2. Len(watches'[p]) = Len(watches[p]) - 1 /\ kept + 1 \in 1 .. Len(watches[p])
    BY <1>3, <1>10 DEF MovedEntries, Visits
  <2>3. kept <= Len(watches'[p])
    BY <2>2, <1>3
  <2> QED
    BY <2>1, <2>3, <1>2, <1>3 DEF Visiting, Visits, TypeOK
<1>17. /\ Distinct(trail)' /\ Rising(trail, trail_lim, qhead)' /\ (pc # "search" => dirty = {})'
       /\ Lists(ca, removed, watches, dirty)' /\ ReasonsFirst(ca, trail, reason)'
  BY <1>2, <1>3, <1>10, <1>13 DEF IInv
<1> QED
  BY <1>14, <1>15, <1>16, <1>17 DEF IInv

-----------------------------------------------------------------------------
(***************************************************************************)
(* The theorems.                                                           *)
(***************************************************************************)

\* At first there is no clause and nothing is assigned.
LEMMA InitInvariant == Init => IInv
<1> SUFFICES ASSUME Init PROVE IInv
  OBVIOUS
<1>1. /\ ca = <<>> /\ removed = {} /\ watches = [l \in Lits |-> <<>>] /\ dirty = {}
      /\ trail = <<>> /\ trail_lim = <<>> /\ qhead = 0 /\ reason = [v \in Vars |-> None]
      /\ pc = "search" /\ kept = 0
  BY DEF Init
<1>2. 1 .. 0 = {} /\ Len(<<>>) = 0 /\ None \in Nat
  BY DEF None
<1>3. <<>> \in Seq(Nat \X Lits) /\ <<>> \in Seq(Seq(Lits)) /\ <<>> \in Seq(Lits) /\ <<>> \in Seq(Nat)
  OBVIOUS
<1>4. watches \in [Lits -> Seq(Nat \X Lits)] /\ \A l \in Lits : Len(watches[l]) = 0
  <2> DEFINE T == Seq(Nat \X Lits)
  <2>1. <<>> \in T
    BY <1>3
  <2> HIDE DEF T
  <2>2. watches \in [Lits -> T]
    BY <2>1, <1>1
  <2>3. \A l \in Lits : watches[l] = <<>>
    BY <1>1
  <2> QED
    BY <2>2, <2>3, <1>2 DEF T
<1>5. TypeOK
  <2>1. reason \in [Vars -> Nat]
    BY <1>1, <1>2
  <2>2. trail \in Seq(Lits) /\ trail_lim \in Seq(Nat) /\ ca \in Seq(Seq(Lits))
    BY <1>1, <1>3
  <2> QED
    BY <2>1, <2>2, <1>1, <1>4 DEF TypeOK
<1>6. Distinct(trail) /\ Rising(trail, trail_lim, qhead) /\ ReasonsFirst(ca, trail, reason)
  BY <1>1, <1>2 DEF Distinct, Rising, ReasonsFirst
<1>7. Clauses(ca, removed) /\ Watching(ca, removed, watches)
  BY <1>1, <1>2 DEF Clauses, Watching
<1>8. Listed(ca, removed, watches) /\ Once(watches) /\ Clean(removed, watches, dirty)
  BY <1>2, <1>4 DEF Listed, Once, OnceIn, Clean
<1>9. VisitedSafe
  BY <1>1, <1>2 DEF VisitedSafe
<1>10. Visiting /\ (pc # "search" => dirty = {})
  BY <1>1 DEF Visiting
<1> QED
  BY <1>5, <1>6, <1>7, <1>8, <1>9, <1>10 DEF IInv, Lists

\* Every step keeps the invariant.
LEMMA NextInvariant == IInv /\ [Next]_vars => IInv'
<1> SUFFICES ASSUME IInv, [Next]_vars PROVE IInv'
  OBVIOUS
<1>1. CASE AddClause
  BY <1>1, AddClauseStep
<1>2. CASE AddUnit
  BY <1>2, AddUnitStep
<1>3. CASE Decide
  BY <1>3, DecideStep
<1>4. CASE removeClause
  BY <1>4, RemoveStep
<1>5. CASE Restart
  BY <1>5, RestartStep
<1>6. CASE Backjump
  BY <1>6, BackjumpStep
<1>7. CASE Propagate
  BY <1>7, PropagateStep
<1>8. CASE TakeFact
  BY <1>8, TakeFactStep
<1>9. CASE QueueEmpty
  BY <1>9, QueueEmptyStep
<1>10. CASE BlockerTrue
  BY <1>10, BlockerTrueStep
<1>11. CASE FirstTrue
  BY <1>11, FirstTrueStep
<1>12. CASE NewWatch
  BY <1>12, NewWatchStep
<1>13. CASE UnitClause
  BY <1>13, UnitClauseStep
<1>14. CASE Conflict
  BY <1>14, ConflictStep
<1>15. CASE ListDone
  BY <1>15, ListDoneStep
<1>16. CASE UNCHANGED vars
  <2>1. UNCHANGED <<ca, removed, watches, dirty, trail, trail_lim, qhead, reason, pc, kept>>
    BY <1>16 DEF vars
  <2>2. TypeOK' /\ Visiting' /\ VisitedSafe'
    BY <2>1 DEF IInv, TypeOK, Visiting, VisitedSafe, Visited, p
  <2> QED
    BY <2>1, <2>2 DEF IInv
<1> QED
  BY <1>1, <1>2, <1>3, <1>4, <1>5, <1>6, <1>7, <1>8, <1>9, <1>10, <1>11, <1>12, <1>13,
     <1>14, <1>15, <1>16 DEF Next

\* A clause that watches a false literal has been visited at it, so it is safe.
LEMMA FalseWatch ==
  ASSUME IInv, Propagated, NEW cr \in Attached, NEW l \in {ca[cr][1], ca[cr][2]}, IsFalse(l)
  PROVE  \E m \in LitsOf(cr) : IsTrue(m)
<1>1. PICK i \in 1 .. Len(trail) : trail[i] = -l
  BY DEF IsFalse, IsTrue
<1>2. Holds(watches[trail[i]], cr) /\ cr \notin removed
  BY <1>1 DEF IInv, Lists, Watching, Attached
<1>3. PICK k \in 1 .. Len(watches[trail[i]]) : watches[trail[i]][k][1] = cr
  BY <1>2 DEF Holds
<1>4. Visited(i, k)
  BY DEF Propagated, Visited
<1>5. Safe(trail, trail_lim, i, LitsIn(ca[cr]))
  BY <1>2, <1>3, <1>4 DEF IInv, VisitedSafe
<1> QED
  BY <1>5 DEF Safe, LitsIn, LitsOf, IsTrue

\* Two different elements of a finite set.
LEMMA TwoElements ==
  ASSUME NEW S, IsFiniteSet(S), NEW x \in S, NEW y \in S, x # y
  PROVE  Cardinality(S) > 1
<1>1. Cardinality({x}) = 1 /\ IsFiniteSet({x})
  BY FS_Singleton
<1>2. IsFiniteSet({x, y}) /\ Cardinality({x, y}) = 2
  <2>1. {x, y} = {x} \cup {y} /\ y \notin {x}
    OBVIOUS
  <2>2. IsFiniteSet({x} \cup {y}) /\ Cardinality({x} \cup {y}) = Cardinality({x}) + 1
    BY <1>1, <2>1, FS_AddElement
  <2> QED
    BY <1>1, <2>1, <2>2
<1>3. Cardinality({x, y}) <= Cardinality(S)
  <2>1. {x, y} \in SUBSET S
    OBVIOUS
  <2> QED
    BY <2>1, FS_Subset
<1>4. Cardinality(S) \in Nat
  BY FS_CardinalityType
<1> QED
  BY <1>2, <1>3, <1>4

\* The invariant is strong enough.
LEMMA InvariantImplies == IInv => NothingMissed
<1> SUFFICES ASSUME IInv PROVE NothingMissed
  OBVIOUS
<1>1. ASSUME Propagated, NEW cr \in Attached, ~ \E l \in LitsOf(cr) : IsTrue(l)
      PROVE  Cardinality({l \in LitsOf(cr) : ~ IsFalse(l)}) > 1
  <2> DEFINE c == ca[cr]
             S == {l \in LitsOf(cr) : ~ IsFalse(l)}
  <2>1. c \in Seq(Lits) /\ Len(c) > 1 /\ IsInjective(c)
    BY <1>1, StateTyped, Stored DEF IInv, Lists, Clauses, Attached
  <2>2. c[1] # c[2] /\ c[1] \in LitsOf(cr) /\ c[2] \in LitsOf(cr)
    BY <2>1, Watched DEF LitsIn, LitsOf
  <2>3. ~ IsFalse(c[1]) /\ ~ IsFalse(c[2])
    BY <1>1, FalseWatch
  <2>4. IsFiniteSet(LitsOf(cr))
    <3>1. IsFiniteSet(1 .. Len(c))
      BY <2>1, FS_Interval
    <3>2. [k \in 1 .. Len(c) |-> c[k]] \in Surjection(1 .. Len(c), LitsOf(cr))
      BY DEF Surjection, LitsOf
    <3> QED
      BY <3>1, <3>2, FS_Surjection
  <2>5. IsFiniteSet(S)
    BY <2>4, FS_Subset
  <2> HIDE DEF S
  <2>6. c[1] \in S /\ c[2] \in S
    BY <2>2, <2>3 DEF S
  <2>7. Cardinality(S) > 1
    BY <2>2, <2>5, <2>6, TwoElements
  <2> QED
    BY <2>7 DEF S
<1>2. More => cref \notin removed
  BY VisitFacts DEF Visits
<1>3. \A i \in 1 .. Len(trail) :
        LET cr == reason[var(trail[i])] IN cr # None => ca[cr][1] = trail[i]
  BY DEF IInv, ReasonsFirst
<1> QED
  BY <1>1, <1>2, <1>3 DEF NothingMissed

\* The inductive invariant holds in every reachable state.
THEOREM SpecIInv == Spec => []IInv
<1> QED
  BY InitInvariant, NextInvariant, PTL DEF Spec

\* propagate misses nothing: when it has returned without a conflict, every clause has a
\* true literal or two that are not false; it never visits a removed clause; and a reason
\* implied its first literal (Solver::propagate, Solver.cc).
THEOREM SpecNothingMissed == Spec => []NothingMissed
<1> QED
  BY SpecIInv, InvariantImplies, PTL
=============================================================================
