-------------------------- MODULE SatOracleProofs --------------------------
(***************************************************************************)
(* Facts about the encodings that satisfy EncodingAssumption, which the     *)
(* proofs about the checkers (CarChecker, DfsSearch) share: the positions   *)
(* of words, their lengths, and what the labels of a search witness.        *)
(***************************************************************************)
EXTENDS SatOracle, Integers, SequenceTheorems, WellFoundedInduction, TLAPS

-----------------------------------------------------------------------------
(***************************************************************************)
(* Facts about encodings.                                                   *)
(***************************************************************************)

\* A non-empty set of natural numbers has a smallest element.
LEMMA Smallest ==
  ASSUME NEW S \in SUBSET Nat, S # {}
  PROVE  \E n \in S : \A k \in S : n <= k
<1> DEFINE LT == {ss \in Nat \X Nat : ss[1] < ss[2]}
<1>1. IsWellFoundedOn(LT, Nat)
  BY NatLessThanWellFounded DEF OpToRel
<1> HIDE DEF LT
<1>2. PICK n \in S : \A k \in S : ~ (<<k, n>> \in LT)
  BY <1>1, WFMin
<1>3. \A k \in S : k < n => <<k, n>> \in LT
  BY DEF LT
<1>4. n \in Nat /\ \A k \in S : k \in Nat
  OBVIOUS
<1>5. \A k \in S : ~ (k < n)
  BY <1>2, <1>3
<1> QED
  BY <1>4, <1>5

\* The assignments of an encoding, and their letters and truths.
LEMMA ModelsTyped ==
  ASSUME NEW e \in Problems, NEW m \in e.models
  PROVE  /\ m.now \subseteq Conj /\ m.next \subseteq Conj /\ m.lits \subseteq Lit
         /\ m.tail \in BOOLEAN
         /\ m.now \in Truths(e)
         /\ m.lits \in e.letters
         /\ m.next \subseteq e.hasNext
         /\ ClashFree(e, m.now)
         /\ FF \notin m.now
<1>1. WellFormed(e)
  BY EncodingAssumption
<1>2. e.models \subseteq Model
  BY <1>1 DEF WellFormed, EncodingType
<1>3. m.now \subseteq Conj /\ m.next \subseteq Conj /\ m.lits \subseteq Lit /\ m.tail \in BOOLEAN
  BY <1>2 DEF Model
<1>4. m.now \in Truths(e)
  BY DEF Truths
<1>5. m.lits \in e.letters /\ m.next \subseteq e.hasNext /\ ClashFree(e, m.now) /\ FF \notin m.now
  BY <1>1 DEF WellFormed
<1> QED
  BY <1>3, <1>4, <1>5

\* Some assignments have Tail and some do not.
LEMMA ModelsExist ==
  ASSUME NEW e \in Problems, NEW b \in BOOLEAN
  PROVE  \E m \in e.models : m.tail = b
BY EncodingAssumption DEF WellFormed

\* Every position may be preceded by one in which what m needs is true.
LEMMA Precede ==
  ASSUME NEW e \in Problems, NEW m \in e.models, ~ m.tail, NEW T \in Truths(e)
  PROVE  \E x \in e.models : FollowedBy(e, x, T) /\ Keeps(e, m, x, T) /\ x.lits = m.lits
<1>1. m.lits \in e.letters
  BY ModelsTyped
<1>2. CoiIsEnough(e)
  BY EncodingAssumption DEF WellFormed
<1> QED
  BY <1>1, <1>2 DEF CoiIsEnough

\* A state the checker moves to stands for all its supersets: each is preceded by a
\* position that satisfies the state the checker moved from.
LEMMA SuccessorLifts ==
  ASSUME NEW e \in Problems, NEW m \in e.models, ~ m.tail,
         NEW s \in SUBSET Conj, s \subseteq m.now,
         NEW T \in Truths(e), m.next \cap CoiNext(e, s) \subseteq T
  PROVE  \E x \in e.models : FollowedBy(e, x, T) /\ s \subseteq x.now
<1>1. PICK x \in e.models : FollowedBy(e, x, T) /\ Keeps(e, m, x, T) /\ x.lits = m.lits
  BY Precede
<1>2. ASSUME NEW c \in s
      PROVE  c \in x.now
  <2>1. m.next \cap e.coiNext[c] \subseteq T
    BY DEF CoiNext
  <2>2. m.lits \cap e.coiLit[c] \subseteq x.lits
    BY <1>1
  <2> QED
    BY <1>1, <2>1, <2>2 DEF Keeps
<1> QED
  BY <1>1, <1>2

\* What dist says of the end and of the beginning of a word.
LEMMA DistFacts ==
  ASSUME NEW e \in Problems
  PROVE  /\ \A T \in Truths(e) : e.dist[T] \in Nat
         /\ \A m \in e.models : m.tail => e.dist[m.now] = 1
         /\ \A T \in Truths(e) : e.dist[T] = 1 => \E m \in e.models : m.now = T /\ m.tail
         /\ \A T \in Truths(e) : e.dist[T] > 1 =>
              \E m \in e.models : m.now = T /\
                 \E S \in Truths(e) : FollowedBy(e, m, S) /\ e.dist[T] = e.dist[S] + 1
         /\ \A m \in e.models : \A S \in Truths(e) :
              FollowedBy(e, m, S) /\ e.dist[S] > 0 => e.dist[m.now] > 0
<1>1. DistIsShortest(e) /\ e.dist \in [Truths(e) -> Nat]
  BY EncodingAssumption DEF WellFormed, EncodingType, Truths
<1>2. \A m \in e.models : m.now \in Truths(e)
  BY ModelsTyped
<1>3. \A T \in Truths(e) : e.dist[T] \in Nat
  BY <1>1
<1>4. \A m \in e.models : m.tail => e.dist[m.now] = 1
  BY <1>1, <1>2 DEF DistIsShortest
<1>5. \A T \in Truths(e) : e.dist[T] = 1 => \E m \in e.models : m.now = T /\ m.tail
  BY <1>1 DEF DistIsShortest
<1>6. \A T \in Truths(e) : e.dist[T] > 1 =>
        \E m \in e.models : m.now = T /\
           \E S \in Truths(e) : FollowedBy(e, m, S) /\ e.dist[T] = e.dist[S] + 1
  BY <1>1 DEF DistIsShortest
<1>7. ASSUME NEW m \in e.models, NEW S \in Truths(e), FollowedBy(e, m, S), e.dist[S] > 0
      PROVE  e.dist[m.now] > 0
  <2>1. e.dist[m.now] \in 1 .. e.dist[S] + 1
    BY <1>1, <1>2, <1>7 DEF DistIsShortest
  <2> QED
    BY <2>1, <1>3
<1> QED
  BY <1>3, <1>4, <1>5, <1>6, <1>7

-----------------------------------------------------------------------------
(***************************************************************************)
(* The words of an encoding are defined by recursion on their length.       *)
(***************************************************************************)
Iterates(f, D, a, F) ==
  f \in [Nat -> D] /\ f[0] = a /\ \A n \in Nat : f[n + 1] = F[<<n, f[n]>>]

\* A function on the natural numbers may be defined by its first value and by what
\* each value makes of the one before.
LEMMA Iteration ==
  ASSUME NEW D, NEW a \in D, NEW F \in [Nat \X D -> D]
  PROVE  \E f : Iterates(f, D, a, F)
<1> DEFINE Approx(n, f) == /\ f \in [0 .. n -> D]
                           /\ f[0] = a
                           /\ \A k \in 0 .. n - 1 : f[k + 1] = F[<<k, f[k]>>]
<1>1. ASSUME NEW n \in Nat, NEW m \in Nat, NEW f, NEW g, Approx(n, f), Approx(m, g),
             NEW k \in Nat, k <= n, k <= m
      PROVE  f[k] = g[k]
  <2> DEFINE Differ == {j \in Nat : j <= n /\ j <= m /\ f[j] # g[j]}
  <2> SUFFICES ASSUME k \in Differ PROVE FALSE
    BY <1>1
  <2>1. PICK j \in Differ : \A i \in Differ : j <= i
    BY Smallest
  <2>2. j # 0
    BY <1>1, <2>1
  <2>3. j - 1 \in Nat /\ j - 1 \notin Differ /\ j - 1 <= n /\ j - 1 <= m
        /\ j - 1 \in 0 .. n - 1 /\ j - 1 \in 0 .. m - 1 /\ (j - 1) + 1 = j
    BY <2>1, <2>2
  <2>4. f[j - 1] = g[j - 1]
    BY <2>3
  <2>5. f[j] = F[<<j - 1, f[j - 1]>>] /\ g[j] = F[<<j - 1, g[j - 1]>>]
    BY <1>1, <2>3
  <2> QED
    BY <2>1, <2>4, <2>5
<1>2. ASSUME NEW n \in Nat
      PROVE  \E f : Approx(n, f)
  <2> DEFINE Missing == {j \in Nat : ~ \E f : Approx(j, f)}
  <2> SUFFICES ASSUME n \in Missing PROVE FALSE
    OBVIOUS
  <2>1. PICK j \in Missing : \A i \in Missing : j <= i
    BY Smallest
  <2>2. CASE j = 0
    <3>1. Approx(0, [k \in 0 .. 0 |-> a])
      OBVIOUS
    <3> QED
      BY <2>1, <2>2, <3>1
  <2>3. CASE j # 0
    <3>1. j - 1 \in Nat /\ j - 1 \notin Missing
      BY <2>1, <2>3
    <3>2. PICK f : Approx(j - 1, f)
      BY <3>1
    <3> DEFINE g == [k \in 0 .. j |-> IF k = j THEN F[<<j - 1, f[j - 1]>>] ELSE f[k]]
    <3>3. f[j - 1] \in D /\ <<j - 1, f[j - 1]>> \in Nat \X D
      BY <3>1, <3>2
    <3>4. F[<<j - 1, f[j - 1]>>] \in D
      BY <3>3
    <3>5. g \in [0 .. j -> D]
      BY <3>2, <3>4
    <3>6. g[0] = a
      BY <2>3, <3>2
    <3>7. ASSUME NEW k \in 0 .. j - 1
          PROVE  g[k + 1] = F[<<k, g[k]>>]
      <4>1. g[k] = f[k] /\ k \in 0 .. j /\ k + 1 \in 0 .. j
        BY <3>1
      <4>2. CASE k = j - 1
        BY <4>1, <4>2
      <4>3. CASE k # j - 1
        <5>1. k \in 0 .. (j - 1) - 1 /\ g[k + 1] = f[k + 1]
          BY <3>1, <4>1, <4>3
        <5> QED
          BY <3>2, <4>1, <5>1
      <4> QED
        BY <4>2, <4>3
    <3>8. Approx(j, g)
      BY <3>5, <3>6, <3>7
    <3> QED
      BY <2>1, <3>8
  <2> QED
    BY <2>2, <2>3
<1> DEFINE h == [n \in Nat |-> CHOOSE f : Approx(n, f)]
<1>3. \A n \in Nat : Approx(n, h[n])
  <2> HIDE DEF Approx
  <2> QED
    BY <1>2
<1> DEFINE G == [n \in Nat |-> h[n][n]]
<1> HIDE DEF h
<1>4. G \in [Nat -> D]
  <2>1. ASSUME NEW n \in Nat PROVE h[n][n] \in D
    BY <1>3
  <2> QED
    BY <2>1
<1>5. G[0] = a
  BY <1>3
<1>6. ASSUME NEW n \in Nat
      PROVE  G[n + 1] = F[<<n, G[n]>>]
  <2>1. Approx(n + 1, h[n + 1]) /\ Approx(n, h[n]) /\ n + 1 \in Nat
    BY <1>3
  <2>2. h[n + 1][n + 1] = F[<<n, h[n + 1][n]>>]
    BY <2>1
  <2>3. h[n + 1][n] = h[n][n]
    <3> HIDE DEF Approx
    <3>1. n <= n + 1 /\ n <= n
      OBVIOUS
    <3> QED
      BY <1>1, <2>1, <3>1
  <2> QED
    BY <2>1, <2>2, <2>3
<1> QED
  BY <1>4, <1>5, <1>6 DEF Iterates

\* The words of one letter, and the words of n + 1 letters from those of n.
LEMMA TruthsOfLengthFacts ==
  ASSUME NEW e \in Problems
  PROVE  /\ TruthsOfLength(e)[1] = {m.now : m \in {x \in e.models : x.tail}}
         /\ \A n \in Nat \ {0} :
              TruthsOfLength(e)[n + 1] = Before(e, e.models, TruthsOfLength(e)[n])
<1> DEFINE Ends == {m.now : m \in {x \in e.models : x.tail}}
           Rec(T) == [n \in Nat |-> IF n = 0 THEN {}
                                    ELSE IF n = 1 THEN Ends
                                    ELSE UNION {Before(e, e.models, S) : S \in {T[n - 1]}}]
           D == SUBSET Truths(e)
           F == [p \in Nat \X D |-> IF p[1] = 0 THEN Ends ELSE Before(e, e.models, p[2])]
<1>1. Ends \in D /\ \A S : Before(e, e.models, S) \in D
  BY DEF Truths, Before
<1>2. TruthsOfLength(e) = CHOOSE T : T = Rec(T)
  BY DEF TruthsOfLength
<1>3. ASSUME NEW T, NEW n \in Nat
      PROVE  Rec(T)[n] = IF n = 0 THEN {} ELSE IF n = 1 THEN Ends
                         ELSE Before(e, e.models, T[n - 1])
  <2>1. UNION {Before(e, e.models, S) : S \in {T[n - 1]}} = Before(e, e.models, T[n - 1])
    OBVIOUS
  <2> QED
    BY <2>1
<1> HIDE DEF Ends
<1>4. F \in [Nat \X D -> D]
  BY <1>1
<1>5. {} \in D
  OBVIOUS
<1> HIDE DEF F, D
<1>6. PICK f : Iterates(f, D, {}, F)
  BY <1>4, <1>5, Iteration
<1>7. /\ f \in [Nat -> D] /\ f[0] = {}
      /\ \A n \in Nat : f[n + 1] = IF n = 0 THEN Ends ELSE Before(e, e.models, f[n])
  <2>1. f \in [Nat -> D] /\ f[0] = {} /\ \A n \in Nat : f[n + 1] = F[<<n, f[n]>>]
    BY <1>6 DEF Iterates
  <2>2. \A n \in Nat : f[n] \in D
    BY <2>1
  <2> QED
    BY <2>1, <2>2 DEF F
<1>8. f = Rec(f)
  <2>1. ASSUME NEW n \in Nat
        PROVE  f[n] = Rec(f)[n]
    <3>1. CASE n = 0
      BY <1>3, <1>7, <3>1
    <3>2. CASE n # 0
      <4>1. n - 1 \in Nat /\ (n - 1) + 1 = n /\ (n - 1 = 0 <=> n = 1)
        BY <3>2
      <4>2. f[n] = IF n = 1 THEN Ends ELSE Before(e, e.models, f[n - 1])
        BY <1>7, <4>1
      <4> QED
        BY <1>3, <3>2, <4>2
    <3> QED
      BY <3>1, <3>2
  <2>2. f = [n \in Nat |-> f[n]] /\ Rec(f) = [n \in Nat |-> Rec(f)[n]]
    BY <1>7
  <2> HIDE DEF Rec
  <2> QED
    BY <2>1, <2>2
<1> DEFINE T == TruthsOfLength(e)
<1> HIDE DEF Rec
<1>9. T = Rec(T)
  BY <1>2, <1>8, Zenon
<1>10. T[1] = Ends
  BY <1>3, <1>9
<1>11. ASSUME NEW n \in Nat \ {0}
       PROVE  T[n + 1] = Before(e, e.models, T[n])
  <2>1. n + 1 \in Nat /\ n + 1 # 0 /\ n + 1 # 1 /\ (n + 1) - 1 = n
    OBVIOUS
  <2> QED
    BY <1>3, <1>9, <2>1
<1> QED
  BY <1>10, <1>11 DEF Ends

\* T[i] are the truths at position i of the word w of n letters.
TruthsAlong(e, w, n, T) ==
  /\ TruthsOfWord(e, w) = T[1]
  /\ T[n] = {m.now : m \in {x \in e.models : x.lits = w[n] /\ x.tail}}
  /\ \A i \in 1 .. n - 1 : T[i] = Before(e, {x \in e.models : x.lits = w[i]}, T[i + 1])

\* The truths at the start of a word, from the last position backwards.
LEMMA TruthsOfWordFacts ==
  ASSUME NEW e \in Problems, NEW n \in Nat \ {0}, NEW w \in [1 .. n -> e.letters]
  PROVE  \E T : TruthsAlong(e, w, n, T)
<1> DEFINE With(b) == {x \in e.models : x.lits = b}
           Ends == {m.now : m \in {x \in With(w[n]) : x.tail}}
           Rec(T) == [i \in 1 .. Len(w) |->
                        IF i = Len(w) THEN {m.now : m \in {x \in With(w[i]) : x.tail}}
                        ELSE UNION {Before(e, With(w[i]), S) : S \in {T[i + 1]}}]
           D == SUBSET Truths(e)
           F == [p \in Nat \X D |-> Before(e, With(w[n - (p[1] + 1)]), p[2])]
<1>1. Len(w) = n
  <2>1. w \in Seq(e.letters) /\ DOMAIN w = 1 .. n
    OBVIOUS
  <2> QED
    BY <2>1, LenProperties
<1>2. Ends \in D /\ \A b, S : Before(e, With(b), S) \in D
  BY DEF Truths, Before
<1>3. TruthsOfWord(e, w) = (CHOOSE T : T = Rec(T))[1]
  BY DEF TruthsOfWord
<1> HIDE DEF With
<1>4. ASSUME NEW T, NEW i \in 1 .. n
      PROVE  Rec(T)[i] = IF i = n THEN Ends ELSE Before(e, With(w[i]), T[i + 1])
  <2>1. UNION {Before(e, With(w[i]), S) : S \in {T[i + 1]}} = Before(e, With(w[i]), T[i + 1])
    OBVIOUS
  <2> QED
    BY <1>1, <2>1
<1> HIDE DEF Ends
<1>5. F \in [Nat \X D -> D]
  BY <1>2
<1> HIDE DEF F, D
<1>6. PICK f : Iterates(f, D, Ends, F)
  BY <1>2, <1>5, Iteration
<1>7. /\ f \in [Nat -> D] /\ f[0] = Ends
      /\ \A k \in Nat : f[k + 1] = Before(e, With(w[n - (k + 1)]), f[k])
  <2>1. f \in [Nat -> D] /\ f[0] = Ends /\ \A k \in Nat : f[k + 1] = F[<<k, f[k]>>]
    BY <1>6 DEF Iterates
  <2>2. \A k \in Nat : f[k] \in D
    BY <2>1
  <2> QED
    BY <2>1, <2>2 DEF F
<1> DEFINE G == [i \in 1 .. n |-> f[n - i]]
<1>8. G = Rec(G)
  <2>1. ASSUME NEW i \in 1 .. n
        PROVE  G[i] = IF i = n THEN Ends ELSE Before(e, With(w[i]), G[i + 1])
    <3>1. CASE i = n
      <4>1. G[i] = f[0]
        BY <3>1
      <4> QED
        BY <1>7, <3>1, <4>1
    <3>2. CASE i # n
      <4>1. i + 1 \in 1 .. n /\ n - (i + 1) \in Nat /\ (n - (i + 1)) + 1 = n - i
            /\ n - (n - i) = i
        BY <3>2
      <4>2. G[i] = f[n - i] /\ G[i + 1] = f[n - (i + 1)]
        BY <4>1
      <4>3. f[n - i] = Before(e, With(w[i]), f[n - (i + 1)])
        BY <1>7, <4>1
      <4> QED
        BY <3>2, <4>2, <4>3
    <3> QED
      BY <3>1, <3>2
  <2>2. G = [i \in 1 .. n |-> G[i]] /\ Rec(G) = [i \in 1 .. n |-> Rec(G)[i]]
    BY <1>1
  <2> HIDE DEF Rec, G
  <2>3. ASSUME NEW i \in 1 .. n
        PROVE  G[i] = Rec(G)[i]
    BY <1>4, <2>1
  <2> QED
    BY <2>2, <2>3
<1> DEFINE T == CHOOSE T : T = Rec(T)
<1> HIDE DEF Rec, G
<1>9. T = Rec(T)
  BY <1>8, Zenon
<1>10. TruthsOfWord(e, w) = T[1]
  BY <1>3
<1> HIDE DEF T
<1>11. T[n] = Ends
  BY <1>4, <1>9
<1>12. ASSUME NEW i \in 1 .. n - 1
       PROVE  T[i] = Before(e, With(w[i]), T[i + 1])
  <2>1. i \in 1 .. n /\ i # n
    OBVIOUS
  <2> QED
    BY <1>4, <1>9, <2>1
<1>13. Ends = {m.now : m \in {x \in e.models : x.lits = w[n] /\ x.tail}}
  BY DEF Ends, With
<1> QED
  BY <1>10, <1>11, <1>12, <1>13 DEF With, TruthsAlong

\* dist counts the letters of a word.
LEMMA DistIsLength ==
  ASSUME NEW e \in Problems, NEW T \in Truths(e), e.dist[T] > 0
  PROVE  T \in TruthsOfLength(e)[e.dist[T]]
<1> DEFINE Bad == {n \in Nat : \E S \in Truths(e) : /\ n = e.dist[S] /\ n > 0
                                                   /\ S \notin TruthsOfLength(e)[n]}
<1> SUFFICES ASSUME e.dist[T] \in Bad PROVE FALSE
  BY DistFacts
<1>1. PICK n \in Bad : \A k \in Bad : n <= k
  BY Smallest
<1>2. PICK S \in Truths(e) : n = e.dist[S] /\ n > 0 /\ S \notin TruthsOfLength(e)[n]
  BY <1>1
<1>3. CASE n = 1
  <2>1. e.dist[S] = 1
    BY <1>2, <1>3
  <2>2. \E m \in e.models : m.now = S /\ m.tail
    BY <2>1, DistFacts
  <2> QED
    BY <1>2, <1>3, <2>2, TruthsOfLengthFacts
<1>4. CASE n # 1
  <2>1. PICK m \in e.models, R \in Truths(e) :
          m.now = S /\ FollowedBy(e, m, R) /\ e.dist[S] = e.dist[R] + 1
    BY <1>1, <1>2, <1>4, DistFacts
  <2>2. /\ e.dist[R] \in Nat \ {0} /\ n = e.dist[R] + 1
        /\ e.dist[R] \notin Bad
    BY <1>1, <1>2, <1>4, <2>1, DistFacts
  <2>3. R \in TruthsOfLength(e)[e.dist[R]]
    BY <2>2
  <2>4. S \in Before(e, e.models, TruthsOfLength(e)[e.dist[R]])
    BY <2>1, <2>3 DEF Before
  <2> QED
    BY <1>2, <2>2, <2>4, TruthsOfLengthFacts
<1> QED
  BY <1>3, <1>4

-----------------------------------------------------------------------------
(***************************************************************************)
(* Evidence: labels are those of transitions from each state of a search to *)
(* the next, and a word completes them position by position.                *)
(***************************************************************************)
\* A transition of the solver from the state s to the state t, and the end of a word.
Transition(e, s, label, t) ==
  \E m \in e.models : /\ ~ m.tail /\ s \subseteq m.now
                      /\ label = m.lits \cap CoiLit(e, s)
                      /\ t = m.next \cap CoiNext(e, s)

Ending(e, s, label) ==
  \E m \in e.models : m.tail /\ s \subseteq m.now /\ label = m.lits \cap CoiLit(e, s)

\* Any letter with the label takes the state s to any truth that has the state t.
LEMMA TransitionLifts ==
  ASSUME NEW e \in Problems, NEW s, NEW label, NEW t, Transition(e, s, label, t),
         NEW b \in e.letters, label \subseteq b, NEW T \in Truths(e), t \subseteq T
  PROVE  \E x \in e.models : x.lits = b /\ FollowedBy(e, x, T) /\ s \subseteq x.now
<1>1. PICK m \in e.models : /\ ~ m.tail /\ s \subseteq m.now
                           /\ label = m.lits \cap CoiLit(e, s)
                           /\ t = m.next \cap CoiNext(e, s)
  BY DEF Transition
<1>2. CoiIsEnough(e)
  BY EncodingAssumption DEF WellFormed
<1>3. PICK x \in e.models : x.lits = b /\ FollowedBy(e, x, T) /\ Keeps(e, m, x, T)
  BY <1>1, <1>2 DEF CoiIsEnough
<1>4. ASSUME NEW c \in s
      PROVE  c \in x.now
  <2>1. e.coiLit[c] \subseteq CoiLit(e, s) /\ e.coiNext[c] \subseteq CoiNext(e, s)
    BY DEF CoiLit, CoiNext
  <2>2. m.lits \cap e.coiLit[c] \subseteq x.lits /\ m.next \cap e.coiNext[c] \subseteq T
    BY <1>1, <1>3, <2>1
  <2> QED
    BY <1>1, <1>3, <2>2 DEF Keeps
<1> QED
  BY <1>3, <1>4

\* Any letter with the label ends a word in the state s.
LEMMA EndingLifts ==
  ASSUME NEW e \in Problems, NEW s, NEW label, Ending(e, s, label),
         NEW b \in e.letters, label \subseteq b
  PROVE  \E x \in e.models : x.lits = b /\ x.tail /\ s \subseteq x.now
<1>1. PICK m \in e.models : m.tail /\ s \subseteq m.now /\ label = m.lits \cap CoiLit(e, s)
  BY DEF Ending
<1>2. CoiIsEnough(e)
  BY EncodingAssumption DEF WellFormed
<1>3. PICK x \in e.models : x.lits = b /\ x.tail /\ Keeps(e, m, x, m.next)
  BY <1>1, <1>2 DEF CoiIsEnough
<1>4. ASSUME NEW c \in s
      PROVE  c \in x.now
  <2>1. e.coiLit[c] \subseteq CoiLit(e, s)
    BY DEF CoiLit
  <2>2. m.lits \cap e.coiLit[c] \subseteq x.lits /\ m.next \cap e.coiNext[c] \subseteq m.next
    BY <1>1, <1>3, <2>1
  <2> QED
    BY <1>1, <1>3, <2>2 DEF Keeps
<1> QED
  BY <1>3, <1>4

\* The states and labels of a search that has reached the end of a word.
Chain(e, states, labels, n) ==
  /\ \A i \in 1 .. n - 1 : Transition(e, states[i], labels[i], states[i + 1])
  /\ Ending(e, states[n], labels[n])

\* Every word that completes the labels satisfies the first state, by induction from
\* its last position to its first.
LEMMA ChainWitnesses ==
  ASSUME NEW e \in Problems, NEW n \in Nat \ {0}, NEW states, NEW labels \in Seq(SUBSET Lit),
         Len(labels) = n, Chain(e, states, labels, n)
  PROVE  Witnesses(e, labels, states[1])
<1>1. labels # <<>>
  OBVIOUS
<1> SUFFICES ASSUME NEW w \in [1 .. n -> e.letters], \A i \in 1 .. n : labels[i] \subseteq w[i]
             PROVE  \E S \in TruthsOfWord(e, w) : states[1] \subseteq S
  BY <1>1 DEF Witnesses
<1>2. PICK T : TruthsAlong(e, w, n, T)
  BY TruthsOfWordFacts
<1> DEFINE Held(i) == \E S \in T[i] : S \in Truths(e) /\ states[i] \subseteq S
           Bad == {k \in Nat : k < n /\ ~ Held(n - k)}
<1>3. Held(n)
  <2>1. n \in 1 .. n
    OBVIOUS
  <2>2. PICK x \in e.models : x.lits = w[n] /\ x.tail /\ states[n] \subseteq x.now
    BY <2>1, EndingLifts DEF Chain
  <2>3. x.now \in T[n] /\ x.now \in Truths(e)
    BY <1>2, <2>2, ModelsTyped DEF TruthsAlong
  <2> QED
    BY <2>2, <2>3
<1>4. ASSUME NEW i \in 1 .. n - 1, Held(i + 1)
      PROVE  Held(i)
  <2>1. PICK S \in T[i + 1] : S \in Truths(e) /\ states[i + 1] \subseteq S
    BY <1>4
  <2>2. /\ w[i] \in e.letters /\ labels[i] \subseteq w[i]
        /\ Transition(e, states[i], labels[i], states[i + 1])
    BY DEF Chain
  <2>3. PICK x \in e.models : x.lits = w[i] /\ FollowedBy(e, x, S) /\ states[i] \subseteq x.now
    BY <2>1, <2>2, TransitionLifts
  <2>4. x.now \in Before(e, {y \in e.models : y.lits = w[i]}, T[i + 1])
    BY <2>1, <2>3 DEF Before
  <2>5. x.now \in T[i] /\ x.now \in Truths(e)
    BY <1>2, <2>4, ModelsTyped DEF TruthsAlong
  <2> QED
    BY <2>3, <2>5
<1> HIDE DEF Held
<1>5. n - 1 \notin Bad
  <2> SUFFICES ASSUME n - 1 \in Bad PROVE FALSE
    OBVIOUS
  <2>1. PICK k \in Bad : \A j \in Bad : k <= j
    BY Smallest
  <2>2. k # 0
    BY <1>3, <2>1
  <2>3. k - 1 \in Nat /\ k - 1 < n /\ k - 1 \notin Bad
    BY <2>1, <2>2
  <2>4. n - k \in 1 .. n - 1 /\ n - (k - 1) = (n - k) + 1
    BY <2>1, <2>2
  <2>5. Held((n - k) + 1)
    BY <2>3, <2>4
  <2> QED
    BY <1>4, <2>1, <2>4, <2>5
<1>6. Held(1)
  <2>1. n - 1 \in Nat /\ n - 1 < n /\ n - (n - 1) = 1
    OBVIOUS
  <2> QED
    BY <1>5, <2>1
<1> QED
  BY <1>2, <1>6 DEF Held, TruthsAlong
=============================================================================
