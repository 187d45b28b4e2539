-------------------------- MODULE UnsatAssumpProofs ------------------------
(***************************************************************************)
(* Proofs about UnsatAssump, for every finite set of literals and every     *)
(* query that satisfies QueryAssumption.                                    *)
(***************************************************************************)
EXTENDS UnsatAssump, FiniteSetTheorems, SequenceTheorems, TLAPS

-----------------------------------------------------------------------------
(***************************************************************************)
(* Stacks of sets.                                                          *)
(***************************************************************************)
\* EveryPartNeeded of any stack and set of literals.
Tight(T, m) ==
  /\ Blocks(T) \cup m \in query.unsat
  /\ \A i \in 1 .. Len(T) : Others(T, i) \cup m \notin query.unsat
  /\ \A c \in m : (Blocks(T) \cup m) \ {c} \notin query.unsat

LEMMA StackTop ==
  ASSUME NEW X, NEW T \in Seq(X), T # <<>>
  PROVE  /\ SubSeq(T, 1, Len(T) - 1) \in Seq(X)
         /\ T[Len(T)] \in X
         /\ T = Append(SubSeq(T, 1, Len(T) - 1), T[Len(T)])
<1>1. Len(T) \in Nat \ {0} /\ DOMAIN T = 1 .. Len(T)
  OBVIOUS
<1>2. \A i \in 1 .. Len(T) : T[i] \in X
  OBVIOUS
<1> DEFINE P == SubSeq(T, 1, Len(T) - 1)
<1>3. P \in Seq(X) /\ Len(P) = Len(T) - 1 /\ \A i \in 1 .. Len(T) - 1 : P[i] = T[i]
  BY <1>1, <1>2
<1> HIDE DEF P
<1>4. Append(P, T[Len(T)]) \in Seq(X) /\ Len(Append(P, T[Len(T)])) = Len(T)
  <2>1. T[Len(T)] \in X
    BY <1>1, <1>2
  <2>2. \A x \in X : Append(P, x) \in Seq(X) /\ Len(Append(P, x)) = Len(P) + 1
    BY <1>3
  <2>3. Len(P) + 1 = Len(T)
    BY <1>1, <1>3
  <2> QED
    BY <2>1, <2>2, <2>3
<1>5. \A i \in 1 .. Len(T) : Append(P, T[Len(T)])[i] = T[i]
  BY <1>1, <1>3
<1>6. T = Append(P, T[Len(T)])
  BY <1>1, <1>4, <1>5, SeqEqual
<1> QED
  BY <1>1, <1>2, <1>3, <1>6 DEF P

LEMMA BlocksTyped ==
  ASSUME NEW T \in Seq(SUBSET Assum)
  PROVE  Blocks(T) \subseteq Assum /\ \A i : Others(T, i) \subseteq Blocks(T)
BY DEF Blocks, Others

\* The literals of a stack after a push.
LEMMA Push ==
  ASSUME NEW T \in Seq(SUBSET Assum), NEW A \in SUBSET Assum
  PROVE  /\ Append(T, A) \in Seq(SUBSET Assum) /\ Len(Append(T, A)) = Len(T) + 1
         /\ Blocks(Append(T, A)) = Blocks(T) \cup A
         /\ Others(Append(T, A), Len(T) + 1) = Blocks(T)
         /\ \A i \in 1 .. Len(T) : Others(Append(T, A), i) = Others(T, i) \cup A
<1> DEFINE U == Append(T, A)
<1>1. /\ U \in Seq(SUBSET Assum) /\ Len(U) = Len(T) + 1 /\ Len(T) \in Nat
      /\ U[Len(T) + 1] = A /\ \A i \in 1 .. Len(T) : U[i] = T[i]
  OBVIOUS
<1> HIDE DEF U
<1>2. 1 .. Len(U) = (1 .. Len(T)) \cup {Len(T) + 1} /\ Len(T) + 1 \notin 1 .. Len(T)
  BY <1>1
<1>3. Blocks(U) = Blocks(T) \cup A
  BY <1>1, <1>2 DEF Blocks
<1>4. (1 .. Len(U)) \ {Len(T) + 1} = 1 .. Len(T)
  BY <1>2
<1>5. Others(U, Len(T) + 1) = Blocks(T)
  BY <1>1, <1>4 DEF Others, Blocks
<1>6. ASSUME NEW i \in 1 .. Len(T)
      PROVE  Others(U, i) = Others(T, i) \cup A
  <2>1. (1 .. Len(U)) \ {i} = ((1 .. Len(T)) \ {i}) \cup {Len(T) + 1}
    BY <1>2
  <2> QED
    BY <1>1, <2>1 DEF Others
<1> QED
  BY <1>1, <1>3, <1>5, <1>6 DEF U

\* Fewer literals contradict phi less.
LEMMA Fewer ==
  ASSUME query \in Queries, NEW B \in SUBSET Assum, NEW A, A \subseteq B, B \notin query.unsat
  PROVE  A \notin query.unsat
BY QueryAssumption DEF WellFormed

-----------------------------------------------------------------------------
(***************************************************************************)
(* The steps of the loop.                                                   *)
(***************************************************************************)
\* The set on top is replaced by a part of it that suffices.
LEMMA TopShrinks ==
  ASSUME query \in Queries, NEW T \in Seq(SUBSET Assum), NEW m \in SUBSET Assum,
         NEW A \in SUBSET Assum, NEW B \in SUBSET A,
         Tight(Append(T, A), m), B \cup Blocks(T) \cup m \in query.unsat
  PROVE  Tight(Append(T, B), m)
<1>1. Blocks(T) \subseteq Assum /\ \A i : Others(T, i) \subseteq Assum
  BY BlocksTyped
<1>2. Blocks(Append(T, B)) \cup m \in query.unsat
  <2>1. Blocks(Append(T, B)) \cup m = B \cup Blocks(T) \cup m
    BY Push
  <2> QED
    BY <2>1
<1>3. ASSUME NEW i \in 1 .. Len(Append(T, B))
      PROVE  Others(Append(T, B), i) \cup m \notin query.unsat
  <2>1. Others(Append(T, A), i) \cup m \notin query.unsat
    BY <1>3, Push DEF Tight
  <2>2. CASE i = Len(T) + 1
    BY <2>1, <2>2, Push
  <2>3. CASE i \in 1 .. Len(T)
    <3>1. Others(T, i) \cup A \cup m \notin query.unsat
      BY <2>1, <2>3, Push
    <3>2. Others(T, i) \cup B \cup m \notin query.unsat
      BY <1>1, <3>1, Fewer
    <3> QED
      BY <2>3, <3>2, Push
  <2> QED
    BY <2>2, <2>3, Push
<1>4. ASSUME NEW c \in m
      PROVE  (Blocks(Append(T, B)) \cup m) \ {c} \notin query.unsat
  <2>1. (Blocks(T) \cup A \cup m) \ {c} \notin query.unsat
    BY Push DEF Tight
  <2>2. (Blocks(T) \cup B \cup m) \ {c} \notin query.unsat
    BY <1>1, <2>1, Fewer
  <2> QED
    BY <2>2, Push
<1> QED
  BY <1>2, <1>3, <1>4 DEF Tight

\* The set on top is split in two of which neither suffices.
LEMMA TopSplits ==
  ASSUME query \in Queries, NEW T \in Seq(SUBSET Assum), NEW m \in SUBSET Assum,
         NEW A \in SUBSET Assum, NEW B \in SUBSET A,
         Tight(Append(T, A), m),
         B \cup Blocks(T) \cup m \notin query.unsat,
         (A \ B) \cup Blocks(T) \cup m \notin query.unsat
  PROVE  Tight(Append(Append(T, B), A \ B), m)
<1> DEFINE U == Append(Append(T, B), A \ B)
<1>1. Blocks(T) \subseteq Assum /\ \A i : Others(T, i) \subseteq Assum
  BY BlocksTyped
<1>2. /\ Append(T, B) \in Seq(SUBSET Assum) /\ Len(Append(T, B)) = Len(T) + 1
      /\ Len(T) \in Nat /\ Len(U) = Len(T) + 2
  BY Push
<1>3. /\ Blocks(U) = Blocks(T) \cup A
      /\ Others(U, Len(T) + 2) = Blocks(T) \cup B
      /\ Others(U, Len(T) + 1) = Blocks(T) \cup (A \ B)
      /\ \A i \in 1 .. Len(T) : Others(U, i) = Others(T, i) \cup A
  <2>1. /\ Blocks(U) = Blocks(Append(T, B)) \cup (A \ B)
        /\ Others(U, Len(T) + 1 + 1) = Blocks(Append(T, B))
        /\ \A i \in 1 .. Len(T) + 1 : Others(U, i) = Others(Append(T, B), i) \cup (A \ B)
    <3>1. A \ B \in SUBSET Assum
      OBVIOUS
    <3> DEFINE V == Append(T, B)
    <3>2. V \in Seq(SUBSET Assum) /\ Len(V) = Len(T) + 1 /\ U = Append(V, A \ B)
      BY <1>2
    <3> HIDE DEF U, V
    <3>3. /\ Blocks(U) = Blocks(V) \cup (A \ B)
          /\ Others(U, Len(V) + 1) = Blocks(V)
          /\ \A i \in 1 .. Len(V) : Others(U, i) = Others(V, i) \cup (A \ B)
      BY <3>1, <3>2, Push
    <3> QED
      BY <3>2, <3>3 DEF V
  <2>2. /\ Blocks(Append(T, B)) = Blocks(T) \cup B
        /\ Others(Append(T, B), Len(T) + 1) = Blocks(T)
        /\ \A i \in 1 .. Len(T) : Others(Append(T, B), i) = Others(T, i) \cup B
    BY Push
  <2>3. Len(T) + 1 \in 1 .. Len(T) + 1 /\ Len(T) + 1 + 1 = Len(T) + 2
        /\ 1 .. Len(T) \subseteq 1 .. Len(T) + 1
    BY <1>2
  <2> HIDE DEF U
  <2>4. Blocks(U) = Blocks(T) \cup A /\ Others(U, Len(T) + 2) = Blocks(T) \cup B
    BY <2>1, <2>2, <2>3
  <2>5. Others(U, Len(T) + 1) = Blocks(T) \cup (A \ B)
    BY <2>1, <2>2, <2>3
  <2>6. ASSUME NEW i \in 1 .. Len(T)
        PROVE  Others(U, i) = Others(T, i) \cup A
    <3>1. Others(U, i) = Others(T, i) \cup B \cup (A \ B)
      BY <2>1, <2>2, <2>3
    <3> QED
      BY <3>1
  <2> QED
    BY <2>4, <2>5, <2>6
<1>4. /\ Blocks(Append(T, A)) = Blocks(T) \cup A
      /\ Len(Append(T, A)) = Len(T) + 1
      /\ \A i \in 1 .. Len(T) : Others(Append(T, A), i) = Others(T, i) \cup A
  BY Push
<1> HIDE DEF U
<1>5. Blocks(U) \cup m \in query.unsat /\ \A c \in m : (Blocks(U) \cup m) \ {c} \notin query.unsat
  BY <1>3, <1>4 DEF Tight
<1>6. ASSUME NEW i \in 1 .. Len(U)
      PROVE  Others(U, i) \cup m \notin query.unsat
  <2>1. CASE i \in 1 .. Len(T)
    <3>1. i \in 1 .. Len(Append(T, A))
      BY <1>2, <1>4, <2>1
    <3> QED
      BY <1>3, <1>4, <2>1, <3>1 DEF Tight
  <2>2. CASE i = Len(T) + 1
    <3>1. Others(U, i) \cup m = (A \ B) \cup Blocks(T) \cup m
      BY <1>3, <2>2
    <3> QED
      BY <3>1
  <2>3. CASE i = Len(T) + 2
    <3>1. Others(U, i) \cup m = B \cup Blocks(T) \cup m
      BY <1>3, <2>3
    <3> QED
      BY <3>1
  <2> QED
    BY <1>2, <2>1, <2>2, <2>3
<1> QED
  BY <1>5, <1>6 DEF Tight, U

\* The literal on top is kept.
LEMMA TopKept ==
  ASSUME query \in Queries, NEW T \in Seq(SUBSET Assum), NEW m \in SUBSET Assum,
         NEW l \in Assum, Tight(Append(T, {l}), m)
  PROVE  Tight(T, m \cup {l})
<1>1. Blocks(T) \subseteq Assum /\ \A i : Others(T, i) \subseteq Assum
  BY BlocksTyped
<1>2. /\ Len(Append(T, {l})) = Len(T) + 1 /\ Len(T) \in Nat
      /\ Blocks(Append(T, {l})) = Blocks(T) \cup {l}
      /\ Others(Append(T, {l}), Len(T) + 1) = Blocks(T)
      /\ \A i \in 1 .. Len(T) : Others(Append(T, {l}), i) = Others(T, i) \cup {l}
  BY Push
<1>3. Blocks(T) \cup (m \cup {l}) = Blocks(Append(T, {l})) \cup m
  BY <1>2
<1>4. ASSUME NEW i \in 1 .. Len(T)
      PROVE  Others(T, i) \cup (m \cup {l}) \notin query.unsat
  <2>1. i \in 1 .. Len(Append(T, {l}))
    BY <1>2
  <2>2. Others(T, i) \cup (m \cup {l}) = Others(Append(T, {l}), i) \cup m
    BY <1>2
  <2> QED
    BY <2>1, <2>2 DEF Tight
<1>5. ASSUME NEW c \in m \cup {l}
      PROVE  (Blocks(T) \cup (m \cup {l})) \ {c} \notin query.unsat
  <2>1. CASE c = l
    <3>1. Len(T) + 1 \in 1 .. Len(Append(T, {l}))
      BY <1>2
    <3>2. Blocks(T) \cup m \notin query.unsat
      BY <1>2, <3>1 DEF Tight
    <3>3. (Blocks(T) \cup (m \cup {l})) \ {c} \subseteq Blocks(T) \cup m
      BY <2>1
    <3> QED
      BY <1>1, <3>2, <3>3, Fewer
  <2>2. CASE c \in m
    BY <1>3, <2>2 DEF Tight
  <2> QED
    BY <2>1, <2>2
<1>6. Blocks(T) \cup (m \cup {l}) \in query.unsat
  BY <1>3 DEF Tight
<1> QED
  BY <1>4, <1>5, <1>6 DEF Tight

-----------------------------------------------------------------------------
(***************************************************************************)
(* The inductive invariant.                                                 *)
(***************************************************************************)
IInv ==
  /\ query \in Queries
  /\ TypeOK
  /\ EveryPartNeeded
  /\ Blocks(S) \cup muc \subseteq query.assumption

LEMMA EveryPartIsTight == EveryPartNeeded <=> Tight(S, muc)
BY DEF EveryPartNeeded, Tight

LEMMA InitInvariant ==
  ASSUME Init
  PROVE  IInv
<1>1. /\ query \in Queries /\ muc = {} /\ answered = FALSE /\ core = {}
      /\ query.assumption \in SUBSET Assum /\ query.assumption \in query.unsat
      /\ {} \notin query.unsat
  BY QueryAssumption DEF Init, CoreInit, WellFormed
<1>2. S = <<query.assumption>>
  BY <1>1 DEF Init
<1> DEFINE E == <<>>
           A == query.assumption
<1>3. E \in Seq(SUBSET Assum) /\ Len(E) = 0 /\ Blocks(E) = {} /\ S = Append(E, A)
  BY <1>2 DEF Blocks
<1> HIDE DEF E, A
<1>4. A \in SUBSET Assum
  BY <1>1 DEF A
<1>5. S \in Seq(SUBSET Assum) /\ Len(S) = 1 /\ Blocks(S) = A /\ Others(S, 1) = {}
  <2>1. Len(S) = 0 + 1 /\ Others(S, 0 + 1) = Blocks(E) /\ Blocks(S) = Blocks(E) \cup A
        /\ S \in Seq(SUBSET Assum)
    BY <1>3, <1>4, Push
  <2> QED
    BY <1>3, <2>1
<1>6. Tight(S, muc)
  <2>1. Blocks(S) \cup muc = A /\ Others(S, 1) \cup muc = {}
    BY <1>1, <1>5
  <2>2. \A i \in 1 .. Len(S) : i = 1
    BY <1>5
  <2> QED
    BY <1>1, <2>1, <2>2 DEF Tight, A
<1> QED
  BY <1>1, <1>5, <1>6, EveryPartIsTight DEF IInv, TypeOK, A

\* What the stack is made of.
LEMMA TopFacts ==
  ASSUME IInv, S # <<>>
  PROVE  /\ Popped \in Seq(SUBSET Assum) /\ psi \in SUBSET Assum /\ IsFiniteSet(psi)
         /\ S = Append(Popped, psi) /\ Tight(Append(Popped, psi), muc)
         /\ muc \in SUBSET Assum /\ query \in Queries
         /\ Blocks(S) = Blocks(Popped) \cup psi
<1>1. /\ Popped \in Seq(SUBSET Assum) /\ psi \in SUBSET Assum /\ S = Append(Popped, psi)
      /\ muc \in SUBSET Assum /\ query \in Queries
  BY StackTop DEF IInv, TypeOK, Popped, psi
<1>2. Tight(S, muc)
  BY EveryPartIsTight DEF IInv
<1>3. Blocks(S) = Blocks(Popped) \cup psi
  BY <1>1, Push
<1>4. IsFiniteSet(psi)
  BY <1>1, QueryAssumption, FS_Subset
<1> QED
  BY <1>1, <1>2, <1>3, <1>4

\* A step that leaves a tight stack of no new literals keeps the invariant.
LEMMA LoopKeepsInvariant ==
  ASSUME IInv, UNCHANGED <<query, answered, core>>,
         S' \in Seq(SUBSET Assum), muc' \in SUBSET Assum,
         Tight(S', muc'), Blocks(S') \cup muc' \subseteq Blocks(S) \cup muc
  PROVE  IInv'
<1>1. EveryPartNeeded'
  <2>1. query' = query
    OBVIOUS
  <2> QED
    BY <2>1 DEF EveryPartNeeded, Tight
<1>2. (Blocks(S) \cup muc)' \subseteq query.assumption
  BY DEF IInv, Blocks
<1> QED
  BY <1>1, <1>2 DEF IInv, TypeOK

LEMMA KeepLiteralKeepsInvariant ==
  ASSUME IInv, KeepLiteral
  PROVE  IInv'
<1>1. S # <<>> /\ muc' = muc \cup psi /\ S' = Popped /\ UNCHANGED <<query, answered, core>>
  BY DEF KeepLiteral
<1>2. PICK l : psi = {l}
  BY <1>1, TopFacts, FS_Singleton DEF KeepLiteral
<1>3. Tight(Popped, muc \cup {l})
  BY <1>1, <1>2, TopFacts, TopKept
<1>4. S' \in Seq(SUBSET Assum) /\ muc' \in SUBSET Assum /\ Tight(S', muc')
  BY <1>1, <1>2, <1>3, TopFacts
<1>5. Blocks(S') \cup muc' \subseteq Blocks(S) \cup muc
  BY <1>1, TopFacts
<1> QED
  BY <1>1, <1>4, <1>5, LoopKeepsInvariant

\* A half of psi that suffices takes its place.
LEMMA KeepHalf ==
  ASSUME IInv, S # <<>>, NEW A \in SUBSET psi, IsUnsat(A), S' = Append(Popped, A),
         UNCHANGED <<query, answered, core, muc>>
  PROVE  IInv'
<1>1. A \in SUBSET Assum
  BY TopFacts
<1>2. Tight(Append(Popped, A), muc)
  BY TopFacts, TopShrinks DEF IsUnsat
<1>3. S' \in Seq(SUBSET Assum) /\ Blocks(S') = Blocks(Popped) \cup A
  BY <1>1, TopFacts, Push
<1>4. Tight(S', muc') /\ muc' \in SUBSET Assum
  BY <1>2, TopFacts
<1>5. Blocks(S') \cup muc' \subseteq Blocks(S) \cup muc
  BY <1>3, TopFacts
<1> QED
  BY <1>3, <1>4, <1>5, LoopKeepsInvariant

LEMMA KeepFirstKeepsInvariant ==
  ASSUME IInv, KeepFirst
  PROVE  IInv'
<1>1. PICK psi_1 \in FirstHalves : IsUnsat(psi_1) /\ S' = Append(Popped, psi_1)
  BY DEF KeepFirst
<1>2. psi_1 \in SUBSET psi
  BY DEF FirstHalves
<1> QED
  BY <1>1, <1>2, KeepHalf DEF KeepFirst

LEMMA KeepSecondKeepsInvariant ==
  ASSUME IInv, KeepSecond
  PROVE  IInv'
<1>1. PICK psi_1 \in FirstHalves : IsUnsat(psi \ psi_1) /\ S' = Append(Popped, psi \ psi_1)
  BY DEF KeepSecond
<1>2. psi \ psi_1 \in SUBSET psi
  OBVIOUS
<1> QED
  BY <1>1, <1>2, KeepHalf DEF KeepSecond

LEMMA KeepBothKeepsInvariant ==
  ASSUME IInv, KeepBoth
  PROVE  IInv'
<1>1. PICK psi_1 \in FirstHalves : /\ ~ IsUnsat(psi_1) /\ ~ IsUnsat(psi \ psi_1)
                                   /\ S' = Append(Append(Popped, psi_1), psi \ psi_1)
  BY DEF KeepBoth
<1>2. S # <<>> /\ UNCHANGED <<query, answered, core, muc>>
  BY DEF KeepBoth
<1>3. psi_1 \in SUBSET psi /\ psi_1 \in SUBSET Assum /\ psi \ psi_1 \in SUBSET Assum
  BY <1>2, TopFacts DEF FirstHalves
<1>4. Tight(S', muc)
  BY <1>1, <1>2, <1>3, TopFacts, TopSplits DEF IsUnsat
<1>5. Append(Popped, psi_1) \in Seq(SUBSET Assum)
      /\ Blocks(Append(Popped, psi_1)) = Blocks(Popped) \cup psi_1
  BY <1>2, <1>3, TopFacts, Push
<1>6. S' \in Seq(SUBSET Assum) /\ Blocks(S') = Blocks(Popped) \cup psi_1 \cup (psi \ psi_1)
  BY <1>1, <1>3, <1>5, Push
<1>7. Blocks(S') \cup muc' \subseteq Blocks(S) \cup muc
  BY <1>2, <1>3, <1>6, TopFacts
<1> QED
  BY <1>2, <1>4, <1>6, <1>7, TopFacts, LoopKeepsInvariant

LEMMA NextKeepsInvariant ==
  ASSUME IInv, [Next]_vars
  PROVE  IInv'
<1>1. CASE KeepLiteral
  BY <1>1, KeepLiteralKeepsInvariant
<1>2. CASE KeepFirst
  BY <1>2, KeepFirstKeepsInvariant
<1>3. CASE KeepSecond
  BY <1>3, KeepSecondKeepsInvariant
<1>4. CASE KeepBoth
  BY <1>4, KeepBothKeepsInvariant
<1>5. CASE Return \/ Terminated \/ UNCHANGED vars
  <2>1. query' = query /\ S' = S /\ muc' = muc
    BY <1>5 DEF Return, Terminated, vars
  <2>2. TypeOK'
    BY <1>5 DEF IInv, TypeOK, Return, Terminated, vars
  <2> QED
    BY <2>1, <2>2 DEF IInv, EveryPartNeeded
<1> QED
  BY <1>1, <1>2, <1>3, <1>4, <1>5 DEF Next

LEMMA SpecIInv == Spec => []IInv
BY InitInvariant, NextKeepsInvariant, PTL DEF Spec

-----------------------------------------------------------------------------
\* The variables of GetUnsatAssump keep their types.
THEOREM SpecTypeOK == Spec => []TypeOK
<1>1. IInv => TypeOK
  BY DEF IInv
<1> QED
  BY <1>1, SpecIInv, PTL

\* At every turn of the loop of GetUnsatAssump what is left contradicts phi, and no
\* set of the stack and no literal already kept can be dropped from it.
THEOREM SpecEveryPartNeeded == Spec => []EveryPartNeeded
<1>1. IInv => EveryPartNeeded
  BY DEF IInv
<1> QED
  BY <1>1, SpecIInv, PTL

\* When the stack is empty, muc is a minimal core.
LEMMA EmptyStack ==
  ASSUME IInv, S = <<>>
  PROVE  IsMinimalCore(muc)
<1>1. Blocks(S) = {}
  BY DEF Blocks
<1>2. muc \in query.unsat /\ \A c \in muc : muc \ {c} \notin query.unsat
  <2>1. Blocks(S) \cup muc = muc
    BY <1>1
  <2> QED
    BY <2>1 DEF IInv, EveryPartNeeded
<1>3. muc \subseteq query.assumption
  BY DEF IInv
<1> QED
  BY <1>2, <1>3 DEF IsMinimalCore

\* GetUnsatAssump implements UnsatCore: it returns once, and what it returns is a
\* minimal core of the assumption.
THEOREM SpecReturnsMinimalCore == Spec => ReturnsMinimalCore
<1>1. Init => CoreInit
  BY DEF Init
<1>2. IInv /\ [Next]_vars => [Answer]_coreVars
  <2> SUFFICES ASSUME IInv, [Next]_vars, ~ UNCHANGED coreVars
               PROVE  Answer
    OBVIOUS
  <2>1. Return
    BY DEF Next, vars, coreVars, KeepLiteral, KeepFirst, KeepSecond, KeepBoth, Terminated
  <2>2. IsMinimalCore(core')
    BY <2>1, EmptyStack DEF Return
  <2> QED
    BY <2>1, <2>2 DEF Return, Answer
<1> QED
  BY <1>1, <1>2, SpecIInv, PTL DEF Spec, CoreSpec, ReturnsMinimalCore

-----------------------------------------------------------------------------
(***************************************************************************)
(* The number of turns.  Twice the literals still on the stack, less its    *)
(* sets, falls at every turn: a literal that is kept takes 2 and gives 1, a *)
(* half that is dropped takes at least 2, and a split takes 1.  It stays a  *)
(* natural number because the sets of the stack are apart, and no set is    *)
(* empty since every part is needed.                                        *)
(***************************************************************************)
Work(T) == 2 * Cardinality(Blocks(T)) - Len(T)

Apart(T) == \A i, j \in 1 .. Len(T) : i # j => T[i] \cap T[j] = {}

\* A set pushed on a stack is apart from the others if it shares no literal with them.
LEMMA PushApart ==
  ASSUME NEW T \in Seq(SUBSET Assum), NEW A \in SUBSET Assum
  PROVE  Apart(Append(T, A)) <=> Apart(T) /\ A \cap Blocks(T) = {}
<1> DEFINE U == Append(T, A)
<1>1. /\ Len(T) \in Nat /\ Len(U) = Len(T) + 1
      /\ U[Len(T) + 1] = A /\ \A i \in 1 .. Len(T) : U[i] = T[i]
  OBVIOUS
<1> HIDE DEF U
<1>2. 1 .. Len(U) = (1 .. Len(T)) \cup {Len(T) + 1} /\ Len(T) + 1 \notin 1 .. Len(T)
  BY <1>1
<1>3. ASSUME Apart(U)
      PROVE  Apart(T) /\ A \cap Blocks(T) = {}
  <2>1. Apart(T)
    BY <1>1, <1>2, <1>3 DEF Apart
  <2>2. ASSUME NEW i \in 1 .. Len(T)
        PROVE  A \cap T[i] = {}
    BY <1>1, <1>2, <1>3 DEF Apart
  <2> QED
    BY <2>1, <2>2 DEF Blocks
<1>4. ASSUME Apart(T), A \cap Blocks(T) = {}
      PROVE  Apart(U)
  <2>1. \A i \in 1 .. Len(T) : A \cap T[i] = {}
    BY <1>4 DEF Blocks
  <2>2. \A i, j \in 1 .. Len(T) : i # j => U[i] \cap U[j] = {}
    BY <1>1, <1>4 DEF Apart
  <2> QED
    BY <1>1, <1>2, <2>1, <2>2 DEF Apart
<1> QED
  BY <1>3, <1>4 DEF U

\* A set of which every part is needed is not empty.
LEMMA TightNonEmpty ==
  ASSUME NEW T \in Seq(SUBSET Assum), NEW m, Tight(T, m), NEW i \in 1 .. Len(T)
  PROVE  T[i] # {}
<1> SUFFICES ASSUME T[i] = {}
             PROVE  FALSE
  OBVIOUS
<1>1. Others(T, i) = Blocks(T)
  BY DEF Others, Blocks
<1> QED
  BY <1>1 DEF Tight

\* Nonempty sets that are apart have at least a literal each.
LEMMA ApartCount ==
  ASSUME NEW T \in Seq(SUBSET Assum), Apart(T), \A i \in 1 .. Len(T) : T[i] # {}
  PROVE  /\ IsFiniteSet(Blocks(T)) /\ Cardinality(Blocks(T)) \in Nat
         /\ Len(T) <= Cardinality(Blocks(T))
<1>1. IsFiniteSet(Blocks(T)) /\ Cardinality(Blocks(T)) \in Nat
  BY BlocksTyped, QueryAssumption, FS_Subset, FS_CardinalityType
<1> DEFINE pick == [i \in 1 .. Len(T) |-> CHOOSE x : x \in T[i]]
<1>2. \A i \in 1 .. Len(T) : pick[i] \in T[i]
  OBVIOUS
<1> HIDE DEF pick
<1>3. \A i \in 1 .. Len(T) : pick[i] \in Blocks(T)
  BY <1>2 DEF Blocks
<1>4. pick \in [1 .. Len(T) -> Blocks(T)]
  BY <1>3 DEF pick
<1>5. \A i, j \in 1 .. Len(T) : pick[i] = pick[j] => i = j
  BY <1>2 DEF Apart
<1>6. pick \in Injection(1 .. Len(T), Blocks(T))
  BY <1>4, <1>5 DEF Injection, IsInjective
<1>7. Len(T) \in Nat /\ Cardinality(1 .. Len(T)) = Len(T)
  <2>1. Len(T) \in Nat
    OBVIOUS
  <2> QED
    BY <2>1, FS_Interval
<1>8. Cardinality(1 .. Len(T)) <= Cardinality(Blocks(T))
  BY <1>1, <1>6, FS_Injection
<1> QED
  BY <1>1, <1>7, <1>8

\* A half of a set that is not a literal is neither nothing nor all of it.
LEMMA ProperHalf ==
  ASSUME IInv, S # <<>>, Cardinality(psi) # 1, NEW psi_1 \in FirstHalves
  PROVE  /\ psi_1 \in SUBSET psi /\ psi_1 # psi /\ psi_1 # {}
         /\ psi \ psi_1 \in SUBSET psi /\ psi \ psi_1 # psi
<1>1. /\ IsFiniteSet(psi) /\ Len(S) \in 1 .. Len(S) /\ S \in Seq(SUBSET Assum) /\ Tight(S, muc)
  BY TopFacts, EveryPartIsTight DEF IInv, TypeOK
<1>2. psi # {}
  BY <1>1, TightNonEmpty DEF psi
<1>3. Cardinality(psi) \in Nat /\ Cardinality(psi) # 0
  BY <1>1, <1>2, FS_CardinalityType, FS_EmptySet
<1>4. psi_1 \in SUBSET psi /\ Cardinality(psi_1) = Cardinality(psi) \div 2
  BY DEF FirstHalves
<1>5. Cardinality(psi) \div 2 # 0 /\ Cardinality(psi) \div 2 # Cardinality(psi)
  BY <1>3
<1>6. psi_1 # {} /\ psi_1 # psi
  BY <1>4, <1>5, FS_EmptySet
<1> QED
  BY <1>4, <1>6

\* What Apart says of the set on top.
LEMMA TopApart ==
  ASSUME IInv, Apart(S), S # <<>>
  PROVE  /\ Apart(Popped) /\ psi \cap Blocks(Popped) = {}
         /\ IsFiniteSet(Blocks(Popped)) /\ IsFiniteSet(psi)
         /\ Len(Popped) = Len(S) - 1 /\ Len(S) \in Nat
<1>1. Popped \in Seq(SUBSET Assum) /\ psi \in SUBSET Assum /\ S = Append(Popped, psi)
  BY TopFacts
<1>2. Apart(Popped) /\ psi \cap Blocks(Popped) = {}
  BY <1>1, PushApart
<1>3. Len(S) = Len(Popped) + 1 /\ Len(Popped) \in Nat
  BY <1>1, Push
<1>4. IsFiniteSet(Blocks(Popped))
  BY <1>1, BlocksTyped, QueryAssumption, FS_Subset
<1> QED
  BY <1>2, <1>3, <1>4, TopFacts

\* The literals of a stack are those below its top and, apart from them, those of its top.
LEMMA CountPush ==
  ASSUME NEW T \in Seq(SUBSET Assum), NEW A \in SUBSET Assum, A \cap Blocks(T) = {}
  PROVE  /\ Cardinality(Blocks(Append(T, A))) = Cardinality(Blocks(T)) + Cardinality(A)
         /\ Cardinality(Blocks(T)) \in Nat /\ Cardinality(A) \in Nat
         /\ Len(Append(T, A)) = Len(T) + 1 /\ Len(T) \in Nat
<1>1. IsFiniteSet(Blocks(T)) /\ IsFiniteSet(A)
  BY BlocksTyped, QueryAssumption, FS_Subset
<1>2. Cardinality(Blocks(T)) \in Nat /\ Cardinality(A) \in Nat
  BY <1>1, FS_CardinalityType
<1>3. Cardinality(Blocks(T) \cup A) = Cardinality(Blocks(T)) + Cardinality(A) - Cardinality(Blocks(T) \cap A)
  BY <1>1, FS_Union
<1>4. Cardinality(Blocks(T) \cap A) = 0
  BY FS_EmptySet
<1>5. Blocks(Append(T, A)) = Blocks(T) \cup A /\ Len(Append(T, A)) = Len(T) + 1
  BY Push
<1> QED
  BY <1>2, <1>3, <1>4, <1>5

LEMMA KeepLiteralTurn ==
  ASSUME IInv, Apart(S), KeepLiteral
  PROVE  Apart(S') /\ Work(S') < Work(S)
<1>1. S # <<>> /\ S' = Popped /\ Cardinality(psi) = 1
  BY DEF KeepLiteral
<1>2. /\ Popped \in Seq(SUBSET Assum) /\ psi \in SUBSET Assum /\ S = Append(Popped, psi)
      /\ Apart(Popped) /\ psi \cap Blocks(Popped) = {}
  BY <1>1, TopFacts, TopApart
<1>3. /\ Cardinality(Blocks(S)) = Cardinality(Blocks(Popped)) + 1
      /\ Cardinality(Blocks(Popped)) \in Nat /\ Len(S) = Len(Popped) + 1 /\ Len(Popped) \in Nat
  BY <1>1, <1>2, CountPush
<1>4. Work(Popped) < Work(S)
  BY <1>3 DEF Work
<1> QED
  BY <1>1, <1>2, <1>4

\* A part of the set on top takes its place.
LEMMA HalfTurn ==
  ASSUME IInv, Apart(S), S # <<>>, NEW A \in SUBSET psi, A # psi, S' = Append(Popped, A)
  PROVE  Apart(S') /\ Work(S') < Work(S)
<1>1. /\ Popped \in Seq(SUBSET Assum) /\ psi \in SUBSET Assum /\ S = Append(Popped, psi)
      /\ Apart(Popped) /\ psi \cap Blocks(Popped) = {} /\ IsFiniteSet(psi)
  BY TopFacts, TopApart
<1>2. A \in SUBSET Assum /\ A \cap Blocks(Popped) = {}
  BY <1>1
<1>3. Apart(Append(Popped, A))
  BY <1>1, <1>2, PushApart
<1>4. /\ Cardinality(Blocks(S)) = Cardinality(Blocks(Popped)) + Cardinality(psi)
      /\ Cardinality(Blocks(Popped)) \in Nat /\ Cardinality(psi) \in Nat
      /\ Len(S) = Len(Popped) + 1 /\ Len(Popped) \in Nat
  BY <1>1, CountPush
<1>5. /\ Cardinality(Blocks(Append(Popped, A))) = Cardinality(Blocks(Popped)) + Cardinality(A)
      /\ Cardinality(A) \in Nat /\ Len(Append(Popped, A)) = Len(Popped) + 1
  BY <1>1, <1>2, CountPush
<1>6. Cardinality(A) <= Cardinality(psi) /\ Cardinality(A) # Cardinality(psi)
  BY <1>1, FS_Subset
<1>7. Work(Append(Popped, A)) < Work(S)
  BY <1>4, <1>5, <1>6 DEF Work
<1> QED
  BY <1>3, <1>7

\* The set on top is split.
LEMMA SplitTurn ==
  ASSUME IInv, Apart(S), S # <<>>, NEW A \in SUBSET psi,
         S' = Append(Append(Popped, A), psi \ A)
  PROVE  Apart(S') /\ Work(S') < Work(S)
<1> DEFINE U == Append(Popped, A)
           B == psi \ A
<1>1. /\ Popped \in Seq(SUBSET Assum) /\ psi \in SUBSET Assum /\ S = Append(Popped, psi)
      /\ Apart(Popped) /\ psi \cap Blocks(Popped) = {} /\ IsFiniteSet(psi)
  BY TopFacts, TopApart
<1>2. A \in SUBSET Assum /\ A \cap Blocks(Popped) = {}
  BY <1>1
<1>3. U \in Seq(SUBSET Assum) /\ Apart(U) /\ Blocks(U) = Blocks(Popped) \cup A
  BY <1>1, <1>2, PushApart, Push
<1>4. B \in SUBSET Assum /\ B \cap Blocks(U) = {}
  BY <1>1, <1>3
<1>5. /\ Cardinality(Blocks(S)) = Cardinality(Blocks(Popped)) + Cardinality(psi)
      /\ Cardinality(Blocks(Popped)) \in Nat /\ Cardinality(psi) \in Nat
      /\ Len(S) = Len(Popped) + 1 /\ Len(Popped) \in Nat
  BY <1>1, CountPush
<1>6. /\ Cardinality(Blocks(U)) = Cardinality(Blocks(Popped)) + Cardinality(A)
      /\ Cardinality(A) \in Nat /\ Len(U) = Len(Popped) + 1
  BY <1>1, <1>2, CountPush
<1>7. Cardinality(psi) = Cardinality(A) + Cardinality(B)
  <2>1. Cardinality(B) = Cardinality(psi) - Cardinality(psi \cap A)
    BY <1>1, FS_Difference
  <2>2. psi \cap A = A
    OBVIOUS
  <2>3. Cardinality(B) = Cardinality(psi) - Cardinality(A)
    BY <2>1, <2>2
  <2> HIDE DEF B
  <2> QED
    BY <1>5, <1>6, <2>3
<1> HIDE DEF U, B
<1>8. /\ Cardinality(Blocks(Append(U, B))) = Cardinality(Blocks(U)) + Cardinality(B)
      /\ Cardinality(B) \in Nat /\ Len(Append(U, B)) = Len(U) + 1
  BY <1>3, <1>4, CountPush
<1>9. Apart(Append(U, B))
  BY <1>3, <1>4, PushApart
<1>10. Work(Append(U, B)) < Work(S)
  BY <1>5, <1>6, <1>7, <1>8 DEF Work
<1> QED
  BY <1>9, <1>10 DEF U, B

\* Every turn of the loop makes the work less, also one that would leave the rest of
\* the state as it was.
LEMMA TurnShrinks ==
  ASSUME IInv, Apart(S), KeepLiteral \/ KeepFirst \/ KeepSecond \/ KeepBoth
  PROVE  Apart(S') /\ Work(S') < Work(S)
<1>1. CASE KeepLiteral
  BY <1>1, KeepLiteralTurn
<1>2. CASE KeepFirst
  <2>1. S # <<>> /\ Cardinality(psi) # 1
    BY <1>2 DEF KeepFirst
  <2>2. PICK psi_1 \in FirstHalves : S' = Append(Popped, psi_1)
    BY <1>2 DEF KeepFirst
  <2>3. psi_1 \in SUBSET psi /\ psi_1 # psi
    BY <2>1, ProperHalf
  <2> QED
    BY <2>1, <2>2, <2>3, HalfTurn
<1>3. CASE KeepSecond
  <2>1. S # <<>> /\ Cardinality(psi) # 1
    BY <1>3 DEF KeepSecond
  <2>2. PICK psi_1 \in FirstHalves : S' = Append(Popped, psi \ psi_1)
    BY <1>3 DEF KeepSecond
  <2>3. psi \ psi_1 \in SUBSET psi /\ psi \ psi_1 # psi
    BY <2>1, ProperHalf
  <2> QED
    BY <2>1, <2>2, <2>3, HalfTurn
<1>4. CASE KeepBoth
  <2>1. S # <<>> /\ Cardinality(psi) # 1
    BY <1>4 DEF KeepBoth
  <2>2. PICK psi_1 \in FirstHalves : S' = Append(Append(Popped, psi_1), psi \ psi_1)
    BY <1>4 DEF KeepBoth
  <2>3. psi_1 \in SUBSET psi
    BY <2>1, ProperHalf
  <2> QED
    BY <2>1, <2>2, <2>3, SplitTurn
<1> QED
  BY <1>1, <1>2, <1>3, <1>4

LEMMA SpecApart == Spec => []Apart(S)
<1>1. ASSUME Init
      PROVE  Apart(S)
  <2>1. Len(S) \in {0, 1}
    BY <1>1 DEF Init
  <2> QED
    BY <2>1 DEF Apart
<1>2. ASSUME IInv, Apart(S), [Next]_vars
      PROVE  Apart(S)'
  <2>1. CASE KeepLiteral \/ KeepFirst \/ KeepSecond \/ KeepBoth
    BY <1>2, <2>1, TurnShrinks DEF Apart
  <2>2. CASE Return \/ Terminated \/ UNCHANGED vars
    BY <1>2, <2>2 DEF Return, Terminated, vars, Apart
  <2> QED
    BY <1>2, <2>1, <2>2 DEF Next
<1> QED
  BY <1>1, <1>2, SpecIInv, PTL DEF Spec

\* A turn of the loop makes the work less, and the step after the last turn returns.
Turn == IF S = <<>> THEN answered' ELSE Work(S') < Work(S)

\* GetUnsatAssump reduces n literals in fewer than 2n turns of its loop: the work is
\* between 0 and 2n, and every turn takes from it.
THEOREM SpecTurns ==
  Spec => [](Work(S) \in 0 .. 2 * Cardinality(query.assumption)) /\ [][Turn]_vars
<1>1. ASSUME IInv, Apart(S)
      PROVE  Work(S) \in 0 .. 2 * Cardinality(query.assumption)
  <2>1. S \in Seq(SUBSET Assum) /\ Tight(S, muc) /\ Blocks(S) \subseteq query.assumption
    BY <1>1, EveryPartIsTight DEF IInv, TypeOK
  <2>2. \A i \in 1 .. Len(S) : S[i] # {}
    BY <2>1, TightNonEmpty
  <2>3. Cardinality(Blocks(S)) \in Nat /\ Len(S) <= Cardinality(Blocks(S)) /\ Len(S) \in Nat
    <3>1. \A T \in Seq(SUBSET Assum) :
            Apart(T) /\ (\A i \in 1 .. Len(T) : T[i] # {}) =>
              Cardinality(Blocks(T)) \in Nat /\ Len(T) <= Cardinality(Blocks(T))
      BY ApartCount
    <3>2. Len(S) \in Nat
      BY <2>1
    <3> QED
      BY <1>1, <2>1, <2>2, <3>1, <3>2
  <2>4. /\ Cardinality(query.assumption) \in Nat
        /\ Cardinality(Blocks(S)) <= Cardinality(query.assumption)
    <3>1. IsFiniteSet(query.assumption)
      BY <1>1, QueryAssumption, FS_Subset DEF IInv, WellFormed
    <3> QED
      BY <2>1, <3>1, FS_Subset, FS_CardinalityType
  <2> QED
    BY <2>3, <2>4 DEF Work
<1>2. ASSUME IInv, Apart(S), [Next]_vars
      PROVE  [Turn]_vars
  <2>1. CASE KeepLiteral \/ KeepFirst \/ KeepSecond \/ KeepBoth
    <3>1. S # <<>>
      BY <2>1 DEF KeepLiteral, KeepFirst, KeepSecond, KeepBoth
    <3> QED
      BY <1>2, <2>1, <3>1, TurnShrinks DEF Turn
  <2>2. CASE Return
    BY <2>2 DEF Return, Turn
  <2>3. CASE Terminated \/ UNCHANGED vars
    BY <2>3 DEF Terminated
  <2> QED
    BY <1>2, <2>1, <2>2, <2>3 DEF Next
<1> QED
  BY <1>1, <1>2, SpecIInv, SpecApart, PTL DEF Spec
=============================================================================
