--------------------------- MODULE DfsSearchProofs --------------------------
(***************************************************************************)
(* Proofs about DfsSearch, for every encoding that satisfies                *)
(* EncodingAssumption and GoesOn: the answer is right, no state is opened   *)
(* twice, and blocks that are never removed cost no word.                   *)
(***************************************************************************)
EXTENDS DfsSearch, SatOracleProofs, FiniteSetTheorems

-----------------------------------------------------------------------------
(***************************************************************************)
(* The inductive invariant.  Its parts speak of the first k states of the   *)
(* stack st, the open ones, and of the assignments ms.                      *)
(***************************************************************************)
\* A blocked next position with a word has an open state with a word no longer.
Credit(e, st, k, ms) ==
  \A m \in e.models \ ms : \A S \in Truths(e) :
    m.next = S \cap e.hasNext /\ e.distOn[S] > 0 =>
      \E i \in 1 .. k : \E T \in Truths(e) : st[i] \subseteq T /\ e.distOn[T] \in 1 .. e.distOn[S]

\* No word ends in an open state, and MiniSat knows of no end either.
NotEnding(e, st, k) ==
  \A i \in 1 .. k : \A T \in Truths(e) : e.distOn[T] = 1 => ~ (st[i] \subseteq T)

NoEndLeft(st, k, ms) == \A i \in 1 .. k : \A m \in ms : st[i] \subseteq m.now => ~ m.tail

\* Open states are blocked.
AllBlocked(st, k, ms) == \A i \in 1 .. k : \A m \in ms : ~ (st[i] \subseteq m.next)

OpenCount == IF entered THEN Len(visited_) ELSE Len(visited_) - 1

SearchInv(e, st, k, ms) ==
  Credit(e, st, k, ms) /\ NotEnding(e, st, k) /\ NoEndLeft(st, k, ms) /\ AllBlocked(st, k, ms)

\* The labels are those of transitions from each state of the stack to the next.
Labelled(e, st, labels, n) ==
  /\ Len(labels) = n - 1
  /\ \A i \in 1 .. n - 1 : Transition(e, st[i], labels[i], st[i + 1])

Shape ==
  /\ pc = "check" => visited_ = <<>> /\ evidence = <<>> /\ ~ entered
  /\ pc = "search" => Len(visited_) \in Nat \ {0} /\ visited_[1] = goal
  /\ pc # "done" => verdict = "unknown"

Typed == problem \in GoingOn /\ goal \in SUBSET Conj /\ TypeOK

IInv ==
  /\ Typed
  /\ Shape
  /\ pc = "search" => /\ SearchInv(problem, visited_, OpenCount, assignments)
                      /\ Labelled(problem, visited_, evidence, Len(visited_))
  /\ NoStateTwice
  /\ VerdictSound

-----------------------------------------------------------------------------
(***************************************************************************)
(* Blocks.                                                                  *)
(***************************************************************************)
\* What distOn says of a word that goes on with Tail.
LEMMA DistOnFacts ==
  ASSUME NEW e \in GoingOn
  PROVE  /\ \A T \in Truths(e) : e.distOn[T] \in Nat
         /\ \A T \in Truths(e) : e.distOn[T] = 1 =>
              \E m \in e.models : m.now = T /\
                \E S \in Truths(e) : EndsAs(e, m, S) /\ e.distOn[S] = 1
         /\ \A T \in Truths(e) : e.distOn[T] > 1 =>
              \E m \in e.models : m.now = T /\
                \E S \in Truths(e) : FollowedBy(e, m, S) /\ e.distOn[T] = e.distOn[S] + 1
BY DEF GoingOn, GoesOn

\* No word ends in a state for which MiniSat finds no end: the assignment that ends it
\* and goes on with Tail is not blocked, for that would be on credit of an open state
\* in which a word ends.
LEMMA EndIsFound ==
  ASSUME NEW e \in GoingOn, NEW st, NEW k, NEW ms,
         Credit(e, st, k, ms), NotEnding(e, st, k),
         NEW s, \A m \in ms : s \subseteq m.now => ~ m.tail,
         NEW T \in Truths(e), e.distOn[T] = 1
  PROVE  ~ (s \subseteq T)
<1> SUFFICES ASSUME s \subseteq T PROVE FALSE
  OBVIOUS
<1>1. PICK m \in e.models, S \in Truths(e) : m.now = T /\ EndsAs(e, m, S) /\ e.distOn[S] = 1
  BY DistOnFacts
<1>2. m \in e.models \ ms /\ m.next = S \cap e.hasNext /\ e.distOn[S] > 0
  BY <1>1 DEF EndsAs
<1>3. PICK i \in 1 .. k, R \in Truths(e) : st[i] \subseteq R /\ e.distOn[R] \in 1 .. e.distOn[S]
  BY <1>2 DEF Credit
<1>4. e.distOn[R] = 1
  BY <1>1, <1>3
<1> QED
  BY <1>3, <1>4 DEF NotEnding

\* A refuted part c of the last open state has no word, but on credit of an earlier
\* open state.  Take a word for c that is as short as any; its second position is
\* blocked on credit of an open state with a still shorter word, and that is not the
\* last one, which has c.
LEMMA RefutedOnCredit ==
  ASSUME NEW e \in GoingOn, NEW st, NEW k \in Nat \ {0}, NEW ms,
         Credit(e, st, k, ms), NotEnding(e, st, k),
         NEW c, c \subseteq st[k], \A m \in ms : ~ (c \subseteq m.now),
         NEW T \in Truths(e), c \subseteq T, e.distOn[T] > 0
  PROVE  \E i \in 1 .. k - 1 : \E R \in Truths(e) :
            st[i] \subseteq R /\ e.distOn[R] \in 1 .. e.distOn[T]
<1> DEFINE Lengths == {n \in Nat : n > 0 /\ \E S \in Truths(e) : c \subseteq S /\ e.distOn[S] = n}
<1>1. \A S \in Truths(e) : e.distOn[S] \in Nat
  BY DistOnFacts
<1>2. e.distOn[T] \in Lengths
  BY <1>1
<1>3. PICK d \in Lengths : \A n \in Lengths : d <= n
  BY <1>2, Smallest
<1>4. PICK S \in Truths(e) : c \subseteq S /\ e.distOn[S] = d
  BY <1>3
<1>5. d \in Nat /\ d > 0 /\ d <= e.distOn[T]
  BY <1>2, <1>3
<1>6. d # 1
  <2>1. \A m \in ms : c \subseteq m.now => ~ m.tail
    OBVIOUS
  <2> QED
    BY <1>4, <2>1, EndIsFound
<1>7. PICK m \in e.models, R \in Truths(e) :
        m.now = S /\ FollowedBy(e, m, R) /\ e.distOn[S] = e.distOn[R] + 1
  BY <1>4, <1>5, <1>6, DistOnFacts
<1>8. m \in e.models \ ms /\ m.next = R \cap e.hasNext /\ e.distOn[R] \in Nat
      /\ e.distOn[R] > 0 /\ e.distOn[R] < d
  BY <1>1, <1>4, <1>5, <1>6, <1>7 DEF FollowedBy
<1>9. PICK i \in 1 .. k, Q \in Truths(e) : st[i] \subseteq Q /\ e.distOn[Q] \in 1 .. e.distOn[R]
  BY <1>8 DEF Credit
<1>10. i # k
  <2> SUFFICES ASSUME i = k PROVE FALSE
    OBVIOUS
  <2>1. c \subseteq Q /\ e.distOn[Q] \in Nat /\ e.distOn[Q] > 0 /\ e.distOn[Q] < d
    BY <1>5, <1>8, <1>9
  <2>2. e.distOn[Q] \in Lengths
    BY <2>1
  <2> QED
    BY <1>3, <1>5, <2>1, <2>2
<1>11. i \in 1 .. k - 1 /\ e.distOn[Q] \in 1 .. e.distOn[T]
  BY <1>1, <1>5, <1>8, <1>9, <1>10
<1> QED
  BY <1>9, <1>11

\* Blocking a state when it is opened: it is its own credit.
LEMMA OpenKeepsCredit ==
  ASSUME NEW e \in GoingOn, NEW st, NEW k \in Nat, NEW ms, SearchInv(e, st, k, ms),
         \A m \in ms : st[k + 1] \subseteq m.now => ~ m.tail
  PROVE  SearchInv(e, st, k + 1, {m \in ms : ~ (st[k + 1] \subseteq m.next)})
<1> DEFINE left == {m \in ms : ~ (st[k + 1] \subseteq m.next)}
           s == st[k + 1]
<1>1. \A i \in 1 .. k + 1 : i \in 1 .. k \/ i = k + 1
  OBVIOUS
<1>2. 1 .. k \subseteq 1 .. k + 1 /\ k + 1 \in 1 .. k + 1
  OBVIOUS
<1>3. Credit(e, st, k + 1, left)
  <2> SUFFICES ASSUME NEW m \in e.models \ left, NEW S \in Truths(e),
                      m.next = S \cap e.hasNext, e.distOn[S] > 0
               PROVE  \E i \in 1 .. k + 1 : \E T \in Truths(e) :
                         st[i] \subseteq T /\ e.distOn[T] \in 1 .. e.distOn[S]
    BY DEF Credit
  <2>1. CASE m \in e.models \ ms
    BY <1>2, <2>1 DEF SearchInv, Credit
  <2>2. CASE m \in ms
    <3>1. st[k + 1] \subseteq S
      BY <2>2
    <3>2. e.distOn[S] \in 1 .. e.distOn[S]
      BY DistOnFacts
    <3> QED
      BY <1>2, <3>1, <3>2
  <2> QED
    BY <2>1, <2>2
<1>4. NotEnding(e, st, k + 1)
  <2>1. \A T \in Truths(e) : e.distOn[T] = 1 => ~ (st[k + 1] \subseteq T)
    BY EndIsFound DEF SearchInv
  <2> QED
    BY <1>1, <2>1 DEF SearchInv, NotEnding
<1>5. NoEndLeft(st, k + 1, left)
  BY <1>1 DEF SearchInv, NoEndLeft
<1>6. AllBlocked(st, k + 1, left)
  BY <1>1 DEF SearchInv, AllBlocked
<1> QED
  BY <1>3, <1>4, <1>5, <1>6 DEF SearchInv

\* Blocking a refuted part of a state when it is closed: what was on its credit is on
\* that of an earlier open state.
LEMMA CloseKeepsCredit ==
  ASSUME NEW e \in GoingOn, NEW st, NEW k \in Nat \ {0}, NEW ms, SearchInv(e, st, k, ms),
         NEW c, c \subseteq st[k], \A m \in ms : ~ (c \subseteq m.now)
  PROVE  SearchInv(e, st, k - 1, {m \in ms : ~ (c \subseteq m.next)})
<1> DEFINE left == {m \in ms : ~ (c \subseteq m.next)}
<1>1. 1 .. k - 1 \subseteq 1 .. k
  OBVIOUS
<1>2. Credit(e, st, k, ms) /\ NotEnding(e, st, k)
  BY DEF SearchInv
<1>3. Credit(e, st, k - 1, left)
  <2> SUFFICES ASSUME NEW m \in e.models \ left, NEW S \in Truths(e),
                      m.next = S \cap e.hasNext, e.distOn[S] > 0
               PROVE  \E i \in 1 .. k - 1 : \E T \in Truths(e) :
                         st[i] \subseteq T /\ e.distOn[T] \in 1 .. e.distOn[S]
    BY DEF Credit
  <2>1. CASE m \in e.models \ ms
    <3>1. PICK i \in 1 .. k, T \in Truths(e) : st[i] \subseteq T /\ e.distOn[T] \in 1 .. e.distOn[S]
      BY <1>2, <2>1 DEF Credit
    <3>2. CASE i = k
      <4>1. c \subseteq T /\ e.distOn[T] > 0
        BY <3>1, <3>2
      <4>2. PICK j \in 1 .. k - 1, R \in Truths(e) :
              st[j] \subseteq R /\ e.distOn[R] \in 1 .. e.distOn[T]
        BY <1>2, <4>1, RefutedOnCredit
      <4>3. e.distOn[R] \in 1 .. e.distOn[S]
        BY <3>1, <4>2, DistOnFacts
      <4> QED
        BY <4>2, <4>3
    <3>3. CASE i # k
      <4>1. i \in 1 .. k - 1
        BY <3>3
      <4> QED
        BY <3>1, <4>1
    <3> QED
      BY <3>2, <3>3
  <2>2. CASE m \in ms
    <3>1. c \subseteq S
      BY <2>2
    <3> QED
      BY <1>2, <3>1, RefutedOnCredit
  <2> QED
    BY <2>1, <2>2
<1>4. NotEnding(e, st, k - 1) /\ NoEndLeft(st, k - 1, left) /\ AllBlocked(st, k - 1, left)
  BY <1>1 DEF SearchInv, NotEnding, NoEndLeft, AllBlocked
<1> QED
  BY <1>3, <1>4 DEF SearchInv

\* Only the open states of the stack matter.
LEMMA SearchInvOfOpen ==
  ASSUME NEW e, NEW st, NEW st2, NEW k, NEW ms, SearchInv(e, st, k, ms),
         \A i \in 1 .. k : st2[i] = st[i]
  PROVE  SearchInv(e, st2, k, ms)
<1>1. Credit(e, st2, k, ms)
  BY DEF SearchInv, Credit
<1>2. NotEnding(e, st2, k)
  BY DEF SearchInv, NotEnding
<1>3. NoEndLeft(st2, k, ms) /\ AllBlocked(st2, k, ms)
  BY DEF SearchInv, NoEndLeft, AllBlocked
<1> QED
  BY <1>1, <1>2, <1>3 DEF SearchInv

\* A word has an end.
LEMMA WordEnds ==
  ASSUME NEW e \in GoingOn, NEW T \in Truths(e), e.distOn[T] > 0
  PROVE  \E S \in Truths(e) : e.distOn[S] = 1
<1> DEFINE Lengths == {n \in Nat : n > 0 /\ \E S \in Truths(e) : e.distOn[S] = n}
<1>1. e.distOn[T] \in Lengths
  BY DistOnFacts
<1>2. PICK d \in Lengths : \A n \in Lengths : d <= n
  BY <1>1, Smallest
<1>3. PICK S \in Truths(e) : e.distOn[S] = d
  BY <1>2
<1>4. ~ (d > 1)
  <2> SUFFICES ASSUME d > 1 PROVE FALSE
    OBVIOUS
  <2>1. PICK R \in Truths(e) : e.distOn[S] = e.distOn[R] + 1
    BY <1>3, DistOnFacts
  <2>2. e.distOn[R] \in Nat /\ e.distOn[R] > 0 /\ e.distOn[R] < d
    BY <1>3, <2>1, DistOnFacts
  <2>3. e.distOn[R] \in Lengths
    BY <2>2
  <2> QED
    BY <1>2, <2>2, <2>3
<1> QED
  BY <1>2, <1>3, <1>4

\* A formula of which the only open state is refuted has no word, nor has any when the
\* refutation needs no conjunct at all.
LEMMA RefutedGoal ==
  ASSUME NEW e \in GoingOn, NEW st, NEW k \in Nat \ {0}, NEW ms, SearchInv(e, st, k, ms),
         NEW c, c \subseteq st[k], \A m \in ms : ~ (c \subseteq m.now),
         (k = 1 /\ st[1] = e.goal) \/ c = {}
  PROVE  ~ Satisfiable(e, e.goal)
<1> SUFFICES ASSUME Satisfiable(e, e.goal) PROVE FALSE
  OBVIOUS
<1>1. PICK T \in Truths(e) : e.goal \subseteq T /\ e.distOn[T] > 0
  BY DEF GoingOn, GoesOn
<1>2. Credit(e, st, k, ms) /\ NotEnding(e, st, k)
  BY DEF SearchInv
<1>3. CASE c = {}
  <2>1. PICK S \in Truths(e) : e.distOn[S] = 1
    BY <1>1, WordEnds
  <2>2. \A m \in ms : c \subseteq m.now => ~ m.tail
    OBVIOUS
  <2>3. ~ (c \subseteq S)
    BY <1>2, <2>1, <2>2, EndIsFound
  <2> QED
    BY <1>3, <2>3
<1>4. CASE k = 1 /\ st[1] = e.goal
  <2>1. c \subseteq T
    BY <1>1, <1>4
  <2>2. \E i \in 1 .. k - 1 : \E R \in Truths(e) :
          st[i] \subseteq R /\ e.distOn[R] \in 1 .. e.distOn[T]
    BY <1>1, <1>2, <2>1, RefutedOnCredit
  <2> QED
    BY <1>4, <2>2
<1> QED
  BY <1>3, <1>4

-----------------------------------------------------------------------------
(***************************************************************************)
(* The steps.                                                               *)
(***************************************************************************)
LEMMA DropLastFacts ==
  ASSUME NEW S, NEW q \in Seq(S), Len(q) > 0
  PROVE  /\ DropLast(q) \in Seq(S)
         /\ Len(DropLast(q)) = Len(q) - 1
         /\ \A i \in 1 .. Len(q) - 1 : DropLast(q)[i] = q[i]
<1> DEFINE n == Len(q) - 1
<1>1. n \in Int /\ 1 \in Int /\ n >= 0 /\ \A i \in 1 .. n : q[i] \in S
  OBVIOUS
<1> HIDE DEF n
<1>2. /\ SubSeq(q, 1, n) \in Seq(S)
      /\ Len(SubSeq(q, 1, n)) = IF 1 <= n THEN n - 1 + 1 ELSE 0
      /\ \A i \in 1 .. n - 1 + 1 : SubSeq(q, 1, n)[i] = q[1 + i - 1]
  BY <1>1, SubSeqProperties
<1>3. Len(SubSeq(q, 1, n)) = n /\ \A i \in 1 .. n : SubSeq(q, 1, n)[i] = q[i]
  BY <1>1, <1>2
<1> QED
  BY <1>2, <1>3 DEF DropLast, n

LEMMA InitInvariant ==
  ASSUME Init
  PROVE  IInv
<1>1. problem \in GoingOn /\ problem.goal \subseteq Conj
  BY EncodingAssumption DEF GoingOn, Init, WellFormed, EncodingType
<1>2. Typed
  <2>1. verdict \in {"unknown", "sat", "unsat"} /\ pc \in {"check", "search", "done"}
    BY DEF Init, Begin
  <2>2. <<>> \in Seq(SUBSET Lit) /\ <<>> \in Seq(SUBSET Conj)
    OBVIOUS
  <2>3. evidence \in Seq(SUBSET Lit) /\ visited_ \in Seq(SUBSET Conj)
    BY <2>2 DEF Init, Begin
  <2>4. assignments \subseteq problem.models
    BY DEF Init, Begin
  <2>5. entered \in BOOLEAN
    BY Zenon DEF Init, Begin
  <2>6. TypeOK
    BY <2>1, <2>3, <2>4, <2>5 DEF TypeOK
  <2> QED
    BY <1>1, <2>6 DEF Typed, goal
<1>3. NoStateTwice
  <2>1. Len(visited_) = 0
    BY DEF Init, Begin
  <2> QED
    BY <2>1 DEF NoStateTwice
<1> QED
  BY <1>2, <1>3 DEF Init, Begin, IInv, Shape, VerdictSound

\* The stack is not empty, and typed.
LEMMA TopFacts ==
  ASSUME IInv, pc = "search"
  PROVE  /\ problem \in GoingOn
         /\ visited_ \in Seq(SUBSET Conj) /\ evidence \in Seq(SUBSET Lit)
         /\ Len(visited_) \in Nat \ {0} /\ Len(evidence) = Len(visited_) - 1
         /\ Top = visited_[Len(visited_)] /\ Top \in SUBSET Conj
         /\ assignments \subseteq problem.models
         /\ SearchInv(problem, visited_, OpenCount, assignments)
         /\ visited_[1] = goal /\ verdict = "unknown"
BY DEF IInv, Typed, TypeOK, Shape, Top, Labelled

\* check answers without a search, or returns from one.
LEMMA ReturnKeepsInvariant ==
  ASSUME IInv, UNCHANGED problem, pc' = "done", NoStateTwice',
         evidence' \in Seq(SUBSET Lit), visited_' \in Seq(SUBSET Conj),
         assignments' \subseteq problem.models, entered' \in BOOLEAN,
         \/ verdict' = "sat" /\ Witnesses(problem, evidence', goal)
         \/ verdict' = "unsat" /\ ~ Satisfiable(problem, goal)
  PROVE  IInv'
<1>1. Typed'
  BY DEF IInv, Typed, TypeOK, goal
<1>2. VerdictSound'
  BY DEF VerdictSound, goal
<1> QED
  BY <1>1, <1>2 DEF IInv, Shape

LEMMA StackUnchanged ==
  ASSUME IInv, UNCHANGED visited_
  PROVE  NoStateTwice'
BY DEF IInv, NoStateTwice

\* An assignment that ends a word in s, and what it leaves of the labels.
LEMMA CheckTrueKeepsInvariant ==
  ASSUME IInv, CheckTrue
  PROVE  IInv'
<1>1. problem \in GoingOn /\ goal = {} /\ evidence' = <<{}>>
  BY DEF CheckTrue, IInv, Typed
<1>2. PICK m \in problem.models : m.tail
  BY <1>1, ModelsExist DEF GoingOn
<1> DEFINE labels == <<{}>>
           states == <<{}>>
<1>3. CoiLit(problem, {}) = {}
  BY DEF CoiLit
<1>4. Ending(problem, {}, {})
  BY <1>2, <1>3 DEF Ending
<1>5. Chain(problem, states, labels, 1)
  BY <1>4 DEF Chain
<1>6. labels \in Seq(SUBSET Lit) /\ Len(labels) = 1 /\ 1 \in Nat \ {0} /\ states[1] = {}
  OBVIOUS
<1> HIDE DEF labels, states
<1>7. Witnesses(problem, labels, states[1])
  BY <1>1, <1>5, <1>6, ChainWitnesses DEF GoingOn
<1>8. Witnesses(problem, evidence', goal) /\ evidence' \in Seq(SUBSET Lit)
  BY <1>1, <1>6, <1>7 DEF labels
<1>9. UNCHANGED <<problem, visited_, assignments, entered>> /\ verdict' = "sat" /\ pc' = "done"
  BY DEF CheckTrue, Return
<1>10. visited_' \in Seq(SUBSET Conj) /\ assignments' \subseteq problem.models /\ entered' \in BOOLEAN
  BY <1>9 DEF IInv, Typed, TypeOK
<1>11. NoStateTwice'
  BY <1>9, StackUnchanged
<1> QED
  BY <1>8, <1>9, <1>10, <1>11, ReturnKeepsInvariant

LEMMA UnsatKeepsInvariant ==
  ASSUME IInv, CheckFalse \/ HeuristicUnsat
  PROVE  IInv'
<1>1. /\ UNCHANGED <<problem, evidence, visited_, assignments, entered>>
      /\ verdict' = "unsat" /\ pc' = "done"
  BY DEF CheckFalse, HeuristicUnsat, Return
<1>2. ~ Satisfiable(problem, goal)
  <2>1. CASE CheckFalse
    <3>1. \A T \in Truths(problem) : ~ (goal \subseteq T)
      BY <2>1, ModelsTyped DEF GoingOn, CheckFalse, IInv, Typed, Truths
    <3> QED
      BY <3>1 DEF Satisfiable
  <2>2. CASE HeuristicUnsat
    BY <2>2 DEF HeuristicUnsat
  <2> QED
    BY <2>1, <2>2
<1>3. /\ evidence' \in Seq(SUBSET Lit) /\ visited_' \in Seq(SUBSET Conj)
      /\ assignments' \subseteq problem.models /\ entered' \in BOOLEAN
  BY <1>1 DEF IInv, Typed, TypeOK
<1>4. NoStateTwice'
  BY <1>1, StackUnchanged
<1> QED
  BY <1>1, <1>2, <1>3, <1>4, ReturnKeepsInvariant

\* Nothing is blocked and nothing is open yet.
LEMMA StartSearchKeepsInvariant ==
  ASSUME IInv, StartSearch
  PROVE  IInv'
<1>1. /\ UNCHANGED <<problem, verdict, evidence, entered>> /\ pc' = "search"
      /\ visited_' = <<goal>> /\ assignments' = problem.models
      /\ evidence = <<>> /\ ~ entered /\ verdict = "unknown" /\ goal' = goal
  BY DEF StartSearch, IInv, Shape, goal
<1>2. goal \in SUBSET Conj /\ problem \in GoingOn
  BY DEF IInv, Typed
<1>3. visited_' \in Seq(SUBSET Conj) /\ Len(visited_') = 1 /\ visited_'[1] = goal
  BY <1>1, <1>2
<1>4. Typed'
  BY <1>1, <1>2, <1>3 DEF IInv, Typed, TypeOK
<1>5. OpenCount' = 0
  BY <1>1, <1>3 DEF OpenCount
<1>6. SearchInv(problem, visited_, OpenCount, assignments)'
  <2>1. 1 .. 0 = {}
    OBVIOUS
  <2>2. SearchInv(problem', visited_', 0, problem'.models)
    BY <2>1 DEF SearchInv, Credit, NotEnding, NoEndLeft, AllBlocked
  <2> QED
    BY <1>1, <1>5, <2>2
<1>7. Labelled(problem, visited_, evidence, Len(visited_))'
  BY <1>1, <1>3 DEF Labelled
<1>8. NoStateTwice'
  BY <1>3 DEF NoStateTwice
<1>9. VerdictSound' /\ Shape'
  BY <1>1, <1>3 DEF VerdictSound, Shape
<1> QED
  BY <1>4, <1>6, <1>7, <1>8, <1>9 DEF IInv

\* The stack and the labels, with the end of the word behind them, witness the goal.
LEMMA SatOnceKeepsInvariant ==
  ASSUME IInv, SatOnce
  PROVE  IInv'
<1> DEFINE n == Len(visited_)
<1>1. PICK m \in FinalSolutions(Top) : evidence' = Append(evidence, Label(m, Top))
  BY DEF SatOnce
<1>2. /\ problem \in GoingOn /\ n \in Nat \ {0} /\ Len(evidence) = n - 1
      /\ Top = visited_[n] /\ Top \in SUBSET Conj /\ visited_[1] = goal
      /\ evidence \in Seq(SUBSET Lit) /\ assignments \subseteq problem.models
  BY TopFacts DEF SatOnce
<1>3. m \in problem.models /\ m.tail /\ Top \subseteq m.now
  BY <1>2 DEF FinalSolutions, Solutions
<1>4. Ending(problem, Top, Label(m, Top))
  BY <1>3 DEF Ending, Label
<1>5. Label(m, Top) \in SUBSET Lit
  BY <1>2, <1>3, ModelsTyped DEF GoingOn, Label
<1>6. /\ evidence' \in Seq(SUBSET Lit) /\ Len(evidence') = n /\ evidence'[n] = Label(m, Top)
      /\ \A i \in 1 .. n - 1 : evidence'[i] = evidence[i]
  BY <1>1, <1>2, <1>5
<1>7. \A i \in 1 .. n - 1 : Transition(problem, visited_[i], evidence[i], visited_[i + 1])
  BY DEF IInv, Labelled, SatOnce
<1> HIDE DEF n
<1>8. Chain(problem, visited_, evidence', n)
  BY <1>2, <1>4, <1>6, <1>7 DEF Chain
<1>9. Witnesses(problem, evidence', goal)
  <2> DEFINE labels == evidence'
  <2>1. labels \in Seq(SUBSET Lit) /\ Len(labels) = n /\ Chain(problem, visited_, labels, n)
    BY <1>6, <1>8
  <2> HIDE DEF labels
  <2>2. Witnesses(problem, labels, visited_[1])
    BY <1>2, <2>1, ChainWitnesses DEF GoingOn
  <2> QED
    BY <1>2, <2>2 DEF labels
<1>10. UNCHANGED <<problem, visited_, assignments, entered>> /\ verdict' = "sat" /\ pc' = "done"
  BY DEF SatOnce, Return
<1>11. visited_' \in Seq(SUBSET Conj) /\ assignments' \subseteq problem.models /\ entered' \in BOOLEAN
  BY <1>10 DEF IInv, Typed, TypeOK
<1>12. NoStateTwice'
  BY <1>10, StackUnchanged
<1> QED
  BY <1>6, <1>9, <1>10, <1>11, <1>12, ReturnKeepsInvariant

\* The last state is opened, and blocked.
LEMMA EnterKeepsInvariant ==
  ASSUME IInv, Enter
  PROVE  IInv'
<1> DEFINE n == Len(visited_)
<1>1. /\ UNCHANGED <<problem, verdict, evidence, visited_, pc>> /\ pc = "search"
      /\ assignments' = {m \in assignments : ~ (Top \subseteq m.next)}
      /\ entered' /\ entered' \in BOOLEAN /\ ~ entered /\ FinalSolutions(Top) = {} /\ goal' = goal
  BY DEF Enter, Unblocked, goal
<1>2. /\ problem \in GoingOn /\ n \in Nat \ {0} /\ Top = visited_[n]
      /\ SearchInv(problem, visited_, OpenCount, assignments)
  BY <1>1, TopFacts
<1>3. OpenCount = n - 1 /\ OpenCount' = n
  BY <1>1 DEF OpenCount
<1> HIDE DEF n
<1>4. n - 1 \in Nat /\ (n - 1) + 1 = n
  BY <1>2
<1>5. \A m \in assignments : visited_[(n - 1) + 1] \subseteq m.now => ~ m.tail
  BY <1>1, <1>2, <1>4 DEF FinalSolutions, Solutions
<1>6. SearchInv(problem, visited_, (n - 1) + 1,
                {m \in assignments : ~ (visited_[(n - 1) + 1] \subseteq m.next)})
  BY <1>2, <1>3, <1>4, <1>5, OpenKeepsCredit
<1>7. SearchInv(problem, visited_, OpenCount, assignments)'
  BY <1>1, <1>2, <1>3, <1>4, <1>6
<1>8. Typed'
  BY <1>1 DEF IInv, Typed, TypeOK
<1>9. Labelled(problem, visited_, evidence, Len(visited_))'
  BY <1>1 DEF IInv
<1>10. NoStateTwice'
  BY <1>1, StackUnchanged
<1>11. VerdictSound' /\ Shape'
  BY <1>1 DEF IInv, VerdictSound, Shape
<1> QED
  BY <1>7, <1>8, <1>9, <1>10, <1>11 DEF IInv

\* The successor of the last state is not inside an open one, for these are blocked.
LEMMA DescendKeepsInvariant ==
  ASSUME IInv, Descend
  PROVE  IInv'
<1> DEFINE n == Len(visited_)
<1>1. PICK m \in Solutions(Top) : /\ visited_' = Append(visited_, Successor(m, Top))
                                  /\ evidence' = Append(evidence, Label(m, Top))
  BY DEF Descend
<1> DEFINE s == Successor(m, Top)
<1>2. /\ UNCHANGED <<problem, verdict, assignments, pc>> /\ pc = "search"
      /\ entered /\ ~ entered' /\ entered' \in BOOLEAN /\ goal' = goal
  BY DEF Descend, goal
<1>3. /\ problem \in GoingOn /\ n \in Nat \ {0} /\ Top = visited_[n] /\ Top \in SUBSET Conj
      /\ visited_ \in Seq(SUBSET Conj) /\ evidence \in Seq(SUBSET Lit) /\ Len(evidence) = n - 1
      /\ assignments \subseteq problem.models
      /\ SearchInv(problem, visited_, n, assignments) /\ OpenCount = n
      /\ visited_[1] = goal /\ verdict = "unknown"
  BY <1>2, TopFacts DEF OpenCount
<1>4. m \in problem.models /\ m \in assignments /\ Top \subseteq m.now
  BY <1>3 DEF Solutions
<1>5. ~ m.tail
  BY <1>3, <1>4 DEF SearchInv, NoEndLeft
<1>6. Label(m, Top) \in SUBSET Lit /\ s \in SUBSET Conj
  BY <1>3, <1>4, ModelsTyped DEF GoingOn, Label, Successor
<1>7. Transition(problem, Top, Label(m, Top), s)
  BY <1>4, <1>5 DEF Transition, Label, Successor
<1>8. \A i \in 1 .. n : ~ (visited_[i] \subseteq s)
  BY <1>3, <1>4 DEF SearchInv, AllBlocked, Successor
<1> HIDE DEF n, s
<1>9. /\ visited_' \in Seq(SUBSET Conj) /\ Len(visited_') = n + 1 /\ visited_'[n + 1] = s
      /\ \A i \in 1 .. n : visited_'[i] = visited_[i]
  BY <1>1, <1>3, <1>6 DEF n, s
<1>10. /\ evidence' \in Seq(SUBSET Lit) /\ Len(evidence') = n /\ evidence'[n] = Label(m, Top)
       /\ \A i \in 1 .. n - 1 : evidence'[i] = evidence[i]
  BY <1>1, <1>3, <1>6
<1>11. Typed'
  BY <1>2, <1>9, <1>10 DEF IInv, Typed, TypeOK
<1>12. SearchInv(problem, visited_, OpenCount, assignments)'
  <2>1. OpenCount' = n
    BY <1>2, <1>3, <1>9 DEF OpenCount
  <2>2. SearchInv(problem, visited_', n, assignments)
    BY <1>3, <1>9, SearchInvOfOpen
  <2> QED
    BY <1>2, <2>1, <2>2
<1>13. Labelled(problem, visited_, evidence, Len(visited_))'
  <2>1. ASSUME NEW i \in 1 .. n
        PROVE  Transition(problem, visited_'[i], evidence'[i], visited_'[i + 1])
    <3>1. CASE i = n
      BY <1>3, <1>7, <1>9, <1>10, <3>1
    <3>2. CASE i # n
      <4>1. i \in 1 .. n - 1 /\ i + 1 \in 1 .. n
        BY <1>3, <3>2
      <4>2. Transition(problem, visited_[i], evidence[i], visited_[i + 1])
        BY <1>2, <4>1 DEF IInv, Labelled, n
      <4> QED
        BY <1>9, <1>10, <4>1, <4>2
    <3> QED
      BY <3>1, <3>2
  <2>2. Labelled(problem, visited_', evidence', n + 1)
    BY <1>3, <1>10, <2>1 DEF GoingOn, Labelled
  <2> QED
    BY <1>2, <1>9, <2>2
<1>14. NoStateTwice'
  <2> SUFFICES ASSUME NEW i \in 1 .. n + 1, NEW j \in 1 .. n + 1, i < j
               PROVE  ~ (visited_'[i] \subseteq visited_'[j])
    BY <1>9 DEF NoStateTwice
  <2>1. i \in 1 .. n
    BY <1>3
  <2>2. CASE j = n + 1
    BY <1>8, <1>9, <2>1, <2>2
  <2>3. CASE j # n + 1
    <3>1. j \in 1 .. n
      BY <1>3, <2>3
    <3>2. ~ (visited_[i] \subseteq visited_[j])
      BY <2>1, <3>1 DEF IInv, NoStateTwice, n
    <3> QED
      BY <1>9, <2>1, <3>1, <3>2
  <2> QED
    BY <2>2, <2>3
<1>15. VerdictSound' /\ Shape'
  BY <1>2, <1>3, <1>9 DEF IInv, VerdictSound, Shape
<1> QED
  BY <1>11, <1>12, <1>13, <1>14, <1>15 DEF IInv

\* The last state is closed, and a refuted part of it blocked.
LEMMA ExhaustedKeepsInvariant ==
  ASSUME IInv, Exhausted
  PROVE  IInv'
<1> DEFINE n == Len(visited_)
<1>1. PICK c \in Cores(Top) :
        /\ assignments' = Unblocked(c)
        /\ IF n = 1 \/ c = {} THEN Return("unsat") ELSE UNCHANGED <<verdict, pc>>
  BY DEF Exhausted
<1>2. /\ UNCHANGED <<problem, entered>> /\ pc = "search" /\ entered /\ goal' = goal
      /\ visited_' = DropLast(visited_)
      /\ evidence' = IF evidence = <<>> THEN <<>> ELSE DropLast(evidence)
  BY DEF Exhausted, Pop, goal
<1>3. /\ problem \in GoingOn /\ n \in Nat \ {0} /\ Top = visited_[n] /\ Top \in SUBSET Conj
      /\ visited_ \in Seq(SUBSET Conj) /\ evidence \in Seq(SUBSET Lit) /\ Len(evidence) = n - 1
      /\ assignments \subseteq problem.models
      /\ SearchInv(problem, visited_, n, assignments) /\ OpenCount = n
      /\ visited_[1] = goal /\ verdict = "unknown"
  BY <1>2, TopFacts DEF OpenCount
<1>4. c \subseteq visited_[n] /\ \A m \in assignments : ~ (c \subseteq m.now)
  BY <1>3 DEF Cores, Solutions
<1>5. assignments' = {m \in assignments : ~ (c \subseteq m.next)}
  BY <1>1 DEF Unblocked
<1> HIDE DEF n
<1>6. /\ visited_' \in Seq(SUBSET Conj) /\ Len(visited_') = n - 1
      /\ \A i \in 1 .. n - 1 : visited_'[i] = visited_[i]
  BY <1>2, <1>3, DropLastFacts DEF n
<1>7. /\ evidence' \in Seq(SUBSET Lit)
      /\ n > 1 => Len(evidence') = (n - 1) - 1
      /\ \A i \in 1 .. (n - 1) - 1 : evidence'[i] = evidence[i]
  <2>1. CASE evidence = <<>>
    BY <1>2, <1>3, <2>1
  <2>2. CASE evidence # <<>>
    <3>1. Len(evidence) > 0
      BY <1>3, <2>2
    <3> QED
      BY <1>2, <1>3, <2>2, <3>1, DropLastFacts
  <2> QED
    BY <2>1, <2>2
<1>8. NoStateTwice'
  <2>1. \A i \in 1 .. n - 1 : i \in 1 .. n
    BY <1>3
  <2>2. \A i, j \in 1 .. n : i < j => ~ (visited_[i] \subseteq visited_[j])
    BY DEF IInv, NoStateTwice, n
  <2> QED
    BY <1>6, <2>1, <2>2 DEF NoStateTwice
<1>9. assignments' \subseteq problem.models
  BY <1>3, <1>5
<1>10. CASE n = 1 \/ c = {}
  <2>1. verdict' = "unsat" /\ pc' = "done"
    BY <1>1, <1>10 DEF Return, n
  <2>2. ~ Satisfiable(problem, goal)
    BY <1>3, <1>4, <1>10, RefutedGoal DEF goal
  <2>3. entered' \in BOOLEAN
    BY <1>2
  <2> QED
    BY <1>2, <1>6, <1>7, <1>8, <1>9, <2>1, <2>2, <2>3, ReturnKeepsInvariant
<1>11. CASE ~ (n = 1 \/ c = {})
  <2>1. UNCHANGED <<verdict, pc>>
    BY <1>1, <1>11 DEF n
  <2>2. n > 1 /\ n - 1 \in Nat \ {0} /\ 1 \in 1 .. n - 1
    BY <1>3, <1>11
  <2>3. Typed'
    BY <1>2, <1>6, <1>7, <1>9, <2>1 DEF IInv, Typed, TypeOK
  <2>4. SearchInv(problem, visited_, OpenCount, assignments)'
    <3>1. OpenCount' = n - 1
      BY <1>2, <1>6 DEF OpenCount
    <3> DEFINE left == {m \in assignments : ~ (c \subseteq m.next)}
    <3>4. assignments' = left
      BY <1>5
    <3>5. SearchInv(problem, visited_, n - 1, left)
      BY <1>3, <1>4, CloseKeepsCredit
    <3>2. SearchInv(problem, visited_, n - 1, assignments')
      BY <3>4, <3>5
    <3>3. SearchInv(problem, visited_', n - 1, assignments')
      BY <1>6, <3>2, SearchInvOfOpen
    <3> QED
      BY <1>2, <3>1, <3>3
  <2>5. Labelled(problem, visited_, evidence, Len(visited_))'
    <3>1. ASSUME NEW i \in 1 .. (n - 1) - 1
          PROVE  Transition(problem, visited_'[i], evidence'[i], visited_'[i + 1])
      <4>1. i \in 1 .. n - 1 /\ i + 1 \in 1 .. n - 1
        BY <1>3
      <4>2. Transition(problem, visited_[i], evidence[i], visited_[i + 1])
        BY <1>2, <4>1 DEF IInv, Labelled, n
      <4> QED
        BY <1>6, <1>7, <4>1, <4>2
    <3>2. Labelled(problem, visited_', evidence', n - 1)
      BY <1>7, <2>2, <3>1 DEF Labelled
    <3> QED
      BY <1>2, <1>6, <3>2
  <2>6. visited_'[1] = goal /\ Len(visited_') \in Nat \ {0}
    BY <1>3, <1>6, <2>2
  <2>7. VerdictSound' /\ Shape'
    BY <1>2, <1>3, <2>1, <2>6 DEF VerdictSound, Shape
  <2> QED
    BY <1>8, <2>3, <2>4, <2>5, <2>7 DEF IInv
<1> QED
  BY <1>10, <1>11

LEMMA StutterKeepsInvariant ==
  ASSUME IInv, UNCHANGED vars
  PROVE  IInv'
<1>1. UNCHANGED <<problem, verdict, evidence, visited_, assignments, entered, pc, goal, OpenCount>>
  BY DEF vars, goal, OpenCount
<1>2. Typed' /\ Shape'
  BY <1>1 DEF IInv, Typed, TypeOK, Shape
<1>3. pc' = "search" =>
        /\ SearchInv(problem, visited_, OpenCount, assignments)'
        /\ Labelled(problem, visited_, evidence, Len(visited_))'
  BY <1>1 DEF IInv
<1>4. NoStateTwice' /\ VerdictSound'
  BY <1>1 DEF IInv, NoStateTwice, VerdictSound
<1> QED
  BY <1>2, <1>3, <1>4 DEF IInv

LEMMA NextKeepsInvariant ==
  ASSUME IInv, [Next]_vars
  PROVE  IInv'
<1>1. CASE CheckTrue
  BY <1>1, CheckTrueKeepsInvariant
<1>2. CASE CheckFalse \/ HeuristicUnsat
  BY <1>2, UnsatKeepsInvariant
<1>3. CASE StartSearch
  BY <1>3, StartSearchKeepsInvariant
<1>4. CASE SatOnce
  BY <1>4, SatOnceKeepsInvariant
<1>5. CASE Enter
  BY <1>5, EnterKeepsInvariant
<1>6. CASE Descend
  BY <1>6, DescendKeepsInvariant
<1>7. CASE Exhausted
  BY <1>7, ExhaustedKeepsInvariant
<1>8. CASE Terminated \/ UNCHANGED vars
  BY <1>8, StutterKeepsInvariant DEF Terminated
<1> QED
  BY <1>1, <1>2, <1>3, <1>4, <1>5, <1>6, <1>7, <1>8 DEF Next

LEMMA SpecIInv == Spec => []IInv
BY InitInvariant, NextKeepsInvariant, PTL DEF Spec

-----------------------------------------------------------------------------
\* The stack holds states, the evidence labels, and MiniSat's assignments are among
\* those of the encoding.
THEOREM SpecTypeOK == Spec => []TypeOK
<1>1. IInv => TypeOK
  BY DEF IInv, Typed
<1> QED
  BY <1>1, SpecIInv, PTL

\* The answer of LTLfChecker::check is right, for every formula whose encoding is as
\* assumed, whatever transitions and unsat cores MiniSat picks; with sat come labels
\* any completion of which satisfies the formula.
THEOREM SpecVerdictSound == Spec => []VerdictSound
<1>1. IInv => VerdictSound
  BY DEF IInv
<1> QED
  BY <1>1, SpecIInv, PTL

\* Blocking states that are still open, for good, costs no word.
THEOREM SpecBlocksOnCredit == Spec => []BlocksOnCredit
<1>1. ASSUME IInv, pc = "search" PROVE \A i \in 1 .. OpenCount : i \in Open
  <2>1. Len(visited_) \in Nat \ {0} /\ entered \in BOOLEAN
    BY <1>1, TopFacts DEF IInv, Typed, TypeOK
  <2> QED
    BY <2>1 DEF OpenCount, Open
<1>2. IInv => BlocksOnCredit
  BY <1>1 DEF IInv, SearchInv, Credit, BlocksOnCredit
<1> QED
  BY <1>2, SpecIInv, PTL

\* dfs_check opens no state that asks at least as much as one of its pending calls.
THEOREM SpecNoStateTwice == Spec => []NoStateTwice
<1>1. IInv => NoStateTwice
  BY DEF IInv
<1> QED
  BY <1>1, SpecIInv, PTL

-----------------------------------------------------------------------------
(***************************************************************************)
(* The search is bounded.  Opening a state blocks the assignment that led   *)
(* to it, blocks are never removed, and between two openings calls only     *)
(* return; so the length of the search is bounded by the assignments.       *)
(***************************************************************************)
\* Some assignment that is left leads to a state that is to be tried, but for the goal.
Reached ==
  pc = "search" /\ ~ entered /\ Len(visited_) > 1 =>
    \E m \in assignments : Top \subseteq m.next

\* The calls that may still be made, and those that may return.
Rank == 4 * Cardinality(assignments) + Len(visited_)
          + (IF entered THEN 2 ELSE IF Len(visited_) = 1 THEN 3 ELSE 0)

RankBounded == pc = "search" => Rank \in 0 .. 4 * Cardinality(problem.models) + 4

Falls == pc = "search" => Rank' < Rank \/ pc' = "done"

\* An encoding has finitely many assignments.
LEMMA ModelsFinite ==
  ASSUME NEW e \in Problems
  PROVE  IsFiniteSet(e.models)
<1> DEFINE A == (SUBSET Lit) \X (SUBSET Conj)
           B == (SUBSET Conj) \X BOOLEAN
           f == [m \in Model |-> <<<<m.lits, m.now>>, <<m.next, m.tail>>>>]
<1>1. IsFiniteSet(BOOLEAN)
  <2>1. IsFiniteSet({TRUE} \cup {FALSE})
    BY FS_Singleton, FS_AddElement
  <2>2. BOOLEAN = {TRUE} \cup {FALSE}
    BY Zenon
  <2> QED
    BY <2>1, <2>2, Zenon
<1>2. IsFiniteSet(SUBSET Lit) /\ IsFiniteSet(SUBSET Conj)
  BY FiniteAssumption, FS_SUBSET
<1>3. IsFiniteSet(A) /\ IsFiniteSet(B)
  BY <1>1, <1>2, FS_Product
<1>4. f \in [Model -> A \X B]
  BY DEF Model
<1>5. ASSUME NEW m \in Model, NEW x \in Model, f[m] = f[x]
      PROVE  m = x
  <2>1. m.lits = x.lits /\ m.now = x.now /\ m.next = x.next /\ m.tail = x.tail
    BY <1>5
  <2> QED
    BY <2>1 DEF Model
<1> HIDE DEF A, B, f
<1>6. f \in Injection(Model, A \X B)
  BY <1>4, <1>5 DEF Injection, IsInjective
<1>7. IsFiniteSet(Model)
  BY <1>3, <1>6, FS_Product, FS_Injection
<1>8. e.models \in SUBSET Model
  BY EncodingAssumption DEF WellFormed, EncodingType
<1> QED
  BY <1>7, <1>8, FS_Subset

\* What is left of finitely many assignments.
LEMMA FewerLeft ==
  ASSUME NEW S, IsFiniteSet(S), NEW T \in SUBSET S
  PROVE  /\ Cardinality(S) \in Nat /\ Cardinality(T) \in Nat
         /\ Cardinality(T) <= Cardinality(S)
         /\ T # S => Cardinality(T) < Cardinality(S)
<1>1. IsFiniteSet(T) /\ Cardinality(T) <= Cardinality(S) /\ (Cardinality(S) = Cardinality(T) => S = T)
  BY FS_Subset
<1>2. Cardinality(S) \in Nat /\ Cardinality(T) \in Nat
  BY <1>1, FS_CardinalityType
<1> QED
  BY <1>1, <1>2

LEMMA CountsTyped ==
  ASSUME IInv, pc = "search"
  PROVE  /\ Cardinality(problem.models) \in Nat /\ Cardinality(assignments) \in Nat
         /\ Len(visited_) \in Nat \ {0} /\ Rank \in Nat
         /\ IsFiniteSet(assignments)
<1>1. problem \in Problems /\ assignments \subseteq problem.models /\ Len(visited_) \in Nat \ {0}
  BY TopFacts DEF GoingOn
<1>2. IsFiniteSet(problem.models)
  BY <1>1, ModelsFinite
<1>3. IsFiniteSet(assignments)
  BY <1>1, <1>2, FS_Subset
<1>4. Cardinality(problem.models) \in Nat /\ Cardinality(assignments) \in Nat
  BY <1>2, <1>3, FS_CardinalityType
<1> HIDE DEF Rank
<1>5. ASSUME NEW c \in Nat, NEW n \in Nat, NEW k \in {0, 2, 3}
      PROVE  4 * c + n + k \in Nat
  BY <1>5
<1>6. (IF entered THEN 2 ELSE IF Len(visited_) = 1 THEN 3 ELSE 0) \in {0, 2, 3}
  BY Zenon
<1>7. Rank \in Nat
  BY <1>1, <1>4, <1>5, <1>6 DEF Rank
<1> QED
  BY <1>1, <1>3, <1>4, <1>7

LEMMA EnterFalls ==
  ASSUME IInv, Reached, Enter
  PROVE  Reached' /\ Rank' \in Nat /\ Rank' < Rank
<1> DEFINE c == Cardinality(assignments)
           d == Cardinality(Unblocked(Top))
           n == Len(visited_)
<1>1. /\ c \in Nat /\ n \in Nat \ {0} /\ IsFiniteSet(assignments)
  BY CountsTyped DEF Enter
<1>2. Unblocked(Top) \in SUBSET assignments
  BY DEF Unblocked
<1>3. d \in Nat /\ d <= c /\ (Unblocked(Top) # assignments => d < c)
  BY <1>1, <1>2, FewerLeft
<1>4. ~ entered /\ entered' /\ visited_' = visited_ /\ assignments' = Unblocked(Top)
  BY DEF Enter
<1>5. n > 1 => Unblocked(Top) # assignments
  BY DEF Enter, Reached, Unblocked
<1>6. Rank = 4 * c + n + (IF n = 1 THEN 3 ELSE 0)
  BY <1>4, Zenon DEF Rank
<1>7. Rank' = 4 * d + n + 2
  BY <1>4, Zenon DEF Rank
<1> HIDE DEF c, d, n
<1>8. 4 * d + n + 2 \in Nat /\ 4 * d + n + 2 < 4 * c + n + (IF n = 1 THEN 3 ELSE 0)
  BY <1>1, <1>3, <1>5
<1> QED
  BY <1>4, <1>6, <1>7, <1>8 DEF Reached

LEMMA DescendFalls ==
  ASSUME IInv, Descend
  PROVE  Reached' /\ Rank' \in Nat /\ Rank' < Rank
<1> DEFINE c == Cardinality(assignments)
           n == Len(visited_)
<1>1. /\ c \in Nat /\ n \in Nat \ {0} /\ visited_ \in Seq(SUBSET Conj) /\ Top \in SUBSET Conj
      /\ assignments \subseteq problem.models /\ problem \in GoingOn
  BY CountsTyped, TopFacts DEF Descend
<1>2. PICK m \in Solutions(Top) : visited_' = Append(visited_, Successor(m, Top))
  BY DEF Descend
<1>3. m \in assignments /\ Successor(m, Top) \subseteq m.next
  BY DEF Solutions, Successor
<1>4. Successor(m, Top) \in SUBSET Conj
  BY <1>1, <1>3, ModelsTyped DEF GoingOn, Successor
<1>5. LET v == Append(visited_, Successor(m, Top))
      IN Len(v) = n + 1 /\ v[n + 1] = Successor(m, Top)
  BY <1>1, <1>4
<1>6. Len(visited_') = n + 1 /\ Top' = Successor(m, Top)
  BY <1>2, <1>5 DEF Top
<1>7. entered /\ ~ entered' /\ assignments' = assignments
  BY DEF Descend
<1>8. Rank = 4 * c + n + 2
  BY <1>7, Zenon DEF Rank
<1>9. n + 1 # 1
  BY <1>1
<1>10. Rank' = 4 * c + (n + 1) + 0
  BY <1>6, <1>7, <1>9, Zenon DEF Rank
<1>11. Reached'
  BY <1>3, <1>6, <1>7 DEF Reached
<1> HIDE DEF c, n
<1>12. 4 * c + (n + 1) + 0 \in Nat /\ 4 * c + (n + 1) + 0 < 4 * c + n + 2
  BY <1>1
<1> QED
  BY <1>8, <1>10, <1>11, <1>12

LEMMA ExhaustedFalls ==
  ASSUME IInv, Exhausted
  PROVE  Reached' /\ Rank' \in Nat /\ Rank' < Rank
<1> DEFINE c == Cardinality(assignments)
           d == Cardinality(assignments')
           n == Len(visited_)
<1>1. /\ c \in Nat /\ n \in Nat \ {0} /\ IsFiniteSet(assignments)
      /\ visited_ \in Seq(SUBSET Conj)
  BY CountsTyped, TopFacts DEF Exhausted
<1>2. assignments' \in SUBSET assignments
  BY DEF Exhausted, Unblocked
<1>3. d \in Nat /\ d <= c
  BY <1>1, <1>2, FewerLeft
<1>4. entered /\ entered' = entered /\ visited_' = DropLast(visited_)
  BY DEF Exhausted, Pop
<1>5. Len(DropLast(visited_)) = n - 1
  BY <1>1, DropLastFacts
<1>6. Rank = 4 * c + n + 2
  BY <1>4, Zenon DEF Rank
<1>7. Rank' = 4 * d + (n - 1) + 2
  BY <1>4, <1>5, Zenon DEF Rank
<1> HIDE DEF c, d, n
<1>8. 4 * d + (n - 1) + 2 \in Nat /\ 4 * d + (n - 1) + 2 < 4 * c + n + 2
  BY <1>1, <1>3
<1>9. Reached'
  BY <1>4 DEF Reached
<1> QED
  BY <1>6, <1>7, <1>8, <1>9

LEMMA StartSearchBound ==
  ASSUME IInv, StartSearch
  PROVE  Reached' /\ RankBounded'
<1> DEFINE c == Cardinality(problem.models)
<1>1. /\ visited_' = <<goal>> /\ assignments' = problem.models /\ entered' = entered
      /\ problem' = problem /\ pc' = "search" /\ pc = "check"
  BY DEF StartSearch
<1>2. ~ entered
  BY <1>1 DEF IInv, Shape
<1>3. Len(visited_') = 1
  BY <1>1
<1>4. Reached'
  BY <1>3 DEF Reached
<1>5. c \in Nat
  BY ModelsFinite, FS_CardinalityType DEF IInv, Typed, GoingOn
<1>6. Rank' = 4 * c + 1 + 3
  BY <1>1, <1>2, <1>3, Zenon DEF Rank
<1> HIDE DEF c
<1>7. 4 * c + 1 + 3 \in 0 .. 4 * c + 4
  BY <1>5
<1> QED
  BY <1>1, <1>4, <1>6, <1>7 DEF RankBounded, c

LEMMA NextFalls ==
  ASSUME IInv, Reached, RankBounded, [Next]_vars
  PROVE  Reached' /\ RankBounded' /\ [Falls]_vars
<1>1. CASE CheckTrue \/ CheckFalse \/ HeuristicUnsat \/ SatOnce
  <2>1. pc' = "done"
    BY <1>1 DEF CheckTrue, CheckFalse, HeuristicUnsat, SatOnce, Return
  <2> QED
    BY <2>1 DEF Reached, RankBounded, Falls
<1>2. CASE StartSearch
  BY <1>2, StartSearchBound DEF StartSearch, Falls
<1>3. CASE Enter \/ Descend \/ Exhausted
  <2>1. Reached' /\ Rank' \in Nat /\ Rank' < Rank
    BY <1>3, EnterFalls, DescendFalls, ExhaustedFalls
  <2>2. pc = "search" /\ problem' = problem
    BY <1>3 DEF Enter, Descend, Exhausted
  <2>3. Cardinality(problem.models) \in Nat /\ Rank \in Nat
    BY <2>2, CountsTyped
  <2>4. RankBounded'
    <3>1. ASSUME NEW r \in Nat, NEW q \in Nat, NEW b \in Nat, r \in 0 .. 4 * b + 4, q < r
          PROVE  q \in 0 .. 4 * b + 4
      BY <3>1
    <3> SUFFICES ASSUME pc' = "search"
                 PROVE  Rank' \in 0 .. 4 * Cardinality(problem.models) + 4
      BY <2>2 DEF RankBounded
    <3>2. Rank \in 0 .. 4 * Cardinality(problem.models) + 4
      BY <2>2 DEF RankBounded
    <3> HIDE DEF Rank
    <3> QED
      BY <2>1, <2>3, <3>1, <3>2
  <2> QED
    BY <2>1, <2>4 DEF Falls
<1>4. CASE Terminated \/ UNCHANGED vars
  <2>1. UNCHANGED vars
    BY <1>4 DEF Terminated
  <2>2. UNCHANGED <<problem, visited_, assignments, entered, pc, Top, Rank>>
    BY <2>1 DEF vars, Top, Rank
  <2> QED
    BY <2>1, <2>2 DEF Reached, RankBounded
<1> QED
  BY <1>1, <1>2, <1>3, <1>4 DEF Next

\* The search of dfs_check is bounded by the number of assignments that satisfy the
\* clauses, whatever transitions and cores MiniSat picks: every step of it but the one
\* that returns lowers a count, which starts at no more than four times their number
\* plus four.  The count also bounds the depth of the recursion.
THEOREM SpecFalls == Spec => [](pc = "search" => /\ Len(visited_) <= Rank
                                                /\ Rank <= 4 * Cardinality(problem.models) + 4)
                             /\ [][Falls]_vars
<1>1. Init => Reached /\ RankBounded
  BY DEF Init, Begin, Reached, RankBounded
<1>2. IInv /\ Reached /\ RankBounded /\ [Next]_vars => Reached' /\ RankBounded' /\ [Falls]_vars
  BY NextFalls
<1>3. IInv /\ RankBounded => (pc = "search" => /\ Len(visited_) <= Rank
                                               /\ Rank <= 4 * Cardinality(problem.models) + 4)
  <2> SUFFICES ASSUME IInv, RankBounded, pc = "search"
               PROVE  /\ Len(visited_) <= Rank
                      /\ Rank <= 4 * Cardinality(problem.models) + 4
    OBVIOUS
  <2>1. Cardinality(assignments) \in Nat /\ Len(visited_) \in Nat
    BY CountsTyped
  <2>2. ASSUME NEW c \in Nat, NEW n \in Nat, NEW k \in {0, 2, 3}
        PROVE  n <= 4 * c + n + k
    BY <2>2
  <2>3. (IF entered THEN 2 ELSE IF Len(visited_) = 1 THEN 3 ELSE 0) \in {0, 2, 3}
    BY Zenon
  <2>4. Len(visited_) <= Rank
    BY <2>1, <2>2, <2>3 DEF Rank
  <2> HIDE DEF Rank
  <2> QED
    BY <2>4, CountsTyped DEF RankBounded
<1> QED
  BY <1>1, <1>2, <1>3, SpecIInv, PTL DEF Spec
=============================================================================
