----------------------------- MODULE SatOracle -----------------------------
(***************************************************************************)
(* What a satisfiability check of the LTLf checker promises.                *)
(*                                                                          *)
(* A formula is checked in the form the callers give it (add_tail,          *)
(* remove_wnext, simplify, split_next): a conjunction, that is, a set of    *)
(* conjuncts (to_set).  Of the formula's SAT encoding only the satisfying   *)
(* assignments matter.  An encoding is a record                             *)
(*   goal     the conjuncts of to_check_                                    *)
(*   models   the assignments that satisfy the clauses: the literals of     *)
(*            the formula they make true, the conjuncts that hold now,      *)
(*            the conjuncts c whose X c is true, and the value of Tail      *)
(*   hasNext  the conjuncts c for which the encoding has an X c (X_map_)    *)
(*   letters  the sets of literals that are true at one position            *)
(*   coiLit, coiNext   the literals and nexts each conjunct depends on      *)
(*   clash    the pairs of complementary literals among the conjuncts       *)
(*   dist     the length of the shortest word for a set of conjuncts        *)
(* A word is a sequence of letters; its positions are assignments that      *)
(* follow each other, with Tail true at the last one.                       *)
(***************************************************************************)
EXTENDS Naturals, Sequences, FiniteSets

CONSTANTS
  Conj,       \* conjuncts: subformulas that occur in a state
  Lit,        \* literals
  FF,         \* the conjunct False
  Problems    \* the encodings of the formulas under consideration

VARIABLES
  problem,    \* the encoding of to_check_ (never changes)
  verdict,    \* "unknown" until the check returns "sat" or "unsat"
  evidence    \* the labels of a satisfying word, sat_trace_

\* A formula has finitely many subformulas.
ASSUME FiniteAssumption == IsFiniteSet(Conj) /\ IsFiniteSet(Lit)

oracleVars == <<problem, verdict, evidence>>

Model == [lits : SUBSET Lit, now : SUBSET Conj, next : SUBSET Conj, tail : BOOLEAN]

EncodingType(e) ==
  /\ e.goal \subseteq Conj
  /\ e.models \subseteq Model
  /\ e.hasNext \subseteq Conj
  /\ e.letters \subseteq SUBSET Lit
  /\ e.coiLit \in [Conj -> SUBSET Lit]
  /\ e.coiNext \in [Conj -> SUBSET Conj]
  /\ e.clash \subseteq Conj \X Conj
  /\ e.dist \in [{m.now : m \in e.models} -> Nat]

CoiLit(e, s) == UNION {e.coiLit[c] : c \in s}
CoiNext(e, s) == UNION {e.coiNext[c] : c \in s}

(***************************************************************************)
(* The words of an encoding.                                                *)
(***************************************************************************)
\* Assignment m may be followed by a position where exactly T holds.
FollowedBy(e, m, T) == ~ m.tail /\ m.next = T \cap e.hasNext

Truths(e) == {m.now : m \in e.models}

\* dist is the number of letters of a shortest word at whose start T holds, 0 when
\* there is no such word.
DistIsShortest(e) ==
  \A T \in Truths(e) :
    /\ (\E m \in e.models : m.now = T /\ m.tail) <=> e.dist[T] = 1
    /\ e.dist[T] > 1 => \E m \in e.models : m.now = T /\
                          \E S \in Truths(e) : FollowedBy(e, m, S) /\ e.dist[T] = e.dist[S] + 1
    /\ \A m \in e.models : m.now = T => \A S \in Truths(e) :
          FollowedBy(e, m, S) /\ e.dist[S] > 0 => e.dist[T] \in 1 .. e.dist[S] + 1

\* Some word satisfies s; some word of fewer than n letters does.
Satisfiable(e, s) == \E T \in Truths(e) : s \subseteq T /\ e.dist[T] > 0

SatisfiableBelow(e, s, n) == \E T \in Truths(e) : s \subseteq T /\ e.dist[T] \in 1 .. n - 1

\* The truths at the start of the words of n letters, and of one given word: of the
\* assignments M, those that may come before a position where a set of S holds.
Before(e, M, S) == {m.now : m \in {x \in M : \E T \in S : FollowedBy(e, x, T)}}

TruthsOfLength(e) ==
  LET T[n \in Nat] == IF n = 0 THEN {}
                      ELSE IF n = 1 THEN {m.now : m \in {x \in e.models : x.tail}}
                      ELSE UNION {Before(e, e.models, S) : S \in {T[n - 1]}}
  IN T

SatisfiableIn(e, s, n) == \E T \in TruthsOfLength(e)[n] : s \subseteq T

TruthsOfWord(e, w) ==
  LET With(a) == {x \in e.models : x.lits = a}
      T[i \in 1 .. Len(w)] ==
        IF i = Len(w) THEN {m.now : m \in {x \in With(w[i]) : x.tail}}
        ELSE UNION {Before(e, With(w[i]), S) : S \in {T[i + 1]}}
  IN T[1]

\* Every word that completes the labels satisfies s.
Witnesses(e, labels, s) ==
  /\ labels # <<>>
  /\ \A w \in [1 .. Len(labels) -> e.letters] :
       (\A i \in 1 .. Len(labels) : labels[i] \subseteq w[i]) =>
          \E T \in TruthsOfWord(e, w) : s \subseteq T

(***************************************************************************)
(* Encodings the checker may rely on.                                       *)
(***************************************************************************)
\* Only the literals and nexts a conjunct depends on matter: when a position of
\* letter a, at the end of a word or before T, agrees on them with an assignment m
\* in which the conjunct holds, the conjunct holds there too.
Keeps(e, m, x, T) ==
  \A c \in m.now :
    m.lits \cap e.coiLit[c] \subseteq x.lits /\ m.next \cap e.coiNext[c] \subseteq T => c \in x.now

CoiIsEnough(e) ==
  \A a \in e.letters :
    /\ LET X == {x \in e.models : x.lits = a /\ x.tail}
       IN \A m \in e.models : m.tail => \E x \in X : Keeps(e, m, x, m.next)
    /\ \A T \in Truths(e) :
         LET X == {x \in e.models : x.lits = a /\ FollowedBy(e, x, T)}
         IN \A m \in e.models : ~ m.tail => \E x \in X : Keeps(e, m, x, T)

\* Assignments respect complementary literals.
ClashFree(e, S) == \A p \in e.clash : (p[1] \in S) <=> (p[2] \notin S)

WellFormed(e) ==
  /\ EncodingType(e)
  /\ DistIsShortest(e)
  /\ CoiIsEnough(e)
  /\ \A m \in e.models : /\ m.lits \in e.letters
                         /\ m.next \subseteq e.hasNext
                         /\ ClashFree(e, m.now)
                         /\ FF \notin m.now
  /\ \A b \in BOOLEAN : \E m \in e.models : m.tail = b

ASSUME EncodingAssumption ==
  /\ FF \in Conj
  /\ \A e \in Problems : WellFormed(e)

(***************************************************************************)
(* The check answers once, and right; a satisfying word is a shortest one.  *)
(***************************************************************************)
OracleInit ==
  /\ problem \in Problems
  /\ verdict = "unknown"
  /\ evidence = <<>>

AnswerSat ==
  /\ verdict = "unknown"
  /\ verdict' = "sat"
  /\ Witnesses(problem, evidence', problem.goal)
  /\ ~ SatisfiableBelow(problem, problem.goal, Len(evidence'))
  /\ UNCHANGED problem

AnswerUnsat ==
  /\ verdict = "unknown"
  /\ ~ Satisfiable(problem, problem.goal)
  /\ verdict' = "unsat"
  /\ UNCHANGED <<problem, evidence>>

OracleNext == AnswerSat \/ AnswerUnsat

OracleSpec == OracleInit /\ [][OracleNext]_oracleVars
=============================================================================
