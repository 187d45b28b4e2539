----------------------------- MODULE UnsatAssump ----------------------------
(***************************************************************************)
(* GetUnsatAssump of generalizer.cpp: the loop that reduces an assumption   *)
(* to an unsat core by halving.                                             *)
(*                                                                          *)
(* S is the stack of sets that are still to be reduced; each contradicts    *)
(* phi together with the rest of the stack and the literals already kept.   *)
(* The literals of a set come in the order of their formulas' addresses, so *)
(* any half may be the first.                                               *)
(***************************************************************************)
EXTENDS UnsatCore

VARIABLES
  S,          \* S, the top last
  muc         \* muc, the literals to be returned

vars == <<query, answered, core, S, muc>>

TypeOK ==
  /\ answered \in BOOLEAN
  /\ core \in SUBSET Assum
  /\ S \in Seq(SUBSET Assum)
  /\ muc \in SUBSET Assum

\* The literals of a stack, and those outside its set number i.
Blocks(T) == UNION {T[i] : i \in 1 .. Len(T)}
Others(T, i) == UNION {T[j] : j \in (1 .. Len(T)) \ {i}}

psi == S[Len(S)]
Popped == SubSeq(S, 1, Len(S) - 1)

\* (Mutant: the literals already kept are left out of the test.)
IsUnsat_NoMuc(A) == A \cup Blocks(Popped) \in query.unsat

\* (Mutant: the sets still on the stack are left out of the test.)
IsUnsat_NoStack(A) == A \cup muc \in query.unsat

\* IsUnsat(phi, A, S, muc), after psi was popped.
IsUnsat(A) == A \cup Blocks(Popped) \cup muc \in query.unsat

\* (Mutant: the first half gets one literal more.)
FirstHalves_Up == {A \in SUBSET psi : Cardinality(A) = (Cardinality(psi) + 2) \div 2}

FirstHalves == {A \in SUBSET psi : Cardinality(A) = Cardinality(psi) \div 2}

-----------------------------------------------------------------------------
Init ==
  /\ CoreInit
  /\ S = IF query.assumption = {} THEN <<>> ELSE <<query.assumption>>
  /\ muc = {}

\* psi is one literal: it is kept.
KeepLiteral ==
  /\ S # <<>> /\ Cardinality(psi) = 1
  /\ muc' = muc \cup psi
  /\ S' = Popped
  /\ UNCHANGED <<query, answered, core>>

\* One half of psi suffices.
KeepFirst ==
  /\ S # <<>> /\ Cardinality(psi) # 1
  /\ \E psi_1 \in FirstHalves :
       /\ IsUnsat(psi_1)
       /\ S' = Append(Popped, psi_1)
  /\ UNCHANGED <<query, answered, core, muc>>

KeepSecond ==
  /\ S # <<>> /\ Cardinality(psi) # 1
  /\ \E psi_1 \in FirstHalves :
       /\ ~ IsUnsat(psi_1) /\ IsUnsat(psi \ psi_1)
       /\ S' = Append(Popped, psi \ psi_1)
  /\ UNCHANGED <<query, answered, core, muc>>

\* Both are needed: they are reduced one after the other.
KeepBoth ==
  /\ S # <<>> /\ Cardinality(psi) # 1
  /\ \E psi_1 \in FirstHalves :
       /\ ~ IsUnsat(psi_1) /\ ~ IsUnsat(psi \ psi_1)
       /\ S' = Append(Append(Popped, psi_1), psi \ psi_1)
  /\ UNCHANGED <<query, answered, core, muc>>

Return ==
  /\ S = <<>> /\ ~ answered
  /\ answered' = TRUE
  /\ core' = muc
  /\ UNCHANGED <<query, S, muc>>

\* The call has returned.
Terminated == answered /\ UNCHANGED vars

Next == KeepLiteral \/ KeepFirst \/ KeepSecond \/ KeepBoth \/ Return \/ Terminated

Spec == Init /\ [][Next]_vars

FairSpec == Spec /\ WF_vars(Next)
-----------------------------------------------------------------------------
(***************************************************************************)
(* Properties.                                                              *)
(***************************************************************************)
\* What is left contradicts phi, and stops doing so without any one set of the stack
\* or any one literal kept: no work is done on a set that could be dropped whole, and
\* a literal kept early stays necessary whatever the other sets are reduced to.
EveryPartNeeded ==
  /\ Blocks(S) \cup muc \in query.unsat
  /\ \A i \in 1 .. Len(S) :
       Others(S, i) \cup muc \notin query.unsat
  /\ \A c \in muc : (Blocks(S) \cup muc) \ {c} \notin query.unsat

\* GetUnsatAssump returns once, and a minimal core.
ReturnsMinimalCore == CoreSpec

\* It returns.
Termination == <>answered
=============================================================================
