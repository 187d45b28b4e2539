------------------------------ MODULE UnsatCore -----------------------------
(***************************************************************************)
(* What the reduction of a Y that leads nowhere promises (GetUnsatAssump    *)
(* in generalizer.cpp): of the literals that contradict a satisfiable       *)
(* formula, a set that still does and of which none can be spared.          *)
(*                                                                          *)
(* A query stands for one call.  It records the assumption, a set of        *)
(* literals, and the sets of literals that contradict the formula phi.      *)
(***************************************************************************)
EXTENDS Naturals, FiniteSets, Sequences

CONSTANTS
  Assum,      \* literals
  Queries     \* the calls under consideration

VARIABLES
  query,      \* phi and assumption (never change)
  answered,   \* whether the call has returned
  core        \* the literals it returned

coreVars == <<query, answered, core>>

\* More literals contradict phi as well, and none at all do not: the caller has just
\* checked phi (process_signal, NoWay), and it was found unsatisfiable with the
\* whole assumption before that (Expand).
WellFormed(q) ==
  /\ q.assumption \subseteq Assum
  /\ q.unsat \subseteq SUBSET Assum
  /\ \A A \in q.unsat : \A B \in SUBSET Assum : A \subseteq B => B \in q.unsat
  /\ q.assumption \in q.unsat
  /\ {} \notin q.unsat

ASSUME QueryAssumption ==
  /\ IsFiniteSet(Assum)
  /\ \A q \in Queries : WellFormed(q)

\* An unsat core from which no literal can be dropped.
IsMinimalCore(C) ==
  /\ C \subseteq query.assumption
  /\ C \in query.unsat
  /\ \A c \in C : C \ {c} \notin query.unsat

CoreInit ==
  /\ query \in Queries
  /\ answered = FALSE
  /\ core = {}

Answer ==
  /\ ~ answered
  /\ answered' = TRUE
  /\ IsMinimalCore(core')
  /\ UNCHANGED query

CoreSpec == CoreInit /\ [][Answer]_coreVars
=============================================================================
