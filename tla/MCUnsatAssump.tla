--------------------------- MODULE MCUnsatAssump ---------------------------
(***************************************************************************)
(* Queries for model-checking UnsatAssump: a formula is given by the        *)
(* minimal sets of literals that contradict it.                             *)
(***************************************************************************)
EXTENDS UnsatAssump

CONSTANTS l1, l2, l3, l4, l5

MCAssum == {l1, l2, l3, l4, l5}
Literals == <<l1, l2, l3, l4, l5>>
Between(i, j) == {Literals[k] : k \in i .. j}

\* The query for which the sets in M are the minimal cores among the first n literals.
QueryOf(n, M) ==
  [assumption |-> Between(1, n), unsat |-> {B \in SUBSET Assum : \E C \in M : C \subseteq B}]

\* At most two cores among up to five literals, and three among four.  The halves may
\* be any, so only the sizes of two cores and of their intersection matter: intervals
\* give them all.
Two(n) == {M \in {{Between(1, c), Between(i, j)} : c \in 1 .. n, i \in 1 .. n, j \in 1 .. n} :
             {} \notin M}

MCQueries ==
  UNION {{QueryOf(n, M) : M \in Two(n)} : n \in 1 .. Len(Literals)}
  \cup {QueryOf(4, M \cup {C}) : M \in Two(4), C \in SUBSET Between(1, 4) \ {{}}}
=============================================================================
