SPECIFICATION FairSpec
CONSTANTS
  Conj <- MCConj
  Lit <- MCLit
  FF = "FF"
  Problems <- MCProblems
INVARIANTS FramesSound PendingNotFinal CoresNonEmpty
PROPERTIES ImplementsOracle Termination Progress
