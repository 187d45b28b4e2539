CONSTANTS
  env_var = {"x"}
  MaxLen = 3
  Starts <- MCStarts
  Words <- MCWords
  Rests <- MCRests
SPECIFICATION Spec
INVARIANTS ReachedStatesSound TraceSatisfies TotalTraceAccepted
CHECK_DEADLOCK FALSE
