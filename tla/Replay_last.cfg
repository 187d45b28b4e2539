CONSTANTS
  env_var = {"x"}
  MaxLen = 3
  Starts <- MCStarts
  Words <- MCWords
  Rests <- MCRests
SPECIFICATION Spec
INVARIANT LastEdgeAccepts
CHECK_DEADLOCK FALSE
