CONSTANTS
  env_var = {"x"}
  MaxMoves = 2
  MaxLen = 2
  Starts <- MCStarts
  Words <- MCWords
SPECIFICATION Spec
INVARIANTS ProgressionExact AcceptanceExact  NodesSound ExpansionExact
CHECK_DEADLOCK FALSE
