SPECIFICATION FairSpec
CONSTANTS
  State <- MCState
  YEdges <- MCYEdges
  var_X <- MCvar_X
  TRUE_bddP = "TT"
  FALSE_bddP = "FF"
  Games <- SmallGames
  NULL = NULL
INVARIANTS VerdictSound WinningSound FailureSound ConstraintsJustified StackIsPath ScansComplete
PROPERTIES Termination Progress
