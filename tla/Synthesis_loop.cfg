SPECIFICATION Spec
CONSTANTS
  State <- LoopState
  YEdges <- MCYEdges
  var_X <- MCvar_X
  TRUE_bddP = "TT"
  FALSE_bddP = "FF"
  Games <- LoopGames
  NULL = NULL
INVARIANT UnrealizableVerdict
