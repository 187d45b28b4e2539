CONSTANTS
  Vars <- MCVars
  NewClauses <- MCNewClauses
  Units <- MCUnits
  Decisions = {1, 2, 3, 4}
  MaxRemoved = 1
  MaxClauses = 3
SPECIFICATION Spec
INVARIANT NothingMissed
CHECK_DEADLOCK FALSE
