CONSTANTS
  Vars <- MCVars
  Problems <- MCProblems
  Assumptions <- MCAssumptions
SPECIFICATION Spec
INVARIANTS AnswerSound SameSolutions
CHECK_DEADLOCK FALSE
