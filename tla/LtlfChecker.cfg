CONSTANTS
  Atoms = {"a"}
  MaxLen = 4
  MaxDepth = 5
  Inputs <- MCInputs
  Words <- MCWords
  CheckWords <- MCCheckWords
SPECIFICATION EncodedSpec
INVARIANTS TransitionsSound WordsHaveModels DfsCheckSound EncodingAsAssumed
PROPERTIES ImplementsDfs Termination
CHECK_DEADLOCK FALSE
