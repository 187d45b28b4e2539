CONSTANTS
  Atoms = {"a", "b"}
  MaxLen = 4
  Goals <- MCGoals
  CheckWords <- MCCheckWords
SPECIFICATION Spec
INVARIANTS TestsSound
CHECK_DEADLOCK FALSE
