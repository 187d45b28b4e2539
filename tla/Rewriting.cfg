CONSTANTS
  Atoms = {"a", "b"}
  MaxLen = 3
  Trees <- MCTrees
  Misspelt <- MCMisspelt
  Words <- MCWords
SPECIFICATION Spec
INVARIANTS TreesAsWritten SameLanguage FirstTailEnds Encodable TranslationsExact
CHECK_DEADLOCK FALSE
