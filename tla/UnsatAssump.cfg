SPECIFICATION FairSpec
CONSTANTS
  l1 = l1
  l2 = l2
  l3 = l3
  l4 = l4
  l5 = l5
  Assum <- MCAssum
  Queries <- MCQueries
INVARIANTS EveryPartNeeded
PROPERTIES ReturnsMinimalCore Termination
