CONSTANTS
  Setups <- MCSetups
  MaxDepth = 4
  MaxSearches = 2
SPECIFICATION Spec
INVARIANTS
  IterationExact
  FailHard
  EntriesSound
  MateIsReal
CHECK_DEADLOCK FALSE
