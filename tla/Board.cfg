CONSTANTS
  Openings <- MCOpenings
  MaxPly = 2
  Windows <- MCWindows
SPECIFICATION ESpec
INVARIANTS
  IncrementalStateExact
  GeneratorsExact
  TextReadBack
  CachesExact
  EvalMirrored
PROPERTIES
  FollowsTheRules
  MaterialDrawIsFinal
CHECK_DEADLOCK FALSE
