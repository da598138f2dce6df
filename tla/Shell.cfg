CONSTANTS
  ClearBusy = FALSE
  MaxMoves = 2
  MaxInterrupts = 2
SPECIFICATION FairSpec
CHECK_DEADLOCK FALSE
INVARIANTS
  OneSearch
  SearchWanted
  InterruptHeeded
PROPERTIES
  SearchUndisturbed
  JoinReturns
