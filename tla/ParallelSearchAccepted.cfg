CONSTANTS
  NSlaves = 1
  MaxDepth = 2
  MinDepth = 1
  MinMoves = 2
  MoveCounts = {2}
  RootMoves = 1
  TimeLimit = 1
  HardLimit = 2
  MaxTime = 1
  Extensible = TRUE
  UseHash = TRUE
  MaxInterrupts = 0
SPECIFICATION Spec
INVARIANT AcceptedIsGenuine
