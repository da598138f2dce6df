CONSTANTS
  NSlaves = 1
  MaxDepth = 4
  MinDepth = 3
  MinMoves = 2
  MoveCounts = {1, 2}
  RootMoves = 1
  TimeLimit = 1
  HardLimit = 2
  MaxTime = 1
  Extensible = TRUE
  UseHash = TRUE
  MaxInterrupts = 0
SPECIFICATION FairSpec
INVARIANT MasterNodesBalanced
PROPERTY SearchTerminates
