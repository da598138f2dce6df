CONSTANTS
  NSlaves = 2
  MaxDepth = 2
  MinDepth = 1
  MinMoves = 2
  MoveCounts = {0, 3}
  RootMoves = 1
  TimeLimit = 1
  HardLimit = 2
  MaxTime = 1
  Extensible = TRUE
  UseHash = TRUE
  MaxInterrupts = 1
SPECIFICATION Spec
INVARIANTS
  ReadyQueueSound
  WaitIsAnswered
  StatisticsComplete
  NoLostStop
  CancelledOnlyWhenExtended
