CONSTANTS
  Positions <- MCPositions
  Moves <- MCMoves
  WhiteToMove <- MCWhite
  Legal <- MCLegal
  After <- MCAfter
  Irreversible <- MCIrreversible
  InCheck = {"mated"}
  MaterialDraw = {"bare"}
  Opening = "a"
  Setups <- MCSetups
  Games <- MCGames
  Controls = {"SUDDENDEATH"}
  Elapses = {3}
  Reported = {40}
  Rule50 = 10
  SetupWhenUndone = FALSE
  LevelMidGame = FALSE
  MaxMoves = 9
  BaseTime = 40
  BaseMoves = 2
  Increment = 1
  Exact = 5
  Second = 1
  Texts <- MCTexts
  Depths = {0, 2}
  MinCounts = {1, 2}
  Key <- MCKey
  NrMoves = 1
  BookMoves = 3
SPECIFICATION BookSpec
INVARIANTS
  HistoryConsistent
  ResultByRule
  MoverCharged
  WrittenIsFound
  BookTellsTheGames
CHECK_DEADLOCK FALSE
