CONSTANTS
  BaseTime = 52
  BaseMoves = 2
  Increment = 2
  Exact = 4
  Second = 4
  Extensions = {0, 4, 40}
  Reported = {8, 28}
  Delays = {4}
  MaxElapsed = 32
  MaxMoves = 3
SPECIFICATION ClockSpec
INVARIANTS
  MovesRemain
  ReserveKept
PROPERTIES
  NeverFlagged
