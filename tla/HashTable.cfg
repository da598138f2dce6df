CONSTANTS
  Threads = {t1, t2}
  NoThread = NoThread
  TableSize = 2
  Domains = 3
  Positions = {1, 2}
  Key <- MCKey
  MaxDepth = 1
  DepthRange = 4
  Mate = 3
  Value <- MCValue
  Scores <- MCScores
  Windows <- MCWindows
  FailSoft = FALSE
  Negative = TRUE
  Masters = {t1}
SPECIFICATION Spec
INVARIANTS
  HitSound
  LineOfEntry
