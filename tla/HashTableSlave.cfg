CONSTANTS
  Threads = {t1}
  NoThread = NoThread
  TableSize = 2
  Domains = 3
  Positions = {1, 2}
  Key <- MCKey
  MaxDepth = 1
  DepthRange = 4
  Mate = 3
  Value <- MCValue
  Scores <- MCScores
  Windows <- PlainWindows
  FailSoft = FALSE
  Negative = FALSE
  Masters = {t1}
SPECIFICATION Spec
INVARIANT HitDirectlyUsable
