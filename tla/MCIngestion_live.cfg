SPECIFICATION FairSpec
CONSTANTS
  p1 = p1
  p2 = p2
  t1 = t1
  t2 = t2
  Proc = {p1, p2}
  Thread = {t1, t2}
  Home <- TwoProcesses
  N = 1
  MaxTurn <- OneTurn
  MaxParts = 1
  MaxCrash = 0
  MaxDrains = 2
  Flushes = FALSE
  Remembers = FALSE
CHECK_DEADLOCK FALSE
PROPERTIES FinishedTurnsAreSealed
