SPECIFICATION Spec
CONSTANTS
  p1 = p1
  p2 = p2
  t1 = t1
  t2 = t2
  Proc = {p1}
  Thread = {t1}
  Home <- OneProcess
  N = 2
  MaxTurn <- ThreeTurns
  MaxParts = 2
  MaxCrash = 1
  MaxDrains = 2
  Flushes = TRUE
  Remembers = TRUE
CHECK_DEADLOCK FALSE
INVARIANTS NoTurnIsDropped
PROPERTIES ImplementsTurnLog
