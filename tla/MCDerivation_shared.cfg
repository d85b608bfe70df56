CONSTANTS
  Proc = {p1, p2}
  Worker = {w1}
  Block = {b1}
  MaxAttempts = 2
  Lease = 2
  Backoff <- MCBackoff
  None = None
  MaxClock = 5
  MaxRound = 0
  MaxCrash = 1
  Punctual = TRUE
  RejectedMutations = TRUE
SPECIFICATION Spec
SYMMETRY Symmetry
CHECK_DEADLOCK FALSE
INVARIANTS RevisionDeterminesContent CallsArePaid
PROPERTIES OnlyTheHolderEndsAClaim
