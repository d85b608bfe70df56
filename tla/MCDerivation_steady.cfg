CONSTANTS
  Proc = {p1}
  Worker = {w1, w2}
  Block = {b1}
  MaxAttempts = 3
  Lease = 2
  Backoff <- MCBackoff
  None = None
  MaxClock = 20
  MaxRound = 1
  MaxCrash = 2
  Punctual = TRUE
  RejectedMutations = FALSE
SPECIFICATION LiveSpec
CHECK_DEADLOCK FALSE
INVARIANTS NoForgottenWork
PROPERTIES PipelineSpec SealedBlocksSettle
