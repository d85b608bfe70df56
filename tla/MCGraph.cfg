CONSTANTS
  GraphProc = {p1, p2}
  GraphWorker = {g1}
  GraphEvent = {1, 2}
  GraphBatch = 1
  GraphAttempts = 2
  NoEpoch = NoEpoch
  Overlap = FALSE
  MaxEpoch = 2
  MaxGraphRetry = 0
  MaxGraphCrash = 1
  Source = {e1, e2}
  Name = {n1, n2}
  Key = {k1}
  Relation = {r1}
  Cited <- MCCited
  Proposed <- MCProposed
  MaxProposals = 2
  TopicEvent = {a, b}
  TopicWorker = {w1, w2}
  MaxVersion = 2
  MaxEdits = 1
  TopicBatch = 2
  TopicAttempts = 2
  SplitLimit = 1
  WindowCalls = 1
  MaxTopicRetry = 0
  MaxSpread = 1
SPECIFICATION GraphRunSpec
CHECK_DEADLOCK FALSE
INVARIANTS CallsWithinBudget ViewIsProven ProseIsCurrent
SYMMETRY Symmetric
