CONSTANTS
  GraphProc = {p1, p2}
  GraphWorker = {w1}
  GraphEvent = {1}
  GraphBatch = 1
  GraphAttempts = 1
  NoEpoch = NoEpoch
  Overlap = FALSE
  MaxEpoch = 1
  MaxGraphRetry = 1
  MaxGraphCrash = 1
  TopicEvent = {a, b}
  TopicWorker = {w1}
  MaxVersion = 1
  MaxEdits = 1
  TopicBatch = 2
  TopicAttempts = 1
  SplitLimit = 1
  WindowCalls = 1
  MaxTopicRetry = 1
  MaxSpread = 1
  DreamProc = {p1}
  WriteLimit = 1
  MaxRuns = 1
  MaxClaims = 2
  Host = {h1}
  MaxCandidates = 2
  MaxClicks = 2
  MaxDeaths = 1
  PersistErrors = FALSE
  Event = {e1, e2}
  Model = {v1}
  Off = Off
  Asker = {s1}
  SweepLimit = 1
  MaxChanges = 1
SPECIFICATION SettlesSpec
CHECK_DEADLOCK FALSE
INVARIANTS LaneIsCurrent
PROPERTIES ApprovedHistorySettles TopicsSettle ImportSettles CardsGetVectors
