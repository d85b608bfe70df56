CONSTANTS
  TopicEvent = {a, b}
  TopicWorker = {w1}
  MaxVersion = 1
  MaxEdits = 1
  TopicBatch = 2
  TopicAttempts = 1
  SplitLimit = 0
  WindowCalls = 1
  MaxTopicRetry = 0
  MaxSpread = 0
  DreamProc = {p1, p2}
  WriteLimit = 1
  MaxRuns = 1
  MaxClaims = 2
  MaxCards = 4
  FirstCards = 2
  MaxTurns = 4
  f = f
  Fact = {f, g}
  Deaths = 1
  Rescans = 1
  Writes = 1
  Host = {p1, p2}
  MaxCandidates = 2
  MaxClicks = 2
  MaxDeaths = 1
  PersistErrors = TRUE
  MaxPrompts = 2
  PromptsReach = TRUE
  Attempts = 2
  StopsPerTurn = 1
  MaxRevision = 4
  Window = 3
  Assessment = {a1}
  UsesToInvite = 1
  MaxCuts = 1
  MaxFailures = 1
  Ref = {r1}
  UseCall = {p1, p2}
  MaxBatches = 3
  MaxQuestions = 1
  MaxAnswers = 2
  MaxUrges = 1
  MaxFails = 1
  Blocks = 2
  Top = 2
  Size <- MCSize
  RawSize = 3
  Capacity = {1, 2}
  Limit <- MCLimit
  SessionRoom <- MCRoom
  MaxAttempts = 2
  RepairsFail = FALSE
  MaxEvents = 2
SPECIFICATION HostSpec
CHECK_DEADLOCK FALSE
INVARIANTS OnlyImportsRevive  AnswersFitCandidates JournalIsTrue TurnsAreTrue AnswersAreFinal ChoicesAreKept SurfaceIsSettled
PROPERTIES DirectoryIsReserved
SYMMETRY DreamSymmetry
