CONSTANTS
  a = a
  b = b
  m1 = m1
  m2 = m2
  x = x
  r1 = r1
  Callers = {a, b}
  Kinds <- MCKinds
  Routes = {r1}
  SessionRoute <- MCSession
  Owner <- MCOwner
  Foreign = x
  Cites <- MCCites
  Texts <- MCTexts
  ForceOff = TRUE
  Attempts = 2
  MaxDepth = 2
  MaxCalls = 3
  RingSize = 1
  Space = {n1, n2}
  WorkProc = {p1}
  Batch = 1
  MaxGeneration = 2
  ControlIsCut = FALSE
  Message = {m1}
  Word = {y1, y2}
  Blank = Blank
  RawProc = {p1, p2}
  MaxWrites = 4
  Namespace = {n3, n4}
  Size = {5, 6}
  DefaultSize = 6
  Retries = FALSE
  MaxSets = 1
  MaxSaves = 1
  Nothing = Nothing
  NoFile = NoFile
  Field = {f1, f2}
  Maintainable = {f1}
  Saying = {w1}
  ProfileHost = {h1, h2}
  MaxTotal = 3
  Threshold = 3
  MaxChanges = 5
  PageChanges = 3
  MaxStrays = 1
  Runtime = {r1, r2}
  Title = {t1, t2}
  Note = {x1, x2}
  MaxWriting = 2
SPECIFICATION ServicesSpec
CHECK_DEADLOCK FALSE
INVARIANTS ResultsAreWhole IndexIsHonest NewsIsHeard SearchMissesNothing SettingsReachEverySpace EditsOutlastMaintenance
PROPERTIES PageKeepsUp DraftsAreKept WritesAreWhole
