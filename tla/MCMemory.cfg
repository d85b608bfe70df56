CONSTANTS
  t1 = t1
  t2 = t2
  Thread = {t1, t2}
  Receipt = {u1}
  Dropped <- MCDropped
  MaxIds = 8
  MaxOps = 5
  MaxExtras = 1
  i1 = i1
  i2 = i2
  c1 = c1
  c2 = c2
  c3 = c3
  Instance = {i1, i2}
  Call = {c1, c2, c3}
  Memory = {m1, m2}
  UseReceipt = {u1}
  MaxFaults = 1
SPECIFICATION MemorySpec
CHECK_DEADLOCK FALSE
INVARIANTS ReloadIsSnapshot SavesGoThrough ReceiptCountsOnce SameRevisionSameMemory
SYMMETRY Alike
