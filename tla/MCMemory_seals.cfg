CONSTANTS
  t1 = t1
  Thread = {t1}
  Receipt = {u1}
  Dropped <- MCDropped
  MaxIds = 8
  MaxOps = 6
  MaxExtras = 0
  Instance = {i1}
  Call = {c1}
  Memory = {m1}
  UseReceipt = {u1}
  MaxFaults = 0
SPECIFICATION MemorySpec
CHECK_DEADLOCK FALSE
INVARIANTS SealsGoThrough
