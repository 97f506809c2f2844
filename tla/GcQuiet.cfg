CONSTANTS
  Keys = {k1}
  OldKeys = {k1}
  Values = {v1, v2}
  Tombstone = Tombstone
  NotFound = NotFound
  max_txns = 2
  list_cap = 4
  ChainCap = 3
  EngineMutex = FALSE
  MaxTxn = 4
  GcCap = 4
  GcQuiet = TRUE
SPECIFICATION GcSpec
INVARIANTS NoDirtyRead
PROPERTY GcKeepsOpenReads
CHECK_DEADLOCK FALSE
