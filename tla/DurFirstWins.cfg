CONSTANTS
  Keys = {k1}
  Values = {v1, v2}
  Tombstone = Tombstone
  NotFound = NotFound
  max_txns = 1
  list_cap = 4
  ChainCap = 3
  EngineMutex = TRUE
  MaxTxn = 2
  Env = {"crash"}
  MaxModified = 2
  MaxOpens = 1
  MaxLog = 6
SPECIFICATION DSpec
INVARIANTS CommittedSurvives
CHECK_DEADLOCK FALSE
SYMMETRY Symmetry
