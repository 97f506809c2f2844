CONSTANTS
  Keys = {k1, k2}
  Values = {v1, v2}
  Tombstone = Tombstone
  NotFound = NotFound
  max_txns = 2
  list_cap = 4
  ChainCap = 2
  EngineMutex = TRUE
  MaxTxn = 3
  Env = {"close"}
  MaxModified = 2
  MaxOpens = 2
  MaxLog = 3
SPECIFICATION DSpec
INVARIANT CommittedSurvives
CHECK_DEADLOCK FALSE
SYMMETRY Symmetry
