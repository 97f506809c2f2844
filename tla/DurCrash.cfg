CONSTANTS
  Keys = {k1}
  Values = {v1}
  Tombstone = Tombstone
  NotFound = NotFound
  max_txns = 2
  list_cap = 4
  ChainCap = 2
  EngineMutex = FALSE
  MaxTxn = 2
  Env = {"delete", "rollback", "close", "abandon", "crash", "evict"}
  MaxModified = 1
  MaxOpens = 2
  MaxLog = 3
SPECIFICATION DSpec
INVARIANTS CommittedIdsNotReused CommittedKeyKept DiskIsPrefix
CHECK_DEADLOCK FALSE
SYMMETRY Symmetry
