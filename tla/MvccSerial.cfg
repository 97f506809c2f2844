CONSTANTS
  Keys = {k1}
  Values = {v1}
  Tombstone = Tombstone
  NotFound = NotFound
  max_txns = 2
  list_cap = 3
  ChainCap = 3
  EngineMutex = TRUE
  MaxTxn = 4
SPECIFICATION Spec
INVARIANTS TypeOK SlotLimits ExclusiveLocks NoLockLeak NoDirtyWrite ReadsAgree
PROPERTIES CommitPublishes ImplementsStore
CHECK_DEADLOCK FALSE
