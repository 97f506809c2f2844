CONSTANTS
  large = large
  packed = packed
  Values = {large, packed}
  Tombstone = Tombstone
  NotFound = NotFound
  Chunks <- MCChunks
  LogForm <- MCLogForm
  ChainCap = 2
  MaxTxn = 2
  MaxPage = 4
  MaxSets = 3
SPECIFICATION OSpec
INVARIANTS  LogRecordsWhole  ReadsNewest IterWhole
CHECK_DEADLOCK FALSE
