CONSTANTS
  Threads = {t1, t2}
  Data = {d1, d2}
  Capacity = 2
  MaxPage = 3
  MaxFrees = 1
SPECIFICATION PSpec
SYMMETRY Symmetry
INVARIANTS PinsHold FreeListSound PoolCoherent
CHECK_DEADLOCK FALSE
