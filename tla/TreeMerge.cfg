CONSTANTS
  Keys = {1, 2, 3, 4, 5}
  Vals = {d1}
  NotFound = NotFound
  MaxKeys = 3
  MinKeys = 1
  Grants = {9}
  MaxPages = 9
  MaxDeletes = 4
SPECIFICATION BSpec
INVARIANTS SearchAgrees ScanAgrees NavigationAgrees
CHECK_DEADLOCK FALSE
