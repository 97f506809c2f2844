CONSTANTS
  Keys = {1, 2, 3, 4, 5, 6}
  Hidden = {2}
  Spans = {1, 5}
  Vals = {d1}
  NotFound = NotFound
  MaxKeys = 3
  MinKeys = 1
  Grants = {9}
  MaxPages = 20
  MaxDeletes = 0
SPECIFICATION CSpec
INVARIANTS CursorComplete SearchAgrees
CHECK_DEADLOCK FALSE
