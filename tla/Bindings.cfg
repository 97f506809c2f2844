SPECIFICATION BSpec
CONSTANTS
  max_txns = 2
  list_cap = 2
  Langs = {"js", "godot", "csharp", "unity", "rust", "go", "delphi"}
  Slots = {s1, s2}
  MaxTxn = 3
  MaxOpen = 2
SYMMETRY SlotSymmetry
INVARIANTS
  NoFreedHandle
  NoOrphan
  RolledBackStaysOut
  FailedWriteStaysOut
  ReadsLeaveSlots
CHECK_DEADLOCK FALSE
