SPECIFICATION NodeSpec
CONSTANTS
    PageSize = 512
    HeaderSize = 32
    SlotSize = 4
    MaxSlots = 128
    Byte <- Octets
    Nodes <- MCNodes
    MaxKeys = 3
    MaxStores = 3
    KeyLen = 200
INVARIANTS
    PageSound
    StoredNodeLoads
    OneNodeLoads
