SPECIFICATION KeySpec
SYMMETRY Symmetry
CONSTANTS
    k1 = k1
    k2 = k2
    Which = {k1, k2}
    Segments <- MCSegments
    Integers32 <- MCIntegers32
    StartDepths = {0, 15}
    MaxDepth = 2
    Delimiter = 46
INVARIANTS
    TupleReads
    HierarchyReads
    PrefixMeansSubtree
    FlatReads
    KeysCompress

