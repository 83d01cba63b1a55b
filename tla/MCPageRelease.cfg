CONSTANTS
    l1 = l1
    l2 = l2
    NoLeaf = NoLeaf
    Leaf <- MC_Leaf
SPECIFICATION ReleaseSpec
SYMMETRY Symmetry
INVARIANTS
    ReturnUnreachable
    FreeUncached
    NewOwnerKeepsData
PROPERTY RetiredBeforeFree
CHECK_DEADLOCK FALSE
