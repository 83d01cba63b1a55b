CONSTANTS
    p1 = p1
    p2 = p2
    User = User
    Sup = Sup
    None = None
    Copy = Copy
    Pad = Pad
    Proc <- MC_Two
    Frames <- MC_TwoStores
    Interrupts = FALSE
    MaxDepth = 2
SPECIFICATION Spec
SYMMETRY Symmetry
CHECK_DEADLOCK FALSE
INVARIANT AlienIsForeign
