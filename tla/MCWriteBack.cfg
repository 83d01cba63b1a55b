CONSTANTS
    p1 = p1
    p2 = p2
    User = User
    Sup = Sup
    None = None
    Copy = Copy
    Pad = Pad
    Proc <- MC_Two
    Frames <- MC_AnyFrame
    Interrupts = TRUE
    MaxDepth = 2
SPECIFICATION Spec
SYMMETRY Symmetry
CHECK_DEADLOCK FALSE
INVARIANTS
    InOrder
    UserSuccessIsComplete
    DfcKept
    NofaultKept
