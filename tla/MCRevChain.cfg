CONSTANTS
    s1 = s1
    s2 = s2
    s3 = s3
    s4 = s4
    p1 = p1
    p2 = p2
    None = None
    Slot <- MC_Slot
    Page <- MC_Page
    Budget = 4
SPECIFICATION Spec
INVARIANTS
    ChainsExact
PROPERTY ImplementsRevMap
