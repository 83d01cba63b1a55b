CONSTANTS
    a1 = a1
    a2 = a2
    v1 = v1
    t1 = t1
    p1 = p1
    p2 = p2
    p3 = p3
    p4 = p4
    d1 = d1
    None = None
    AS <- MC_AS
    VA <- MC_VA
    Tab <- MC_Tab
    TabOf <- MC_TabOf
    Page <- MC_Page
    Dev <- MC_Dev
SPECIFICATION Spec
SYMMETRY Symmetry
INVARIANTS
    TypeOK
    RevMapExact
    NoStaleTranslation
    TablesOwned
    AtcCoherent
    DirtyTracked
    NoDirtyDiscard
PROPERTY TableKept
