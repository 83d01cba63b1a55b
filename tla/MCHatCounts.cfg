CONSTANTS
    a1 = a1
    a2 = a2
    v1 = v1
    v2 = v2
    t1 = t1
    p1 = p1
    p2 = p2
    None = None
    AS <- MC_AS
    VA <- MC_VA
    Tab <- MC_Tab
    TabOf <- MC_TabOf
    Page <- MC_Page
    ByteMod = 256
    MaxLock = 2
    MaxRss = 3
    LockedReplace = FALSE
SPECIFICATION Spec
SYMMETRY Symmetry
INVARIANTS
    LocksBalanced
    RssCovers
