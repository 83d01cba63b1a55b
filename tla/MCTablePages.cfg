CONSTANTS
    a1 = a1
    a2 = a2
    p1 = p1
    p2 = p2
    p3 = p3
    p4 = p4
    None = None
    AS <- MC_AS
    Page <- MC_Page
    Units = 3
    LegacyUnits = 2
SPECIFICATION Spec
SYMMETRY Symmetry
INVARIANTS
    AccountingExact
    UnitsOwned
    FreedIsUnused
    NoLostSleeper
