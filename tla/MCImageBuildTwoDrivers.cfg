\* The z3660 pass over a kernel that has the VA2000 driver.
SPECIFICATION Spec
CONSTANTS
    Names = {"base", "dbg", "va2000", "z3660_va"}
    File <- MCFile
    Stock <- TheStock
    Script <- MCScript
    Patcher <- MCPatcher
    Already <- DbgBuilt
    Requires <- MCRequires
    Entry <- MCEntry
    Exit <- PassesOn
    MaxChain = 3
    SeqLo = 2
    SeqHi = 5
    MaxDay = 2
    MaxEvents = 2
    Port <- MCPort
PROPERTY HandlersKept
CHECK_DEADLOCK FALSE
