\* The default-knob scripts, started from an empty build directory or from
\* a used one.
SPECIFICATION Spec
CONSTANTS
    Names = {"base", "base_nolive", "dbg", "quiet", "z3660", "va2000",
             "xsvga", "rtg", "rth1", "f4arms", "f6", "fpe", "isp060", "fpe_isp",
             "pgrsv"}
    File <- MCFile
    Stock <- TheStock
    Script <- MCScript
    Patcher <- MCPatcher
    Already <- MCAlready
    Requires <- MCRequires
    Entry <- MCEntry
    Exit <- PassesOn
    MaxChain = 3
    SeqLo = 2
    SeqHi = 5
    MaxDay = 2
    MaxEvents = 2
    Port <- MCPort
INVARIANTS
    TypeOK
    ProducersFirst
    RerunSafe
    IdNamesBytes
PROPERTIES
    HandlersKept
    BuildCompletes
    ImplementsKernels
CHECK_DEADLOCK FALSE
