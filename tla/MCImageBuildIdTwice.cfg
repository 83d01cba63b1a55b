\* The ttcompat pass over a finished base kernel.
SPECIFICATION Spec
CONSTANTS
    Names = {"base", "ttcompat"}
    File <- MCFile
    Stock <- TheStock
    Script <- MCScript
    Patcher <- MCPatcher
    Already <- BaseBuilt
    Requires <- MCRequires
    Entry <- MCEntry
    Exit <- PassesOn
    MaxChain = 3
    SeqLo = 2
    SeqHi = 5
    MaxDay = 2
    MaxEvents = 1
    Port <- MCPort
INVARIANT IdNamesBytes
CHECK_DEADLOCK FALSE
