\* Up to four faults in a capture of one to four items.
SPECIFICATION Spec
CONSTANTS
    Captures <- MCCaptures
    Rows = 2
    Known = {1, 2}
    MaxFaults = 4
INVARIANTS
    SamplesOfOneDump
    
    IntactIsRead
    SpansAreWhole
    PriceInOwnUnit
CHECK_DEADLOCK FALSE
