CONSTANTS
    u1 = u1
    u2 = u2
    l1 = l1
    l2 = l2
    w1 = w1
    w2 = w2
    w3 = w3
    None = None
    Unit <- MC_Unit
    Line <- MC_Line
    Word <- MC_Word
    LineOf <- MC_LineOf
    Requests <- MC_Requests
    MaxMsgs = 2
SPECIFICATION Spec
INVARIANTS
    WordsCurrent
    DeviceReadsCurrent
    NeverDead
PROPERTY RequestsEnd
