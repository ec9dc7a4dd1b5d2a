SPECIFICATION Spec
CONSTANTS
    c1 = c1
    c2 = c2
    p1 = p1
    p2 = p2
    Coroutine = {c1, c2}
    Payload = {p1, p2}
    None = None
    MaxRecords = 3
SYMMETRY Symmetry
INVARIANTS
    TypeOK
    EveryRecordIsRooted
PROPERTIES
    SerialCallsExtendHistory
