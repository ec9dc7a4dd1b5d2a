SPECIFICATION Spec
CONSTANTS
    c1 = c1
    c2 = c2
    p1 = p1
    Coroutine = {c1, c2}
    Payload = {p1}
    None = None
    MaxRecords = 2
INVARIANTS
    ChainIntact
