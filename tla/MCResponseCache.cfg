SPECIFICATION Spec
CONSTANTS
    k1 = k1
    k2 = k2
    k3 = k3
    k4 = k4
    Key = {k1, k2, k3, k4}
    Ttl = {0, 2}
    MaxEntries = 3
    MaxAge = 3
    None = None
SYMMETRY Symmetry
INVARIANTS
    TypeOK
    CapacityHolds
    KeepsRecent
    HitsAreFresh
