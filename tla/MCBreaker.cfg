SPECIFICATION FairSpec
CONSTANTS
    r1 = r1
    r2 = r2
    r3 = r3
    Caller = {r1, r2, r3}
    FailureThreshold = 3
    RecoveryTimeout = 2
    HalfOpenSuccessThreshold = 2
INVARIANTS
    TypeOK
    ClosedToleratesFailure
PROPERTIES
    FailFast
    CloseIsEarned
    TripIsEarned
    OpenEnds
    Recovers
