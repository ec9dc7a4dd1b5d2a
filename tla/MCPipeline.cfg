SPECIFICATION FairSpec
CONSTANTS
    r1 = r1
    r2 = r2
    k1 = k1
    Request = {r1, r2}
    Call = {k1}
    EventLimit = 1
    None = None
    MaxRequests = 4
    MaxVersion = 1
INVARIANTS
    TypeOK
    TrafficAddsUp
    CachedAnswersAreComplete
    EventsGrowByRefusals
    ResponsesAreClosed
PROPERTIES
    ImplementsCallMeter
    ReadsMoveForward
    RequestsMoveOn
