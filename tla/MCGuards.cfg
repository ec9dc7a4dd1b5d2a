SPECIFICATION Spec
CONSTANTS
    Service <- Services
    StaticKey <- Keys
    Ttl = {1}
    Profile = {"openai"}
    Method = {"GET", "POST", "DELETE"}
    Path = {"/v1"}
    Rule <- Rules
    DefaultDeny = FALSE
    Price <- Prices
    MinCost = 1
    Fee = {5}
    Usage = {0, 1}
    None = None
    key = key
    MaxTime = 1
    MaxTokens = 1
    Guard <- Guards
INVARIANTS
    TypeOK
    LeavesFit
PROPERTIES
    CallersAreIdentified
    NarrowingTakesAway
