SPECIFICATION Spec
CONSTANTS
    r1 = r1
    Request = {r1}
    Minute = 1
    Hour = 2
    Day = 3
    Budget <- EvenBudget
    Cost <- EvenCost
    NoBudget = NoBudget
    MaxTransactions = 2
PROPERTIES
    SpentIsRefused
