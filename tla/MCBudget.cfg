SPECIFICATION FairSpec
CONSTANTS
    r1 = r1
    r2 = r2
    Request = {r1, r2}
    Minute = 1
    Hour = 2
    Day = 3
    Budget <- Budgets
    Cost <- Costs
    NoBudget = NoBudget
    MaxTransactions = 2
INVARIANTS
    TypeOK
    DailySpendIsExact
    OvershootBounded
PROPERTIES
    WindowsAreGates
    RefusalEnds
