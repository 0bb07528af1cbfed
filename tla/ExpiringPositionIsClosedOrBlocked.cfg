SPECIFICATION Spec
CONSTANTS
    Plans <- MCPlans
    Instants <- MCInstants
    FirstDayOfYear2 = 2
    EntryDelay = 45
    LastEntry = 845
    ForceExit = 990
    ExpiryExit = 846
    LunchStart = 750
    LunchEnd = 840
    Confirmation = 3
    FeedMayFail = FALSE
    LastDay = 1
    Directions = {Up, Down}
    Capacity = 2
    MinSamples = 2
    MinExpiry = 1
    Faults = FALSE
SYMMETRY BothWays
CHECK_DEADLOCK FALSE
INVARIANT
    ExpiringPositionIsClosedOrBlocked
