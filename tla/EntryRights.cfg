SPECIFICATION RightsSpec
CONSTANTS
    Plans <- MCPlans
    Instants <- MCInstants
    FirstDayOfYear2 = 2
    EntryDelay = 45
    LastEntry = 845
    ForceExit = 990
    ExpiryExit = 846
    LunchStart = 750
    LunchEnd = 840
    Confirmation = 3
    FeedMayFail = TRUE
    LastDay = 1
    Directions = {Up, Down}
    Capacity = 2
    MinSamples = 2
    MinExpiry = 1
    Faults = TRUE
    Identities = {i1, i2}
    Digests = {d1, d2}
    MinTrades = 1
    MaxTrades = 2
    MaxGrants = 2
    MaxRuns = 2
SYMMETRY Alike
CHECK_DEADLOCK FALSE
INVARIANT TradesCountOnce
PROPERTIES
    BuysByTheCalendar
    BuysOnAFreshSignal
    KeepsAuthority
