CONSTANTS
    Configs <- MCConfigs
    MaxDailyLoss = 2
    MaxTradesPerDay = 2
    CanaryMaxDailyLoss = 1
    CanaryMaxTradesPerDay = 1
    PnLs <- MCPnLs
    WorstLoss = 2
    Days <- MCDays
    MaxAdoptions = 1
SPECIFICATION FairSpec
INVARIANTS
    TypeOK
    BuyInFlightIsAuthorised
    DailyLossLatched
    DailyTradesBounded
    DailyLossBounded
    BlockedIsFrozen
PROPERTIES
    BlockIsFinal
    OperationalHaltStays
    KillHaltsTheFlatEngine
    StepEnds
