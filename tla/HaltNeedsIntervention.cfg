CONSTANTS
    Configs <- MCConfigs
    MaxDailyLoss = 2
    MaxTradesPerDay = 2
    CanaryMaxDailyLoss = 1
    CanaryMaxTradesPerDay = 1
    PnLs <- MCPnLs
    WorstLoss = 2
    Days <- MCDays
    MaxAdoptions = 1
SPECIFICATION Spec
INVARIANT
    HaltNeedsIntervention
CHECK_DEADLOCK FALSE
