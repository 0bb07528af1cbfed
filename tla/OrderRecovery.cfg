CONSTANTS
    Routes <- MCRoutes
    Failures <- MCFailures
    Requests <- MCRequest
    MaxIntents = 3
    MaxRuns = 3
SPECIFICATION Spec
INVARIANTS
    TypeOK
    TradesAreCountedOnce
    LooseEndsAreKnown
    OrdersAreJournaled
    SettledStateMatchesAccount
PROPERTIES
    RecoveryRestoresState
CHECK_DEADLOCK FALSE
