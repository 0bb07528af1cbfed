CONSTANTS
    Routes <- MCRoutes
    Failures <- MCPowerLoss
    Requests <- MCRequest
    MaxIntents = 2
    MaxRuns = 3
SPECIFICATION Spec
INVARIANT LaterEventsAreReplayed
CHECK_DEADLOCK FALSE
