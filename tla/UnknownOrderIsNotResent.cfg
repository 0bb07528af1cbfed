CONSTANTS
    Routes <- MCReal
    Failures <- MCNoFailure
    Requests <- MCRequest
    MaxIntents = 3
    MaxRuns = 2
SPECIFICATION Spec
INVARIANT UnknownOrderIsNotResent
CHECK_DEADLOCK FALSE
