CONSTANTS
    Routes <- MCReal
    Failures <- MCNoFailure
    Requests <- MCRequests
    MaxIntents = 3
    MaxRuns = 3
SPECIFICATION Spec
INVARIANT JournalReplays
CHECK_DEADLOCK FALSE
