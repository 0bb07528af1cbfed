SPECIFICATION StageSpec
CONSTANTS
    Identities = {i1}
    Digests = {d1}
    MinTrades = 1
    MaxTrades = 1
    MaxGrants = 1
    MaxRuns = 2
INVARIANT GateCountsItsEpoch
CHECK_DEADLOCK FALSE
