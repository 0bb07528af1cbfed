SPECIFICATION PairedSpec
CONSTANTS
    Results <- MCResults
    LastSession = 6
    MaxShadow = 12
    MaxReal = 1
    Stress = 1
    MinCloses = 12
    MinPerSide = 6
    MinDays = 6
    MinFactor = 120
    MaxDailyLoss = 6
    Window = 2
    MaxLossRun = 2
    CanaryMinimum = 2
    CanaryPerSide = 1
    CanaryDays = 1
CHECK_DEADLOCK FALSE
INVARIANT EvidenceIsBroad
