SPECIFICATION ServicesSpec
CONSTANTS
    TokenLife = 4
    TokenMargin = 1
    CircuitTime = 3
    CatalogLife = 3
    Attempts = {1, 2}
    MaxTime = 5
    EventCapacity = 2
    MaxDelay = 4
    MaxEvents = 6
    Lots = {share, call, put}
    Options = {call, put}
    ClockRefresh = 3
    MaxSkew = 1
    ReferenceTimeout = 1
    VixRefresh = 3
    VixMaxAge = 1
    PreviousMaxAge = 3
    MaxFuture = 1
    MaxDataAge = 1
    Offsets <- MCOffsets
    Delays = {0, 4}
    FirstTime = 5
    LastTime = 9
    LunchWindow = 2
    Quotes = {low, high}
    LunchTimes = {0, 1, 2, 3, 4, 5, 6}
    MaxQuotes = 5
    MaxAppends = 5
    Processes = {p1, p2}
    Manifests <- MCManifests
    Stamps = {1, 2, 3}
    MaxFrames = 4
    MaxCaptures = 3
    SourceSkew = 4
    MaxLag = 2
    QuoteMaxAge = 1
    Series <- MCSeries
    Ages <- MCAges
    Waits = {0, 1}
    MinTenor = 5
    MaxTenor = 20
    ChainPercentage = 70
    ChainPerSide = 1
    Evaluations = {0, 2, 4, 5}
    SessionLength = 2
    Candidates <- MCCandidates
    WindowSessions = 2
    MinSessions = 2
    MinRank = 0
    MaxRank = 50
    Scale = 20
    Asks = {1, 3}
    Multipliers = {1, 2}
    Costs = {0, 1, 4}
    Slippages = {0, 2}
    StopLosses = {1, 10, 20}
    Taxes = {3, 18}
    Budgets = {600, 3000}
    MaxLosses = {40, 300, 1500}
    Sizes = {1, 4}
    Factors = {1, 4}
    Funds = {700, 5000}
    Prices = {1, 200, 201, 603, 604}
    Quantities = {1, 2, 3}
    Quantity = 3
    Frames = {1, 2, 3}
    Depth = 3
    Folds = 3
    RawFeatures = 7
    MaxTrades = 24
    MinExamples = {1, 5, 12}
    MinTrain = {1, 3, 8}
    Results <- MCResults
    LastSession = 3
    MaxShadow = 6
    MaxReal = 3
    Stress = 1
    MinCloses = 4
    MinPerSide = 2
    MinDays = 3
    MinFactor = 120
    MaxDailyLoss = 2
    Window = 2
    MaxLossRun = 2
    CanaryMinimum = 2
    CanaryPerSide = 1
    CanaryDays = 1
CHECK_DEADLOCK FALSE
INVARIANTS
    TypeOK
    JournaledOrderReplays
    NoEventIsLostSilently
    ShownStatusIsCurrentOrExcused
    OnlyExecutionsHide
    CountIsWhatWasSeen
    JournalReadsBack
    HoldoutsStaySealed
    ReplayRepeatsTheCapture
    EntryHasARealChain
    RankIsPointInTime
    FillsKeepTheLimits
    NeverOrdersTwice
    JudgedOnceByThePast
    
PROPERTIES
    FailedReadsAreSpaced
    CallEnds
    KeepsPromise
    FollowedOrderEnds
    EntriesUseRightReadings
