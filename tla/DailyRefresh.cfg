CONSTANTS
    aot = aot
    ptt = ptt
    index = index
    cron = cron
    trigger = trigger
    Runner <- Callers
    Held <- Book
    Universe <- Ranked
    Index = index
    LastDay = 3
    Open <- Sessions
    Late <- LateBars
    Listed <- Mistaken
    Announced <- Closures
    Startups <- Connections
    SamePath = TRUE
    HeldAttempts = 2
    UniverseAttempts = 1
    PostAttempts = 2
    MaxRuns = 2
    MaxFaults = 2
SPECIFICATION Spec
SYMMETRY Alike
CHECK_DEADLOCK FALSE
INVARIANTS
    TypeOK
    RowsAreReal
    FeaturesFollowPrices
PROPERTIES
    FreshCaptureDecides
    CompletedRunReported
    OnlyOverlapRegresses
    BacktestNeverLooksAhead
