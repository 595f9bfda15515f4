CONSTANTS
    aot = aot
    ptt = ptt
    index = index
    cron = cron
    trigger = trigger
    Runner <- Callers
    Held <- Book
    Universe <- Ranked
    Index = index
    LastDay = 3
    Open <- Sessions
    Late <- LateBars
    Listed <- Mistaken
    Announced <- Closures
    Startups <- AllConnected
    SamePath = FALSE
    HeldAttempts = 1
    UniverseAttempts = 1
    PostAttempts = 1
    MaxRuns = 1
    MaxFaults = 0
SPECIFICATION Spec
CHECK_DEADLOCK FALSE
PROPERTY BankedClosureIsSkipped
