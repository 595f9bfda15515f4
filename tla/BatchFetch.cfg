CONSTANTS
    aot = aot
    ptt = ptt
    banpu = banpu
    Symbol <- Held
    Concurrency = 2
    BatchAttempts = 3
    FetchAttempts = 2
SPECIFICATION Spec
CHECK_DEADLOCK FALSE
INVARIANT TypeOK
PROPERTY ImplementsPhase
