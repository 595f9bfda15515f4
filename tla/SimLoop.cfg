CONSTANTS
    buy = buy
    sell = sell
    Orders <- OrderList
    Quantity <- Shares
    Side <- Sides
    Held <- Position
    MaxAttempts = 2
    Immediate = FALSE
    MaxFaults = 2
SPECIFICATION FairSpec
CHECK_DEADLOCK FALSE
INVARIANTS
    TypeOK
    AheadOnlyAfterTimeout
    SettledIsComplete
PROPERTY
    LoopEnds
