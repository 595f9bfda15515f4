CONSTANTS
    a = a
    b = b
    c = c
    Symbol <- Names
    Aum = 60
    Lot = 2
    SectorOf <- Sectors
    SectorMax = 32
    HoldingsMin = 2
    RegimeSafe = 50
    BearFullCash = TRUE
    VolTarget = 15
    VolFloor = 0
    VolCap = 150
    FastBlend = 50
    AdvCap = 10
    MinReturn = 0
    Trigger <- TriggerAt
    Recovery <- RecoveryAt
    ConfirmDays = 3
    SafeEquity = 50
    NaN = NaN
    NoColumn = NoColumn
    NoCurve = NoCurve
    NoMarket = NoMarket
    Markets <- MarketRows
    Qualities <- QualityRows
    Drawdowns <- Readings
    Openings <- Starts
    Fee = 1
    MaxRebalances = 2
SPECIFICATION Spec
INVARIANTS
    TypeOK
    BookWithinLimits
    TradesApproachTarget
    PairingReconciles
    FirstInFirstOut
PROPERTIES
    ReleaseIsConfirmed
    BreakerReleases
