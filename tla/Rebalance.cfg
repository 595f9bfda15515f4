CONSTANTS
    a = a
    b = b
    c = c
    d = d
    Symbol <- Stocks
    Columns <- Priced
    Sector <- SectorOf
    Scales <- ScaledBy
    Periods = 4
    Every = 2
    MinHoldings = 1
    MaxHoldings = 2
    BufferPct = 50
    FloorPct = 35
    CapPct = 50
    RsMode = "entry_only"
    HasIndex = TRUE
    SafePct = 20
    BearFullCash = TRUE
SPECIFICATION Spec
CHECK_DEADLOCK FALSE
INVARIANTS
    TypeOK
    BookIsConsistent
    HoldingKept
    BestEntrants
