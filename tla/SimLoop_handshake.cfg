CONSTANTS
    buy = buy
    sell = sell
    Orders <- OrderList
    Quantity <- Shares
    Side <- Sides
    Held <- Position
    MaxAttempts = 2
    Immediate = FALSE
    MaxFaults = 0
SPECIFICATION Spec
CHECK_DEADLOCK FALSE
INVARIANT GuaranteedByGet
