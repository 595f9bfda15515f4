CONSTANTS
    buy = buy
    sell = sell
    Orders <- OrderList
    Quantity <- Shares
    Side <- Sides
    Held <- Position
    MaxAttempts = 2
    Immediate = TRUE
    MaxFaults = 1
SPECIFICATION Spec
CHECK_DEADLOCK FALSE
INVARIANT NeverCountsTwice
