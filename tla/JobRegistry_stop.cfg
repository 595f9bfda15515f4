SPECIFICATION Spec
CONSTANTS
    r1 = r1
    r2 = r2
    b1 = b1
    NoJob = NoJob
    Job <- Jobs
    KindOrder <- Kinds
    KindOf <- KindOfJob
    MaxFaults = 1
    MaxDeaths = 0
INVARIANT
    ShutdownWaitsForAll
CHECK_DEADLOCK FALSE
