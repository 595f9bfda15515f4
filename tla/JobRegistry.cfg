SPECIFICATION FairSpec
CONSTANTS
    r1 = r1
    r2 = r2
    b1 = b1
    NoJob = NoJob
    Job <- Jobs
    KindOrder <- Kinds
    KindOf <- KindOfJob
    MaxFaults = 2
    MaxDeaths = 2
INVARIANTS
    TypeOK
    OneJobPerKind
    RunnerEnteredOnce
    FifoPerKind
    AckedCancelIsFinal
    DiskLagsByOneStep
    NoJobForgotten
    ShutdownLeavesNoWorker
PROPERTIES
    SettledIsFinal
    ImplementsService
    QueuedJobsSettle
    ShutdownEnds
CHECK_DEADLOCK FALSE
