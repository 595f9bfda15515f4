CONSTANTS
    MaxAttempts = 2
    MaxHooks = 2
SPECIFICATION Spec
CHECK_DEADLOCK FALSE
INVARIANTS
    TypeOK
    OnlyLateCopiesRegress
PROPERTIES
    HookRunsThrough
    TeardownCompletes
