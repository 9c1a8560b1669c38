SPECIFICATION MemorySpec
CONSTANTS
    Consumers = {c1, c2}
    MaxPublished = 3
    MaxStops = 2
CHECK_DEADLOCK FALSE
INVARIANTS
    CrashLosesNothing
