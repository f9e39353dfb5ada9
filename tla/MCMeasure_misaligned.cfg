\* A telegram lacks one counter.
SPECIFICATION Spec
CONSTANTS
    power = power
    extra = extra
    gas = gas
    RawCounters <- MCRaw
    TotalCounters <- MCTotal
    IdOf <- MCIdOf
    Ids <- MCIds
    MinValue = 1
    MaxValue = 2
    Telegrams <- MCIncompleteTelegrams
    OpenDbs = {"raw", "fivemin", "hourly", "total"}
    FiveMin = 2
    Hour = 4
    TotalInterval = 3
    IntMax = 100
    Epoch = 4
    MaxClock = 8
    MaxTelegrams = 3
    StepBack = 2
    Faults = {}
INVARIANTS Aligned
CHECK_DEADLOCK FALSE
