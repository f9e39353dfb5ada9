\* Complete telegrams, every database open, clean restarts.
SPECIFICATION Spec
CONSTANTS
    power = power
    extra = extra
    gas = gas
    RawCounters <- MCRaw
    TotalCounters <- MCTotal
    IdOf <- MCIdOf
    Ids <- MCIds
    MinValue = 1
    MaxValue = 2
    Telegrams <- MCCompleteTelegrams
    OpenDbs = {"raw", "fivemin", "hourly", "total"}
    FiveMin = 2
    Hour = 4
    TotalInterval = 3
    IntMax = 100
    Epoch = 4
    MaxClock = 8
    MaxTelegrams = 4
    StepBack = 2
    Faults = {"restart"}
INVARIANTS Conserved NeverStale Aligned Chronological
PROPERTY ImplementsSeries
CHECK_DEADLOCK FALSE
