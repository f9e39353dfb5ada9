\* INSERTs fail, the clock is set back and the process dies at any point;
\* telegrams are partial or repeat a counter.
SPECIFICATION Spec
CONSTANTS
    power = power
    extra = extra
    gas = gas
    RawCounters <- MCOneRaw
    TotalCounters <- MCTotal
    IdOf <- MCIdOf
    Ids <- MCIds
    MinValue = 1
    MaxValue = 2
    Telegrams <- MCAnyTelegrams
    OpenDbs = {"fivemin", "total"}
    FiveMin = 2
    Hour = 4
    TotalInterval = 3
    IntMax = 100
    Epoch = 4
    MaxClock = 7
    MaxTelegrams = 3
    StepBack = 2
    Faults = {"insert", "stepback", "crash"}
INVARIANTS TypeOK AverageInRange Spaced
PROPERTY ImplementsSeries
CHECK_DEADLOCK FALSE
