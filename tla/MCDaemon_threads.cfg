\* Up to two tasks; only errors are logged; stop signals at any point.
SPECIFICATION DaemonSpec
CONSTANTS
    MaxTasks <- MCMaxTasks
    Interval <- MCInterval
    NumCmds <- MCNumCmds
    ScanTakesTime = TRUE
    Epoch = 3
    MaxClock = 5
    LogLevel = 1
    Signals = {"SIGTERM", "SIGINT"}
    MaxSignals = 1
INVARIANTS TypeOK FreedAfterUse RunsAllOrHalts NoneOverdue NoLogAfterClose KilledAtRest
PROPERTIES OverdueStarts StopEnds StopHeeded
CHECK_DEADLOCK FALSE
