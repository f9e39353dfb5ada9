\* The default log level: the handler of a stop signal logs too.
SPECIFICATION DaemonSpec
CONSTANTS
    MaxTasks <- MCMaxTasks
    Interval <- MCInterval
    NumCmds <- MCNumCmds
    ScanTakesTime = TRUE
    Epoch = 3
    MaxClock = 5
    LogLevel = 3
    Signals = {"SIGTERM"}
    MaxSignals = 1
PROPERTY StopHeeded
CHECK_DEADLOCK FALSE
