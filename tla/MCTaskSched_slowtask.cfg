\* Only commands take time: what goes wrong goes wrong behind a slow command.
SPECIFICATION Spec
CONSTANTS
    MaxTasks = 2
    Interval <- MCInterval
    NumCmds <- MCNumCmds
    ScanTakesTime = FALSE
    Epoch = 4
    MaxClock = 9
PROPERTY StartsApart
CHECK_DEADLOCK FALSE
