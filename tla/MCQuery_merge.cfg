\* The whole window or samples, while the daemon records and its clock is set back.
SPECIFICATION Spec
CONSTANTS
    Tables <- MCTables
    Selections <- MCSelections
    Skips = {0, 1}
    Window = 1
    TimeOfs = 1
    MaxInt = 100
    Epoch = 4
    MaxClock = 6
    MaxRows = 3
INVARIANTS TypeOK Paired PrintsWindow RangeSpans
PROPERTY Ends
CHECK_DEADLOCK FALSE
