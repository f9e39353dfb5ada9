\* Samples across a gap.
SPECIFICATION Spec
CONSTANTS
    Tables <- MCTables
    Selections <- MCSelections
    Skips = {1}
    Window = 1
    TimeOfs = 1
    MaxInt = 100
    Epoch = 4
    MaxClock = 6
    MaxRows = 3
INVARIANT SamplesApart
CHECK_DEADLOCK FALSE
