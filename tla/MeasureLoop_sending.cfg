\* A meter that keeps sending, a line that is noisy for a while, signals at any point.
SPECIFICATION SpecSending
CONSTANTS
    Body = 1
    Tags = 3
    QMax = 3
    MaxLines = 3
    ReadModes = {TRUE, FALSE}
INVARIANTS TypeOK Whole NoUseAfterFree AtMostOneLate
PROPERTIES  Recovers StopsWhenAsked HangUpEnds KeepsMeasuring
CHECK_DEADLOCK FALSE
