\* A meter that may fall silent.
SPECIFICATION Spec
CONSTANTS
    Body = 1
    Tags = 3
    QMax = 1
    MaxLines = 1
    ReadModes = {TRUE}
PROPERTY StopsWhenAsked
CHECK_DEADLOCK FALSE
