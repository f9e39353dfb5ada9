\* Every telegram of up to four lines.
SPECIFICATION Spec
CONSTANTS
    Ids <- MCIds
    Values <- MCValues
    GasId = "gas"
    NoId = "none"
    Lines <- MCLines
    Telegrams <- MCTelegrams
    MallocMayFail = TRUE
    MaxLines = 4
INVARIANTS TypeOK ReadsWhatIsThere LeaksOnlyThere
CHECK_DEADLOCK FALSE
