\* Any number of runs of the tool, failing and killed, beside the daemon.
SPECIFICATION Spec
CONSTANTS
    Configurations <- MCConfigurations
    Paths = {"raw", "hourly", "totals"}
INVARIANTS TypeOK FinishedIsComplete WholeOrAbsent SchemaAgrees
PROPERTY KeepsReadings
