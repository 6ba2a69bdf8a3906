SPECIFICATION ReleaseLiveSpec
CONSTANTS
    Partitions = {p1}
    LogEnd = 1
    MaxRebalances = 1
    MaxTriggerFailures = 0
    ErrorFetchHolds = {TRUE, FALSE}
    NoRecord = NoRecord
    Callers = {"drain", "bail"}
    Telemetry = {"ticking"}
PROPERTIES UnsubscribeTerminates FetchLoopEnds
CHECK_DEADLOCK FALSE
