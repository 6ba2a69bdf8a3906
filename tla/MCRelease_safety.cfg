SPECIFICATION ReleaseSpec
CONSTANTS
    Partitions = {p1}
    LogEnd = 1
    MaxRebalances = 1
    MaxTriggerFailures = 0
    ErrorFetchHolds = {TRUE, FALSE}
    NoRecord = NoRecord
    Callers = {"drain", "bail", "host"}
    Telemetry = {"none", "ticking"}
INVARIANTS ReleaseTypeOK ReturnedMeansReleased ExclusionUntilForced DeliveryUntilForced RInv
CHECK_DEADLOCK FALSE
