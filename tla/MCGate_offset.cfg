SPECIFICATION Spec
CONSTANTS
    Partitions = {p1}
    LogEnd = 2
    MaxRebalances = 3
    MaxTriggerFailures = 0
    ErrorFetchHolds = {FALSE}
    NoRecord = NoRecord
INVARIANTS ReportedOffsetIsCommitted
