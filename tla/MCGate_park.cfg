SPECIFICATION Spec
CONSTANTS
    Partitions = {p1}
    LogEnd = 1
    MaxRebalances = 2
    MaxTriggerFailures = 0
    ErrorFetchHolds = {TRUE}
    NoRecord = NoRecord
INVARIANTS ParkedLoopHoldsNoGate
