SPECIFICATION LiveSpec
CONSTANTS
    Partitions = {p1}
    LogEnd = 2
    MaxRebalances = 3
    MaxTriggerFailures = 1
    ErrorFetchHolds = {FALSE}
    NoRecord = NoRecord
PROPERTIES RebalanceRuns PollReturns AssignReachesEngine LoopStops
