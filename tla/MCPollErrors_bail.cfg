SPECIFICATION Spec
CONSTANTS
    Partitions = {p1}
    Errors = {e1}
    Timeout = Timeout
    BailAfter = 3
    LogEvery = 2
    Backoff = 1
    MaxTime = 4
PROPERTIES BailOnlyAfterContinuousFailure
