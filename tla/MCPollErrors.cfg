SPECIFICATION Spec
CONSTANTS
    Partitions = {p1, p2}
    Errors = {e1, e2}
    Timeout = Timeout
    BailAfter = 3
    LogEvery = 2
    Backoff = 1
    MaxTime = 5
SYMMETRY Symmetry
INVARIANTS PollErrorsTypeOK StreaksMatchHistory NoFailureHidden StuckPartitionBails
PROPERTIES BailNeedsObservedStreak
