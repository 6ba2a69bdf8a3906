SPECIFICATION Spec
CONSTANTS
    Partitions = {p1, p2}
    LogEnd = 2
    MaxRebalances = 3
    MaxTriggerFailures = 1
    ErrorFetchHolds = {TRUE, FALSE}
    NoRecord = NoRecord
SYMMETRY Symmetry
INVARIANTS TypeOK GateExclusion CommitBeforeRelease NoRecordLost AssignBeforeRecord PollNeverParks GateOpenAfterExit IInv
PROPERTIES RefinesHandoff
