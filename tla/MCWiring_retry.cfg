SPECIFICATION Spec
CONSTANTS
    Topics = {"orders"}
    UserOpts <- MCUserOpts
    CustomOpts <- MCCustomOpts
    OptionLists = {}
    Callers = {c1, c2}
    MaxAttempts = 2
INVARIANTS ConsumerHasLiveClient
CHECK_DEADLOCK FALSE
