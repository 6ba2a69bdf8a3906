SPECIFICATION LiveSpec
CONSTANTS
    Topics = {"orders"}
    UserOpts <- MCUserOpts
    CustomOpts <- MCCustomOpts
    OptionLists <- MCOptionLists
    Callers = {c1, c2}
    MaxAttempts = 3
INVARIANTS WiringTypeOK NoClientLeaked RequiredConfigEnforced OptionsHonoured
PROPERTIES OnlyOpenerCloses UnsubscribeEnds
CHECK_DEADLOCK FALSE
