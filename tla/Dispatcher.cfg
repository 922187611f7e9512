SPECIFICATION FairSpec
CONSTANTS
    Requests = {1, 2}
    MaxNew <- TwoTokens
    CancelLoses = TRUE
    MayAbort = {1, 2}
    MayUnwatch = {2}
    StepMayThrow = TRUE
INVARIANTS
    NothingLost
    OnlyAbortsThrow
PROPERTIES
    SilentAfterCancel
    FinishedIsComplete
    AbortedIsReleased
    WatchedEnds
CHECK_DEADLOCK FALSE
