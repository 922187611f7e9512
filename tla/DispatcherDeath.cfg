SPECIFICATION FairSpec
CONSTANTS
    Requests = {1, 2}
    MaxNew <- TwoTokens
    CancelLoses = TRUE
    MayAbort = {1}
    MayUnwatch = {}
    StepMayThrow = FALSE
PROPERTIES
    WatchedCompletes
CHECK_DEADLOCK FALSE
