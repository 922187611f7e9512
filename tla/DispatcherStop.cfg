SPECIFICATION Spec
CONSTANTS
    Requests = {1, 2}
    MaxNew <- TwoTokens
    CancelLoses = TRUE
    MayAbort = {1}
    MayUnwatch = {}
    StepMayThrow = FALSE
CHECK_DEADLOCK FALSE
INVARIANT StopStops
