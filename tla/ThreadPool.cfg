SPECIFICATION FairSpec
CONSTANTS
    Workers = {w1, w2}
    Caller = caller
    Loops <- CallsOfAllKinds
INVARIANTS
    RanOnce
    NoStragglers
    NeverTerminates
PROPERTIES
    CallReturns
    PoolEnds
CHECK_DEADLOCK FALSE
