SPECIFICATION FairSpec
CONSTANTS
    Workers = {w1, w2}
    Tasks = {t1, t2, t3, t4}
    Depth = 2
    NoTask = none
INVARIANTS
    TypeOK
    HandedOnce
    NoTaskWaitsAlone
PROPERTIES
    BlockedAreServed
    AcceptedAreRun
    JoinsUnlessDozing
CHECK_DEADLOCK FALSE
