SPECIFICATION FairSpec
CONSTANTS
    Calls = {c1, c2, c3, c4, c5}
    Slots = {s1, s2}
    Experts = {e1, e2, e3}
    c1 = c1
    c2 = c2
    c3 = c3
    c4 = c4
    c5 = c5
    e1 = e1
    e2 = e2
    e3 = e3
    Want <- SomeShared
    NoExpert = none
    NoCall = nobody
    NoSlot = nowhere
INVARIANTS
    LeaseKeepsBytes
    RefsAccount
    NeverRaces
    LoadedOnce
    ReadOrEvicted
PROPERTIES
    CallsEnd
CHECK_DEADLOCK FALSE
