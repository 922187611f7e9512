SPECIFICATION FairSpec
CONSTANTS
    NumFiles = 3
    Size <- ThreeSizes
    Wanted = {2}
    Leftovers = 1
    Attempts = 2
    ErrorPages = FALSE
    MaxFaults = 2
INVARIANTS
    BlobsAreWhole
    ResolvedIsLinked
PROPERTY
    Completes
