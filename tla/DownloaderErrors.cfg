SPECIFICATION Spec
CONSTANTS
    NumFiles = 3
    Size <- ThreeSizes
    Wanted = {2}
    Leftovers = 1
    Attempts = 2
    ErrorPages = TRUE
    MaxFaults = 2
INVARIANT
    BlobsAreWhole
