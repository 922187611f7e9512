SPECIFICATION FairSpec
CONSTANTS
    MaxRequests = 3
    Prompt <- GrowingPrompts
    MaxNew <- FourTokens
    Priority <- ByAge
    Embedded = {}
    Lanes = 2
    MaxBatchedTokens = 3
    PrefillChunk = 3
    GuaranteedNoEvict = FALSE
    NumPages = 4
    PageTokens = 2
    CacheEntries = 1
INVARIANT
    BatchHasPages
PROPERTY
    EndsUnlessWedged
