SPECIFICATION WorkerFairSpec
CONSTANTS
    MaxRequests = 2
    Prompt <- PairPrompts
    MaxNew <- PairNew
    Priority <- PairPriority
    Embedded = {1}
    MaxActive = 2
    MaxBatchedTokens = 2
    MaxPrefillBatch = 1
    MaxDecodeBatch = 1
    LongPrefillThreshold = 2
    LongPrefillChunk = 1
    DecodeFirst = FALSE
    CacheEntries = 1
    Callers = 2
PROPERTIES
    AcceptedEnds
    DestructorReturns
CHECK_DEADLOCK FALSE
