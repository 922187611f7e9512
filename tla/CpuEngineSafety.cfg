SPECIFICATION Spec
CONSTANTS
    MaxRequests = 3
    Prompt <- SharedPrompts
    MaxNew <- TwoTokensEach
    Priority <- LaterFirst
    Embedded = {}
    MaxActive = 2
    MaxBatchedTokens = 3
    MaxPrefillBatch = 2
    MaxDecodeBatch = 1
    LongPrefillThreshold = 2
    LongPrefillChunk = 2
    DecodeFirst = TRUE
    CacheEntries = 1
INVARIANTS
    SessionsPinned
    ActiveBound
    MetricsBalance
    PhaseMatchesPrompt
    BudgetCovers
PROPERTY
    ImplementsService
