SPECIFICATION Spec
CONSTANTS
    MaxRequests = 4
    Prompt <- SharedPrompts
    MaxNew <- TwoTokensFirst
    Priority <- ThirdFirst
    Embedded = {4}
    Lanes = 2
    MaxBatchedTokens = 3
    PrefillChunk = 2
    GuaranteedNoEvict = TRUE
    NumPages = 4
    PageTokens = 2
    CacheEntries = 2
INVARIANTS
    PagesAccount
    WritesAlone
    BatchHasPages
PROPERTY
    ImplementsService
