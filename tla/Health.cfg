SPECIFICATION FairSpec
CONSTANTS
    Model = {"gpt", "llama", "other"}
    ProviderOf <- MCProviderOf
    Condition = {"fast", "slow", "transport", "garbled"}
    FastMs = 1
    SlowMs = 4
    Window = 2
    DownAfter = 3
    DegradedPercent = 50
    DegradedMs = 3
    MaxCounter = 4
INVARIANTS
    TypeOK
    CounterMatchesWindow
PROPERTY
    StatusFollowsApi
