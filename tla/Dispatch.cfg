SPECIFICATION FairSpec
CONSTANTS
    small = small
    large = large
    hidden = hidden
    ghost = ghost
    full = full
    narrow = narrow
    r1 = r1
    r2 = r2
    r3 = r3
    Model <- MCModel
    UnknownModel <- MCUnknownModel
    ProviderOf <- MCProviderOf
    FallbackChain <- MCFallbackChain
    Team <- MCTeam
    AllowedModels <- MCAllowedModels
    AllowedProviders <- MCAllowedProviders
    Registered <- MCRegistered
    Req <- MCReq
    TeamOf <- MCTeamOf
    Threshold = 1
    Cooldown = 1
    MaxTrials = 1
    MaxRetries = 1
    Escaping = {r2}
INVARIANTS
    TypeOK
    CallBudget
    FailuresAccountForCandidates
PROPERTIES
    ImplementsBreakers
    EveryDispatchEnds
