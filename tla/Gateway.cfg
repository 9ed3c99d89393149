SPECIFICATION GatewayFairSpec
CONSTANTS
    Req = {r1, r2, r3}
    MaxConcurrent = 2
    Hanging = {r1}
INVARIANTS
    GatewayTypeOK
    ProviderLoadBounded
    SlotHeldWhileServing
    AccountedFor
PROPERTY
    EveryRequestEnds
