SPECIFICATION FairSpec
CONSTANTS
    Caller = {c1, c2, c3, c4}
    Escaping = {c3, c4}
    Threshold = 2
    Cooldown = 2
    MaxTrials = 2
INVARIANTS
    TypeOK
    BoundedProbing
    HalfOpenHasTrial
PROPERTIES
    CooldownNotSkipped
    CircuitRecovers
