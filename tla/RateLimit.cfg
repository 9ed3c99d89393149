SPECIFICATION Spec
CONSTANTS
    Client = {c1, c2}
    Limits <- MCLimits
    Minute = 2
    Cost = {1, 3}
    MaxDelay = 2
    InOrder = TRUE
    Horizon = 5
SYMMETRY ClientSymmetry
INVARIANTS
    TypeOK
    WindowBound
    RefusalIsFree
