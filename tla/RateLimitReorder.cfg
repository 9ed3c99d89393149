SPECIFICATION Spec
CONSTANTS
    Client = {c1, c2, c3}
    Limits <- MCOneLimit
    Minute = 2
    Cost = {1, 3}
    MaxDelay = 2
    InOrder = FALSE
    Horizon = 4
SYMMETRY ClientSymmetry
INVARIANT WindowBound
