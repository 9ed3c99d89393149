SPECIFICATION Spec
CONSTANTS
    Task = {t1, t2}
    Cap <- MCCap
    Length <- MCLength
    TTL <- MCTTL
    Cost = {0, 1, 2}
    MaxCost = 2
    LastDay = 3
SYMMETRY TaskSymmetry
CHECK_DEADLOCK FALSE
INVARIANTS
    TypeOK
    OvershootBounded
    RunningTotalKept
    MonthMatchesDays
    TotalsExpire
