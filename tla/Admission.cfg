SPECIFICATION FairSpec
CONSTANTS
    Req = {r1, r2, r3, r4}
    MaxConcurrent = 2
INVARIANTS
    TypeOK
    SlotConservation
    NoIdleSlotWhileWaiting
PROPERTIES
    NoOvertaking
    ImplementsPrioritySemaphore
    EveryWaiterLeavesQueue
