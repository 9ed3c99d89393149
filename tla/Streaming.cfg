SPECIFICATION Spec
CONSTANTS
    Plans <- MCPlans
    MaxRetries = 1
    Disclaimer = TRUE
    MaxLines = 3
INVARIANTS
    TypeOK
    NoSplice
    BillCoversDelivery
PROPERTY
    ImplementsGateway
