SPECIFICATION Spec
CONSTANTS
    Admin = {a1, a2}
    Chat = {c1}
    Field = {"budget", "priority"}
    Value = {"null"}
    MaxEntries = 2
    MayFail = TRUE
    MaxCalls = 3
SYMMETRY AdminSymmetry
INVARIANTS
    TypeOK
    SequentialCallsAgree
    LogBounded
    AuditNeverLies
