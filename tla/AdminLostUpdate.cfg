SPECIFICATION Spec
CONSTANTS
    Admin = {a1, a2}
    Chat = {}
    Field = {"budget", "priority"}
    Value = {"v"}
    MaxEntries = 2
    MayFail = FALSE
    MaxCalls = 2
SYMMETRY AdminSymmetry
PROPERTY OmittedFieldsKept
