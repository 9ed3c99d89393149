SPECIFICATION GatewaySpec
CONSTANTS
    Req = {r1, r2}
    MaxConcurrent = 1
    Hanging = {}
INVARIANT SlotComesBack
