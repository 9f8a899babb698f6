CONSTANTS
    None = None
    Roles = {r1, r2}
    MaxCalls = 3
    Desks <- MCDesks
    LoginTries = 2
    ApprovalTries = 2
    CashierTries = 3

SPECIFICATION Spec
CHECK_DEADLOCK FALSE

INVARIANTS
    TypeOK
    CountsLock
    EditsTakeEffect
PROPERTIES
    HeldStaysHeld
    RolesStand
