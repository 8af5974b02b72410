CONSTANTS
    None = None
    Users = {u1}
    Bearers = {t1}
    ToolSets = {x1}
    Grants = {g1, g2}
    Sessions = {s1}
    Requests = {r1, r2}
    Rotating = {g1}
    TokenTTL = 2
    UserTTL = 3
    AccessTTL = 0
    MaxRotations = 2
    MaxClock = 3
    MaxFaults = 1
SPECIFICATION Spec
SYMMETRY Symmetry
CHECK_DEADLOCK FALSE
INVARIANTS
    TypeOK
    RefreshTokenKept
    RefreshSerialised
