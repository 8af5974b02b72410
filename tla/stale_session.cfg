CONSTANTS
    None = None
    Users = {u1}
    Bearers = {t1}
    ToolSets = {x1}
    Grants = {g1}
    Sessions = {s1}
    Requests = {r1}
    Rotating = {g1}
    TokenTTL = 5
    UserTTL = 6
    AccessTTL = 1
    MaxRotations = 2
    MaxClock = 3
    MaxFaults = 0
SPECIFICATION Spec
SYMMETRY Symmetry
CHECK_DEADLOCK FALSE
INVARIANTS
    CallsAuthorised
