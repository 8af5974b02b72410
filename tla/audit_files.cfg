CONSTANTS
    None = None
    Procs = {p1, p2}
    Slots = {i1}
    Events = {e1, e2}
    Limits = {1}
    Retention = 2
    Interval = 1
    Identities = {u1, u2}
    Capacity = 1
    Drift = 1
    MaxClock = 2
    MaxFaults = 1
SPECIFICATION FairSpec
CHECK_DEADLOCK FALSE
INVARIANTS
    TypeOK
    ListComplete
    NoLeftovers
    CallsAudited
    PagesRight
PROPERTIES
    CallsReturn
    FileImplementsLog
    ImplementsAuditLog
