CONSTANTS
    Clients = {k1, k2}
    Calls = {c1, c2}
    Cost = 2
    Burst = 2
    IdleLimit = 4
    EvictSize = 1
    DropSize = 1
    MaxDelay = 1
    MaxClock = 7
    MaxGiven = 3
SPECIFICATION Spec
SYMMETRY Symmetry
INVARIANTS
    TypeOK
    RateBound
PROPERTIES
    IdleAdmitted
