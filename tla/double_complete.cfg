CONSTANTS
    None = None
    ClientIds = {c1}
    Redirects = {u1, web}
    WebRedirect = web
    Registrations = {{u1}}
    Verifiers = {v1}
    States = {s1}
    AtlCodes = {a1}
    Accounts = {alice}
    Sites = {site}
    Codes = {k1, k2}
    Tokens = {}
    BrowserIds = {}
    Logins = {}
    Sessions = {}
    Requests = {r1, r2}
    StateTTL = 2
    CodeTTL = 1
    TokenTTL = 3
    SessionTTL = 4
    ClientTTL = 5
    UserTTL = 6
    MaxClock = 0
    MaxFaults = 0
    MaxDelay = 0
SPECIFICATION Spec
SYMMETRY Symmetry
CHECK_DEADLOCK FALSE
INVARIANTS
    FormAnsweredOnce
