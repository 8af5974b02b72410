CONSTANTS
    None = None
    ClientIds = {c1, c2}
    Redirects = {web}
    WebRedirect = web
    Registrations = {{web}}
    Verifiers = {}
    States = {s1, s2}
    AtlCodes = {a1, a2}
    Accounts = {alice}
    Sites = {site}
    Codes = {k1, k2}
    Tokens = {}
    BrowserIds = {b1, b2}
    Logins = {f1, f2}
    Sessions = {w1, w2}
    Requests = {r1, r2}
    StateTTL = 2
    CodeTTL = 1
    TokenTTL = 3
    SessionTTL = 4
    ClientTTL = 5
    UserTTL = 6
    MaxClock = 0
    MaxFaults = 1
    MaxDelay = 0
SPECIFICATION Spec
SYMMETRY Symmetry
CHECK_DEADLOCK FALSE
INVARIANTS
    SessionProvenance BrowserLoginOnce
