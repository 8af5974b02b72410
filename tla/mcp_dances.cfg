CONSTANTS
    None = None
    ClientIds = {c1, c2}
    Redirects = {u1, web}
    WebRedirect = web
    Registrations = {{u1}}
    Verifiers = {v1, v2}
    States = {s1, s2}
    AtlCodes = {a1, a2}
    Accounts = {alice, bob}
    Sites = {site}
    Codes = {k1, k2}
    Tokens = {t1}
    BrowserIds = {}
    Logins = {}
    Sessions = {}
    Requests = {r1, r2}
    StateTTL = 2
    CodeTTL = 1
    TokenTTL = 3
    SessionTTL = 4
    ClientTTL = 5
    UserTTL = 6
    MaxClock = 0
    MaxFaults = 1
    MaxDelay = 0
SPECIFICATION Spec
SYMMETRY Symmetry
CHECK_DEADLOCK FALSE
INVARIANTS
    TypeOK BearerProvenance FormGoneOnceAnswered CodeGoneOnceRedeemed
