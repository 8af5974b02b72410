CONSTANTS
    None = None
    ClientIds = {c1, c2}
    Redirects = {web}
    WebRedirect = web
    Registrations = {{web}}
    Verifiers = {v1}
    States = {s1, s2}
    AtlCodes = {a1, a2}
    Accounts = {alice}
    Sites = {site}
    Codes = {k1}
    Tokens = {t1}
    BrowserIds = {b1}
    Logins = {f1}
    Sessions = {w1}
    Requests = {r1}
    StateTTL = 3
    CodeTTL = 2
    TokenTTL = 2
    SessionTTL = 4
    ClientTTL = 5
    UserTTL = 6
    MaxClock = 6
    MaxFaults = 0
    MaxDelay = 1
SPECIFICATION Spec
SYMMETRY Symmetry
CHECK_DEADLOCK FALSE
INVARIANTS
    NoDanglingUser BrowserIsolation BearerProvenance
