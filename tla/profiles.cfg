CONSTANTS
    None = None
    Missing = Missing
    Cut = Cut
    Hosts = {"h1"}
    Sites <- MCSites
    Settings = {s1}
    Clients = {json, codex}
    TextFiles = {codex}
    Installed = {codex}
    Servers = {other}
    Offers <- MCOffers
    Words = {"a", "2", "old", "1"}
    NumberOf <- MCNumberOf
    Pieces = {"u1"}
    MaxPieces = 3
    MaxRuns = 2
    MaxWrites = 2
SPECIFICATION CommandsSpec
CHECK_DEADLOCK FALSE
INVARIANTS
    TypesOK
    ConnectionsKept
    ClientsServed
    SelectionDone
    OthersKept
    UserTextKept
