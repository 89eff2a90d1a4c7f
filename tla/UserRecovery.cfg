SPECIFICATION FairSpec
CONSTANTS
    Users = {u1, u2}
    Resources = {1}
    Addresses = {a1, a2}
    Null = Null
    Priorities = {0}
    Strays <- AllStrays
    StayConnected = {u2}
    Refused = {}
    AutoRegister = FALSE
    ReconnectAll = FALSE
    ReplacesRow = FALSE
    LinkMayFail = FALSE
INVARIANTS
    NoStalledLogin
    RecoveryCovers
PROPERTIES
    OnlineUserRestored
