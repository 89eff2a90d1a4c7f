SPECIFICATION FairSpec
CONSTANTS
    Users = {u1}
    Resources = {1, 2}
    Addresses = {a1, a2}
    Null = Null
    Priorities = {0, 1}
    Strays <- Unsubscriptions
    StayConnected = {}
    Refused = {}
    AutoRegister = TRUE
    ReconnectAll = TRUE
    ReplacesRow = TRUE
    LinkMayFail = TRUE
INVARIANTS
    OracleExact
PROPERTIES
    ScheduledWhenOffline
    OfflineUserRemoved
