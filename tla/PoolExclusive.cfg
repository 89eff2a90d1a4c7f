SPECIFICATION Spec
SYMMETRY Symmetry
CONSTANTS
    Users = {u1, u2}
    Backends = {b1, b2}
    NoBackend = NoBackend
    UsersPerBackend = 1
    ReuseOldBackends = TRUE
    LoginDelay = TRUE
    IdleReconnect = FALSE
    MemoryCollector = TRUE
    ReconnectLimit = 1
    PromptBackends = TRUE
    FailingPhases = {}
    MaxProcesses = 1
    MaxInFlight = 1
INVARIANTS
    CapacityOK
PROPERTIES
    NoSecondUser
CHECK_DEADLOCK FALSE
