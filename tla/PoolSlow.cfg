SPECIFICATION Spec
SYMMETRY Symmetry
CONSTANTS
    Users = {u1, u2}
    Backends = {b1, b2}
    NoBackend = NoBackend
    UsersPerBackend = 2
    ReuseOldBackends = FALSE
    LoginDelay = FALSE
    IdleReconnect = TRUE
    MemoryCollector = FALSE
    ReconnectLimit = 1
    PromptBackends = FALSE
    FailingPhases = {"start", "fresh", "serving"}
    MaxProcesses = 1
    MaxInFlight = 0
INVARIANTS
    AssociationOK
    QueueOK
    MovedFromShortRun
CHECK_DEADLOCK FALSE
