SPECIFICATION FairSpec
CONSTANTS
    Users = {u1, u2, u3}
    Backends = {b1, b2}
    NoBackend = NoBackend
    UsersPerBackend = 2
    ReuseOldBackends = TRUE
    LoginDelay = FALSE
    IdleReconnect = FALSE
    MemoryCollector = FALSE
    ReconnectLimit = 1
    PromptBackends = TRUE
    FailingPhases = {"serving"}
    MaxProcesses = 1
    MaxInFlight = 0
PROPERTIES
    
    EmptyBackendCollected
