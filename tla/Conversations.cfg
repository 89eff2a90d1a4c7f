SPECIFICATION Spec
CONSTANTS
    Resources = {a, b}
    a = a
    b = b
    Rooms = {"room"}
    Buddies = {"bob"}
    Nicks = {"bob", "me"}
    MaxCached = 1
    MaxConvs = 2
    Null = Null
SYMMETRY Symmetries
INVARIANTS
    
    
    EveryClientHears
PROPERTIES
    RoomsAreRejoined
CHECK_DEADLOCK FALSE
