SPECIFICATION Spec
CONSTANTS
    PurpleUsers = {u, v}
    PurpleAccounts = {x}
    PurpleBuddies = {b}
    RoomNames = {"R", "r"}
    LowerRoom <- MCLowerRoom
    MaxRequests = 1
    NoUser = nouser
    Null = null
    MaxInTransit = 2
    Jids = {"j"}
    Channels = {"c"}
    BackendIds = {1}
    WebUsers = {w, adm}
    Administrator = adm
    Sessions = {1}
    Nobody = nobody
    ConfigJids = {"a", "b"}
    ConfigPorts = {"1", "2"}
    ConfigValues = {"v"}
    Absent = absent
    Instances = {"a", "b"}
    MaxPid = 6
    Patience = 1
    CapsClients = {"c", "d"}
    MaxLogins = 4
    MaxDbFaults = 2
    IrcUsers = {u}
    IrcChannels = {"a", "b"}
    IrcServers = {"s", "t"}
    IrcRooms <- MCIrcRooms
    IrcNicks = {n, o}
    MaxJoins = 2
    NoIrcSession = nosession
    Direct = direct
    UserIds = {1, 2}
    ContactIds = {3}
    OwnIds = {4}
    UserResources = {"ra", "rb"}
    ContactResources = {"ca", "cb"}
    NoResource = "none"
    MaxWire = 2
    SMSUsers = {"a", "b"}
    SMSNumbers = {"1"}
    SMSAliases = {"", "x"}
    MaxSMS = 2
    MaxForwards = 2
    Players = {"a", "b"}
    Stories = {"g"}
    NoGame = nogame
    MaxTurns = 2
    MaxStarts = 2
    RegJids = {"j", "k"}
    LegacyNames = {"n"}
    Resources = {"ra"}
    NoAccount = norow
    NoName = noname
    DefaultSetting = FALSE
    MaxUserId = 3
    MaxAsks = 2
    VClients = {"c", "d"}
    MaxQueries = 3
    DiscoRooms = {"a", "b"}
    DiscoUsers = {"u"}
    Nowhere = nowhere
    MaxRooms = 1
    MaxListed = 3
    BuddyShows = {"none", "online", "away"}
    IconHashes = {"", "i"}
    BuddyClients = {"c", "d"}
    RawResources = {"r", "s"}
    NoBuddy = nobuddy
    BuddyAliases = {"x", "y"}
    Unset = unset
    MaxCrossing = 2
    Words = {"t"}
    Urls = {"u", "v"}
    NoXHTML = noxhtml
    MaxParts = 4
    OccClients = {"c", "d"}
    OccNicks = {"m", "n"}
    NoRoom = noroom
INVARIANTS
    
    LinkWorks
    
    
    
    
    
    
CHECK_DEADLOCK FALSE
