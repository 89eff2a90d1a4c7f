SPECIFICATION Spec
CONSTANTS
  Backend = "sqlite3"
  Jids = {u, v}
  Names <- MCNames
  Keys <- MCKeys
  Spelled <- MCSpelled
  Lower <- MCLower
  Aliases = {"", "x"}
  Icons = {"i"}
  NoRow = norow
  Null = null
  MaxUserId = 2
  MaxBuddyId = 2
PROPERTY RemovalIsOwn
SYMMETRY Symmetries
CHECK_DEADLOCK FALSE
