SPECIFICATION Spec
CONSTANTS
  Backend = "mysql"
  Jids = {u, v}
  Names <- MCNames
  Keys <- MCKeys
  Spelled <- MCSpelled
  Lower <- MCLower
  Aliases = {"", "x"}
  Icons = {"i"}
  NoRow = norow
  Null = null
  MaxUserId = 2
  MaxBuddyId = 2
INVARIANTS
    DelayedWorkIsPending
    RowsAreOwn
    MergeIsJoin
PROPERTIES
    RemovalIsOwn
    
SYMMETRY Symmetries
CHECK_DEADLOCK FALSE
