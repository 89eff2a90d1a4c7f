SPECIFICATION Spec
CONSTANTS
  Users = {u1}
  Sessions = {x1, x2, x3}
  Addresses = {a1, a2}
  Passwords = {right, wrong}
  Accepted = {right}
  Null = null
  Admins = {}
  AdminPassword = right
  Unregistered = {}
  Disabled = {}
  StayConnected = {}
  RetryLimit = 1
  MaxFailures = 1
SYMMETRY Symmetries
INVARIANTS
    LoginAnswered
    SessionUsable
    SessionsMatchUser
CHECK_DEADLOCK FALSE
