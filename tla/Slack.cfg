SPECIFICATION Spec
CONSTANTS
  MAX_THREADS = 1
  NoJob = nojob
  MainChannel = main
  RoomChannels = {room}
  Existing = {main}
  States = {state}
  MaxSessions = 2
  MaxJobs = 1
  MaxFaults = 1
  Null = null
INVARIANTS
    
    NothingStalls
    SessionOwned
CHECK_DEADLOCK FALSE
