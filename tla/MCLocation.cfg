SPECIFICATION FairSpec
CONSTANTS
  Place = {0, 4}
  MaxTime = 2
  Request = {r1}
  Job = {j1}
  Dashboard = {d1}
  None = None
  MAX_PLAUSIBLE_SPEED = 1
  CONFIRM_RADIUS = 1
  LARGE_GAP_THRESHOLD = 3
  HEARTBEAT_INTERVAL = 0
  ETA_MAX_AGE = 0
  ATTEMPTS = 3
PROPERTIES  JumpsAreConfirmed EveryPositionIsSent
CHECK_DEADLOCK FALSE
