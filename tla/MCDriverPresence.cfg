SPECIFICATION FairPresence
CONSTANTS
  Socket = {s1, s2}
  Server = {v1, v2}
  Nobody = Nobody
  GRACE = 1
  TTL = 3
INVARIANTS OnlineWhileConnected
PROPERTIES GoneIsOffline GoneIsAnnounced
CHECK_DEADLOCK FALSE
