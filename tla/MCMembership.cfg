SPECIFICATION Spec
CONSTANTS
  Person = {p1, p2}
  Founder = p1
  Request = {r1, r2}
  Limit = 2
  MaxRows = 3
  MaxClashed = 0
  MaxShared = 1
  MaxFailed = 0
INVARIANTS CountIsRows OneOwner LoginFollowsStatus BusyDriverStays
CHECK_DEADLOCK FALSE
SYMMETRY Symmetry
