SPECIFICATION Spec
CONSTANTS
  Seat = {s1, s2}
  Email = {e}
  To <- ToOne
  Role = {"SUPER_ADMIN"}
  Request = {r1, r2}
  MaxBegun = 4
INVARIANTS EntryTellsRow RemovedStaysOut AccountHasAdmin
PROPERTY StaleEntryEnds
CHECK_DEADLOCK FALSE
