SPECIFICATION FilesSpec
CONSTANTS
  User = {u}
  Admin = {a}
  Logo = {l}
  Proof = {d}
  Request = {r1, r2}
  Attempts = 1
  MaxBegun = 2
  MaxFaults = 1
INVARIANTS FileInUseStays
PROPERTY OrphanGoes
CHECK_DEADLOCK FALSE
