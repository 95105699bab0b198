SPECIFICATION Spec
CONSTANTS
  e1 = e1
  e2 = e2
  Endpoint = {e1, e2}
  Kind = {"skipped"}
  Subscribed <- SubscribedHere
  MAX_ENDPOINTS = 1
  Attempts = 2
  Request = {r1, r2}
  MaxBegun = 2
  MaxRetries = 1
  MaxStalls = 1
INVARIANTS EndpointLimit AcceptedAgainOnlyAfterLoss SwitchedOffGoesQuiet
PROPERTY EveryJobEnds
CHECK_DEADLOCK FALSE
