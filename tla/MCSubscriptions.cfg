SPECIFICATION Spec
CONSTANTS
  Code = {c1, c2}
  PaidPlan = {starter, pro}
  Handler = {h1, h2}
  None = None
  MaxEvents = 4
  MaxPeriod = 2
  Period = {1}
  ATTEMPTS = 1
INVARIANTS  EndedIsFree 
CHECK_DEADLOCK FALSE
SYMMETRY Symmetry
