SPECIFICATION Spec
CONSTANTS
  x1 = x1
  x2 = x2
  Row = {x1, x2}
  Odd = {x2}
  createdAt <- OneAfterTheOther
  pageSize = 1
  Reader = {r1, r2}
  MaxChanges = 1
INVARIANTS TotalAgrees AnswersTheQuestion 
CHECK_DEADLOCK FALSE
