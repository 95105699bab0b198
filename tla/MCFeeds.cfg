SPECIFICATION FeedSpec
CONSTANTS
  Socket = {s1}
  Key = {k1}
  FirstPage = {k1}
  Refresh = {f1, f2}
  Visit = {v1}
  MaxUpdates = 2
INVARIANTS GoneIsForgotten
 
CHECK_DEADLOCK FALSE
