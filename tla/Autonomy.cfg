SPECIFICATION FairSpec
CONSTANTS
  Workers = {w1, w2}
  Requests = {r1, r2, bad}
  Scheduled = {r2}
  Poison = {bad}
  MaxDepth = 2
  MaxArrivals = 2
  MaxEdits = 1
  MaxFaults = 1
INVARIANTS DispatchedOnce RequestsKept
PROPERTIES NoStaleOutput RequestsSettle
CHECK_DEADLOCK FALSE
