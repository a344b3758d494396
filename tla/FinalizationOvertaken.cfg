SPECIFICATION Spec
CONSTANTS
  Finalizers = {f1, f2}
  Persistence = "owned"
  Stalls = TRUE
  MaxUpdates = 0
  MaxFaults = 1
INVARIANT LaterTurnAlwaysKept
CHECK_DEADLOCK FALSE
