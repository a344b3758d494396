SPECIFICATION Spec
CONSTANTS
  Workers = {w1, w2}
  Canceller = canceller
  Entries = {e1, e2}
  Modes = {"stream"}
  Evictable = {"request"}
  MaxFaults = 2
SYMMETRY Symmetry
INVARIANTS NoReplay StopWins NothingLeaks LiveJobQueued
PROPERTY JobSpec
CHECK_DEADLOCK FALSE
