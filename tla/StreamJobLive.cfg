SPECIFICATION FairSpec
CONSTANTS
  Workers = {w1, w2}
  Canceller = canceller
  Entries = {e1}
  Modes = {"stream", "document_ingest"}
  Evictable = {"request", "payload", "abort"}
  MaxFaults = 1
INVARIANT NoReplay
PROPERTY QueuedJobEnds
CHECK_DEADLOCK FALSE
