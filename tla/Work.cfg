SPECIFICATION Spec
CONSTANTS
  Batches = {"b1", "b2"}
  Refs <- MCRefs
  Target <- MCTarget
  Owner <- MCOwner
  Shared = {"nvidia"}
  Concurrency = 2
  MaxBatch = 2
  MaxRetries = 1
  Runs = {"r1", "r2"}
  Tools = {"connect", "skill", "remote"}
  Connectors = {"connect"}
  Remote = {"remote"}
  Skills = {"skill"}
  Capacity = 1
  Tombstones = 1
  QueueSize = 1
  MaxEvents = 1
  MaxCalls = 1
  Goals = {1, 2}
  Priority <- MCPriority
  Cadence <- MCCadence
  MaxRuns = 3
  Slots = {1}
  MaxAge = 6
INVARIANTS IngestSafe ReleasedStaysGone
PROPERTIES BatchesEnd StreamsEnd GoalsRotate
CHECK_DEADLOCK FALSE
