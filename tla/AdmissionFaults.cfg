SPECIFICATION Spec
CONSTANTS
  Jobs = {j1, j2}
  Conversations = {c1}
  Conv <- OneConversation
  MaxActive = 2
  Stoppable = {j1, j2}
  Slow = TRUE
  MaxFaults = 1
SYMMETRY Symmetry
INVARIANTS OneTurnAtATime StopBeforeQueue FailureLeavesNothing
PROPERTY DiscardedNeverRuns
CHECK_DEADLOCK FALSE
