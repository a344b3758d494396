SPECIFICATION Spec
CONSTANTS
  Jobs = {j1, j2}
  Conversations = {c1}
  Conv <- OneConversation
  MaxActive = 2
  Stoppable = {}
  Slow = TRUE
  MaxFaults = 0
PROPERTY SlowNeverRuns
CHECK_DEADLOCK FALSE
