SPECIFICATION FairSpec
CONSTANTS
  Jobs = {j1, j2, j3}
  Conversations = {c1, c2}
  Conv <- TwoConversations
  MaxActive = 1
  Stoppable = {}
  Slow = FALSE
  MaxFaults = 1
INVARIANT CapKept
PROPERTY EventuallyFree
CHECK_DEADLOCK FALSE
