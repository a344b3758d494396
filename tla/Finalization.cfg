SPECIFICATION FairSpec
CONSTANTS
  Finalizers = {f1, f2}
  Persistence = "owned"
  Stalls = TRUE
  MaxUpdates = 1
  MaxFaults = 3
INVARIANTS LaterTurnKept EffectsOnce ReleasedWithReceipt NoResurrection RenameKept
PROPERTIES JobSpec ClaimSettles
CHECK_DEADLOCK FALSE
