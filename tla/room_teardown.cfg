SPECIFICATION Spec
CONSTANTS
  NoValue = NoValue
  MaxControls = 2
  MaxClients = 1
  MaxGeneration = 2
  MaxAttempts = 1
  MaxFaults = 2
INVARIANTS OrphanRemembered SummaryAtMostOnce RetryFinishes
PROPERTIES ServedHasOneControl MarkerClearedClean
CHECK_DEADLOCK FALSE
