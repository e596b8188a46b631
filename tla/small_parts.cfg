SPECIFICATION Spec
CONSTANTS
  Servers = {s1, s2}
  Slots = {c1, c2}
  Tickets = {t1, t2, t3}
  None = None
  Until <- MCUntil
  DailyLimit = 2  Day = 3  Hour = 3  Offset = 1  Latency = 1
  BatchSize = 1  MaximumBatches = 2
  AccessLimit = 2  AccessWindow = 2  PurgeLimit = 1  AccessCapacity = 1
  ReplayWindow = 3  ReplayBatch = 1  ReplayCapacity = 2
  HealthWindow = 2  HealthMaxCounter = 1
  AliasOrder <- MCAliasOrder
  Manifest = "manifest"  Lifetime = 2  MaxRevision = 3  MaxGeneration = 3
INVARIANTS
  DailyBudgetExact
  AccessBudgetHolds
  ReportHasEvidence
  ReconciliationProves
PROPERTY ReplayRefused
SYMMETRY Alike
CHECK_DEADLOCK FALSE
