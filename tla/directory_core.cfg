\* Publications against one builder whose calls may fail, while rows expire at the boundary of a quantum.
SPECIFICATION Spec
CONSTANTS
  alpha = alpha  beta = beta  one = one  two = two
  NoValue = NoValue  Corrupt = Corrupt
  Server = {alpha}
  Version = {one}
  Order = {one}
  ObjectOrder <- Objects
  AliasOrder <- Aliases
  Representation <- Uncached
  ListingTtl = 2
  ArtifactLifetime = 2
  RefreshLead = 1
  Quantum = 2
  MinAliasLifetime = 1
  MaxAttempts = 2
  HistoryLimit = 2
  LateRequests = FALSE
  Nudges = FALSE
  MaxGeneration = 3
  MaxRevision = 2
  Epoch = 4
  MaxTime = 6
  MaxSkew = 0
  MaxFaults = 1
  MaxCrashes = 0
  MaxLosses = 0
  MaxResets = 0
INVARIANTS TypeOK OutboxCoversUnpublished RollbackWindowComplete ArtifactWithinBacking
PROPERTIES AcknowledgedCohortIsPublic ImplementsPromise
CONSTRAINT CronOnly
