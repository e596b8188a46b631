\* A re-ranking overwrites the purge journal: the property is violated.
SPECIFICATION Spec
CONSTANTS
  alpha = alpha  beta = beta  one = one  two = two
  NoValue = NoValue  Corrupt = Corrupt
  Server = {alpha, beta}
  Version = {one}
  Order = {one, two}
  ObjectOrder <- Objects
  AliasOrder <- Aliases
  Representation <- Cached
  ListingTtl = 4
  ArtifactLifetime = 4
  RefreshLead = 1
  Quantum = 2
  MinAliasLifetime = 1
  MaxAttempts = 2
  HistoryLimit = 2
  LateRequests = FALSE
  Nudges = FALSE
  MaxGeneration = 3
  MaxRevision = 2
  Epoch = 4
  MaxTime = 4
  MaxSkew = 0
  MaxFaults = 2
  MaxCrashes = 0
  MaxLosses = 0
  MaxResets = 0
INVARIANTS PurgeJournalKept
