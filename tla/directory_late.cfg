\* A write of a crashed builder lands at any later moment, nudges come at every await,
\* and the Durable Object loses its storage and must not reuse a generation.
SPECIFICATION Spec
CONSTANTS
  alpha = alpha  beta = beta  one = one  two = two
  NoValue = NoValue  Corrupt = Corrupt
  Server = {alpha, beta}
  Version = {one}
  Order = {one, two}
  ObjectOrder <- Objects
  AliasOrder <- Aliases
  Representation <- Uncached
  ListingTtl = 4
  ArtifactLifetime = 4
  RefreshLead = 1
  Quantum = 2
  MinAliasLifetime = 1
  MaxAttempts = 2
  HistoryLimit = 2
  LateRequests = TRUE
  Nudges = TRUE
  MaxGeneration = 2
  MaxRevision = 2
  Epoch = 4
  MaxTime = 4
  MaxSkew = 0
  MaxFaults = 0
  MaxCrashes = 1
  MaxLosses = 0
  MaxResets = 1
INVARIANTS OneGenerationOneBody PublicationOrder NudgeNotDelayed
PROPERTIES AliasMonotone
CONSTRAINT FaultsApart
