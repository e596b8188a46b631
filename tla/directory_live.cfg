\* Convergence with every nudge lost, after failed calls and purges, a crash and a lost alias.
SPECIFICATION FairSpec
CONSTANTS
  alpha = alpha  beta = beta  one = one  two = two
  NoValue = NoValue  Corrupt = Corrupt
  Server = {alpha}
  Version = {one}
  Order = {one}
  ObjectOrder <- Objects
  AliasOrder <- Aliases
  Representation <- Cached
  ListingTtl = 4
  ArtifactLifetime = 4
  RefreshLead = 1
  Quantum = 2
  MinAliasLifetime = 1
  MaxAttempts = 2
  HistoryLimit = 2
  LateRequests = FALSE
  Nudges = FALSE
  MaxGeneration = 6
  MaxRevision = 1
  Epoch = 4
  MaxTime = 4
  MaxSkew = 0
  MaxFaults = 2
  MaxCrashes = 1
  MaxLosses = 1
  MaxResets = 0
PROPERTIES EventuallyPublished EventuallyPurged
