\* Two servers compete for the last receipt and nonce slots, and the cleanup cron, one row of each kind at a time, catches up; the sequence bound ends a run.
SPECIFICATION LiveSpec
CONSTANTS
  alpha = alpha  beta = beta  i1 = i1  i2 = i2  t1 = t1  t2 = t2
  r1 = r1  r2 = r2  r3 = r3  r4 = r4  NoValue = NoValue
  Server = {alpha, beta}
  Index = {i1, i2}
  Token = {t1, t2}
  RequestId = {r1, r2, r3}
  Nonce = {n1, n2}
  Redemption = {d1}
  Generation = {g1}
  Request <- Crowd
  MaxLive = 1
  MaxServerRoutes = 2
  MaxRoutes = 2
  MaxServerReceipts = 3
  MaxReceipts = 3
  MaxNonces = 4
  MaxServerGrants = 1
  MaxGrants = 1
  CleanupBatch = 1
  ReservationLife = 1
  Retention = 1
  NonceLife = 1
  GrantLife = 1
  Freshness = 2
  MaxSequence = 3
  MaxTime = 1
  MaxIssued = 1
  MaxSkew = 0
INVARIANTS RevocationReserved
PROPERTIES BacklogDrains
CHECK_DEADLOCK FALSE
