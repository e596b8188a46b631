\* Resolutions, grants and redemptions against revocation and expiry, with workers whose clocks differ.
SPECIFICATION Spec
CONSTANTS
  alpha = alpha  beta = beta  i1 = i1  i2 = i2  t1 = t1  t2 = t2
  r1 = r1  r2 = r2  r3 = r3  r4 = r4  NoValue = NoValue
  Server = {alpha}
  Index = {i1}
  Token = {t1}
  RequestId = {r1, r2, r3}
  Nonce = {n1}
  Redemption = {d1, d2}
  Generation = {g1}
  Request <- Expiring
  MaxLive = 1
  MaxServerRoutes = 2
  MaxRoutes = 2
  MaxServerReceipts = 4
  MaxReceipts = 4
  MaxNonces = 4
  MaxServerGrants = 1
  MaxGrants = 1
  CleanupBatch = 1
  ReservationLife = 1
  Retention = 1
  NonceLife = 0
  GrantLife = 1
  Freshness = 2
  MaxSequence = 4
  MaxTime = 2
  MaxIssued = 1
  MaxSkew = 1
INVARIANTS ReceiptsStayTrue NoGrantOfRevokedRoute ObservedExpiry
PROPERTIES OneEffectPerRequest
