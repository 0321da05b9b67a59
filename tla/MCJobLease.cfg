CONSTANTS
  Jobs = {j1}
  Workers = {w1, w2}
  NoWorker = NoWorker
  NoJob = NoJob
  LeaseTicks = 2
  MaxClaims = 3
SPECIFICATION Spec
INVARIANTS TypeOK VerdictByNewestClaim ClaimsAreDistinct
PROPERTIES NoVerdictAfterFailedHeartbeat ExpiredClaimStaysExpired
  AbandonedLeaseExpires DeliveryPromise
CHECK_DEADLOCK FALSE
