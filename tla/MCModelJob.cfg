CONSTANTS
  Workers = {w1, w2}
  MaxAttempts = 2
  MayReject = TRUE
  MaxFaults = 2
SPECIFICATION Spec
INVARIANTS AnswerIsDurable ReceiptChain OneDeliveryPerChain
  VerdictMatchesHistory
PROPERTIES StoredResultIsReused AbandonedNeedsItsTraces StoredResultSettles
CHECK_DEADLOCK FALSE
