CONSTANTS
  Workers = {w1, w2}
  free = free
  told = told
  after = after
  boundary = boundary
  Obligations <- AllObligations
  Executable <- AllExecutable
  Reported = {told}
  DependsOn <- Dependencies
  MaxRevisions = 1
  MaxFaults = 1
SPECIFICATION Spec
INVARIANTS TypeOK SettledTogether UsableEvidenceIsOfItsPlan SatisfactionMatchesEvidence SupersededAsAWhole WaitsForLiveWork
PROPERTIES ImplementsLedger
SYMMETRY WorkerSymmetry
CHECK_DEADLOCK FALSE
