CONSTANTS
  Workers = {w1, w2}
  free = free
  told = told
  after = after
  boundary = boundary
  Obligations = {free}
  Executable = {free}
  Reported = {}
  DependsOn <- Independent
  MaxRevisions = 1
  MaxFaults = 1
SPECIFICATION Spec
PROPERTIES LandedResultIsDisposed AdmissionWaitEnds
CHECK_DEADLOCK FALSE
