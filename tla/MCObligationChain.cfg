CONSTANTS
  Workers = {w1}
  free = free
  told = told
  after = after
  boundary = boundary
  Obligations = {free, after}
  Executable = {free, after}
  Reported = {}
  DependsOn <- Chain
  MaxRevisions = 0
  MaxFaults = 0
SPECIFICATION Spec
PROPERTY LandedResultIsDisposed
CHECK_DEADLOCK FALSE
