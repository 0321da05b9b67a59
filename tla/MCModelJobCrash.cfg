CONSTANTS
  Workers = {w1, w2}
  MaxAttempts = 2
  MayReject = FALSE
  MaxFaults = 1
SPECIFICATION Spec
PROPERTY CalledJobSettles
CHECK_DEADLOCK FALSE
