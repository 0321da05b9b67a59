CONSTANTS
  c1 = c1
  w1 = w1
  w2 = w2
  nobody = nobody
  Children <- OneChild
  Recoverers <- TwoRecoverers
  Nobody = nobody
  MaxRuns = 1
  MaxAnswers = 1
  Faults = {"crash"}
  MaxFaults = 1
SPECIFICATION Spec
INVARIANT RetryCanBeClaimed
CHECK_DEADLOCK FALSE
