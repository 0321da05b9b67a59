CONSTANTS
  c1 = c1
  w1 = w1
  w2 = w2
  nobody = nobody
  Children <- OneChild
  Recoverers <- TwoRecoverers
  Nobody = nobody
  MaxRuns = 2
  MaxAnswers = 2
  Faults = {"crash", "heartbeat", "gateway", "slow"}
  MaxFaults = 2
SPECIFICATION FairSpec
INVARIANTS DispatchMatchesRun OneOwner
PROPERTIES LostRetriesStayLost DispatchEnds
CHECK_DEADLOCK FALSE
