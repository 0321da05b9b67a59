CONSTANTS
  Workers = {w1}
  MaxMessages = 3
  MaxFaults = 0
  Impacts = {"QUESTION_REVISION"}
  AgentActions = {"ASK_USER"}
  ReviewAnswers = {"ACCEPT", "BLOCK"}
  MayFail = FALSE
SPECIFICATION Spec
INVARIANT NoMessageIsSkipped
CHECK_DEADLOCK FALSE
