CONSTANTS
  Workers = {w1, w2}
  MaxMessages = 2
  MaxFaults = 1
  Impacts = {"QUESTION_REVISION"}
  AgentActions = {"REVISE_FRAME", "ASK_USER", "UNSOUND"}
  ReviewAnswers = {"ACCEPT", "BLOCK", "UNGROUNDED"}
  MayFail = FALSE
SPECIFICATION Spec
PROPERTIES MessagesAreBound JobsSettle
CHECK_DEADLOCK FALSE
