CONSTANTS
  Workers = {w1, w2}
  MaxMessages = 3
  MaxFaults = 1
  Impacts = {"QUESTION_REVISION"}
  AgentActions = {"REVISE_FRAME", "REVISE_PLAN", "RUN_EFFECT", "ASK_USER"}
  ReviewAnswers = {"ACCEPT", "BLOCK", "UNGROUNDED"}
  MayFail = TRUE
SPECIFICATION Spec
INVARIANTS TypeOK CheckpointNamesOpenWork AuthorityIsCoherent BoundUpToCursor
PROPERTIES NewMessageFences DispositionsAreFinal LostMessageEndsTheCase
SYMMETRY WorkerSymmetry
CHECK_DEADLOCK FALSE
