CONSTANTS
  n1 = n1
  n2 = n2
  Nodes <- TwoNodes
  Contents = {1, 2}
  Unexecutable <- Disagreeing
  Raisable <- EveryKind
  Impacts = {"QUESTION_REVISION", "CONTEXT_ONLY"}
  MaxCandidates = 3
  MaxMessages = 2
SPECIFICATION Spec
INVARIANTS AcceptedFrameIsSound ObjectionsAreAnswered 
PROPERTIES StrandedUntilRevised
CHECK_DEADLOCK FALSE
