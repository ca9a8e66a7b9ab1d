SPECIFICATION Spec
CONSTANTS
  WaitForParticipant = TRUE
  MaxFinals = 3
INVARIANTS SaysTheScript ReplyIsWhole SpeaksToSomebody
PROPERTIES PauseRespected HangsUp
CHECK_DEADLOCK FALSE
