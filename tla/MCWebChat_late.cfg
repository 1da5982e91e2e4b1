\* A connection that breaks after the error record.
SPECIFICATION WebChatSpec
CONSTANTS
  Messages = {hi, ho}
  MaxAttempts = 3
  MaxDeltas = 1
  MaxSignInClicks = 0
  Cuts = FALSE
  LateBreaks = TRUE
INVARIANTS
  OneAttemptAtATime
CHECK_DEADLOCK FALSE
