\* The user signs out while an answer is coming in.
SPECIFICATION WebChatSpec
CONSTANTS
  Messages = {hi, ho}
  MaxAttempts = 1
  MaxDeltas = 1
  MaxSignInClicks = 0
  Cuts = FALSE
  LateBreaks = FALSE
PROPERTIES
  SignedOutStays
CHECK_DEADLOCK FALSE
