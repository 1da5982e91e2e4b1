\* A response that ends without its terminal record.
SPECIFICATION FairWebChatSpec
CONSTANTS
  Messages = {hi, ho}
  MaxAttempts = 1
  MaxDeltas = 1
  MaxSignInClicks = 0
  Cuts = TRUE
  LateBreaks = FALSE
PROPERTIES
  EverySendEnds
CHECK_DEADLOCK FALSE
