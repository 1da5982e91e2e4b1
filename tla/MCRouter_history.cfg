\* Two messages, three executions, a window of one turn.
SPECIFICATION Spec
CONSTANTS
  MaxTurns = 1
  MaxMessages = 2
  MaxRuns = 3
  MaxTime = 2
INVARIANTS TypeOK HistoryFollowsConversation
PROPERTIES AnsweredTurnsAreShown
CHECK_DEADLOCK FALSE
