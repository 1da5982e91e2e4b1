\* Two connections, two uploads and two chats of the gateway.
SPECIFICATION PartSpec
CONSTANTS
  Callers = {a, b}
  MaxRequests = 2
  MaxTurns = 2
  Uploads = {u, v}
  Interval = 3
  Lifetime = 5
  MaxBindings = 2
  Chats = {c, d}
  MaxRetries = 1
  MaxSeconds = 1
INVARIANTS
  ServerTellsTruth
  SavedAtExit
  UploadsOutliveTheirKeys
  RepeatedOnlyWhenSevered
  FilesStayApart
PROPERTIES
  EveryRequestServed
  RefreshRecovers
  EveryMessageEnds
CHECK_DEADLOCK FALSE
