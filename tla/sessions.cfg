SPECIFICATION FairSpec
CONSTANTS
  Object <- Endpoints
  MaxThreads = 3
  Servers = {0, 2}
  MaxSessions = 2
  MaxRequests = 2
  MaxKey = 8
  MaxWaits = 4
INVARIANTS TypeOK NoPanic WaitersMatchRequests AnswersMatch ConnectorsMatchSessions NothingLeftBehind
PROPERTIES ImplementsRpc CallsReturn
CHECK_DEADLOCK FALSE
