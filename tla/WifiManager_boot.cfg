CONSTANTS
  QueueLen = 3
  MaxRetry = 10
  EvLen = 3
  Requests = {}
  Orders = {}
  Restarts = FALSE
  MaxAsked = 0
SPECIFICATION MCFairSpec
INVARIANTS TypeOK PortalAfterAllRetries
PROPERTIES LinkDownIsResolved
CHECK_DEADLOCK FALSE
