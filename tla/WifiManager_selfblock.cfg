CONSTANTS
  QueueLen = 3
  MaxRetry = 2
  EvLen = 2
  Requests = {"connect"}
  Orders = {}
  Restarts = FALSE
  MaxAsked = 3
SPECIFICATION MCSpec
INVARIANTS OwnQueueHasRoom
CHECK_DEADLOCK FALSE
