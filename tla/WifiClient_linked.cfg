CONSTANTS
  QueueLen = 3
  MaxRetry = 1
  EvLen = 2
  Requests = {"connect", "ap.json", "wifi_setup"}
  Orders = {"DISCONNECT_STA", "CONNECT_USER", "STOP_AP"}
  Restarts = TRUE
  MaxAsked = 3
SPECIFICATION BoundedSpec
INVARIANTS LinkedIsKnown WrongOnlyUntilRetry
CHECK_DEADLOCK FALSE
