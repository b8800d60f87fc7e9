CONSTANTS
  QueueLen = 3
  MaxRetry = 1
  EvLen = 2
  Requests = {"connect", "ap.json", "wifi_setup"}
  Orders = {"DISCONNECT_STA", "STOP_AP", "HTTPD_REQUEST"}
  Restarts = TRUE
  MaxAsked = 3
SPECIFICATION MCSpec
INVARIANTS StrandedOnlyWithApStarted LinkViewConsistent ScanBitIsCleared ForgottenMeansOffline
PROPERTIES FollowsEveryLinkChange
CHECK_DEADLOCK FALSE
