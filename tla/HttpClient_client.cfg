CONSTANTS
  OrderLen = 4
  SendLen = 1
  MaxError = 2
  MaxTryConnect = 2
  MaxTrySend = 1
  UseOta = TRUE
  MaxCalls = 1
SPECIFICATION MCFairSpec
INVARIANTS StatusMeansClient RestMeansConnected ReadyAnnounced
PROPERTIES ClientConnects GivesUpAfterAllTries
CHECK_DEADLOCK FALSE
