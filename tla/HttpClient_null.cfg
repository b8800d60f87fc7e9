CONSTANTS
  OrderLen = 4
  SendLen = 1
  MaxError = 3
  MaxTryConnect = 20
  MaxTrySend = 1
  UseOta = FALSE
  MaxCalls = 2
SPECIFICATION MCSpec
INVARIANTS SendsOverClient
CHECK_DEADLOCK FALSE
