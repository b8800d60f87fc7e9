CONSTANTS
  NFiles = 3
  HttpFile = 1
  Ipv4File = 1
  Setups = 2
  Lossy = TRUE
  MaxCuts = 1
  LongFiles = {2}
  NKeys = 2
  MaxLosses = 1
  Fatal = {}
SPECIFICATION BoundedSpec
INVARIANTS NoHole LoadedAsSaved FailureStands
CHECK_DEADLOCK FALSE
