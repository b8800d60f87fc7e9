CONSTANTS
  NFiles = 4
  HttpFile = 3
  Ipv4File = 2
  Setups = 1
  Lossy = TRUE
  MaxCuts = 1
  LongFiles = {1, 2}
  NKeys = 2
  Fatal = {1}
SPECIFICATION FairSpec
PROPERTIES Settles LoadingEnds
CHECK_DEADLOCK FALSE
