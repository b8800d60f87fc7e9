CONSTANTS
  FlashLen = 2
  SendLen = 1
  MaxFile = 2
  Writers = {"manager"}
  UseNtp = TRUE
  Asked = {"READ", "CLEAR"}
SPECIFICATION FairSpec
INVARIANTS FlashTypeOK
PROPERTIES KeptUntilTaken LoggersGoOn
CHECK_DEADLOCK FALSE
