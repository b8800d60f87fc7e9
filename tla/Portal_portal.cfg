CONSTANTS
  Sockets = 3
  Scratch = 4
  Chunk = 2
  MaxLen = 4
  Posts = {"own if", "chain"}
  Gets = {"ap.json", "other host"}
SPECIFICATION MCFairSpec
INVARIANTS InUseIsLive RestAgrees SavedIsBody AnswersOnce NoSocketLeft
PROPERTIES ClosesOwn StopReturns HijackComesUp
CHECK_DEADLOCK FALSE
