SPECIFICATION FairSpec
CONSTANTS
  Clients = {app, page}
  Fallbacks = {TRUE, FALSE}
  MayFail = TRUE
  MayExecute = TRUE
  MaxCalls = 2
  Turns <- MCTurns
  MaxThreads = 2
  MaxMessages = 1
INVARIANTS NothingLostOrTwice ArgsAreFreedLast
PROPERTY LeftoversAreDelivered
