SPECIFICATION Spec
CONSTANTS
  Sessions = {"first", "second"}
  Streams = {"video"}
  SessionOf <- MCSessionOf
  Requests = {1, 2}
  NoRequest = 0
  NoSession = "none"
  InitialSize = 2
  RangeMax = 2
  MaxBuffered = 6
  MaxInflight = 1
  MaxStreams = 2
  MaxLoads = 2
INVARIANTS TypeOK ReferencesAreExact FetchOutlivesItsCallback BudgetIsExact SuccessIsWhole
PROPERTY LoadsEndAndAreReclaimed
