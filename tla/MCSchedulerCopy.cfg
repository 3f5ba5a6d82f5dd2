\* A stream that is copied and filtered, in that order; nothing fails and nobody stops it.
SPECIFICATION Spec
CONSTANTS
  Graphs <- MCCopyGraphs
  QueueSize = 1
  Tolerance = 1
  MaxPreMux = 9
  MayStop = {}
  MayFail = {}
INVARIANT NobodyIsStuck
