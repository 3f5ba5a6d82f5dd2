\* QueueSize, Tolerance and MaxPreMux are parameters of the code; the other two are bounds.
SPECIFICATION Spec
CONSTANTS
  Graphs <- MCGraphs
  QueueSize = 1
  Tolerance = 1
  MaxPreMux = 9
  MayStop = {"source"}
  MayFail = {"transcode"}
INVARIANTS
  TypeOK
  NobodyIsStuck
  StopIsFinal
  OutputsStayTogether
  WrittenInOrder
  WrittenIsWhole
