\* Two connections; the loop may give a notification up but not CloseWriter.
SPECIFICATION ClientSpec
CONSTANTS
  c1 = c1  c2 = c2
  Clients <- Pair
  Droppable = {"msg"}
  Threads <- Goroutines
INVARIANTS
  RegisteredIsServed
  CloseIsLast
  EndIsReported
  CutOffIsTold
  RunsOnce
  NobodyWaitsForF
PROPERTIES
  LoopReturns
  FailedEnds
