\* Two connections; the loop may give any message up after its two seconds.
SPECIFICATION ClientSpec
CONSTANTS
  c1 = c1  c2 = c2
  Clients <- Pair
  Droppable = {"msg", "close"}
  Threads <- Goroutines
PROPERTY
  WriterExitsOnErrors
