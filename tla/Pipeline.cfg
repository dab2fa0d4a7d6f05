SPECIFICATION MCSpec
CONSTANTS
  Items = {c1, c2, c3}
  NoConn = none
  MaxConnections = 2
  Captured = {f1, f2}
  MaxCalls = 2
  RingCapacity = 1
  Flows = {w1, w2, w3, w4}
  Capacity = 2
  Lossy = FALSE
  BatchSize = 2
  MaxRetries = 2
  Atomic = TRUE
INVARIANTS TasksTracked OnlyLastEscapes CountExact WriterInv CompleteAtEnd
PROPERTIES StopReturns HandedOverEnds FlowsEnd WriterEnds
CHECK_DEADLOCK FALSE
