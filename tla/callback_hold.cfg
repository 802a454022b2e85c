\* Two native threads call a closure once each; uv_ref and uv_unref are atomic.
SPECIFICATION Spec
CONSTANTS
  t1 = t1
  t2 = t2
  t3 = t3
  Main = Main
  NoOne = NoOne
  Threads <- TwoThreads
  MaxCalls = 1
  MaxNest = 1
  CounterSize = 4
  SpuriousWakeups = FALSE
  SyncJoins = FALSE
  SerialRefs = TRUE
PROPERTY
  HoldsLoopOpen
\* The system stops when every call is made and the loop has ended.
CHECK_DEADLOCK FALSE
