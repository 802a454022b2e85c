\* As callback_live, but uv_cond_wait may return without a signal.
SPECIFICATION Spec
CONSTANTS
  t1 = t1
  t2 = t2
  t3 = t3
  Main = Main
  NoOne = NoOne
  Threads <- TwoThreads
  MaxCalls = 2
  MaxNest = 1
  CounterSize = 4
  SpuriousWakeups = TRUE
  SyncJoins = FALSE
  SerialRefs = TRUE
INVARIANT
  ReturnsAfterExecution
\* The system stops when every call is made and the loop has ended.
CHECK_DEADLOCK FALSE
