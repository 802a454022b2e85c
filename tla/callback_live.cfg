\* Two native threads call a closure twice each; no spurious wakeup, no
\* synchronous wait of JavaScript for a thread, uv_ref and uv_unref atomic.
SPECIFICATION FairSpec
CONSTANTS
  t1 = t1
  t2 = t2
  t3 = t3
  Main = Main
  NoOne = NoOne
  Threads <- TwoThreads
  MaxCalls = 2
  MaxNest = 1
  CounterSize = 4
  SpuriousWakeups = FALSE
  SyncJoins = FALSE
  SerialRefs = TRUE
INVARIANTS
  TypeOK
  ReturnsAfterExecution
  LiveInvocations
  SignalNotLost
  NoDeadlyEmbrace
  HoldReleased
PROPERTIES
  CallReturns
  KeepsPromise
\* The system stops when every call is made and the loop has ended.
CHECK_DEADLOCK FALSE
