\* Three threads, one call each, with spurious wakeups, JavaScript that waits for
\* native threads, and uv_ref racing uv_unref.
SPECIFICATION Spec
CONSTANTS
  t1 = t1
  t2 = t2
  t3 = t3
  Main = Main
  NoOne = NoOne
  Threads <- ThreeThreads
  MaxCalls = 1
  MaxNest = 0
  CounterSize = 4
  SpuriousWakeups = TRUE
  SyncJoins = TRUE
  SerialRefs = FALSE
INVARIANTS
  QueueWillBeDrained
  QueueExclusion
SYMMETRY Symmetry
\* JavaScript may wait for a thread that waits for JavaScript.
CHECK_DEADLOCK FALSE
