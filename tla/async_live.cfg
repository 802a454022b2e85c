\* Every pool thread may be inside a closure at once; the second call may fail early.
SPECIFICATION AsyncFairSpec
CONSTANTS
  w1 = w1
  w2 = w2
  j1 = j1
  j2 = j2
  j3 = j3
  Main = Main
  NoOne = NoOne
  NoJob = NoJob
  Threads <- TwoWorkers
  Jobs <- TwoJobs
  BadJobs = {}
  Unwritable <- SecondOnly
  MaxCalls = 1
  MaxNest = 0
  CounterSize = 4
  SpuriousWakeups = FALSE
  SyncJoins = FALSE
  SerialRefs = TRUE
PROPERTIES
  AllAnswered
\* The system stops when every call is answered and the loop has ended.
CHECK_DEADLOCK FALSE
