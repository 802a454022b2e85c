\* More calls than pool threads; the third may fail early, in JavaScript, or late, on
\* the pool; each pool thread calls one closure; uv_ref and uv_unref race.  Or three
\* ArrayBuffer objects over two addresses: an address can be reused twice before the
\* first finalizer runs.
SPECIFICATION BackgroundSpec
CONSTANTS
  w1 = w1
  w2 = w2
  j1 = j1
  j2 = j2
  j3 = j3
  Main = Main
  NoOne = NoOne
  NoJob = NoJob
  Threads <- TwoWorkers
  Jobs <- ThreeJobs
  BadJobs <- ThirdOnly
  Unwritable <- ThirdOnly
  MaxCalls = 1
  MaxNest = 0
  CounterSize = 4
  SpuriousWakeups = FALSE
  SyncJoins = FALSE
  SerialRefs = FALSE
  Buffers = {b1, b2, b3}
  Addrs = {p1, p2}
  NoBuffer = NoBuffer
  FreeWhileWrapped = FALSE
INVARIANTS
  AsyncTypeOK
  DeliveredOnce
  LoopOutlivesCalls
  RegistryTypeOK
  CountsFinalizers
  LookupFindsRegistered
  NoDuplicates
PROPERTY
  EntriesGoAway
\* The system stops when every call is answered and the loop has ended.
CHECK_DEADLOCK FALSE
