SPECIFICATION FairSpec
CONSTANTS
  Publishers = {p1, p2}
  Closers = {c1}
  Wildcard = any
  Topics = {any, t1}
  WorkerCount = 2
  BufferSize = 1
  MaxEvents = 3
  MaxSubs = 2
  MaxCalls = 4
INVARIANTS  PublishOutcome OrderlyClose
PROPERTIES CloseReleasesEveryone QueuedIsDispatched
