SPECIFICATION FairSpec
CONSTANTS
  DirectCalls = {d1, d2}
  BroadcastCalls = {b1, b2, b3}
  SendQueueSize = 1
  BroadcastQueueSize = 2
  BatchSize = 3
  PreemptEvery = 2
  DrainBurst = 1
INVARIANT SingleWriter
