SPECIFICATION FairSpec
CONSTANTS
  DirectCalls = {d1, d2}
  BroadcastCalls = {b1, b2}
  SendQueueSize = 1
  BroadcastQueueSize = 1
  BatchSize = 2
  PreemptEvery = 1
  DrainBurst = 2
INVARIANTS NoStrandedMessage  
PROPERTY EverythingIsSent
