SPECIFICATION MCSpec
CONSTANTS
  Requests = {r1, r2, r3}
  MaxConnections = 2
  ShardCount = 2
  MaxTargets = 4
  Threshold = 3
  Parallelism = 2
INVARIANTS SlotAccounting WithinLimit DisconnectedIsGone StopClosesEarlier BroadcastOutcome
PROPERTIES ClosedIsReported StopReturns 
