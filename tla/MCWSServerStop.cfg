SPECIFICATION MCSpec
CONSTANTS
  Requests = {r1, r2, r3}
  MaxConnections = 2
  ShardCount = 2
  MaxTargets = 1
  Threshold = 3
  Parallelism = 3
INVARIANT StopClosesAll
