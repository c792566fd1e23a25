SPECIFICATION MCSpec
CONSTANTS
  Requests = {r1, r2, r3, r4}
  Methods = {m1}
  FailureThreshold = 2
  SuccessThreshold = 3
  Timeout = 2
  Goroutines = {g1, g2}
  Keys = {k1}
  Rate = 2
  Unit = 3
  Burst = 2
INVARIANTS TypeOK OneBreakerPerMethod CountersInv WithinRate
PROPERTIES OpenPeriod Recovers
