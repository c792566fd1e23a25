SPECIFICATION FairSpec
CONSTANTS
  Callers = {c1, c2}
  Kinds <- GrpcFirst
  MaxCalls = 4
INVARIANTS OneStart   
PROPERTY CallsReturn
