SPECIFICATION Spec
CONSTANTS
  Callers = {c1}
  Kinds <- WSFirst
  MaxCalls = 3
INVARIANT RetrySurvives
