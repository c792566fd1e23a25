SPECIFICATION MCSpec
CONSTANTS
  Users = {u1}
  MaxConns = 2
  MaxReconnectAttempts = 2
  SendBuf = 1
  GCallers = {a1, a2}
  Monitor = monitor
  MaxDials = 3
  MaxRetries = 1
INVARIANTS OpenIffConnected NoConnectionLeaked
PROPERTIES ImplementsSession CloseEndsLoops FailedIsReplaced
CHECK_DEADLOCK FALSE
