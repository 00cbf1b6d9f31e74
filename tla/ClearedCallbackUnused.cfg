SPECIFICATION NMSpec
CONSTANTS
  Handles = {h1, h2}
  INVALID_SOCKET = INVALID_SOCKET
  MaxSessions = 2
INVARIANT
  ClearedCallbackUnused
CHECK_DEADLOCK FALSE
