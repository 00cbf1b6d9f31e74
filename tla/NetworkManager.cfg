SPECIFICATION NMFairSpec
CONSTANTS
  Handles = {h1, h2}
  INVALID_SOCKET = INVALID_SOCKET
  MaxSessions = 2
INVARIANTS
  QuietAfterStop
  ResetOnlyUnderTimeout
  CurrentClientServed
PROPERTIES
  StopServerReturns
CHECK_DEADLOCK FALSE
