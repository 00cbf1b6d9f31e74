SPECIFICATION FairSpec
CONSTANTS
  Handles = {h1, h2, h3}
  INVALID_SOCKET = INVALID_SOCKET
  MaxSessions = 3
INVARIANTS
  TypeOK
  StopUnblocksThread
  RecvOnConnection
  NothingLeftOpen
  ForeignClosedOnlyAfterTimeout
PROPERTIES
  StopReturns
  ThreadEnds
