SPECIFICATION Spec
CONSTANTS
  Radix = 2
  Payloads <- SmallPayloads
  MaxFrames = 2
  MaxConnections = 2
\* The server thread may have thrown, or the connections be used up.
CHECK_DEADLOCK FALSE
INVARIANTS
  TypeOK
  NothingHeldBack
  ThrowsOnlyOnWrap
PROPERTIES
  ChannelSpec
