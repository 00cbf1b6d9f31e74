SPECIFICATION Spec
CONSTANTS
  Shapes <- MCShapes
  Unserializable <- MCUnserializable
  Handles = {h1}
  INVALID_SOCKET = INVALID_SOCKET
  Pieces = 2
  MaxSessions = 2
  MaxCommands = 2
INVARIANT StreamsStartWithPrefix
