SPECIFICATION Spec
CONSTANTS
  Shapes <- MCShapes
  Unserializable <- MCUnserializable
  Handles = {h1, h2}
  INVALID_SOCKET = INVALID_SOCKET
  Pieces = 2
  MaxSessions = 2
  MaxCommands = 3
INVARIANTS
  TypeOK
  CommandsConserved
  EveryCommandAccountedFor
  AnswersInOrder
  LostOnlyToDepartedClient
  FramesWholeInside
PROPERTY BridgeSpec
