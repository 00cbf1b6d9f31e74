SPECIFICATION FairSpec
CONSTANTS
  Space = 32
  PageSize = 8
  Chunk = 4
  MaxLen = 8
  ArgsBases <- MCArgsBases
  Pointers <- MCPointers
  Lengths <- MCLengths
  MaxDirectives = 3
INVARIANTS
  TypeOK
  ArgumentsAtTheirPlace
  StringCutAtBound
PROPERTY
  EventForwarded
CHECK_DEADLOCK FALSE
