SPECIFICATION Spec
CONSTANTS
  ContextPolls = 2
  ReadyPolls = 2
CHECK_DEADLOCK FALSE
INVARIANTS
  ClearedContextUnused
