SPECIFICATION FairSpec
CONSTANTS
  ContextPolls = 2
  ReadyPolls = 2
\* The game's process ends.
CHECK_DEADLOCK FALSE
INVARIANTS
  TypeOK
  UnpublishedWhenDestroyed
  AccessedFromBefore
  TerminatesOnlyOutOfOrder
PROPERTIES
  HeldKeyUnloads
  CleanupFinishes
  FailedStartGivenUp
