SPECIFICATION Spec
CONSTANT
  MaxFrames = 3
INVARIANTS
  PatchedReachesOriginal
  FailedInstallFound
  UnmappedUnpatched
  FaultsOnlyInTakeDown
CHECK_DEADLOCK FALSE
