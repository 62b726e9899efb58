SPECIFICATION FairSpec
CONSTANTS
  StartAttempts = 2
  RecoveryLimit = 1
  MaxEdits = 3
  MaxFaults = 3
INVARIANTS TypeOK TwinsNeedOverlap StaleBackendIsNoticed
PROPERTIES BackendCatchesUp
CHECK_DEADLOCK FALSE
