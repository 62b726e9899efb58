SPECIFICATION Spec
CONSTANTS
  Replicas = 1
  Batch = {}
  MaxProc = 4
  MaxFaults = 3
  MaxInflight = 0
  DevHosted = TRUE
  BootFailureLimit = 3
  LateIpc = TRUE
INVARIANTS
  TypeOK
  AbandonedForALoop
PROPERTY
  RevivedOnlyLate
CHECK_DEADLOCK FALSE
