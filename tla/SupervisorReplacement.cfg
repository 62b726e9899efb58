SPECIFICATION LiveSpec
CONSTANTS
  Replicas = 2
  Batch = {}
  MaxProc = 3
  MaxFaults = 1
  MaxInflight = 1
  DevHosted = FALSE
  BootFailureLimit = 3
  LateIpc = TRUE
INVARIANTS
  OneLiveProcessPerReplica
  NotRoutedWhileRestarting
  CacheCoherent
PROPERTIES
  ReplicasRecover
  StopFinishes
CHECK_DEADLOCK FALSE
