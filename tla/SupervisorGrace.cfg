SPECIFICATION FairSpec
CONSTANTS
  Replicas = 1
  Batch = {}
  MaxProc = 2
  MaxFaults = 1
  MaxInflight = 0
  DevHosted = FALSE
  BootFailureLimit = 3
  LateIpc = FALSE
PROPERTIES
  GraceTimeoutKills
CHECK_DEADLOCK FALSE
