SPECIFICATION FairLife
CONSTANTS
  Stages = 4
  QueueStage = 3
  MaxRequests = 3
  MaxJobs = 2
INVARIANTS ExitCodeIsTrue
PROPERTIES RequestsEnd
CHECK_DEADLOCK FALSE
