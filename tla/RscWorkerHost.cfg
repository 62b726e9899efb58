SPECIFICATION FairSpec
CONSTANTS
  r1 = r1
  Render = {r1}
  Bad = {2}
  MaxBuild = 3
  MaxCrashes = 2
  MaxRecycles = 1
  MaxManifests = 1
INVARIANTS TypeOK NoStrayWorker ServesLatest EveryWaitIsOwed
PROPERTIES RendersSettle
CHECK_DEADLOCK FALSE
