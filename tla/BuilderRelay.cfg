SPECIFICATION FairSpec
CONSTANTS
  k1 = k1
  k2 = k2
  Kid = {k1, k2}
  HeldLimit = 1
  StartAttempts = 2
  MaxAsks = 2
  MaxGateways = 2
  MaxDeaths = 1
  MaxAway = 2
INVARIANTS TypeOK ForeignAnswersAreOlder EveryWaitIsOwed
PROPERTIES RelaySettles
CHECK_DEADLOCK FALSE
