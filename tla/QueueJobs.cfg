SPECIFICATION FairSpec
CONSTANTS
  r1 = r1
  r2 = r2
  Job = {1, 2}
  Replica = {r1, r2}
  MaxAttempts <- TwoThenOne
  Priority <- LastUrgent
  MaxFaults = 2
INVARIANTS TypeOK ExclusiveRun WorkersInOrder BudgetsKept
PROPERTIES OnlyLateWorkersReopen KeepsLedger EveryJobSettles
CHECK_DEADLOCK FALSE
