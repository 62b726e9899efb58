SPECIFICATION LiveSpec
CONSTANTS
  Room = {"guarded"}
  Guarded = {"guarded"}
  MaxSockets = 4
  MaxCalls = 6
  MaxDrops = 1
CHECK_DEADLOCK FALSE
INVARIANTS TypeOK OneSession JudgedByLatest RoomsAgree
PROPERTIES ComesToRest
