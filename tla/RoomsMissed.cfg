SPECIFICATION Spec
CONSTANTS
  a = a
  b = b
  a1 = a1
  a2 = a2
  b1 = b1
  room1 = room1
  room2 = room2
  event1 = event1
  Child = {a, b}
  Room = {room1}
  Socket = {a1, a2, b1}
  Home <- HomeByName
  Event = {event1}
  MaxChurn = 4
  MaxFaults = 1
INVARIANTS EveryoneInRoom
CHECK_DEADLOCK FALSE
