SPECIFICATION Spec
CONSTANTS
  room1 = room1
  room2 = room2
  Room = {room1, room2}
  Guarded = {room1}
  MaxFrames = 5
INVARIANTS PlacesAgree LateRoomsOnly
CHECK_DEADLOCK FALSE
