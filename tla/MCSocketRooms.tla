--------------------------- MODULE MCSocketRooms ---------------------------
(* Small instances of SocketRooms: one open and one guarded room. *)
EXTENDS SocketRooms

CONSTANTS room1, room2
=============================================================================
