-------------------------- MODULE MCPubSubRouting --------------------------
(* Small instances of PubSubRouting: two children and where their sockets  *)
(* are connected.                                                          *)
EXTENDS PubSubRouting

CONSTANTS a, b, a1, a2, b1, room1, room2, event1

HomeByName == [s \in Socket |-> IF s = b1 THEN b ELSE a]
=============================================================================
