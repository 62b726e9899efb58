--------------------------- MODULE PubSubRouting ---------------------------
(***************************************************************************)
(* How an event published to a room reaches the websockets subscribed to   *)
(* it on every replica.  A child publishes to its own sockets and sends    *)
(* the event to the gateway, which forwards it to the other children that  *)
(* its room maps list for the room.  The maps follow the subscribe and     *)
(* unsubscribe messages of the children (SolidPubSub), are replaced by the *)
(* snapshots it asks for periodically, and are wiped for a child that is   *)
(* being restarted.  Each direction of a child's IPC channel is a queue.   *)
(***************************************************************************)
EXTENDS Integers, SequencesExt

CONSTANTS
  Child,      \* replica indexes
  Room,
  Socket,     \* websocket connections, each used once
  Home,       \* the child that a socket is connected to
  Event,      \* published events, each used once
  MaxChurn,   \* bound: joins and leaves in a behaviour
  MaxFaults   \* bound: restarts of children and late failures of old ones

ASSUME RoutingAssumption ==
  /\ IsFiniteSet(Room)
  /\ Home \in [Socket -> Child]
  /\ MaxChurn \in Nat /\ MaxFaults \in Nat

VARIABLES
  proc,         \* the current process of a child: "up" or "dead"
  available,    \* the gateway's ~#isChildUnavailable
  joined,       \* SolidPubSub.#socketRooms, and the topics of the websocket
  conn,         \* life of a connection: "new", "open", "closed"
  roomChildren, \* the gateway's #roomChildren
  childRooms,   \* the gateway's #childRooms
  socketRooms,  \* the gateway's #socketRooms
  toGateway,    \* IPC from a child
  toChild,      \* IPC to a child
  received,     \* how often a socket has been sent an event
  audience,     \* history: the sockets an event is meant for
  origin,       \* history: the child that published an event
  cut,          \* history: rooms the gateway took a child out of with a socket of it in
                \* them, and has not listed it for again
  missed,       \* history: events that did not get to a child because of this, or
                \* because the child or the publisher was being replaced
  churn,
  faults

gatewayMaps == <<roomChildren, childRooms, socketRooms, cut>>
history     == <<received, audience, origin, missed>>
vars == <<proc, available, joined, conn, gatewayMaps, toGateway, toChild, history,
          churn, faults>>

SubscribeMsg   == [type : {"subscribe", "unsubscribe"}, room : Room, socket : Socket]
PublishMsg     == [type : {"publish"}, room : Room, event : Event]
SnapshotMsg    == [type : {"snapshot"}, rooms : SUBSET Room]
GatewayMessage == SubscribeMsg \union PublishMsg \union SnapshotMsg
ChildMessage   == [type : {"deliver"}, room : Room, event : Event]
                    \union [type : {"snapshot.request"}]

Init ==
  /\ proc = [c \in Child |-> "up"]
  /\ available = [c \in Child |-> TRUE]
  /\ joined = [s \in Socket |-> {}]
  /\ conn = [s \in Socket |-> "new"]
  /\ roomChildren = [r \in Room |-> {}]
  /\ childRooms = [c \in Child |-> {}]
  /\ socketRooms = [s \in Socket |-> {}]
  /\ toGateway = [c \in Child |-> <<>>]
  /\ toChild = [c \in Child |-> <<>>]
  /\ received = [s \in Socket |-> [e \in Event |-> 0]]
  /\ audience = [e \in Event |-> {}]
  /\ origin = [e \in Event |-> {}]
  /\ cut = {} /\ missed = {}
  /\ churn = 0
  /\ faults = 0

Churn == churn < MaxChurn /\ churn' = churn + 1
Fault == faults < MaxFaults /\ faults' = faults + 1

Sockets(c) == {s \in Socket : Home[s] = c}
Members(c, r) == {s \in Sockets(c) : r \in joined[s]}

----------------------------------------------------------------------------
(* The child: SolidPubSub and the websocket server. *)

(* joinRoom *)
JoinRoom(s, r) ==
  LET c == Home[s] IN
  /\ proc[c] = "up"
  /\ conn[s] # "closed" /\ r \notin joined[s]
  /\ Churn
  /\ conn' = [conn EXCEPT ![s] = "open"]
  /\ joined' = [joined EXCEPT ![s] = @ \union {r}]
  /\ toGateway' = [toGateway EXCEPT ![c] =
                     Append(@, [type |-> "subscribe", room |-> r, socket |-> s])]
  /\ UNCHANGED <<proc, available, gatewayMaps, toChild, history, faults>>

(* A socket that leaves a room is no longer meant to get its events. *)
Forget(ss, r) ==
  audience' = [e \in Event |-> audience[e] \ {<<s, r>> : s \in ss}]

(* leaveRoom *)
LeaveRoom(s, r) ==
  LET c == Home[s] IN
  /\ proc[c] = "up"
  /\ r \in joined[s]
  /\ Churn
  /\ joined' = [joined EXCEPT ![s] = @ \ {r}]
  /\ toGateway' = [toGateway EXCEPT ![c] =
                     Append(@, [type |-> "unsubscribe", room |-> r, socket |-> s])]
  /\ Forget({s}, r)
  /\ UNCHANGED <<proc, available, conn, gatewayMaps, toChild, received, origin,
                 missed, faults>>

(* leaveAllRooms, when the connection is closed. *)
CloseSocket(s) ==
  LET c == Home[s] IN
  /\ proc[c] = "up"
  /\ conn[s] = "open"
  /\ conn' = [conn EXCEPT ![s] = "closed"]
  /\ joined' = [joined EXCEPT ![s] = {}]
  /\ \E q \in SetToSeqs(joined[s]) :
       toGateway' = [toGateway EXCEPT ![c] = @ \o
         [i \in DOMAIN q |-> [type |-> "unsubscribe", room |-> q[i], socket |-> s]]]
  /\ audience' = [e \in Event |-> {a \in audience[e] : a[1] # s}]
  /\ UNCHANGED <<proc, available, gatewayMaps, toChild, received, origin,
                 missed, churn, faults>>

Deliver(ss, e, n) ==
  received' = [s \in Socket |->
    IF s \in ss THEN [received[s] EXCEPT ![e] = @ + n] ELSE received[s]]

(* The gateway has heard of everything t did about room r. *)
Heard(t, r) ==
  \A i \in DOMAIN toGateway[Home[t]] :
    LET m == toGateway[Home[t]][i] IN
    ~(m.type \in {"subscribe", "unsubscribe"} /\ m.room = r /\ m.socket = t)

(* A server signal: websocket.publish and the local publish.  The event is *)
(* meant for every socket in the room, as far as other children's sockets  *)
(* have become known to the gateway.                                       *)
Publish(c, r, e) ==
  /\ proc[c] = "up"
  /\ origin[e] = {}
  /\ origin' = [origin EXCEPT ![e] = {c}]
  /\ toGateway' = [toGateway EXCEPT ![c] =
                     Append(@, [type |-> "publish", room |-> r, event |-> e])]
  /\ Deliver(Members(c, r), e, 1)
  /\ audience' = [audience EXCEPT ![e] =
       {<<s, r>> : s \in {t \in Socket :
                            r \in joined[t] /\ (Home[t] = c \/ Heard(t, r))}}]
  /\ UNCHANGED <<proc, available, joined, conn, gatewayMaps, toChild, missed, churn,
                 faults>>

(* Both listeners of a child handle a deliver message: AkanServer hands it *)
(* to the local publish, and SolidPubSub to the event handler, which is    *)
(* the local publish too.                                                  *)
ChildDelivers(c) ==
  /\ proc[c] = "up" /\ toChild[c] # <<>>
  /\ Head(toChild[c]).type = "deliver"
  /\ toChild' = [toChild EXCEPT ![c] = Tail(@)]
  /\ LET m == Head(toChild[c]) IN Deliver(Members(c, m.room), m.event, 2)
  /\ UNCHANGED <<proc, available, joined, conn, gatewayMaps, toGateway, audience,
                 origin, missed, churn, faults>>

\* A mistake to detect: the snapshot leaves the rooms of the sockets out.
SnapshotEmpty(c) == {}

SnapshotRooms(c) == UNION {joined[s] : s \in Sockets(c)}

ChildSnapshots(c) ==
  /\ proc[c] = "up" /\ toChild[c] # <<>>
  /\ Head(toChild[c]).type = "snapshot.request"
  /\ toChild' = [toChild EXCEPT ![c] = Tail(@)]
  /\ toGateway' = [toGateway EXCEPT ![c] =
                     Append(@, [type |-> "snapshot", rooms |-> SnapshotRooms(c)])]
  /\ UNCHANGED <<proc, available, joined, conn, gatewayMaps, history, churn, faults>>

----------------------------------------------------------------------------
(* The gateway handles a message of the current process of c. *)

(* For the history: c is listed for rooms R, or taken out of them. *)
Listed(c, R) == cut' = cut \ ({c} \X R)
TakenOut(c, R) ==
  cut' = cut \union ({c} \X {r \in R : Members(c, r) # {}})

Receive(c, types) ==
  /\ toGateway[c] # <<>>
  /\ Head(toGateway[c]).type \in types
  /\ toGateway' = [toGateway EXCEPT ![c] = Tail(@)]

(* #addRoomMembership *)
AddRoomMembership(c) ==
  LET m == Head(toGateway[c]) IN
  /\ Receive(c, {"subscribe"})
  /\ roomChildren' = [roomChildren EXCEPT ![m.room] = @ \union {c}]
  /\ childRooms' = [childRooms EXCEPT ![c] = @ \union {m.room}]
  /\ socketRooms' = [socketRooms EXCEPT ![m.socket] = @ \union {m.room}]
  /\ Listed(c, {m.room})
  /\ UNCHANGED <<proc, available, joined, conn, toChild, history, churn, faults>>

\* A mistake to detect: only one of the two maps is updated.
RemoveRoomMembershipHalf(c) ==
  LET m == Head(toGateway[c]) IN
  /\ Receive(c, {"unsubscribe"})
  /\ roomChildren' = [roomChildren EXCEPT ![m.room] = @ \ {c}]
  /\ socketRooms' = [socketRooms EXCEPT ![m.socket] = @ \ {m.room}]
  /\ TakenOut(c, {m.room})
  /\ UNCHANGED <<proc, available, joined, conn, childRooms, toChild, history, churn,
                 faults>>

(* #removeRoomMembership: the child leaves the room with any of its sockets *)
RemoveRoomMembership(c) ==
  LET m == Head(toGateway[c]) IN
  /\ Receive(c, {"unsubscribe"})
  /\ roomChildren' = [roomChildren EXCEPT ![m.room] = @ \ {c}]
  /\ childRooms' = [childRooms EXCEPT ![c] = @ \ {m.room}]
  /\ socketRooms' = [socketRooms EXCEPT ![m.socket] = @ \ {m.room}]
  /\ TakenOut(c, {m.room})
  /\ UNCHANGED <<proc, available, joined, conn, toChild, history, churn, faults>>

\* A mistake to detect: rooms that the snapshot no longer lists are kept.
MergeRoomSnapshot(c) ==
  LET m == Head(toGateway[c]) IN
  /\ Receive(c, {"snapshot"})
  /\ roomChildren' = [r \in Room |->
       IF r \in m.rooms THEN roomChildren[r] \union {c} ELSE roomChildren[r]]
  /\ childRooms' = [childRooms EXCEPT ![c] = @ \union m.rooms]
  /\ Listed(c, m.rooms)
  /\ UNCHANGED <<proc, available, joined, conn, socketRooms, toChild, history, churn,
                 faults>>

(* #replaceRoomSnapshot *)
ReplaceRoomSnapshot(c) ==
  LET m == Head(toGateway[c]) IN
  /\ Receive(c, {"snapshot"})
  /\ roomChildren' = [r \in Room |->
       IF r \in m.rooms THEN roomChildren[r] \union {c}
       ELSE IF r \in childRooms[c] THEN roomChildren[r] \ {c}
       ELSE roomChildren[r]]
  /\ childRooms' = [childRooms EXCEPT ![c] = m.rooms]
  /\ Listed(c, m.rooms)
  /\ UNCHANGED <<proc, available, joined, conn, socketRooms, toChild, history, churn,
                 faults>>

(* Whom #deliverPubsub forwards an event of child c to. *)
Targets(c, r) == {d \in roomChildren[r] : d # c /\ available[d]}

DeliverPubsub(c) ==
  LET m == Head(toGateway[c]) IN
  /\ Receive(c, {"publish"})
  /\ toChild' = [d \in Child |->
       IF d \in Targets(c, m.room)
       THEN Append(toChild[d], [type |-> "deliver", room |-> m.room, event |-> m.event])
       ELSE toChild[d]]
  /\ missed' = missed \union ({m.event} \X {d \in Child : <<d, m.room>> \in cut \/ ~available[d]})
  /\ UNCHANGED <<proc, available, joined, conn, gatewayMaps, received, audience, origin,
                 churn, faults>>

Pending(q, type) == \E i \in DOMAIN q : q[i].type = type

(* #requestRoomSnapshots, for one child.  An answer takes far less than    *)
(* the 30 s of the timer.                                                  *)
RequestSnapshot(c) ==
  /\ available[c]
  /\ ~Pending(toChild[c], "snapshot.request")
  /\ ~Pending(toGateway[c], "snapshot")
  /\ toChild' = [toChild EXCEPT ![c] = Append(@, [type |-> "snapshot.request"])]
  /\ UNCHANGED <<proc, available, joined, conn, gatewayMaps, toGateway, history, churn,
                 faults>>

----------------------------------------------------------------------------
(* Restarts.  #removeChildRooms wipes the maps for an index. *)

RemoveChildRooms(c) ==
  /\ roomChildren' = [r \in Room |->
       IF r \in childRooms[c] THEN roomChildren[r] \ {c} ELSE roomChildren[r]]
  /\ childRooms' = [childRooms EXCEPT ![c] = {}]
  /\ socketRooms' = [s \in Socket |-> IF Home[s] = c THEN {} ELSE socketRooms[s]]
  /\ TakenOut(c, Room)

(* The gateway decides to restart a child that is still running. *)
ScheduleRestart(c) ==
  /\ available[c]
  /\ Fault
  /\ available' = [available EXCEPT ![c] = FALSE]
  /\ RemoveChildRooms(c)
  /\ UNCHANGED <<proc, joined, conn, toGateway, toChild, history, churn>>

(* A request that was sent to the previous process of c fails late: the    *)
(* restart it asks for is not made, but the rooms of the index are wiped.  *)
LateFailureOfOldProcess(c) ==
  /\ Fault
  /\ RemoveChildRooms(c)
  /\ UNCHANGED <<proc, available, joined, conn, toGateway, toChild, history, churn>>

(* The process ends, and its connections with it. *)
Dies(c) ==
  /\ proc[c] = "up"
  /\ IF available[c] THEN Fault ELSE UNCHANGED faults
  /\ proc' = [proc EXCEPT ![c] = "dead"]
  /\ conn' = [s \in Socket |->
       IF Home[s] = c /\ conn[s] = "open" THEN "closed" ELSE conn[s]]
  /\ joined' = [s \in Socket |-> IF Home[s] = c THEN {} ELSE joined[s]]
  /\ audience' = [e \in Event |-> {a \in audience[e] : Home[a[1]] # c}]
  /\ toChild' = [toChild EXCEPT ![c] = <<>>]
  /\ UNCHANGED <<available, gatewayMaps, toGateway, received, origin,
                 missed, churn>>

(* #handleChildExit; what the process had sent may still be read after it. *)
ExitSeen(c) ==
  /\ proc[c] = "dead"
  /\ available[c]
  /\ available' = [available EXCEPT ![c] = FALSE]
  /\ RemoveChildRooms(c)
  /\ UNCHANGED <<proc, joined, conn, toGateway, toChild, history, churn, faults>>

(* c has published e, and the gateway is still to read it. *)
PublishedBy(c, e) ==
  \E i \in DOMAIN toGateway[c] : toGateway[c][i].type = "publish" /\ toGateway[c][i].event = e

(* #respawnChild; messages of the old process are dropped from now on. *)
Respawn(c) ==
  /\ proc[c] = "dead"
  /\ ~available[c]
  /\ proc' = [proc EXCEPT ![c] = "up"]
  /\ available' = [available EXCEPT ![c] = TRUE]
  /\ toGateway' = [toGateway EXCEPT ![c] = <<>>]
  /\ toChild' = [toChild EXCEPT ![c] = <<>>]
  /\ missed' = missed \union ({e \in Event : PublishedBy(c, e)} \X Child)
  /\ UNCHANGED <<joined, conn, gatewayMaps, received, audience, origin, churn, faults>>

----------------------------------------------------------------------------
GatewayReads(c) ==
  \/ AddRoomMembership(c) \/ RemoveRoomMembership(c) \/ ReplaceRoomSnapshot(c)
  \/ DeliverPubsub(c)

ChildReads(c) == ChildDelivers(c) \/ ChildSnapshots(c)

Next ==
  \/ \E s \in Socket :
       \/ \E r \in Room : JoinRoom(s, r) \/ LeaveRoom(s, r)
       \/ CloseSocket(s)
  \/ \E c \in Child :
       \/ \E r \in Room, e \in Event : Publish(c, r, e)
       \/ ChildReads(c) \/ GatewayReads(c) \/ RequestSnapshot(c)
       \/ ScheduleRestart(c) \/ LateFailureOfOldProcess(c)
       \/ Dies(c) \/ ExitSeen(c) \/ Respawn(c)

Spec == Init /\ [][Next]_vars

(* Messages are read, the snapshot timer fires, restarts complete. *)
Fairness ==
  \A c \in Child :
    /\ WF_vars(ChildReads(c)) /\ WF_vars(GatewayReads(c))
    /\ WF_vars(RequestSnapshot(c))
    /\ WF_vars(~available[c] /\ Dies(c)) /\ WF_vars(ExitSeen(c))
    /\ WF_vars(Respawn(c))

FairSpec == Spec /\ Fairness

----------------------------------------------------------------------------
TypeOK ==
  /\ proc \in [Child -> {"up", "dead"}]
  /\ available \in [Child -> BOOLEAN]
  /\ joined \in [Socket -> SUBSET Room]
  /\ conn \in [Socket -> {"new", "open", "closed"}]
  /\ roomChildren \in [Room -> SUBSET Child]
  /\ childRooms \in [Child -> SUBSET Room]
  /\ socketRooms \in [Socket -> SUBSET Room]
  /\ toGateway \in [Child -> Seq(GatewayMessage)]
  /\ toChild \in [Child -> Seq(ChildMessage)]
  /\ received \in [Socket -> [Event -> Nat]]
  /\ audience \in [Event -> SUBSET (Socket \X Room)]
  /\ origin \in [Event -> SUBSET Child]
  /\ cut \subseteq Child \X Room /\ missed \subseteq Event \X Child
  /\ churn \in Nat /\ faults \in Nat

(* #roomChildren and #childRooms stay inverse to each other; a snapshot or *)
(* a wipe finds what to remove in one of them only.                        *)
MapsMirror == \A r \in Room, c \in Child : c \in roomChildren[r] <=> r \in childRooms[c]

(* The publisher's own sockets get an event once: the gateway does not     *)
(* send it back.                                                           *)
NoEchoToOrigin ==
  \A e \in Event, s \in Socket : Home[s] \in origin[e] => received[s][e] <= 1

InFlight(e) ==
  \E c \in Child :
    \/ PublishedBy(c, e)
    \/ \E i \in DOMAIN toChild[c] :
         toChild[c][i].type = "deliver" /\ toChild[c][i].event = e

(* An event that is no longer under way has been received by everyone the  *)
(* gateway had heard of in its room and who has stayed, through any number *)
(* of sockets, snapshots and failures; unless, when the gateway read it,   *)
(* the socket's child was cut off (another socket of it had left, or the   *)
(* rooms of the child were wiped, and no subscription or snapshot had      *)
(* listed it again) or the child or the publisher was being replaced.      *)
OnlyCutOffMiss ==
  \A e \in Event : ~InFlight(e) =>
    \A a \in audience[e] : received[a[1]][e] > 0 \/ <<e, Home[a[1]]>> \in missed

(* An event reaches everyone in its room: once it is no longer under way,  *)
(* each socket that the gateway had heard of in the room when it was       *)
(* published, and that has stayed there, has received it, as long as no    *)
(* child failed.                                                           *)
EveryoneInRoom ==
  faults = 0 => \A e \in Event : ~InFlight(e) =>
    \A a \in audience[e] : received[a[1]][e] > 0

(* Whatever was lost or wiped, the snapshots restore it: once joins,       *)
(* leaves and failures are over, the gateway lists exactly the children    *)
(* with a socket in the room.                                              *)
RoomsConverge ==
  <>[](\A r \in Room, c \in Child : c \in roomChildren[r] <=> Members(c, r) # {})
=============================================================================
