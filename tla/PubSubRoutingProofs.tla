------------------------ MODULE PubSubRoutingProofs ------------------------
(***************************************************************************)
(* Proofs about PubSubRouting for every set of children, rooms, sockets    *)
(* and events, and any number of joins, leaves and failures: the room maps *)
(* mirror each other, no event comes back to its origin, and an event      *)
(* reaches everyone in its room but the children cut off from it.          *)
(***************************************************************************)
EXTENDS PubSubRouting, FiniteSetTheorems, SequenceTheorems, TLAPS

----------------------------------------------------------------------------
(* What a child may have sent: it published only the events it is the      *)
(* origin of.                                                              *)
SentBy(c) ==
  {m \in GatewayMessage : m.type = "publish" => origin[m.event] = {c}}

(* What the gateway may have sent to a child: only published events, and   *)
(* none of them the child's own.                                           *)
SentTo(c) ==
  {m \in ChildMessage :
     m.type = "deliver" => origin[m.event] # {} /\ c \notin origin[m.event]}

Queues ==
  \A c \in Child : toGateway[c] \in Seq(SentBy(c)) /\ toChild[c] \in Seq(SentTo(c))

Unpublished ==
  \A e \in Event : origin[e] = {} => \A s \in Socket : received[s][e] = 0

IInv == TypeOK /\ MapsMirror /\ Queues /\ Unpublished /\ NoEchoToOrigin

----------------------------------------------------------------------------
(* A socket's rooms in any order, as messages: what leaveAllRooms sends.   *)
LEMMA LeaveMessages ==
  ASSUME NEW R \in SUBSET Room, NEW s \in Socket, NEW q \in SetToSeqs(R)
  PROVE  [i \in DOMAIN q |-> [type |-> "unsubscribe", room |-> q[i], socket |-> s]]
           \in Seq(SubscribeMsg)
<1>1. Cardinality(R) \in Nat
  BY RoutingAssumption, FS_Subset, FS_CardinalityType DEF RoutingAssumption
<1>2. q \in [1 .. Cardinality(R) -> R]
  BY DEF SetToSeqs
<1>3. \A i \in 1 .. Cardinality(R) :
        [type |-> "unsubscribe", room |-> q[i], socket |-> s] \in SubscribeMsg
  BY <1>2 DEF SubscribeMsg
<1> QED  BY <1>1, <1>2, <1>3, IsASeq

(* The messages themselves. *)
LEMMA SentIsMessage ==
  ASSUME NEW c \in Child
  PROVE  SentBy(c) \subseteq GatewayMessage /\ SentTo(c) \subseteq ChildMessage
BY DEF SentBy, SentTo

LEMMA SubscriptionSent ==
  ASSUME NEW c \in Child
  PROVE  SubscribeMsg \subseteq SentBy(c) /\ SnapshotMsg \subseteq SentBy(c)
BY DEF SentBy, GatewayMessage, SubscribeMsg, SnapshotMsg

(* The head of a queue is a message, what is left is a queue.              *)
LEMMA QueueRead ==
  ASSUME NEW M, NEW q \in Seq(M), q # <<>>
  PROVE  Head(q) \in M /\ Tail(q) \in Seq(M)
BY HeadTailProperties

----------------------------------------------------------------------------
LEMMA InitInv == Init => IInv
<1> SUFFICES ASSUME Init  PROVE IInv
  OBVIOUS
<1>1. TypeOK
  BY EmptySeq DEF Init, TypeOK
<1>2. MapsMirror
  BY DEF Init, MapsMirror
<1>3. Queues
  BY EmptySeq DEF Init, Queues
<1>4. Unpublished
  BY DEF Init, Unpublished
<1>5. NoEchoToOrigin
  BY DEF Init, NoEchoToOrigin
<1> QED  BY <1>1, <1>2, <1>3, <1>4, <1>5 DEF IInv

(* The two room maps of the gateway change together. *)
LEMMA MirrorStep ==
  ASSUME IInv, [Next]_vars
  PROVE  MapsMirror'
<1> USE DEF IInv, TypeOK, MapsMirror
<1>1. CASE UNCHANGED gatewayMaps
  BY <1>1 DEF gatewayMaps
<1>2. ASSUME NEW c \in Child, Receive(c, {"subscribe", "unsubscribe"})
      PROVE  Head(toGateway[c]).room \in Room
  <2>1. Head(toGateway[c]) \in GatewayMessage
    BY <1>2, QueueRead DEF Receive
  <2> QED  BY <1>2, <2>1 DEF Receive, GatewayMessage, SubscribeMsg, PublishMsg, SnapshotMsg
<1>3. ASSUME NEW c \in Child, AddRoomMembership(c)  PROVE MapsMirror'
  <2>1. Head(toGateway[c]).room \in Room
    BY <1>2, <1>3 DEF AddRoomMembership, Receive
  <2> QED  BY <1>3, <2>1 DEF AddRoomMembership
<1>4. ASSUME NEW c \in Child, RemoveRoomMembership(c)  PROVE MapsMirror'
  <2>1. Head(toGateway[c]).room \in Room
    BY <1>2, <1>4 DEF RemoveRoomMembership, Receive
  <2> QED  BY <1>4, <2>1 DEF RemoveRoomMembership
<1>5. ASSUME NEW c \in Child, ReplaceRoomSnapshot(c)  PROVE MapsMirror'
  BY <1>5 DEF ReplaceRoomSnapshot
<1>6. ASSUME NEW c \in Child, RemoveChildRooms(c)  PROVE MapsMirror'
  BY <1>6 DEF RemoveChildRooms
<1>7. ASSUME NEW s \in Socket, NEW r \in Room, JoinRoom(s, r) \/ LeaveRoom(s, r)
      PROVE  UNCHANGED gatewayMaps
  BY <1>7 DEF JoinRoom, LeaveRoom
<1>8. ASSUME NEW s \in Socket, CloseSocket(s)  PROVE UNCHANGED gatewayMaps
  BY <1>8 DEF CloseSocket
<1>9. ASSUME NEW c \in Child, NEW r \in Room, NEW e \in Event, Publish(c, r, e)
      PROVE  UNCHANGED gatewayMaps
  BY <1>9 DEF Publish
<1>10. ASSUME NEW c \in Child,
              ChildReads(c) \/ DeliverPubsub(c) \/ RequestSnapshot(c) \/ Dies(c) \/ Respawn(c)
       PROVE  UNCHANGED gatewayMaps
  BY <1>10 DEF ChildReads, ChildDelivers, ChildSnapshots, DeliverPubsub,
               RequestSnapshot, Dies, Respawn
<1>11. ASSUME NEW c \in Child,
              ScheduleRestart(c) \/ LateFailureOfOldProcess(c) \/ ExitSeen(c)
       PROVE  RemoveChildRooms(c)
  BY <1>11 DEF ScheduleRestart, LateFailureOfOldProcess, ExitSeen
<1>12. CASE UNCHANGED vars
  BY <1>12 DEF vars, gatewayMaps
<1> HIDE DEF IInv, TypeOK, MapsMirror
<1> QED
  BY <1>1, <1>3, <1>4, <1>5, <1>6, <1>7, <1>8, <1>9, <1>10, <1>11, <1>12
     DEF Next, GatewayReads

----------------------------------------------------------------------------
(* Publishing an event that nobody has published leaves every message in   *)
(* the queues one that may have been sent.                                 *)
LEMMA PublishKeepsSent ==
  ASSUME IInv, NEW c \in Child, NEW e \in Event,
         origin[e] = {}, origin' = [origin EXCEPT ![e] = {c}],
         NEW d \in Child
  PROVE  SentBy(d) \subseteq SentBy(d)' /\ SentTo(d) \subseteq SentTo(d)'
<1> USE DEF IInv, TypeOK
<1>1. ASSUME NEW m \in GatewayMessage, m.type = "publish"  PROVE m.event \in Event
  BY <1>1 DEF GatewayMessage, SubscribeMsg, PublishMsg, SnapshotMsg
<1>2. ASSUME NEW m \in ChildMessage, m.type = "deliver"  PROVE m.event \in Event
  BY <1>2 DEF ChildMessage
<1>3. SentBy(d) \subseteq SentBy(d)'
  BY <1>1 DEF SentBy
<1>4. SentTo(d) \subseteq SentTo(d)'
  BY <1>2 DEF SentTo
<1> QED  BY <1>3, <1>4

LEMMA SentUnchanged ==
  ASSUME UNCHANGED origin, NEW d \in Child
  PROVE  SentBy(d)' = SentBy(d) /\ SentTo(d)' = SentTo(d)
BY DEF SentBy, SentTo

(* One message more, or several, at the end of a queue. *)
LEMMA QueueGrows ==
  ASSUME NEW M, NEW q \in Seq(M)
  PROVE  /\ \A x \in M : Append(q, x) \in Seq(M)
         /\ \A t \in Seq(M) : q \o t \in Seq(M)
BY AppendProperties, ConcatProperties

(* The queues hold nothing but what may have been sent. *)
LEMMA QueuesStep ==
  ASSUME IInv, [Next]_vars
  PROVE  Queues'
<1> USE DEF IInv, TypeOK, Queues
<1>1. ASSUME UNCHANGED <<toGateway, toChild, origin>>  PROVE Queues'
  BY <1>1, SentUnchanged
<1>2. ASSUME NEW c \in Child, NEW x, UNCHANGED <<origin, toChild>>,
             x \in SubscribeMsg \union SnapshotMsg,
             toGateway' = [toGateway EXCEPT ![c] = Append(@, x)]
      PROVE  Queues'
  <2>1. x \in SentBy(c)
    BY <1>2, SubscriptionSent
  <2>2. Append(toGateway[c], x) \in Seq(SentBy(c))
    BY <2>1, QueueGrows
  <2> QED  BY <1>2, <2>2, SentUnchanged
<1>3. ASSUME NEW s \in Socket, NEW r \in Room, JoinRoom(s, r) \/ LeaveRoom(s, r)
      PROVE  Queues'
  <2>1. Home[s] \in Child
    BY RoutingAssumption DEF RoutingAssumption
  <2>2. \A t \in {"subscribe", "unsubscribe"} :
          [type |-> t, room |-> r, socket |-> s] \in SubscribeMsg
    BY DEF SubscribeMsg
  <2>3. CASE JoinRoom(s, r)
    <3> DEFINE x == [type |-> "subscribe", room |-> r, socket |-> s]
    <3>1. /\ toGateway' = [toGateway EXCEPT ![Home[s]] = Append(@, x)]
          /\ UNCHANGED <<origin, toChild>>
      BY <2>3 DEF JoinRoom, history
    <3>2. x \in SubscribeMsg \union SnapshotMsg
      BY <2>2
    <3> HIDE DEF x
    <3> QED  BY <1>2, <2>1, <3>1, <3>2
  <2>4. CASE LeaveRoom(s, r)
    BY <1>2, <2>1, <2>2, <2>4 DEF LeaveRoom
  <2> QED  BY <1>3, <2>3, <2>4
<1>4. ASSUME NEW s \in Socket, CloseSocket(s)  PROVE Queues'
  <2>1. Home[s] \in Child
    BY RoutingAssumption DEF RoutingAssumption
  <2>2. PICK q \in SetToSeqs(joined[s]) :
          toGateway' = [toGateway EXCEPT ![Home[s]] = @ \o
            [i \in DOMAIN q |-> [type |-> "unsubscribe", room |-> q[i], socket |-> s]]]
    BY <1>4 DEF CloseSocket
  <2> DEFINE left == [i \in DOMAIN q |->
                        [type |-> "unsubscribe", room |-> q[i], socket |-> s]]
  <2>3. left \in Seq(SubscribeMsg)
    <3>1. joined[s] \in SUBSET Room
      OBVIOUS
    <3> QED  BY <3>1, LeaveMessages
  <2>4. left \in Seq(SentBy(Home[s]))
    BY <2>1, <2>3, SubscriptionSent, SeqMonotonic
  <2> HIDE DEF left
  <2>5. toGateway[Home[s]] \o left \in Seq(SentBy(Home[s]))
    BY <2>1, <2>4, QueueGrows
  <2>6. toGateway' = [toGateway EXCEPT ![Home[s]] = @ \o left]
    BY <2>2 DEF left
  <2> QED  BY <1>4, <2>1, <2>5, <2>6, SentUnchanged DEF CloseSocket
<1>5. ASSUME NEW c \in Child, NEW r \in Room, NEW e \in Event, Publish(c, r, e)
      PROVE  Queues'
  <2> DEFINE x == [type |-> "publish", room |-> r, event |-> e]
  <2>1. /\ origin[e] = {} /\ origin' = [origin EXCEPT ![e] = {c}]
        /\ toGateway' = [toGateway EXCEPT ![c] = Append(@, x)]
        /\ toChild' = toChild
    BY <1>5 DEF Publish
  <2>2. x \in SentBy(c)'
    BY <2>1 DEF SentBy, GatewayMessage, PublishMsg
  <2> HIDE DEF x
  <2>3. \A d \in Child : toGateway[d] \in Seq(SentBy(d)') /\ toChild[d] \in Seq(SentTo(d)')
    BY <2>1, PublishKeepsSent, SeqMonotonic
  <2>4. Append(toGateway[c], x) \in Seq(SentBy(c)')
    BY <2>2, <2>3, QueueGrows
  <2> QED  BY <2>1, <2>3, <2>4
<1>6. ASSUME NEW c \in Child, ChildDelivers(c)  PROVE Queues'
  <2>1. Tail(toChild[c]) \in Seq(SentTo(c))
    BY <1>6, QueueRead DEF ChildDelivers
  <2> QED  BY <1>6, <2>1, SentUnchanged DEF ChildDelivers
<1>7. ASSUME NEW c \in Child, ChildSnapshots(c)  PROVE Queues'
  <2>1. Tail(toChild[c]) \in Seq(SentTo(c))
    BY <1>7, QueueRead DEF ChildSnapshots
  <2>2. [type |-> "snapshot", rooms |-> SnapshotRooms(c)] \in SentBy(c)
    BY SubscriptionSent DEF SnapshotMsg, SnapshotRooms, Sockets
  <2>3. Append(toGateway[c], [type |-> "snapshot", rooms |-> SnapshotRooms(c)])
          \in Seq(SentBy(c))
    BY <2>2, QueueGrows
  <2> QED  BY <1>7, <2>1, <2>3, SentUnchanged DEF ChildSnapshots, history
<1>8. ASSUME NEW c \in Child, NEW types, Receive(c, types), UNCHANGED <<origin, toChild>>
      PROVE  Queues'
  <2>1. Tail(toGateway[c]) \in Seq(SentBy(c))
    BY <1>8, QueueRead DEF Receive
  <2> QED  BY <1>8, <2>1, SentUnchanged DEF Receive
<1>9. ASSUME NEW c \in Child, DeliverPubsub(c)  PROVE Queues'
  <2> DEFINE m == Head(toGateway[c])
             x == [type |-> "deliver", room |-> m.room, event |-> m.event]
  <2>1. m \in SentBy(c) /\ Tail(toGateway[c]) \in Seq(SentBy(c)) /\ m.type = "publish"
    BY <1>9, QueueRead DEF DeliverPubsub, Receive
  <2>2. m.room \in Room /\ m.event \in Event /\ origin[m.event] = {c}
    BY <2>1 DEF SentBy, GatewayMessage, SubscribeMsg, PublishMsg, SnapshotMsg
  <2>3. \A d \in Targets(c, m.room) : x \in SentTo(d)
    BY <2>2 DEF SentTo, ChildMessage, Targets
  <2>4. /\ toGateway' = [toGateway EXCEPT ![c] = Tail(@)]
        /\ toChild' = [d \in Child |-> IF d \in Targets(c, m.room)
                                       THEN Append(toChild[d], x) ELSE toChild[d]]
        /\ origin' = origin
    BY <1>9 DEF DeliverPubsub, Receive, history
  <2> HIDE DEF m, x
  <2>5. \A d \in Child : toChild'[d] \in Seq(SentTo(d))
    BY <2>3, <2>4, QueueGrows
  <2> QED  BY <2>1, <2>4, <2>5, SentUnchanged
<1>10. ASSUME NEW c \in Child, RequestSnapshot(c)  PROVE Queues'
  <2>1. [type |-> "snapshot.request"] \in SentTo(c)
    BY DEF SentTo, ChildMessage
  <2>2. Append(toChild[c], [type |-> "snapshot.request"]) \in Seq(SentTo(c))
    BY <2>1, QueueGrows
  <2> QED  BY <1>10, <2>2, SentUnchanged DEF RequestSnapshot, history
<1>11. ASSUME NEW c \in Child, Dies(c) \/ Respawn(c)  PROVE Queues'
  <2>1. <<>> \in Seq(SentBy(c)) /\ <<>> \in Seq(SentTo(c))
    BY EmptySeq
  <2> QED  BY <1>11, <2>1, SentUnchanged DEF Dies, Respawn, history
<1>12. ASSUME NEW c \in Child,
              AddRoomMembership(c) \/ RemoveRoomMembership(c) \/ ReplaceRoomSnapshot(c)
       PROVE  Queues'
  BY <1>8, <1>12 DEF AddRoomMembership, RemoveRoomMembership, ReplaceRoomSnapshot, history
<1>13. ASSUME NEW c \in Child,
              ScheduleRestart(c) \/ LateFailureOfOldProcess(c) \/ ExitSeen(c)
       PROVE  Queues'
  BY <1>1, <1>13 DEF ScheduleRestart, LateFailureOfOldProcess, ExitSeen, history
<1>14. CASE UNCHANGED vars
  BY <1>1, <1>14 DEF vars, history
<1> HIDE DEF IInv, TypeOK, Queues
<1> QED
  BY <1>3, <1>4, <1>5, <1>6, <1>7, <1>9, <1>10, <1>11, <1>12, <1>13, <1>14
     DEF Next, GatewayReads, ChildReads

----------------------------------------------------------------------------
(* What has been received was published, and no origin hears its event a   *)
(* second time.                                                            *)
LEMMA EchoStep ==
  ASSUME IInv, [Next]_vars
  PROVE  Unpublished' /\ NoEchoToOrigin'
<1> USE DEF IInv, TypeOK, Unpublished, NoEchoToOrigin
<1>1. ASSUME UNCHANGED <<received, origin>>  PROVE Unpublished' /\ NoEchoToOrigin'
  BY <1>1
<1>2. ASSUME NEW c \in Child, NEW r \in Room, NEW e \in Event, Publish(c, r, e)
      PROVE  Unpublished' /\ NoEchoToOrigin'
  <2>1. /\ origin[e] = {} /\ origin' = [origin EXCEPT ![e] = {c}]
        /\ Deliver(Members(c, r), e, 1)
    BY <1>2 DEF Publish
  <2>2. \A s \in Socket : received'[s][e] \in {0, 1}
    <3> SUFFICES ASSUME NEW s \in Socket  PROVE received'[s][e] \in {0, 1}
      OBVIOUS
    <3>1. received[s][e] = 0 /\ received[s] \in [Event -> Nat]
      BY <2>1
    <3>2. CASE s \in Members(c, r)
      BY <2>1, <3>1, <3>2 DEF Deliver
    <3>3. CASE s \notin Members(c, r)
      BY <2>1, <3>1, <3>3 DEF Deliver
    <3> QED  BY <3>2, <3>3
  <2>3. \A s \in Socket, f \in Event : f # e => received'[s][f] = received[s][f]
    BY <2>1 DEF Deliver
  <2>4. origin'[e] # {} /\ \A f \in Event : f # e => origin'[f] = origin[f]
    BY <2>1
  <2>5. \A f \in Event : origin'[f] = {} => f # e /\ origin[f] = {}
    BY <2>4
  <2>6. Unpublished'
    BY <2>3, <2>5
  <2>7. ASSUME NEW f \in Event, NEW s \in Socket, Home[s] \in origin'[f]
        PROVE  received'[s][f] <= 1
    <3> HIDE DEF IInv, TypeOK, Unpublished, NoEchoToOrigin
    <3>1. CASE f = e
      <4>1. received'[s][f] = 0 \/ received'[s][f] = 1
        BY <2>2, <3>1
      <4> QED  BY <4>1
    <3>2. CASE f # e
      BY <2>3, <2>4, <2>7, <3>2 DEF IInv, NoEchoToOrigin
    <3> QED  BY <3>1, <3>2
  <2> QED  BY <2>6, <2>7
<1>3. ASSUME NEW c \in Child, ChildDelivers(c)  PROVE Unpublished' /\ NoEchoToOrigin'
  <2> DEFINE m == Head(toChild[c])
  <2>1. m \in SentTo(c) /\ m.type = "deliver"
    BY <1>3, QueueRead DEF ChildDelivers, Queues
  <2>2. origin[m.event] # {} /\ c \notin origin[m.event] /\ m.event \in Event
    BY <2>1 DEF SentTo, ChildMessage
  <2>3. Deliver(Members(c, m.room), m.event, 2) /\ origin' = origin
    BY <1>3 DEF ChildDelivers
  <2> HIDE DEF m
  <2>4. \A s \in Members(c, m.room) : Home[s] = c
    BY DEF Members, Sockets
  <2>5. \A s \in Socket, f \in Event :
          received'[s][f] # received[s][f] => f = m.event /\ Home[s] = c
    BY <2>3, <2>4 DEF Deliver
  <2>6. NoEchoToOrigin'
    <3> SUFFICES ASSUME NEW f \in Event, NEW s \in Socket, Home[s] \in origin[f]
                 PROVE  received'[s][f] <= 1
      BY <2>3
    <3>1. received'[s][f] = received[s][f]
      BY <2>2, <2>5
    <3> QED  BY <3>1
  <2>7. Unpublished'
    BY <2>2, <2>3, <2>5
  <2> QED  BY <2>6, <2>7
<1>4. ASSUME NEW s \in Socket, NEW r \in Room, JoinRoom(s, r) \/ LeaveRoom(s, r)
      PROVE  UNCHANGED <<received, origin>>
  BY <1>4 DEF JoinRoom, LeaveRoom, history
<1>5. ASSUME NEW s \in Socket, CloseSocket(s)  PROVE UNCHANGED <<received, origin>>
  BY <1>5 DEF CloseSocket
<1>6. ASSUME NEW c \in Child,
             ChildSnapshots(c) \/ GatewayReads(c) \/ RequestSnapshot(c)
      PROVE  UNCHANGED <<received, origin>>
  BY <1>6 DEF ChildSnapshots, GatewayReads, AddRoomMembership, RemoveRoomMembership,
              ReplaceRoomSnapshot, DeliverPubsub, RequestSnapshot, history
<1>7. ASSUME NEW c \in Child,
             \/ ScheduleRestart(c) \/ LateFailureOfOldProcess(c)
             \/ Dies(c) \/ ExitSeen(c) \/ Respawn(c)
      PROVE  UNCHANGED <<received, origin>>
  BY <1>7 DEF ScheduleRestart, LateFailureOfOldProcess, Dies, ExitSeen, Respawn, history
<1>8. CASE UNCHANGED vars
  BY <1>8 DEF vars, history
<1> HIDE DEF IInv, TypeOK, Unpublished, NoEchoToOrigin
<1> QED
  BY <1>1, <1>2, <1>3, <1>4, <1>5, <1>6, <1>7, <1>8 DEF Next, ChildReads

----------------------------------------------------------------------------
(* The queues are functions of the children; what they hold is a matter of *)
(* Queues.                                                                 *)
QueueFunctions ==
  /\ toGateway = [c \in Child |-> toGateway[c]]
  /\ toChild = [c \in Child |-> toChild[c]]

(* All variables but the queues. *)
OtherTypes ==
  /\ proc \in [Child -> {"up", "dead"}]
  /\ available \in [Child -> BOOLEAN]
  /\ joined \in [Socket -> SUBSET Room]
  /\ conn \in [Socket -> {"new", "open", "closed"}]
  /\ roomChildren \in [Room -> SUBSET Child]
  /\ childRooms \in [Child -> SUBSET Room]
  /\ socketRooms \in [Socket -> SUBSET Room]
  /\ received \in [Socket -> [Event -> Nat]]
  /\ audience \in [Event -> SUBSET (Socket \X Room)]
  /\ origin \in [Event -> SUBSET Child]
  /\ cut \subseteq Child \X Room /\ missed \subseteq Event \X Child
  /\ churn \in Nat /\ faults \in Nat

LEMMA DeliverType ==
  ASSUME received \in [Socket -> [Event -> Nat]],
         NEW ss, NEW e \in Event, NEW n \in Nat, Deliver(ss, e, n)
  PROVE  received' \in [Socket -> [Event -> Nat]]
<1>1. \A s \in Socket : [received[s] EXCEPT ![e] = @ + n] \in [Event -> Nat]
  OBVIOUS
<1> QED  BY <1>1 DEF Deliver

(* Every step keeps the types. *)
LEMMA TypeStep ==
  ASSUME IInv, [Next]_vars
  PROVE  OtherTypes' /\ QueueFunctions'
<1> USE RoutingAssumption DEF IInv, TypeOK, OtherTypes, QueueFunctions
<1>1. ASSUME NEW s \in Socket, NEW r \in Room, JoinRoom(s, r)
      PROVE  OtherTypes' /\ QueueFunctions'
  <2>1. /\ joined' \in [Socket -> SUBSET Room]
        /\ conn' \in [Socket -> {"new", "open", "closed"}]
        /\ churn' \in Nat
    BY <1>1 DEF JoinRoom, Churn
  <2>2. QueueFunctions'
    BY <1>1 DEF JoinRoom
  <2>3. UNCHANGED <<proc, available, gatewayMaps, history, faults>>
    BY <1>1 DEF JoinRoom
  <2> QED  BY <2>1, <2>2, <2>3 DEF gatewayMaps, history
<1>2. ASSUME NEW s \in Socket, NEW r \in Room, LeaveRoom(s, r)
      PROVE  OtherTypes' /\ QueueFunctions'
  <2>1. audience' \in [Event -> SUBSET (Socket \X Room)]
    BY <1>2 DEF LeaveRoom, Forget
  <2>2. joined' \in [Socket -> SUBSET Room]
    BY <1>2 DEF LeaveRoom
  <2>3. churn' \in Nat
    BY <1>2 DEF LeaveRoom, Churn
  <2>4. QueueFunctions'
    BY <1>2 DEF LeaveRoom
  <2>5. UNCHANGED <<proc, available, conn, gatewayMaps, received, origin, missed, faults>>
    BY <1>2 DEF LeaveRoom
  <2> QED  BY <2>1, <2>2, <2>3, <2>4, <2>5 DEF gatewayMaps
<1>3. ASSUME NEW s \in Socket, CloseSocket(s)
      PROVE  OtherTypes' /\ QueueFunctions'
  <2>1. audience' \in [Event -> SUBSET (Socket \X Room)]
    BY <1>3 DEF CloseSocket
  <2>2. PICK q \in SetToSeqs(joined[s]) :
          toGateway' = [toGateway EXCEPT ![Home[s]] = @ \o
            [i \in DOMAIN q |-> [type |-> "unsubscribe", room |-> q[i], socket |-> s]]]
    BY <1>3 DEF CloseSocket
  <2>3. QueueFunctions'
    BY <1>3, <2>2 DEF CloseSocket
  <2>4. OtherTypes'
    BY <1>3, <2>1 DEF CloseSocket, gatewayMaps
  <2> QED  BY <2>3, <2>4
<1>4. ASSUME NEW c \in Child, NEW r \in Room, NEW e \in Event, Publish(c, r, e)
      PROVE  OtherTypes' /\ QueueFunctions'
  <2>1. received' \in [Socket -> [Event -> Nat]]
    BY <1>4, DeliverType DEF Publish
  <2>2. origin' \in [Event -> SUBSET Child] /\ audience' \in [Event -> SUBSET (Socket \X Room)]
    BY <1>4 DEF Publish
  <2> QED  BY <1>4, <2>1, <2>2 DEF Publish, gatewayMaps
<1>5. ASSUME NEW c \in Child, ChildDelivers(c)
      PROVE  OtherTypes' /\ QueueFunctions'
  <2>1. Head(toChild[c]) \in ChildMessage /\ Head(toChild[c]).type = "deliver"
    BY <1>5, QueueRead DEF ChildDelivers
  <2>2. Head(toChild[c]).event \in Event
    BY <2>1 DEF ChildMessage
  <2>3. received' \in [Socket -> [Event -> Nat]]
    BY <1>5, <2>2, DeliverType DEF ChildDelivers
  <2> QED  BY <1>5, <2>3 DEF ChildDelivers, gatewayMaps
<1>6. ASSUME NEW c \in Child, ChildSnapshots(c)
      PROVE  OtherTypes' /\ QueueFunctions'
  BY <1>6 DEF ChildSnapshots, gatewayMaps, history
<1>7. ASSUME NEW c \in Child, NEW types, Receive(c, types)
      PROVE  Head(toGateway[c]) \in GatewayMessage /\ Head(toGateway[c]).type \in types
  BY <1>7, QueueRead DEF Receive
<1>8. ASSUME NEW c \in Child, AddRoomMembership(c) \/ RemoveRoomMembership(c)
      PROVE  OtherTypes' /\ QueueFunctions'
  <2>1. Head(toGateway[c]) \in SubscribeMsg
    <3>1. Receive(c, {"subscribe"}) \/ Receive(c, {"unsubscribe"})
      BY <1>8 DEF AddRoomMembership, RemoveRoomMembership
    <3>2. /\ Head(toGateway[c]) \in GatewayMessage
          /\ Head(toGateway[c]).type \in {"subscribe", "unsubscribe"}
      BY <1>7, <3>1
    <3> QED  BY <3>2 DEF GatewayMessage, SubscribeMsg, PublishMsg, SnapshotMsg
  <2>2. Head(toGateway[c]).room \in Room /\ Head(toGateway[c]).socket \in Socket
    BY <2>1 DEF SubscribeMsg
  <2>3. CASE AddRoomMembership(c)
    BY <2>2, <2>3 DEF AddRoomMembership, Receive, Listed, history
  <2>4. CASE RemoveRoomMembership(c)
    BY <2>2, <2>4 DEF RemoveRoomMembership, Receive, TakenOut, history
  <2> QED  BY <1>8, <2>3, <2>4
<1>9. ASSUME NEW c \in Child, ReplaceRoomSnapshot(c)
      PROVE  OtherTypes' /\ QueueFunctions'
  <2>1. Head(toGateway[c]) \in GatewayMessage /\ Head(toGateway[c]).type = "snapshot"
    BY <1>7, <1>9 DEF ReplaceRoomSnapshot
  <2>2. Head(toGateway[c]).rooms \in SUBSET Room
    BY <2>1 DEF GatewayMessage, SubscribeMsg, PublishMsg, SnapshotMsg
  <2> QED  BY <1>9, <2>2 DEF ReplaceRoomSnapshot, Receive, Listed, history
<1>10. ASSUME NEW c \in Child, DeliverPubsub(c) \/ RequestSnapshot(c)
       PROVE  OtherTypes' /\ QueueFunctions'
  <2>1. CASE DeliverPubsub(c)
    <3>1. Head(toGateway[c]) \in GatewayMessage /\ Head(toGateway[c]).type = "publish"
      BY <1>7, <2>1 DEF DeliverPubsub
    <3>2. Head(toGateway[c]).event \in Event
      BY <3>1 DEF GatewayMessage, SubscribeMsg, PublishMsg, SnapshotMsg
    <3> QED  BY <2>1, <3>2 DEF DeliverPubsub, Receive, gatewayMaps
  <2>2. CASE RequestSnapshot(c)
    BY <2>2 DEF RequestSnapshot, gatewayMaps, history
  <2> QED  BY <1>10, <2>1, <2>2
<1>11. ASSUME NEW c \in Child, RemoveChildRooms(c)
       PROVE  /\ roomChildren' \in [Room -> SUBSET Child]
              /\ childRooms' \in [Child -> SUBSET Room]
              /\ socketRooms' \in [Socket -> SUBSET Room]
              /\ cut' \subseteq Child \X Room
  BY <1>11 DEF RemoveChildRooms, TakenOut
<1>12. ASSUME NEW c \in Child,
              ScheduleRestart(c) \/ LateFailureOfOldProcess(c) \/ ExitSeen(c)
       PROVE  OtherTypes' /\ QueueFunctions'
  <2>1. RemoveChildRooms(c)
    BY <1>12 DEF ScheduleRestart, LateFailureOfOldProcess, ExitSeen
  <2>2. available' = available \/ available' = [available EXCEPT ![c] = FALSE]
    BY <1>12 DEF ScheduleRestart, LateFailureOfOldProcess, ExitSeen
  <2>3. available' \in [Child -> BOOLEAN]
    BY <2>2
  <2>4. faults' \in Nat
    BY <1>12 DEF ScheduleRestart, LateFailureOfOldProcess, ExitSeen, Fault
  <2>5. UNCHANGED <<proc, joined, conn, toGateway, toChild, history, churn>>
    BY <1>12 DEF ScheduleRestart, LateFailureOfOldProcess, ExitSeen, history
  <2> QED  BY <1>11, <2>1, <2>3, <2>4, <2>5 DEF history
<1>13. ASSUME NEW c \in Child, Dies(c)
       PROVE  OtherTypes' /\ QueueFunctions'
  <2>1. audience' \in [Event -> SUBSET (Socket \X Room)]
    BY <1>13 DEF Dies
  <2>2. faults' \in Nat
    BY <1>13 DEF Dies, Fault
  <2> QED  BY <1>13, <2>1, <2>2 DEF Dies, gatewayMaps
<1>14. ASSUME NEW c \in Child, Respawn(c)
       PROVE  OtherTypes' /\ QueueFunctions'
  BY <1>14 DEF Respawn, gatewayMaps, history
<1>15. CASE UNCHANGED vars
  BY <1>15 DEF vars, gatewayMaps, history
<1> HIDE DEF IInv, TypeOK, OtherTypes, QueueFunctions
<1> QED
  BY <1>1, <1>2, <1>3, <1>4, <1>5, <1>6, <1>8, <1>9, <1>10, <1>12, <1>13, <1>14,
     <1>15 DEF Next, ChildReads, GatewayReads

LEMMA NextInv == IInv /\ [Next]_vars => IInv'
<1> SUFFICES ASSUME IInv, [Next]_vars  PROVE IInv'
  OBVIOUS
<1>1. Queues' /\ OtherTypes' /\ QueueFunctions'
  BY QueuesStep, TypeStep
<1>2. \A c \in Child : SentBy(c)' \subseteq GatewayMessage /\ SentTo(c)' \subseteq ChildMessage
  BY DEF SentBy, SentTo
<1>3. \A c \in Child :
        toGateway'[c] \in Seq(GatewayMessage) /\ toChild'[c] \in Seq(ChildMessage)
  BY <1>1, <1>2, SeqMonotonic DEF Queues
<1>4. /\ toGateway' \in [Child -> Seq(GatewayMessage)]
      /\ toChild' \in [Child -> Seq(ChildMessage)]
  BY <1>1, <1>3 DEF QueueFunctions
<1>5. TypeOK'
  BY <1>1, <1>4 DEF TypeOK, OtherTypes, GatewayMessage, ChildMessage, SubscribeMsg,
                    PublishMsg, SnapshotMsg
<1> QED  BY <1>1, <1>5, MirrorStep, EchoStep DEF IInv

(* The inductive invariant: the types, the two room maps that stay inverse *)
(* to each other, what may be under way in the queues, and what has been   *)
(* received of an event that nobody has published yet.                     *)
THEOREM RoutingInvariant == Spec => []IInv
BY InitInv, NextInv, PTL DEF Spec

(* The maps, queues and histories keep their types. *)
THEOREM TypeCorrect == Spec => []TypeOK
<1>1. IInv => TypeOK
  BY DEF IInv
<1> QED  BY <1>1, RoutingInvariant, PTL

(* The gateway's two room maps are inverse to each other, whatever joins,  *)
(* leaves, snapshots, wipes and late messages of dead processes there are. *)
THEOREM MirrorCorrect == Spec => []MapsMirror
<1>1. IInv => MapsMirror
  BY DEF IInv
<1> QED  BY <1>1, RoutingInvariant, PTL

(* The gateway never sends an event back to the sockets of the child that  *)
(* published it.                                                           *)
THEOREM EchoCorrect == Spec => []NoEchoToOrigin
<1>1. IInv => NoEchoToOrigin
  BY DEF IInv
<1> QED  BY <1>1, RoutingInvariant, PTL

----------------------------------------------------------------------------
----------------------------------------------------------------------------
(* OnlyCutOffMiss.  What a child has sent about a socket and a room counts *)
(* when the gateway has read it, so that the invariant speaks of sockets   *)
(* of which nothing is under way.                                          *)
Subscription(m) == m.type \in {"subscribe", "unsubscribe"}

About(m, s, r) == Subscription(m) /\ m.room = r /\ m.socket = s

OneOf(q, x) == \E k \in 1 .. Len(q) : q[k] = x

(* Nothing in q is about socket s and room r. *)
Silent(q, s, r) == \A k \in 1 .. Len(q) : ~About(q[k], s, r)

(* A snapshot in q with nothing about s and r after it lists the room. *)
Truthful(q, s, r) ==
  \A i \in 1 .. Len(q) :
    /\ q[i].type = "snapshot"
    /\ \A k \in i + 1 .. Len(q) : ~About(q[k], s, r)
    => r \in q[i].rooms

PublishOf(r, e) == [type |-> "publish", room |-> r, event |-> e]
DeliverOf(r, e) == [type |-> "deliver", room |-> r, event |-> e]

(* The sockets of a dead process are in no room. *)
DeadLeft == \A s \in Socket : proc[Home[s]] = "dead" => joined[s] = {}

(* The gateway lists a child for the rooms of its sockets, as far as it    *)
(* has read about them, or has taken it out of them.                       *)
ListedOrCut ==
  \A s \in Socket, r \in Room :
    r \in joined[s] /\ Silent(toGateway[Home[s]], s, r) =>
      r \in childRooms[Home[s]] \/ <<Home[s], r>> \in cut

SnapshotsAreTrue ==
  \A s \in Socket, r \in Room :
    r \in joined[s] => Truthful(toGateway[Home[s]], s, r)

(* Event e is on its way to s through room r: a message to the child holds *)
(* it, or the gateway is still to read it from another child.              *)
Coming(s, r, e) ==
  \/ OneOf(toChild[Home[s]], DeliverOf(r, e))
  \/ /\ Silent(toGateway[Home[s]], s, r)
     /\ \E c \in Child \ {Home[s]} : OneOf(toGateway[c], PublishOf(r, e))

(* Whoever an event is meant for is in the room still, and has received    *)
(* it, is going to, or is at a child that missed it.                       *)
Meant ==
  \A e \in Event, s \in Socket, r \in Room : <<s, r>> \in audience[e] =>
    /\ r \in joined[s]
    /\ received[s][e] > 0 \/ <<e, Home[s]>> \in missed \/ Coming(s, r, e)

Reach == DeadLeft /\ ListedOrCut /\ SnapshotsAreTrue /\ Meant

LEMMA MessageRooms ==
  ASSUME NEW m \in GatewayMessage
  PROVE  /\ Subscription(m) => m.room \in Room /\ m.socket \in Socket
         /\ m.type = "snapshot" => m.rooms \in SUBSET Room
BY DEF Subscription, GatewayMessage, SubscribeMsg, PublishMsg, SnapshotMsg

(* A queue and one message more, or several, or one less. *)
LEMMA QueueAppend ==
  ASSUME NEW M, NEW q \in Seq(M), NEW m \in M
  PROVE  /\ OneOf(Append(q, m), m)
         /\ \A x : OneOf(q, x) => OneOf(Append(q, m), x)
         /\ \A s, r : Silent(Append(q, m), s, r) <=> Silent(q, s, r) /\ ~About(m, s, r)
<1> DEFINE n == Len(q)
           z == Append(q, m)
<1>1. n \in Nat /\ Len(z) = n + 1 /\ z[n + 1] = m /\ \A k \in 1 .. n : z[k] = q[k]
  BY AppendProperties
<1> HIDE DEF n, z
<1>2. n + 1 \in 1 .. n + 1 /\ \A k \in 1 .. n + 1 : k \in 1 .. n \/ k = n + 1
  BY <1>1
<1>3. 1 .. n \subseteq 1 .. n + 1
  BY <1>1
<1>4. OneOf(z, m)
  BY <1>1, <1>2 DEF OneOf
<1>5. \A x : OneOf(q, x) => OneOf(z, x)
  BY <1>1, <1>3 DEF OneOf, n
<1>6. \A s, r : Silent(z, s, r) <=> Silent(q, s, r) /\ ~About(m, s, r)
  BY <1>1, <1>2, <1>3 DEF Silent, n
<1> QED  BY <1>4, <1>5, <1>6 DEF z

(* What the last message is decides, if it is about s and r; otherwise     *)
(* only if it is a snapshot.                                               *)
LEMMA TruthfulAppend ==
  ASSUME NEW M, NEW q \in Seq(M), NEW m \in M, NEW s, NEW r,
         m.type = "snapshot" => r \in m.rooms,
         Truthful(q, s, r) \/ About(m, s, r)
  PROVE  Truthful(Append(q, m), s, r)
<1> DEFINE n == Len(q)
           z == Append(q, m)
<1>1. n \in Nat /\ Len(z) = n + 1 /\ z[n + 1] = m /\ \A k \in 1 .. n : z[k] = q[k]
  BY AppendProperties
<1> HIDE DEF n, z
<1>2. SUFFICES ASSUME NEW i \in 1 .. n + 1, z[i].type = "snapshot",
                      \A k \in i + 1 .. n + 1 : ~About(z[k], s, r)
               PROVE  r \in z[i].rooms
  BY <1>1 DEF Truthful, z
<1>3. CASE i = n + 1
  BY <1>1, <1>2, <1>3
<1>4. CASE i # n + 1
  <2>1. i \in 1 .. n /\ n + 1 \in i + 1 .. n + 1 /\ z[i] = q[i]
    BY <1>1, <1>4
  <2>2. ~About(m, s, r)
    BY <1>1, <1>2, <2>1
  <2>3. ASSUME NEW k \in i + 1 .. n  PROVE ~About(q[k], s, r)
    <3>1. k \in 1 .. n /\ k \in i + 1 .. n + 1
      BY <1>1, <2>1
    <3> QED  BY <1>1, <1>2, <3>1
  <2> QED  BY <1>2, <2>1, <2>2, <2>3 DEF Truthful, n
<1> QED  BY <1>3, <1>4

(* Several subscriptions more. *)
LEMMA QueueConcat ==
  ASSUME NEW M, NEW q \in Seq(M), NEW t \in Seq(M), NEW s, NEW r,
         \A i \in 1 .. Len(t) : ~About(t[i], s, r) /\ t[i].type # "snapshot"
  PROVE  /\ \A x : OneOf(q, x) => OneOf(q \o t, x)
         /\ Silent(q, s, r) <=> Silent(q \o t, s, r)
         /\ Truthful(q, s, r) => Truthful(q \o t, s, r)
<1> DEFINE n == Len(q)
           l == Len(t)
           z == q \o t
<1>1. /\ Len(z) = n + l /\ n \in Nat /\ l \in Nat
      /\ \A i \in 1 .. n + l : z[i] = IF i <= n THEN q[i] ELSE t[i - n]
  BY ConcatProperties, LenProperties
<1> HIDE DEF n, l, z
<1>2. /\ \A i \in 1 .. n : i \in 1 .. n + l /\ z[i] = q[i]
      /\ \A i \in 1 .. n + l : i \in 1 .. n \/ (i - n \in 1 .. l /\ z[i] = t[i - n])
  BY <1>1
<1>3. \A i \in 1 .. n + l : i \in 1 .. n \/ (~About(z[i], s, r) /\ z[i].type # "snapshot")
  BY <1>2 DEF l
<1>4. \A x : OneOf(q, x) => OneOf(z, x)
  BY <1>1, <1>2 DEF OneOf, n
<1>5. Silent(q, s, r) <=> Silent(z, s, r)
  BY <1>1, <1>2, <1>3 DEF Silent, n
<1>6. ASSUME Truthful(q, s, r)  PROVE Truthful(z, s, r)
  <2> SUFFICES ASSUME NEW i \in 1 .. n + l, z[i].type = "snapshot",
                      \A k \in i + 1 .. n + l : ~About(z[k], s, r)
               PROVE  r \in z[i].rooms
    BY <1>1 DEF Truthful
  <2>1. i \in 1 .. n /\ z[i] = q[i]
    BY <1>2, <1>3
  <2>2. ASSUME NEW k \in i + 1 .. n  PROVE ~About(q[k], s, r)
    <3>1. k \in 1 .. n /\ k \in i + 1 .. n + l
      BY <1>1, <2>1
    <3> QED  BY <1>2, <3>1
  <2> QED  BY <1>6, <2>1, <2>2 DEF Truthful, n
<1> QED  BY <1>4, <1>5, <1>6 DEF z

LEMMA QueueTail ==
  ASSUME NEW M, NEW q \in Seq(M), q # <<>>
  PROVE  /\ \A x : OneOf(q, x) => x = Head(q) \/ OneOf(Tail(q), x)
         /\ \A s, r : Silent(q, s, r) <=> ~About(Head(q), s, r) /\ Silent(Tail(q), s, r)
         /\ \A s, r : Truthful(q, s, r) =>
              /\ Truthful(Tail(q), s, r)
              /\ Head(q).type = "snapshot" /\ Silent(Tail(q), s, r) => r \in Head(q).rooms
<1> DEFINE n == Len(q)
           z == Tail(q)
<1>1. /\ n \in Nat \ {0} /\ Len(z) = n - 1 /\ Head(q) = q[1]
      /\ \A k \in 1 .. n - 1 : z[k] = q[k + 1]
  BY HeadTailProperties
<1> HIDE DEF n, z
<1>2. /\ \A k \in 1 .. n : k # 1 => k - 1 \in 1 .. n - 1 /\ (k - 1) + 1 = k
      /\ \A k \in 1 .. n - 1 : k + 1 \in 1 .. n
      /\ 1 \in 1 .. n
  BY <1>1
<1>3. \A x : OneOf(q, x) => x = Head(q) \/ OneOf(z, x)
  <2> SUFFICES ASSUME NEW x, OneOf(q, x), x # Head(q)  PROVE OneOf(z, x)
    OBVIOUS
  <2>1. PICK k \in 1 .. n : q[k] = x
    BY DEF OneOf, n
  <2>2. k # 1
    BY <1>1, <2>1
  <2>3. k - 1 \in 1 .. n - 1 /\ (k - 1) + 1 = k
    BY <1>2, <2>2
  <2>4. z[k - 1] = x
    BY <1>1, <2>1, <2>3
  <2> QED  BY <1>1, <2>3, <2>4 DEF OneOf
<1>4. ASSUME NEW s, NEW r
      PROVE  Silent(q, s, r) <=> ~About(Head(q), s, r) /\ Silent(z, s, r)
  <2>1. Silent(q, s, r) => ~About(Head(q), s, r) /\ Silent(z, s, r)
    BY <1>1, <1>2 DEF Silent, n
  <2>2. ASSUME ~About(Head(q), s, r), Silent(z, s, r), NEW k \in 1 .. n
        PROVE  ~About(q[k], s, r)
    <3>1. CASE k = 1
      BY <1>1, <2>2, <3>1
    <3>2. CASE k # 1
      <4>1. k - 1 \in 1 .. n - 1 /\ q[k] = z[k - 1]
        BY <1>1, <1>2, <3>2
      <4> QED  BY <1>1, <2>2, <4>1 DEF Silent
    <3> QED  BY <3>1, <3>2
  <2> QED  BY <2>1, <2>2 DEF Silent, n
<1>5. ASSUME NEW s, NEW r, Truthful(q, s, r)
      PROVE  /\ Truthful(z, s, r)
             /\ Head(q).type = "snapshot" /\ Silent(z, s, r) => r \in Head(q).rooms
  <2>1. ASSUME NEW i \in 1 .. n - 1, z[i].type = "snapshot",
               \A k \in i + 1 .. n - 1 : ~About(z[k], s, r)
        PROVE  r \in z[i].rooms
    <3>1. i + 1 \in 1 .. n /\ q[i + 1] = z[i]
      BY <1>1, <1>2
    <3>2. ASSUME NEW k \in (i + 1) + 1 .. n  PROVE ~About(q[k], s, r)
      <4>1. k - 1 \in i + 1 .. n - 1 /\ k - 1 \in 1 .. n - 1 /\ (k - 1) + 1 = k
        BY <1>1, <3>1
      <4> QED  BY <1>1, <2>1, <4>1
    <3> QED  BY <1>5, <2>1, <3>1, <3>2 DEF Truthful, n
  <2>2. ASSUME Head(q).type = "snapshot", Silent(z, s, r)  PROVE r \in Head(q).rooms
    <3>1. ASSUME NEW k \in 1 + 1 .. n  PROVE ~About(q[k], s, r)
      <4>1. k - 1 \in 1 .. n - 1 /\ (k - 1) + 1 = k
        BY <1>1
      <4> QED  BY <1>1, <2>2, <4>1 DEF Silent
    <3> QED  BY <1>1, <1>2, <1>5, <2>2, <3>1 DEF Truthful, n
  <2> QED  BY <1>1, <2>1, <2>2 DEF Truthful
<1> QED  BY <1>3, <1>4, <1>5 DEF z

(* A socket is connected to a child. *)
LEMMA HomeIsChild ==
  ASSUME NEW s \in Socket
  PROVE  Home[s] \in Child
BY RoutingAssumption DEF RoutingAssumption

(* A child sends a message. *)
LEMMA Sent ==
  ASSUME TypeOK, NEW c \in Child, NEW m \in GatewayMessage,
         toGateway' = [toGateway EXCEPT ![c] = Append(@, m)]
  PROVE  /\ OneOf(toGateway'[c], m)
         /\ \A d \in Child : \A x : OneOf(toGateway[d], x) => OneOf(toGateway'[d], x)
         /\ \A s \in Socket : \A r :
              Silent(toGateway'[Home[s]], s, r) <=>
                /\ Silent(toGateway[Home[s]], s, r)
                /\ Home[s] = c => ~About(m, s, r)
         /\ \A s \in Socket : \A r :
              /\ m.type = "snapshot" /\ Home[s] = c => r \in m.rooms
              /\ Truthful(toGateway[Home[s]], s, r) \/ (Home[s] = c /\ About(m, s, r))
              => Truthful(toGateway'[Home[s]], s, r)
<1>1. toGateway[c] \in Seq(GatewayMessage) /\ toGateway'[c] = Append(toGateway[c], m)
      /\ \A d \in Child : d # c => toGateway'[d] = toGateway[d]
  BY DEF TypeOK
<1>2. /\ OneOf(toGateway'[c], m)
      /\ \A x : OneOf(toGateway[c], x) => OneOf(toGateway'[c], x)
      /\ \A s, r : Silent(toGateway'[c], s, r) <=>
                     Silent(toGateway[c], s, r) /\ ~About(m, s, r)
  BY <1>1, QueueAppend
<1>3. ASSUME NEW d \in Child, NEW x, OneOf(toGateway[d], x)  PROVE OneOf(toGateway'[d], x)
  BY <1>1, <1>2, <1>3
<1>4. ASSUME NEW s \in Socket, NEW r
      PROVE  Silent(toGateway'[Home[s]], s, r) <=>
               /\ Silent(toGateway[Home[s]], s, r)
               /\ Home[s] = c => ~About(m, s, r)
  BY <1>1, <1>2, HomeIsChild
<1>5. ASSUME NEW s \in Socket, NEW r,
             m.type = "snapshot" /\ Home[s] = c => r \in m.rooms,
             Truthful(toGateway[Home[s]], s, r) \/ (Home[s] = c /\ About(m, s, r))
      PROVE  Truthful(toGateway'[Home[s]], s, r)
  <2>1. CASE Home[s] = c
    <3>1. Truthful(toGateway[c], s, r) \/ About(m, s, r)
      BY <1>5, <2>1
    <3>2. m.type = "snapshot" => r \in m.rooms
      BY <1>5, <2>1
    <3>3. Truthful(Append(toGateway[c], m), s, r)
      BY <1>1, <3>1, <3>2, TruthfulAppend
    <3> QED  BY <1>1, <2>1, <3>3
  <2>2. CASE Home[s] # c
    BY <1>1, <1>5, <2>2, HomeIsChild
  <2> QED  BY <2>1, <2>2
<1> QED  BY <1>2, <1>3, <1>4, <1>5

(* The gateway reads a message of a child. *)
LEMMA Read ==
  ASSUME TypeOK, NEW c \in Child, NEW types, Receive(c, types),
         NEW m, m = Head(toGateway[c])
  PROVE  /\ m \in GatewayMessage /\ m.type \in types
         /\ \A d \in Child : \A x : OneOf(toGateway[d], x) =>
              OneOf(toGateway'[d], x) \/ (d = c /\ x = m)
         /\ \A s \in Socket : \A r :
              Silent(toGateway[Home[s]], s, r) <=>
                /\ Silent(toGateway'[Home[s]], s, r)
                /\ Home[s] = c => ~About(m, s, r)
         /\ \A s \in Socket : \A r : Truthful(toGateway[Home[s]], s, r) =>
              /\ Truthful(toGateway'[Home[s]], s, r)
              /\ Home[s] = c /\ m.type = "snapshot" /\ Silent(toGateway'[Home[s]], s, r)
                   => r \in m.rooms
<1>1. /\ toGateway[c] \in Seq(GatewayMessage) /\ toGateway[c] # <<>>
      /\ toGateway'[c] = Tail(toGateway[c]) /\ m.type \in types
      /\ \A d \in Child : d # c => toGateway'[d] = toGateway[d]
  BY DEF TypeOK, Receive
<1>2. m \in GatewayMessage
  BY <1>1, QueueRead
<1>3. /\ \A x : OneOf(toGateway[c], x) => x = m \/ OneOf(toGateway'[c], x)
      /\ \A s, r : Silent(toGateway[c], s, r) <=>
                     ~About(m, s, r) /\ Silent(toGateway'[c], s, r)
      /\ \A s, r : Truthful(toGateway[c], s, r) =>
           /\ Truthful(toGateway'[c], s, r)
           /\ m.type = "snapshot" /\ Silent(toGateway'[c], s, r) => r \in m.rooms
  BY <1>1, QueueTail
<1>4. ASSUME NEW d \in Child, NEW x, OneOf(toGateway[d], x)
      PROVE  OneOf(toGateway'[d], x) \/ (d = c /\ x = m)
  BY <1>1, <1>3, <1>4
<1>5. ASSUME NEW s \in Socket, NEW r
      PROVE  Silent(toGateway[Home[s]], s, r) <=>
               /\ Silent(toGateway'[Home[s]], s, r)
               /\ Home[s] = c => ~About(m, s, r)
  BY <1>1, <1>3, HomeIsChild
<1>6. ASSUME NEW s \in Socket, NEW r, Truthful(toGateway[Home[s]], s, r)
      PROVE  /\ Truthful(toGateway'[Home[s]], s, r)
             /\ Home[s] = c /\ m.type = "snapshot" /\ Silent(toGateway'[Home[s]], s, r)
                  => r \in m.rooms
  <2>1. CASE Home[s] = c
    BY <1>3, <1>6, <2>1
  <2>2. CASE Home[s] # c
    BY <1>1, <1>6, <2>2, HomeIsChild
  <2> QED  BY <2>1, <2>2
<1> QED  BY <1>1, <1>2, <1>4, <1>5, <1>6

----------------------------------------------------------------------------
(* A socket joins a room, leaves one or is closed. *)
LEMMA JoinStep ==
  ASSUME TypeOK, Reach, NEW s0 \in Socket, NEW r0 \in Room, JoinRoom(s0, r0)
  PROVE  Reach'
<1> DEFINE m == [type |-> "subscribe", room |-> r0, socket |-> s0]
<1>1. /\ m \in GatewayMessage /\ m.type # "snapshot"
      /\ \A s, r : About(m, s, r) <=> s = s0 /\ r = r0
  BY DEF GatewayMessage, SubscribeMsg, About, Subscription
<1>2. /\ toGateway' = [toGateway EXCEPT ![Home[s0]] = Append(@, m)]
      /\ joined' = [joined EXCEPT ![s0] = @ \union {r0}]
      /\ r0 \notin joined[s0] /\ proc[Home[s0]] = "up"
      /\ UNCHANGED <<proc, available, childRooms, cut, missed, toChild, received, audience>>
  BY DEF JoinRoom, gatewayMaps, history
<1> HIDE DEF m
<1>3. Home[s0] \in Child
  BY HomeIsChild
<1>4. /\ \A d \in Child : \A x : OneOf(toGateway[d], x) => OneOf(toGateway'[d], x)
      /\ \A s \in Socket : \A r :
           Silent(toGateway'[Home[s]], s, r) <=>
             Silent(toGateway[Home[s]], s, r) /\ ~(s = s0 /\ r = r0)
      /\ \A s \in Socket : \A r :
           Truthful(toGateway[Home[s]], s, r) \/ (s = s0 /\ r = r0)
           => Truthful(toGateway'[Home[s]], s, r)
  BY <1>1, <1>2, <1>3, Sent
<1>5. \A s \in Socket, r \in Room : r \in joined'[s] <=> r \in joined[s] \/ (s = s0 /\ r = r0)
  BY <1>2 DEF TypeOK
<1>6. DeadLeft'
  BY <1>2 DEF Reach, DeadLeft, TypeOK
<1>7. ListedOrCut'
  BY <1>2, <1>4, <1>5 DEF Reach, ListedOrCut
<1>8. SnapshotsAreTrue'
  BY <1>4, <1>5 DEF Reach, SnapshotsAreTrue
<1>9. Meant'
  <2> SUFFICES ASSUME NEW e \in Event, NEW s \in Socket, NEW r \in Room,
                      <<s, r>> \in audience[e]
               PROVE  /\ r \in joined'[s]
                      /\ \/ received[s][e] > 0 \/ <<e, Home[s]>> \in missed
                         \/ Coming(s, r, e)'
    BY <1>2 DEF Meant
  <2>1. /\ r \in joined[s]
        /\ received[s][e] > 0 \/ <<e, Home[s]>> \in missed \/ Coming(s, r, e)
    BY DEF Reach, Meant
  <2>2. ~(s = s0 /\ r = r0)
    BY <1>2, <2>1
  <2>3. Coming(s, r, e) => Coming(s, r, e)'
    BY <1>2, <1>4, <2>2 DEF Coming, PublishOf, DeliverOf
  <2> QED  BY <1>5, <2>1, <2>3
<1> QED  BY <1>6, <1>7, <1>8, <1>9 DEF Reach

LEMMA LeaveStep ==
  ASSUME TypeOK, Reach, NEW s0 \in Socket, NEW r0 \in Room, LeaveRoom(s0, r0)
  PROVE  Reach'
<1> DEFINE m == [type |-> "unsubscribe", room |-> r0, socket |-> s0]
<1>1. /\ m \in GatewayMessage /\ m.type # "snapshot"
      /\ \A s, r : About(m, s, r) <=> s = s0 /\ r = r0
  BY DEF GatewayMessage, SubscribeMsg, About, Subscription
<1>2. /\ toGateway' = [toGateway EXCEPT ![Home[s0]] = Append(@, m)]
      /\ joined' = [joined EXCEPT ![s0] = @ \ {r0}]
      /\ audience' = [e \in Event |-> audience[e] \ {<<t, r0>> : t \in {s0}}]
      /\ UNCHANGED <<proc, available, childRooms, cut, missed, toChild, received>>
  BY DEF LeaveRoom, gatewayMaps, Forget
<1> HIDE DEF m
<1>3. Home[s0] \in Child
  BY HomeIsChild
<1>4. /\ \A d \in Child : \A x : OneOf(toGateway[d], x) => OneOf(toGateway'[d], x)
      /\ \A s \in Socket : \A r :
           Silent(toGateway'[Home[s]], s, r) <=>
             Silent(toGateway[Home[s]], s, r) /\ ~(s = s0 /\ r = r0)
      /\ \A s \in Socket : \A r :
           Truthful(toGateway[Home[s]], s, r) => Truthful(toGateway'[Home[s]], s, r)
  BY <1>1, <1>2, <1>3, Sent
<1>5. \A s \in Socket, r \in Room : r \in joined'[s] <=> r \in joined[s] /\ ~(s = s0 /\ r = r0)
  BY <1>2 DEF TypeOK
<1>6. DeadLeft'
  BY <1>2 DEF Reach, DeadLeft, TypeOK
<1>7. ListedOrCut'
  BY <1>2, <1>4, <1>5 DEF Reach, ListedOrCut
<1>8. SnapshotsAreTrue'
  BY <1>4, <1>5 DEF Reach, SnapshotsAreTrue
<1>9. Meant'
  <2> SUFFICES ASSUME NEW e \in Event, NEW s \in Socket, NEW r \in Room,
                      <<s, r>> \in audience'[e]
               PROVE  /\ r \in joined'[s]
                      /\ \/ received[s][e] > 0 \/ <<e, Home[s]>> \in missed
                         \/ Coming(s, r, e)'
    BY <1>2 DEF Meant
  <2>1. <<s, r>> \in audience[e] /\ ~(s = s0 /\ r = r0)
    BY <1>2
  <2>2. /\ r \in joined[s]
        /\ received[s][e] > 0 \/ <<e, Home[s]>> \in missed \/ Coming(s, r, e)
    BY <2>1 DEF Reach, Meant
  <2>3. Coming(s, r, e) => Coming(s, r, e)'
    BY <1>2, <1>4, <2>1 DEF Coming, PublishOf, DeliverOf
  <2> QED  BY <1>5, <2>1, <2>2, <2>3
<1> QED  BY <1>6, <1>7, <1>8, <1>9 DEF Reach

LEMMA CloseStep ==
  ASSUME TypeOK, Reach, NEW s0 \in Socket, CloseSocket(s0)
  PROVE  Reach'
<1> DEFINE c == Home[s0]
<1>1. PICK p \in SetToSeqs(joined[s0]) :
        toGateway' = [toGateway EXCEPT ![c] = @ \o
          [i \in DOMAIN p |-> [type |-> "unsubscribe", room |-> p[i], socket |-> s0]]]
  BY DEF CloseSocket
<1> DEFINE left == [i \in DOMAIN p |->
                      [type |-> "unsubscribe", room |-> p[i], socket |-> s0]]
<1>2. c \in Child /\ joined[s0] \in SUBSET Room
  BY HomeIsChild DEF TypeOK
<1>3. left \in Seq(SubscribeMsg)
  BY <1>2, LeaveMessages
<1>4. \A i \in 1 .. Len(left) : left[i].socket = s0 /\ left[i].type # "snapshot"
  <2>1. \A i \in DOMAIN left : left[i].socket = s0 /\ left[i].type # "snapshot"
    OBVIOUS
  <2> HIDE DEF left
  <2> QED  BY <1>3, <2>1, LenProperties
<1>5. left \in Seq(GatewayMessage)
  <2> HIDE DEF left
  <2>1. SubscribeMsg \subseteq GatewayMessage
    BY DEF GatewayMessage
  <2> QED  BY <1>3, <2>1, SeqMonotonic
<1>6. /\ toGateway' = [toGateway EXCEPT ![c] = @ \o left]
      /\ joined' = [joined EXCEPT ![s0] = {}]
      /\ audience' = [e \in Event |-> {a \in audience[e] : a[1] # s0}]
      /\ UNCHANGED <<proc, available, childRooms, cut, missed, toChild, received>>
  BY <1>1 DEF CloseSocket, gatewayMaps
<1> HIDE DEF left, c
<1>7. /\ toGateway[c] \in Seq(GatewayMessage) /\ toGateway'[c] = toGateway[c] \o left
      /\ \A d \in Child : d # c => toGateway'[d] = toGateway[d]
  BY <1>2, <1>6 DEF TypeOK
<1>8. ASSUME NEW s \in Socket, s # s0, NEW r, NEW d \in Child
      PROVE  /\ \A x : OneOf(toGateway[d], x) => OneOf(toGateway'[d], x)
             /\ Silent(toGateway[d], s, r) <=> Silent(toGateway'[d], s, r)
             /\ Truthful(toGateway[d], s, r) => Truthful(toGateway'[d], s, r)
  <2>1. \A i \in 1 .. Len(left) : ~About(left[i], s, r) /\ left[i].type # "snapshot"
    BY <1>4, <1>8 DEF About
  <2>2. CASE d = c
    <3>1. /\ \A x : OneOf(toGateway[c], x) => OneOf(toGateway[c] \o left, x)
          /\ Silent(toGateway[c], s, r) <=> Silent(toGateway[c] \o left, s, r)
          /\ Truthful(toGateway[c], s, r) => Truthful(toGateway[c] \o left, s, r)
      BY <1>5, <1>7, <2>1, QueueConcat
    <3> QED  BY <1>7, <2>2, <3>1
  <2>3. CASE d # c
    BY <1>7, <2>3
  <2> QED  BY <2>2, <2>3
<1>9. \A s \in Socket, r \in Room : r \in joined'[s] <=> r \in joined[s] /\ s # s0
  BY <1>6 DEF TypeOK
<1>10. DeadLeft'
  BY <1>6 DEF Reach, DeadLeft, TypeOK
<1>11. ListedOrCut'
  BY <1>6, <1>8, <1>9, HomeIsChild DEF Reach, ListedOrCut
<1>12. SnapshotsAreTrue'
  BY <1>8, <1>9, HomeIsChild DEF Reach, SnapshotsAreTrue
<1>13. Meant'
  <2> SUFFICES ASSUME NEW e \in Event, NEW s \in Socket, NEW r \in Room,
                      <<s, r>> \in audience'[e]
               PROVE  /\ r \in joined'[s]
                      /\ \/ received[s][e] > 0 \/ <<e, Home[s]>> \in missed
                         \/ Coming(s, r, e)'
    BY <1>6 DEF Meant
  <2>1. <<s, r>> \in audience[e] /\ s # s0
    BY <1>6
  <2>2. /\ r \in joined[s]
        /\ received[s][e] > 0 \/ <<e, Home[s]>> \in missed \/ Coming(s, r, e)
    BY <2>1 DEF Reach, Meant
  <2>3. Coming(s, r, e) => Coming(s, r, e)'
    BY <1>6, <1>8, <2>1, HomeIsChild DEF Coming, PublishOf, DeliverOf
  <2> QED  BY <1>9, <2>1, <2>2, <2>3
<1> QED  BY <1>10, <1>11, <1>12, <1>13 DEF Reach

----------------------------------------------------------------------------
(* An event is published, delivered by a child; a snapshot is sent. *)
LEMMA PublishStep ==
  ASSUME TypeOK, Unpublished, Reach,
         NEW c \in Child, NEW r0 \in Room, NEW e0 \in Event, Publish(c, r0, e0)
  PROVE  Reach'
<1> DEFINE m == PublishOf(r0, e0)
<1>1. /\ m \in GatewayMessage /\ m.type # "snapshot"
      /\ \A s, r : ~About(m, s, r)
  BY DEF PublishOf, GatewayMessage, PublishMsg, About, Subscription
<1>2. /\ toGateway' = [toGateway EXCEPT ![c] = Append(@, m)]
      /\ Deliver(Members(c, r0), e0, 1)
      /\ audience' = [audience EXCEPT ![e0] =
           {<<s, r0>> : s \in {t \in Socket :
                                 r0 \in joined[t] /\ (Home[t] = c \/ Heard(t, r0))}}]
      /\ UNCHANGED <<proc, available, joined, childRooms, cut, missed, toChild>>
  BY DEF Publish, gatewayMaps, PublishOf
<1> HIDE DEF m
<1>3. /\ OneOf(toGateway'[c], m)
      /\ \A d \in Child : \A x : OneOf(toGateway[d], x) => OneOf(toGateway'[d], x)
      /\ \A s \in Socket : \A r :
           Silent(toGateway'[Home[s]], s, r) <=> Silent(toGateway[Home[s]], s, r)
      /\ \A s \in Socket : \A r :
           Truthful(toGateway[Home[s]], s, r) => Truthful(toGateway'[Home[s]], s, r)
  BY <1>1, <1>2, Sent
<1>4. ASSUME NEW s \in Socket, NEW e \in Event
      PROVE  /\ received[s][e] > 0 => received'[s][e] > 0
             /\ s \in Members(c, r0) /\ e = e0 => received'[s][e] > 0
  <2>1. received[s] \in [Event -> Nat] /\ received[s][e] \in Nat
    BY DEF TypeOK
  <2>2. CASE s \in Members(c, r0) /\ e = e0
    <3>1. received'[s][e] = received[s][e] + 1
      BY <1>2, <2>1, <2>2 DEF Deliver
    <3> QED  BY <2>1, <3>1
  <2>3. CASE ~(s \in Members(c, r0) /\ e = e0)
    <3>1. received'[s][e] = received[s][e]
      BY <1>2, <2>1, <2>3 DEF Deliver
    <3> QED  BY <2>3, <3>1
  <2> QED  BY <2>2, <2>3
<1>5. DeadLeft' /\ ListedOrCut' /\ SnapshotsAreTrue'
  BY <1>2, <1>3 DEF Reach, DeadLeft, ListedOrCut, SnapshotsAreTrue
<1>6. Meant'
  <2> SUFFICES ASSUME NEW e \in Event, NEW s \in Socket, NEW r \in Room,
                      <<s, r>> \in audience'[e]
               PROVE  /\ r \in joined[s]
                      /\ \/ received'[s][e] > 0 \/ <<e, Home[s]>> \in missed
                         \/ Coming(s, r, e)'
    BY <1>2 DEF Meant
  <2>1. CASE e # e0
    <3>1. <<s, r>> \in audience[e]
      BY <1>2, <2>1 DEF TypeOK
    <3>2. /\ r \in joined[s]
          /\ received[s][e] > 0 \/ <<e, Home[s]>> \in missed \/ Coming(s, r, e)
      BY <3>1 DEF Reach, Meant
    <3>3. Coming(s, r, e) => Coming(s, r, e)'
      BY <1>2, <1>3 DEF Coming, PublishOf, DeliverOf
    <3> QED  BY <1>4, <3>2, <3>3
  <2>2. CASE e = e0
    <3>1. r = r0 /\ r0 \in joined[s] /\ (Home[s] = c \/ Heard(s, r0))
      BY <1>2, <2>2 DEF TypeOK
    <3>2. CASE Home[s] = c
      <4>1. s \in Members(c, r0)
        BY <3>1, <3>2 DEF Members, Sockets
      <4> QED  BY <1>4, <2>2, <3>1, <4>1
    <3>3. CASE Home[s] # c
      <4>1. toGateway[Home[s]] \in Seq(GatewayMessage)
        BY HomeIsChild DEF TypeOK
      <4>2. DOMAIN toGateway[Home[s]] = 1 .. Len(toGateway[Home[s]])
        BY <4>1, LenProperties
      <4>3. Silent(toGateway[Home[s]], s, r)
        BY <3>1, <3>3, <4>2 DEF Heard, Silent, About, Subscription
      <4>4. Silent(toGateway'[Home[s]], s, r)
        BY <1>3, <4>3
      <4>5. OneOf(toGateway'[c], PublishOf(r, e))
        BY <1>3, <2>2, <3>1 DEF m
      <4> QED  BY <3>1, <3>3, <4>4, <4>5 DEF Coming, PublishOf, DeliverOf
    <3> QED  BY <3>2, <3>3
  <2> QED  BY <2>1, <2>2
<1> QED  BY <1>5, <1>6 DEF Reach

LEMMA SnapshotsStep ==
  ASSUME TypeOK, Reach, NEW c \in Child, ChildSnapshots(c)
  PROVE  Reach'
<1> DEFINE m == [type |-> "snapshot", rooms |-> SnapshotRooms(c)]
<1>1. /\ m \in GatewayMessage /\ m.rooms = SnapshotRooms(c)
      /\ \A s, r : ~About(m, s, r)
  BY DEF GatewayMessage, SnapshotMsg, About, Subscription, SnapshotRooms, Sockets, TypeOK
<1>2. /\ toGateway' = [toGateway EXCEPT ![c] = Append(@, m)]
      /\ toChild' = [toChild EXCEPT ![c] = Tail(@)]
      /\ toChild[c] # <<>> /\ Head(toChild[c]).type = "snapshot.request"
      /\ UNCHANGED <<proc, available, joined, childRooms, cut, missed, received, audience>>
  BY DEF ChildSnapshots, gatewayMaps, history
<1> HIDE DEF m
<1>3. \A s \in Socket, r \in Room : Home[s] = c /\ r \in joined[s] => r \in m.rooms
  BY <1>1 DEF SnapshotRooms, Sockets
<1>4. /\ \A d \in Child : \A x : OneOf(toGateway[d], x) => OneOf(toGateway'[d], x)
      /\ \A s \in Socket : \A r :
           Silent(toGateway'[Home[s]], s, r) <=> Silent(toGateway[Home[s]], s, r)
      /\ \A s \in Socket : \A r :
           /\ Home[s] = c => r \in m.rooms
           /\ Truthful(toGateway[Home[s]], s, r)
           => Truthful(toGateway'[Home[s]], s, r)
  BY <1>1, <1>2, Sent
<1>5. ASSUME NEW d \in Child, NEW r, NEW e, OneOf(toChild[d], DeliverOf(r, e))
      PROVE  OneOf(toChild'[d], DeliverOf(r, e))
  <2>1. CASE d = c
    <3>1. toChild[c] \in Seq(ChildMessage) /\ toChild'[c] = Tail(toChild[c])
      BY <1>2 DEF TypeOK
    <3>2. DeliverOf(r, e) # Head(toChild[c])
      BY <1>2 DEF DeliverOf
    <3> QED  BY <1>2, <1>5, <2>1, <3>1, <3>2, QueueTail
  <2>2. CASE d # c
    BY <1>2, <1>5, <2>2 DEF TypeOK
  <2> QED  BY <2>1, <2>2
<1>6. DeadLeft' /\ ListedOrCut'
  BY <1>2, <1>4 DEF Reach, DeadLeft, ListedOrCut
<1>7. SnapshotsAreTrue'
  BY <1>2, <1>3, <1>4 DEF Reach, SnapshotsAreTrue
<1>8. Meant'
  <2> SUFFICES ASSUME NEW e \in Event, NEW s \in Socket, NEW r \in Room,
                      Coming(s, r, e)
               PROVE  Coming(s, r, e)'
    BY <1>2 DEF Reach, Meant
  <2> QED  BY <1>4, <1>5, HomeIsChild DEF Coming, DeliverOf, PublishOf
<1> QED  BY <1>6, <1>7, <1>8 DEF Reach

LEMMA DeliversStep ==
  ASSUME TypeOK, Reach, NEW c \in Child, ChildDelivers(c)
  PROVE  Reach'
<1> DEFINE m == Head(toChild[c])
<1>1. /\ m \in ChildMessage /\ m.type = "deliver" /\ toChild[c] # <<>>
      /\ toChild' = [toChild EXCEPT ![c] = Tail(@)]
      /\ Deliver(Members(c, m.room), m.event, 2)
      /\ UNCHANGED <<proc, available, joined, childRooms, cut, missed, toGateway, audience>>
  BY QueueRead DEF ChildDelivers, gatewayMaps, TypeOK
<1> HIDE DEF m
<1>2. DeadLeft' /\ ListedOrCut' /\ SnapshotsAreTrue'
  BY <1>1 DEF Reach, DeadLeft, ListedOrCut, SnapshotsAreTrue
<1>3. ASSUME NEW s \in Socket, NEW e \in Event
      PROVE  /\ received[s][e] > 0 => received'[s][e] > 0
             /\ s \in Members(c, m.room) /\ e = m.event => received'[s][e] > 0
  <2>1. received[s] \in [Event -> Nat] /\ received[s][e] \in Nat
    BY DEF TypeOK
  <2>2. CASE s \in Members(c, m.room) /\ e = m.event
    <3>1. received'[s][e] = received[s][e] + 2
      BY <1>1, <2>1, <2>2 DEF Deliver
    <3> QED  BY <2>1, <3>1
  <2>3. CASE ~(s \in Members(c, m.room) /\ e = m.event)
    <3>1. received'[s][e] = received[s][e]
      BY <1>1, <2>1, <2>3 DEF Deliver
    <3> QED  BY <2>3, <3>1
  <2> QED  BY <2>2, <2>3
<1>4. Meant'
  <2> SUFFICES ASSUME NEW e \in Event, NEW s \in Socket, NEW r \in Room,
                      <<s, r>> \in audience[e]
               PROVE  /\ r \in joined[s]
                      /\ \/ received'[s][e] > 0 \/ <<e, Home[s]>> \in missed
                         \/ Coming(s, r, e)'
    BY <1>1 DEF Meant
  <2>1. /\ r \in joined[s]
        /\ received[s][e] > 0 \/ <<e, Home[s]>> \in missed \/ Coming(s, r, e)
    BY DEF Reach, Meant
  <2>2. ASSUME OneOf(toChild[Home[s]], DeliverOf(r, e))
        PROVE  received'[s][e] > 0 \/ OneOf(toChild'[Home[s]], DeliverOf(r, e))
    <3>1. CASE Home[s] = c
      <4>1. toChild[c] \in Seq(ChildMessage) /\ toChild'[c] = Tail(toChild[c])
        BY <1>1 DEF TypeOK
      <4>2. m = DeliverOf(r, e) \/ OneOf(toChild'[c], DeliverOf(r, e))
        BY <1>1, <2>2, <3>1, <4>1, QueueTail DEF m
      <4>3. CASE m = DeliverOf(r, e)
        <5>1. m.room = r /\ m.event = e
          BY <4>3 DEF DeliverOf
        <5>2. s \in Members(c, m.room)
          BY <2>1, <3>1, <5>1 DEF Members, Sockets
        <5> QED  BY <1>3, <5>1, <5>2
      <4> QED  BY <3>1, <4>2, <4>3
    <3>2. CASE Home[s] # c
      BY <1>1, <2>2, <3>2, HomeIsChild DEF TypeOK
    <3> QED  BY <3>1, <3>2
  <2>3. Coming(s, r, e) => received'[s][e] > 0 \/ Coming(s, r, e)'
    BY <1>1, <2>2 DEF Coming, PublishOf, DeliverOf
  <2> QED  BY <1>3, <2>1, <2>3
<1> QED  BY <1>2, <1>4 DEF Reach

----------------------------------------------------------------------------
(* The gateway reads a message and changes its rooms of the child: what it *)
(* has to show is ListedOrCut for the sockets of the child.                *)
LEMMA MembershipStep ==
  ASSUME TypeOK, Reach, NEW c \in Child, NEW types, Receive(c, types),
         NEW m, m = Head(toGateway[c]), m.type # "publish",
         \A d \in Child \ {c} : \A r \in Room :
           /\ childRooms'[d] = childRooms[d]
           /\ <<d, r>> \in cut' <=> <<d, r>> \in cut,
         \A s \in Socket, r \in Room :
           /\ Home[s] = c /\ r \in joined[s]
           /\ Silent(toGateway'[c], s, r)
           => r \in childRooms'[c] \/ <<c, r>> \in cut',
         UNCHANGED <<proc, joined, missed, toChild, received, audience>>
  PROVE  Reach'
<1>1. /\ \A d \in Child : \A x : OneOf(toGateway[d], x) =>
           OneOf(toGateway'[d], x) \/ (d = c /\ x = m)
      /\ \A s \in Socket : \A r : Silent(toGateway[Home[s]], s, r) <=>
           Silent(toGateway'[Home[s]], s, r) /\ (Home[s] = c => ~About(m, s, r))
      /\ \A s \in Socket : \A r : Truthful(toGateway[Home[s]], s, r) =>
           Truthful(toGateway'[Home[s]], s, r)
  BY Read
<1>2. DeadLeft' /\ SnapshotsAreTrue'
  BY <1>1 DEF Reach, DeadLeft, SnapshotsAreTrue
<1>3. ListedOrCut'
  <2> SUFFICES ASSUME NEW s \in Socket, NEW r \in Room,
                      r \in joined[s], Silent(toGateway'[Home[s]], s, r)
               PROVE  r \in childRooms'[Home[s]] \/ <<Home[s], r>> \in cut'
    BY DEF ListedOrCut
  <2>1. CASE Home[s] = c
    BY <2>1
  <2>2. CASE Home[s] # c
    BY <1>1, <2>2, HomeIsChild DEF Reach, ListedOrCut
  <2> QED  BY <2>1, <2>2
<1>4. Meant'
  <2> SUFFICES ASSUME NEW e \in Event, NEW s \in Socket, NEW r \in Room,
                      Coming(s, r, e)
               PROVE  Coming(s, r, e)'
    BY DEF Reach, Meant
  <2>1. PublishOf(r, e) # m
    BY DEF PublishOf
  <2> QED  BY <1>1, <2>1 DEF Coming, DeliverOf, PublishOf
<1> QED  BY <1>2, <1>3, <1>4 DEF Reach

LEMMA AddStep ==
  ASSUME TypeOK, Reach, NEW c \in Child, AddRoomMembership(c)
  PROVE  Reach'
<1> DEFINE m == Head(toGateway[c])
<1>1. /\ Receive(c, {"subscribe"}) /\ m.type = "subscribe"
      /\ childRooms' = [childRooms EXCEPT ![c] = @ \union {m.room}]
      /\ cut' = cut \ ({c} \X {m.room})
      /\ UNCHANGED <<proc, joined, missed, toChild, received, audience>>
  BY DEF AddRoomMembership, Receive, Listed, history
<1> HIDE DEF m
<1>2. \A d \in Child \ {c} : \A r \in Room :
        /\ childRooms'[d] = childRooms[d]
        /\ <<d, r>> \in cut' <=> <<d, r>> \in cut
  BY <1>1 DEF TypeOK
<1>3. ASSUME NEW s \in Socket, NEW r \in Room, Home[s] = c, r \in joined[s],
             Silent(toGateway'[c], s, r)
      PROVE  r \in childRooms'[c] \/ <<c, r>> \in cut'
  <2>1. CASE r = m.room
    BY <1>1, <2>1 DEF TypeOK
  <2>2. CASE r # m.room
    <3>1. Silent(toGateway[c], s, r)
      BY <1>1, <1>3, <2>2, Read DEF About, m
    <3>2. r \in childRooms[c] \/ <<c, r>> \in cut
      BY <1>3, <3>1 DEF Reach, ListedOrCut
    <3> QED  BY <1>1, <2>2, <3>2 DEF TypeOK
  <2> QED  BY <2>1, <2>2
<1>4. m.type # "publish"
  BY <1>1
<1> QED  BY <1>1, <1>2, <1>3, <1>4, MembershipStep DEF m

LEMMA RemoveStep ==
  ASSUME TypeOK, Reach, NEW c \in Child, RemoveRoomMembership(c)
  PROVE  Reach'
<1> DEFINE m == Head(toGateway[c])
<1>1. /\ Receive(c, {"unsubscribe"}) /\ m.type = "unsubscribe"
      /\ childRooms' = [childRooms EXCEPT ![c] = @ \ {m.room}]
      /\ cut' = cut \union ({c} \X {r \in {m.room} : Members(c, r) # {}})
      /\ UNCHANGED <<proc, joined, missed, toChild, received, audience>>
  BY DEF RemoveRoomMembership, Receive, TakenOut, history
<1> HIDE DEF m
<1>2. \A d \in Child \ {c} : \A r \in Room :
        /\ childRooms'[d] = childRooms[d]
        /\ <<d, r>> \in cut' <=> <<d, r>> \in cut
  BY <1>1 DEF TypeOK
<1>3. ASSUME NEW s \in Socket, NEW r \in Room, Home[s] = c, r \in joined[s],
             Silent(toGateway'[c], s, r)
      PROVE  r \in childRooms'[c] \/ <<c, r>> \in cut'
  <2>1. CASE r = m.room
    <3>1. s \in Members(c, r)
      BY <1>3 DEF Members, Sockets
    <3> QED  BY <1>1, <2>1, <3>1
  <2>2. CASE r # m.room
    <3>1. Silent(toGateway[c], s, r)
      BY <1>1, <1>3, <2>2, Read DEF About, m
    <3>2. r \in childRooms[c] \/ <<c, r>> \in cut
      BY <1>3, <3>1 DEF Reach, ListedOrCut
    <3> QED  BY <1>1, <2>2, <3>2 DEF TypeOK
  <2> QED  BY <2>1, <2>2
<1>4. m.type # "publish"
  BY <1>1
<1> QED  BY <1>1, <1>2, <1>3, <1>4, MembershipStep DEF m

LEMMA ReplaceStep ==
  ASSUME TypeOK, Reach, NEW c \in Child, ReplaceRoomSnapshot(c)
  PROVE  Reach'
<1> DEFINE m == Head(toGateway[c])
<1>1. /\ Receive(c, {"snapshot"}) /\ m.type = "snapshot"
      /\ childRooms' = [childRooms EXCEPT ![c] = m.rooms]
      /\ cut' = cut \ ({c} \X m.rooms)
      /\ UNCHANGED <<proc, joined, missed, toChild, received, audience>>
  BY DEF ReplaceRoomSnapshot, Receive, Listed, history
<1> HIDE DEF m
<1>2. \A d \in Child \ {c} : \A r \in Room :
        /\ childRooms'[d] = childRooms[d]
        /\ <<d, r>> \in cut' <=> <<d, r>> \in cut
  BY <1>1 DEF TypeOK
<1>3. ASSUME NEW s \in Socket, NEW r \in Room, Home[s] = c, r \in joined[s],
             Silent(toGateway'[c], s, r)
      PROVE  r \in childRooms'[c] \/ <<c, r>> \in cut'
  <2>1. Truthful(toGateway[Home[s]], s, r)
    BY <1>3 DEF Reach, SnapshotsAreTrue
  <2>2. r \in m.rooms
    BY <1>1, <1>3, <2>1, Read DEF m
  <2> QED  BY <1>1, <2>2 DEF TypeOK
<1>4. m.type # "publish"
  BY <1>1
<1> QED  BY <1>1, <1>2, <1>3, <1>4, MembershipStep DEF m

(* The gateway forwards an event: the children in whose room it is meant   *)
(* for somebody are on its lists, or miss it.                              *)
LEMMA ForwardStep ==
  ASSUME TypeOK, MapsMirror, Reach, NEW c \in Child, DeliverPubsub(c)
  PROVE  Reach'
<1> DEFINE m == Head(toGateway[c])
           x == DeliverOf(m.room, m.event)
<1>1. /\ Receive(c, {"publish"}) /\ m.type = "publish"
      /\ toChild' = [d \in Child |-> IF d \in Targets(c, m.room)
                                     THEN Append(toChild[d], x) ELSE toChild[d]]
      /\ missed' = missed \union ({m.event} \X {d \in Child : <<d, m.room>> \in cut \/ ~available[d]})
      /\ UNCHANGED <<proc, available, joined, roomChildren, childRooms, cut, received, audience>>
  BY DEF DeliverPubsub, Receive, gatewayMaps, DeliverOf
<1> HIDE DEF m
<1>2. /\ m \in GatewayMessage
      /\ \A d \in Child : \A y : OneOf(toGateway[d], y) =>
           OneOf(toGateway'[d], y) \/ (d = c /\ y = m)
      /\ \A s \in Socket : \A r :
           Silent(toGateway[Home[s]], s, r) <=> Silent(toGateway'[Home[s]], s, r)
      /\ \A s \in Socket : \A r : Truthful(toGateway[Home[s]], s, r) =>
           Truthful(toGateway'[Home[s]], s, r)
  <2>1. \A s, r : ~About(m, s, r)
    BY <1>1 DEF About, Subscription
  <2> QED  BY <1>1, <2>1, Read DEF m
<1>3. x \in ChildMessage
  <2>1. m.room \in Room /\ m.event \in Event
    BY <1>1, <1>2 DEF GatewayMessage, SubscribeMsg, PublishMsg, SnapshotMsg
  <2> QED  BY <2>1 DEF ChildMessage, DeliverOf
<1> HIDE DEF x
<1>4. ASSUME NEW d \in Child
      PROVE  /\ \A y : OneOf(toChild[d], y) => OneOf(toChild'[d], y)
             /\ d \in Targets(c, m.room) => OneOf(toChild'[d], x)
  <2>1. toChild[d] \in Seq(ChildMessage)
    BY DEF TypeOK
  <2>2. CASE d \in Targets(c, m.room)
    BY <1>1, <1>3, <2>1, <2>2, QueueAppend
  <2>3. CASE d \notin Targets(c, m.room)
    BY <1>1, <2>3
  <2> QED  BY <2>2, <2>3
<1>5. DeadLeft' /\ ListedOrCut' /\ SnapshotsAreTrue'
  BY <1>1, <1>2 DEF Reach, DeadLeft, ListedOrCut, SnapshotsAreTrue
<1>6. Meant'
  <2> SUFFICES ASSUME NEW e \in Event, NEW s \in Socket, NEW r \in Room,
                      r \in joined[s], Coming(s, r, e)
               PROVE  <<e, Home[s]>> \in missed' \/ Coming(s, r, e)'
    BY <1>1 DEF Reach, Meant
  <2>1. CASE OneOf(toChild[Home[s]], DeliverOf(r, e))
    BY <1>4, <2>1, HomeIsChild DEF Coming, DeliverOf
  <2>2. CASE /\ Silent(toGateway[Home[s]], s, r)
             /\ \E d \in Child \ {Home[s]} : OneOf(toGateway[d], PublishOf(r, e))
    <3>1. PICK d \in Child \ {Home[s]} : OneOf(toGateway[d], PublishOf(r, e))
      BY <2>2
    <3>2. CASE OneOf(toGateway'[d], PublishOf(r, e))
      BY <1>2, <2>2, <3>1, <3>2 DEF Coming, PublishOf
    <3>3. CASE d = c /\ PublishOf(r, e) = m
      <4>1. m.room = r /\ m.event = e /\ Home[s] \in Child /\ Home[s] # c
        BY <3>1, <3>3, HomeIsChild DEF PublishOf
      <4>2. CASE <<Home[s], r>> \in cut \/ ~available[Home[s]]
        BY <1>1, <4>1, <4>2
      <4>3. CASE ~(<<Home[s], r>> \in cut) /\ available[Home[s]]
        <5>1. r \in childRooms[Home[s]]
          BY <2>2, <4>3 DEF Reach, ListedOrCut
        <5>2. Home[s] \in Targets(c, m.room)
          BY <4>1, <4>3, <5>1 DEF MapsMirror, Targets
        <5>3. OneOf(toChild'[Home[s]], DeliverOf(r, e))
          BY <1>4, <4>1, <5>2 DEF x
        <5> QED  BY <5>3 DEF Coming, DeliverOf
      <4> QED  BY <4>2, <4>3
    <3> QED  BY <1>2, <3>1, <3>2, <3>3
  <2> QED  BY <2>1, <2>2 DEF Coming
<1> QED  BY <1>5, <1>6 DEF Reach

LEMMA RequestStep ==
  ASSUME TypeOK, Reach, NEW c \in Child, RequestSnapshot(c)
  PROVE  Reach'
<1> DEFINE x == [type |-> "snapshot.request"]
<1>1. /\ toChild' = [toChild EXCEPT ![c] = Append(@, x)]
      /\ UNCHANGED <<proc, joined, childRooms, cut, missed, toGateway, received, audience>>
  BY DEF RequestSnapshot, gatewayMaps, history
<1>2. x \in ChildMessage
  BY DEF ChildMessage
<1> HIDE DEF x
<1>3. DeadLeft' /\ ListedOrCut' /\ SnapshotsAreTrue'
  BY <1>1 DEF Reach, DeadLeft, ListedOrCut, SnapshotsAreTrue
<1>4. ASSUME NEW d \in Child, NEW y, OneOf(toChild[d], y)  PROVE OneOf(toChild'[d], y)
  <2>1. toChild[d] \in Seq(ChildMessage)
    BY DEF TypeOK
  <2>2. CASE d = c
    <3>1. toChild'[d] = Append(toChild[d], x)
      BY <1>1, <2>2 DEF TypeOK
    <3> QED  BY <1>2, <1>4, <2>1, <3>1, QueueAppend
  <2>3. CASE d # c
    BY <1>1, <1>4, <2>3 DEF TypeOK
  <2> QED  BY <2>2, <2>3
<1>5. Meant'
  <2> SUFFICES ASSUME NEW e \in Event, NEW s \in Socket, NEW r \in Room,
                      Coming(s, r, e)
               PROVE  Coming(s, r, e)'
    BY <1>1 DEF Reach, Meant
  <2> QED  BY <1>1, <1>4, HomeIsChild DEF Coming, DeliverOf, PublishOf
<1> QED  BY <1>3, <1>5 DEF Reach

----------------------------------------------------------------------------
(* The rooms of a child are wiped: it is cut off from those its sockets    *)
(* are in.                                                                 *)
LEMMA WipeStep ==
  ASSUME TypeOK, Reach, NEW c \in Child,
         ScheduleRestart(c) \/ LateFailureOfOldProcess(c) \/ ExitSeen(c)
  PROVE  Reach'
<1>1. /\ childRooms' = [childRooms EXCEPT ![c] = {}]
      /\ cut' = cut \union ({c} \X {r \in Room : Members(c, r) # {}})
      /\ UNCHANGED <<proc, joined, missed, toGateway, toChild, received, audience>>
  BY DEF ScheduleRestart, LateFailureOfOldProcess, ExitSeen, RemoveChildRooms, TakenOut, history
<1>2. DeadLeft' /\ SnapshotsAreTrue'
  BY <1>1 DEF Reach, DeadLeft, SnapshotsAreTrue
<1>3. ListedOrCut'
  <2> SUFFICES ASSUME NEW s \in Socket, NEW r \in Room,
                      r \in joined[s], Silent(toGateway[Home[s]], s, r)
               PROVE  r \in childRooms'[Home[s]] \/ <<Home[s], r>> \in cut'
    BY <1>1 DEF ListedOrCut
  <2>1. CASE Home[s] = c
    <3>1. s \in Members(c, r)
      BY <2>1 DEF Members, Sockets
    <3> QED  BY <1>1, <2>1, <3>1
  <2>2. CASE Home[s] # c
    <3>1. r \in childRooms[Home[s]] \/ <<Home[s], r>> \in cut
      BY DEF Reach, ListedOrCut
    <3> QED  BY <1>1, <2>2, <3>1, HomeIsChild DEF TypeOK
  <2> QED  BY <2>1, <2>2
<1>4. Meant'
  BY <1>1 DEF Reach, Meant, Coming, PublishOf, DeliverOf
<1> QED  BY <1>2, <1>3, <1>4 DEF Reach

LEMMA DiesStep ==
  ASSUME TypeOK, Reach, NEW c \in Child, Dies(c)
  PROVE  Reach'
<1>1. /\ proc' = [proc EXCEPT ![c] = "dead"]
      /\ joined' = [s \in Socket |-> IF Home[s] = c THEN {} ELSE joined[s]]
      /\ audience' = [e \in Event |-> {a \in audience[e] : Home[a[1]] # c}]
      /\ toChild' = [toChild EXCEPT ![c] = <<>>]
      /\ UNCHANGED <<childRooms, cut, missed, toGateway, received>>
  BY DEF Dies, gatewayMaps
<1>2. \A s \in Socket, r \in Room : r \in joined'[s] => r \in joined[s]
  BY <1>1
<1>3. DeadLeft'
  BY <1>1, HomeIsChild DEF Reach, DeadLeft, TypeOK
<1>4. ListedOrCut' /\ SnapshotsAreTrue'
  BY <1>1, <1>2 DEF Reach, ListedOrCut, SnapshotsAreTrue
<1>5. Meant'
  <2> SUFFICES ASSUME NEW e \in Event, NEW s \in Socket, NEW r \in Room,
                      <<s, r>> \in audience'[e]
               PROVE  /\ r \in joined'[s]
                      /\ \/ received[s][e] > 0 \/ <<e, Home[s]>> \in missed
                         \/ Coming(s, r, e)'
    BY <1>1 DEF Meant
  <2>1. <<s, r>> \in audience[e] /\ Home[s] # c
    BY <1>1
  <2>2. /\ r \in joined[s]
        /\ received[s][e] > 0 \/ <<e, Home[s]>> \in missed \/ Coming(s, r, e)
    BY <2>1 DEF Reach, Meant
  <2>3. toChild'[Home[s]] = toChild[Home[s]]
    BY <1>1, <2>1, HomeIsChild DEF TypeOK
  <2>4. Coming(s, r, e) => Coming(s, r, e)'
    BY <1>1, <2>3 DEF Coming, PublishOf, DeliverOf
  <2> QED  BY <1>1, <2>1, <2>2, <2>4
<1> QED  BY <1>3, <1>4, <1>5 DEF Reach

LEMMA RespawnStep ==
  ASSUME TypeOK, Reach, NEW c \in Child, Respawn(c)
  PROVE  Reach'
<1>1. /\ proc[c] = "dead" /\ proc' = [proc EXCEPT ![c] = "up"]
      /\ toGateway' = [toGateway EXCEPT ![c] = <<>>]
      /\ toChild' = [toChild EXCEPT ![c] = <<>>]
      /\ missed' = missed \union ({e \in Event : PublishedBy(c, e)} \X Child)
      /\ UNCHANGED <<joined, childRooms, cut, received, audience>>
  BY DEF Respawn, gatewayMaps
<1>2. \A s \in Socket : Home[s] = c => joined[s] = {}
  BY <1>1 DEF Reach, DeadLeft
<1>3. \A s \in Socket : Home[s] # c =>
        /\ toGateway'[Home[s]] = toGateway[Home[s]]
        /\ toChild'[Home[s]] = toChild[Home[s]]
  BY <1>1, HomeIsChild DEF TypeOK
<1>4. DeadLeft'
  BY <1>1, <1>2, HomeIsChild DEF Reach, DeadLeft, TypeOK
<1>5. ListedOrCut' /\ SnapshotsAreTrue'
  BY <1>1, <1>2, <1>3 DEF Reach, ListedOrCut, SnapshotsAreTrue
<1>6. Meant'
  <2> SUFFICES ASSUME NEW e \in Event, NEW s \in Socket, NEW r \in Room,
                      <<s, r>> \in audience[e], Coming(s, r, e)
               PROVE  <<e, Home[s]>> \in missed' \/ Coming(s, r, e)'
    BY <1>1 DEF Reach, Meant
  <2>1. Home[s] # c /\ Home[s] \in Child
    BY <1>2, HomeIsChild DEF Reach, Meant
  <2>2. CASE OneOf(toChild[Home[s]], DeliverOf(r, e))
    BY <1>3, <2>1, <2>2 DEF Coming, DeliverOf
  <2>3. CASE /\ Silent(toGateway[Home[s]], s, r)
             /\ \E d \in Child \ {Home[s]} : OneOf(toGateway[d], PublishOf(r, e))
    <3>1. PICK d \in Child \ {Home[s]} : OneOf(toGateway[d], PublishOf(r, e))
      BY <2>3
    <3>2. CASE d # c
      <4>1. toGateway'[d] = toGateway[d]
        BY <1>1, <3>2 DEF TypeOK
      <4> QED  BY <1>3, <2>1, <2>3, <3>1, <4>1 DEF Coming, PublishOf
    <3>3. CASE d = c
      <4>1. PICK k \in 1 .. Len(toGateway[c]) : toGateway[c][k] = PublishOf(r, e)
        BY <3>1, <3>3 DEF OneOf
      <4>2. DOMAIN toGateway[c] = 1 .. Len(toGateway[c])
        BY LenProperties DEF TypeOK
      <4>3. PublishedBy(c, e)
        BY <4>1, <4>2 DEF PublishedBy, PublishOf
      <4> QED  BY <1>1, <2>1, <4>3
    <3> QED  BY <3>2, <3>3
  <2> QED  BY <2>2, <2>3 DEF Coming
<1> QED  BY <1>4, <1>5, <1>6 DEF Reach

----------------------------------------------------------------------------
LEMMA InitReach == Init => Reach
<1> SUFFICES ASSUME Init  PROVE Reach
  OBVIOUS
<1>1. DeadLeft /\ ListedOrCut /\ SnapshotsAreTrue
  BY DEF Init, DeadLeft, ListedOrCut, SnapshotsAreTrue
<1>2. Meant
  BY DEF Init, Meant
<1> QED  BY <1>1, <1>2 DEF Reach

LEMMA ReachStep ==
  ASSUME IInv, Reach, [Next]_vars
  PROVE  Reach'
<1>1. TypeOK /\ MapsMirror /\ Unpublished
  BY DEF IInv
<1>2. ASSUME NEW s \in Socket, NEW r \in Room, JoinRoom(s, r) \/ LeaveRoom(s, r)
      PROVE  Reach'
  BY <1>1, <1>2, JoinStep, LeaveStep
<1>3. ASSUME NEW s \in Socket, CloseSocket(s)  PROVE Reach'
  BY <1>1, <1>3, CloseStep
<1>4. ASSUME NEW c \in Child, NEW r \in Room, NEW e \in Event, Publish(c, r, e)
      PROVE  Reach'
  BY <1>1, <1>4, PublishStep
<1>5. ASSUME NEW c \in Child, ChildReads(c) \/ GatewayReads(c) \/ RequestSnapshot(c)
      PROVE  Reach'
  BY <1>1, <1>5, DeliversStep, SnapshotsStep, AddStep, RemoveStep, ReplaceStep,
     ForwardStep, RequestStep DEF ChildReads, GatewayReads
<1>6. ASSUME NEW c \in Child,
             \/ ScheduleRestart(c) \/ LateFailureOfOldProcess(c)
             \/ Dies(c) \/ ExitSeen(c) \/ Respawn(c)
      PROVE  Reach'
  BY <1>1, <1>6, WipeStep, DiesStep, RespawnStep
<1>7. CASE UNCHANGED vars
  <2>1. UNCHANGED <<proc, joined, childRooms, cut, missed, toGateway, toChild, received, audience>>
    BY <1>7 DEF vars, gatewayMaps, history
  <2>2. DeadLeft' /\ ListedOrCut' /\ SnapshotsAreTrue'
    BY <2>1 DEF Reach, DeadLeft, ListedOrCut, SnapshotsAreTrue
  <2>3. Meant'
    BY <2>1 DEF Reach, Meant, Coming, PublishOf, DeliverOf
  <2> QED  BY <2>2, <2>3 DEF Reach
<1> QED
  BY <1>2, <1>3, <1>4, <1>5, <1>6, <1>7 DEF Next

(* With any number of sockets on a child and any number of failures: the   *)
(* gateway lists a child for the rooms of its sockets that it has read     *)
(* about, or has taken it out of them (#removeRoomMembership for another   *)
(* socket, #removeChildRooms); a snapshot under way is true up to the      *)
(* subscriptions behind it; and whoever an event is meant for has it, is   *)
(* going to, or is at a child that missed it for one of the two reasons.   *)
THEOREM ReachInvariant == Spec => [](IInv /\ Reach)
<1>1. Init => IInv /\ Reach
  BY InitInv, InitReach
<1>2. IInv /\ Reach /\ [Next]_vars => (IInv /\ Reach)'
  <2>1. IInv /\ Reach /\ [Next]_vars => IInv'
    BY NextInv
  <2>2. IInv /\ Reach /\ [Next]_vars => Reach'
    BY ReachStep
  <2> QED  BY <2>1, <2>2
<1> QED  BY <1>1, <1>2, PTL DEF Spec

(* An event that is no longer under way has been received by everyone the  *)
(* gateway had heard of in its room and who has stayed, except at children *)
(* that were cut off, or were being replaced, when #deliverPubsub read it, *)
(* and except when its publisher was replaced before it was read.          *)
THEOREM OnlyCutOffCorrect == Spec => []OnlyCutOffMiss
<1>1. IInv /\ Reach => OnlyCutOffMiss
  <2> SUFFICES ASSUME IInv, Reach, NEW e \in Event, ~InFlight(e), NEW a \in audience[e]
               PROVE  received[a[1]][e] > 0 \/ <<e, Home[a[1]]>> \in missed
    BY DEF OnlyCutOffMiss
  <2>1. TypeOK /\ Meant
    BY DEF IInv, Reach
  <2>2. PICK s \in Socket, r \in Room : a = <<s, r>>
    BY <2>1 DEF TypeOK
  <2>3. received[s][e] > 0 \/ <<e, Home[s]>> \in missed \/ Coming(s, r, e)
    BY <2>1, <2>2 DEF Meant
  <2>4. \A c \in Child : DOMAIN toChild[c] = 1 .. Len(toChild[c])
                         /\ DOMAIN toGateway[c] = 1 .. Len(toGateway[c])
    BY <2>1, LenProperties DEF TypeOK
  <2>5. ~OneOf(toChild[Home[s]], DeliverOf(r, e))
    BY <2>4, HomeIsChild DEF InFlight, OneOf, DeliverOf
  <2>6. \A c \in Child : ~OneOf(toGateway[c], PublishOf(r, e))
    BY <2>4 DEF InFlight, PublishedBy, OneOf, PublishOf
  <2> QED  BY <2>2, <2>3, <2>5, <2>6 DEF Coming
<1> QED  BY <1>1, ReachInvariant, PTL
=============================================================================
