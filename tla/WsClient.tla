------------------------------ MODULE WsClient ------------------------------
(***************************************************************************)
(* The websocket client of a browser or an app, and the server it talks to *)
(* as far as the client can tell: one WsClient object with the sockets it  *)
(* has opened, the reconnect timer, the rooms its listeners asked for and  *)
(* the token it holds; per socket the frames under way, the credential and *)
(* the rooms of the server, and the handlers that await there.             *)
(*                                                                         *)
(* The object remembers one socket (ws) and one timer, yet more of each    *)
(* may exist: #connect and #scheduleReconnect overwrite what is there, and *)
(* the callbacks of a socket nobody remembers go on acting on the object.  *)
(*                                                                         *)
(* The token is held in memory: the handshake carries no credential.  Each *)
(* change of it signs in or out, so its number says which.  Answers that   *)
(* the client only logs (of a subscribe, an error, an auth frame that      *)
(* revoked nothing) and the events themselves are left out.                *)
(***************************************************************************)
EXTENDS Integers, FiniteSets, SequencesExt

CONSTANTS
  Room,       \* rooms the application subscribes to
  Guarded,    \* those whose guards let signed-in sockets only pass
  MaxSockets, \* bound: sockets that exist at a time
  MaxCalls,   \* bound: calls of connect, destroy, subscribe, unsubscribe, setJwt
  MaxDrops    \* bound: connections that fail or are lost

ASSUME WsClientAssumption ==
  /\ Guarded \subseteq Room
  /\ MaxSockets \in Nat \ {0}
  /\ MaxCalls \in Nat
  /\ MaxDrops \in Nat

VARIABLES
  ws,        \* #ws, 0 for null
  timer,     \* #reconnectTimer is set
  strays,    \* timers that run although #reconnectTimer is not theirs
  destroyed, \* #destroyed
  jwt,       \* #jwt: how often it has changed, see SignedIn
  rooms,     \* keys of #roomSubscribeMap: the rooms with a listener
  phase,     \* readyState of each socket; "closed" ones can be taken again
  up,        \* frames under way to the server
  down,      \* acknowledgements under way to the client: the rooms revoked
  cred,      \* the credential the server holds for a socket
  topics,    \* rooms the server has subscribed a socket to
  subs,      \* subscribe handlers in progress
  revs,      \* revalidations in progress
  refused,   \* history: rooms whose last subscribe failed
  leftover,  \* history: rooms an unsubscribe or an acknowledgement missed
  asked,     \* history: connect() was called after the last destroy()
  raced,     \* history: connect() met a timer, or a socket still closing
  calls, drops \* how much of the bounds is used up

session == <<ws, timer, strays, destroyed>>
network == <<up, down>>
server == <<cred, topics, subs, revs>>
history == <<refused, leftover>>
vars == <<session, jwt, rooms, phase, network, server, history,
          asked, raced, calls, drops>>

Socket == 1 .. MaxSockets
Token == 0 .. MaxCalls + 1

SignedIn(t) == t % 2 = 1
Opens(t, r) == r \notin Guarded \/ SignedIn(t)

(* as: the token of the client when it sent the frame. *)
Frame == [type : {"sub", "unsub"}, room : Room, as : Token]
         \union [type : {"auth"}, as : Token]

(* passed: the guards have let the room pass; as: as in its frame. *)
Subscribing == [id : Nat, room : Room, as : Token, passed : BOOLEAN]

(* todo: the rooms still to be authorized; failed: the one whose           *)
(* authorize() has just failed; revoked: what the acknowledgement will say. *)
Revalidation ==
  [id : Nat, todo : SUBSET Room, failed : SUBSET Room, revoked : SUBSET Room]

Live == {s \in Socket : phase[s] \in {"connecting", "open"}}
IsOpen(s) == s # 0 /\ phase[s] = "open"

Init ==
  /\ ws = 0
  /\ timer = FALSE
  /\ strays = 0
  /\ destroyed = FALSE
  /\ jwt \in {0, 1}
  /\ rooms = {}
  /\ phase = [s \in Socket |-> "closed"]
  /\ up = [s \in Socket |-> <<>>]
  /\ down = [s \in Socket |-> <<>>]
  /\ cred = [s \in Socket |-> 0]
  /\ topics = [s \in Socket |-> {}]
  /\ subs = [s \in Socket |-> {}]
  /\ revs = [s \in Socket |-> {}]
  /\ refused = [s \in Socket |-> {}]
  /\ leftover = [s \in Socket |-> {}]
  /\ asked = FALSE
  /\ raced = FALSE
  /\ calls = 0
  /\ drops = 0

Call == calls < MaxCalls /\ calls' = calls + 1 /\ UNCHANGED drops

----------------------------------------------------------------------------
(* Connecting *)

(* A new socket takes the place of whatever #ws was. *)
OpenSocket ==
  \E s \in Socket :
    /\ phase[s] = "closed"
    /\ \A t \in 1 .. s - 1 : phase[t] # "closed"
    /\ ws' = s
    /\ phase' = [phase EXCEPT ![s] = "connecting"]

Races == timer \/ strays > 0 \/ \E s \in Socket : phase[s] = "closing"

\* A mistake to detect: connect() does not look for a socket.
ConnectAlways ==
  /\ Call
  /\ OpenSocket
  /\ destroyed' = FALSE
  /\ asked' = TRUE
  /\ raced' = (raced \/ Races)
  /\ UNCHANGED <<timer, strays, jwt, rooms, network, server, history>>

Connect ==
  /\ ws = 0
  /\ Call
  /\ OpenSocket
  /\ destroyed' = FALSE
  /\ asked' = TRUE
  /\ raced' = (raced \/ Races)
  /\ UNCHANGED <<timer, strays, jwt, rooms, network, server, history>>

AuthFrame == [type |-> "auth", as |-> jwt]
RoomFrame(type, r) == [type |-> type, room |-> r, as |-> jwt]

RoomFrames ==
  LET order == SetToSeq(rooms) IN
  [i \in 1 .. Len(order) |-> RoomFrame("sub", order[i])]

\* A mistake to detect: the rooms are asked for before the token is sent.
RoomsBeforeToken ==
  RoomFrames \o (IF SignedIn(jwt) THEN <<AuthFrame>> ELSE <<>>)

Resubscribe == (IF SignedIn(jwt) THEN <<AuthFrame>> ELSE <<>>) \o RoomFrames

(* The callback sends over #ws, whichever socket that is; nothing is sent  *)
(* when it is null, and send() throws when it is still connecting.         *)
Opened(s) ==
  /\ phase[s] = "connecting"
  /\ phase' = [phase EXCEPT ![s] = "open"]
  /\ up' = IF ws # 0 /\ phase'[ws] = "open"
           THEN [up EXCEPT ![ws] = @ \o Resubscribe]
           ELSE up
  /\ UNCHANGED <<session, jwt, rooms, down, server, history, asked, raced,
                 calls, drops>>

\* A mistake to detect: the callback of a refused connection does nothing.
ScheduleReconnectOnceOpen(s) ==
  IF destroyed \/ ws = 0 \/ phase[s] = "connecting"
  THEN UNCHANGED <<ws, timer, strays>>
  ELSE /\ ws' = 0
       /\ timer' = TRUE
       /\ strays' = strays + IF timer THEN 1 ELSE 0

(* It forgets #ws, whichever socket closed, and a timer that is running.   *)
ScheduleReconnect(s) ==
  IF destroyed \/ ws = 0
  THEN UNCHANGED <<ws, timer, strays>>
  ELSE /\ ws' = 0
       /\ timer' = TRUE
       /\ strays' = strays + IF timer THEN 1 ELSE 0

(* The socket is gone at both ends, with what was under way. *)
Forget(s) ==
  /\ up' = [up EXCEPT ![s] = <<>>]
  /\ down' = [down EXCEPT ![s] = <<>>]
  /\ cred' = [cred EXCEPT ![s] = 0]
  /\ topics' = [topics EXCEPT ![s] = {}]
  /\ subs' = [subs EXCEPT ![s] = {}]
  /\ revs' = [revs EXCEPT ![s] = {}]
  /\ refused' = [refused EXCEPT ![s] = {}]
  /\ leftover' = [leftover EXCEPT ![s] = {}]

(* onclose: of a socket that destroy() closed, ... *)
Closed(s) ==
  /\ phase[s] = "closing"
  /\ phase' = [phase EXCEPT ![s] = "closed"]
  /\ ScheduleReconnect(s)
  /\ Forget(s)
  /\ UNCHANGED <<destroyed, jwt, rooms, asked, raced, calls, drops>>

(* ... or of one that was refused or lost. *)
Drop(s) ==
  /\ drops < MaxDrops
  /\ s \in Live
  /\ phase' = [phase EXCEPT ![s] = "closed"]
  /\ ScheduleReconnect(s)
  /\ Forget(s)
  /\ drops' = drops + 1
  /\ UNCHANGED <<destroyed, jwt, rooms, asked, raced, calls>>

(* Each timer forgets the one #reconnectTimer holds, and connects. *)
TimerFires(stray) ==
  /\ IF stray THEN strays > 0 ELSE timer
  /\ timer' = FALSE
  /\ strays' = IF stray /\ ~timer THEN strays - 1 ELSE strays
  /\ IF destroyed THEN UNCHANGED <<ws, phase>> ELSE OpenSocket
  /\ UNCHANGED <<destroyed, jwt, rooms, network, server, history, asked,
                 raced, calls, drops>>

\* A mistake to detect: #ws is not set to null.
CloseKeepsSocket ==
  /\ UNCHANGED ws
  /\ IF ws = 0 THEN UNCHANGED <<phase, network, server, history>>
     ELSE phase' = [phase EXCEPT ![ws] = "closing"] /\ Forget(ws)

(* A socket that is closing delivers nothing any more. *)
CloseSocket ==
  /\ ws' = 0
  /\ IF ws = 0 THEN UNCHANGED <<phase, network, server, history>>
     ELSE phase' = [phase EXCEPT ![ws] = "closing"] /\ Forget(ws)

Destroy ==
  /\ Call
  /\ destroyed' = TRUE
  /\ timer' = FALSE
  /\ CloseSocket
  /\ asked' = FALSE
  /\ UNCHANGED <<strays, jwt, rooms, raced>>

----------------------------------------------------------------------------
(* Rooms and token of the application *)

SendIfOpen(frame) ==
  up' = IF IsOpen(ws) THEN [up EXCEPT ![ws] = Append(@, frame)] ELSE up

SetJwt ==
  /\ Call
  /\ jwt' = jwt + 1
  /\ SendIfOpen([type |-> "auth", as |-> jwt + 1])
  /\ UNCHANGED <<session, rooms, phase, down, server, history, asked, raced>>

(* The first listener of a room; a further one is added without a word to  *)
(* the server.                                                             *)
Subscribe(r) ==
  /\ r \notin rooms
  /\ Call
  /\ rooms' = rooms \union {r}
  /\ SendIfOpen(RoomFrame("sub", r))
  /\ UNCHANGED <<session, jwt, phase, down, server, history, asked, raced>>

(* The last listener of a room leaves. *)
Unsubscribe(r) ==
  /\ r \in rooms
  /\ Call
  /\ rooms' = rooms \ {r}
  /\ SendIfOpen(RoomFrame("unsub", r))
  /\ UNCHANGED <<session, jwt, phase, down, server, history, asked, raced>>

(* A subscribe of the room is still to be handled, or in progress. *)
Asked(s, r) ==
  \/ \E h \in subs[s] : h.room = r
  \/ \E i \in 1 .. Len(up[s]) : up[s][i].type = "sub" /\ up[s][i].room = r

(* What the acknowledgement revokes is dropped with its rooms, though  *)
(* the room may have been asked for again since.                           *)
ReceiveAck(s) ==
  /\ IsOpen(s)
  /\ down[s] # <<>>
  /\ LET revoked == Head(down[s]) IN
       /\ rooms' = rooms \ revoked
       /\ leftover' = [leftover EXCEPT ![s] = @ \union
                         {r \in revoked : r \in topics[s] \/ Asked(s, r)}]
  /\ down' = [down EXCEPT ![s] = Tail(@)]
  /\ UNCHANGED <<session, jwt, phase, up, server, refused, asked, raced,
                 calls, drops>>

----------------------------------------------------------------------------
(* The server: the handler of a frame is a coroutine, see SocketRooms *)

Receive(s, type) ==
  /\ IsOpen(s)
  /\ up[s] # <<>>
  /\ Head(up[s]).type = type
  /\ up' = [up EXCEPT ![s] = Tail(@)]
  /\ UNCHANGED <<session, jwt, rooms, phase, asked, raced, calls, drops>>

Serve(s) ==
  /\ IsOpen(s)
  /\ UNCHANGED <<session, jwt, rooms, phase, up, asked, raced, calls, drops>>

FreshId(handlers) ==
  CHOOSE i \in 1 .. Cardinality(handlers) + 1 : \A h \in handlers : h.id # i

SubscribeFrame(s) ==
  /\ Receive(s, "sub")
  /\ subs' = [subs EXCEPT ![s] = @ \union
       {[id |-> FreshId(@), room |-> Head(up[s]).room, as |-> Head(up[s]).as,
         passed |-> FALSE]}]
  /\ UNCHANGED <<down, cred, topics, revs, history>>

SubscribeGuards(s, h) ==
  /\ Serve(s)
  /\ ~h.passed
  /\ IF Opens(cred[s], h.room)
     THEN /\ subs' = [subs EXCEPT ![s] = (@ \ {h}) \union {[h EXCEPT !.passed = TRUE]}]
          /\ UNCHANGED refused
     ELSE /\ subs' = [subs EXCEPT ![s] = @ \ {h}]
          /\ refused' = [refused EXCEPT ![s] = @ \union {h.room}]
  /\ UNCHANGED <<down, cred, topics, revs, leftover>>

ExecThrows(s, h) ==
  /\ Serve(s)
  /\ h.passed
  /\ subs' = [subs EXCEPT ![s] = @ \ {h}]
  /\ refused' = [refused EXCEPT ![s] = @ \union {h.room}]
  /\ UNCHANGED <<down, cred, topics, revs, leftover>>

Subscribed(s, h) ==
  /\ Serve(s)
  /\ h.passed
  /\ subs' = [subs EXCEPT ![s] = @ \ {h}]
  /\ topics' = [topics EXCEPT ![s] = @ \union {h.room}]
  /\ refused' = [refused EXCEPT ![s] = @ \ {h.room}]
  /\ UNCHANGED <<down, cred, revs, leftover>>

(* A subscribe whose handler still awaits is not undone. *)
UnsubscribeFrame(s) ==
  /\ Receive(s, "unsub")
  /\ LET r == Head(up[s]).room IN
       /\ topics' = [topics EXCEPT ![s] = @ \ {r}]
       /\ leftover' = [leftover EXCEPT ![s] =
            IF Asked(s, r) THEN @ \union {r} ELSE @ \ {r}]
  /\ UNCHANGED <<down, cred, subs, revs, refused>>

CredentialFrame(s) ==
  /\ Receive(s, "auth")
  /\ cred' = [cred EXCEPT ![s] = Head(up[s]).as]
  /\ revs' = IF topics[s] = {} THEN revs
             ELSE [revs EXCEPT ![s] = @ \union
                    {[id |-> FreshId(@), todo |-> topics[s], failed |-> {},
                      revoked |-> {}]}]
  /\ UNCHANGED <<down, topics, subs, history>>

(* authorize() of one room after the other, with the credential of then.   *)
Authorize(s, v) ==
  /\ Serve(s)
  /\ v.failed = {}
  /\ \E r \in v.todo :
       revs' = [revs EXCEPT ![s] = (@ \ {v}) \union
                 {[v EXCEPT !.todo = @ \ {r},
                            !.failed = IF Opens(cred[s], r) THEN {} ELSE {r}]}]
  /\ UNCHANGED <<down, cred, topics, subs, history>>

Revoke(s, v) ==
  /\ Serve(s)
  /\ v.failed # {}
  /\ topics' = [topics EXCEPT ![s] = @ \ v.failed]
  /\ revs' = [revs EXCEPT ![s] = (@ \ {v}) \union
               {[v EXCEPT !.failed = {}, !.revoked = @ \union v.failed]}]
  /\ UNCHANGED <<down, cred, subs, history>>

\* A mistake to detect: the client is not told which rooms it lost.
RevalidationUntold(s, v) ==
  /\ Serve(s)
  /\ v.failed = {} /\ v.todo = {}
  /\ revs' = [revs EXCEPT ![s] = @ \ {v}]
  /\ UNCHANGED <<down, cred, topics, subs, history>>

RevalidationEnds(s, v) ==
  /\ Serve(s)
  /\ v.failed = {} /\ v.todo = {}
  /\ revs' = [revs EXCEPT ![s] = @ \ {v}]
  /\ down' = IF v.revoked = {} THEN down
             ELSE [down EXCEPT ![s] = Append(@, v.revoked)]
  /\ UNCHANGED <<cred, topics, subs, history>>

----------------------------------------------------------------------------
Answer(s) ==
  \/ SubscribeFrame(s) \/ UnsubscribeFrame(s) \/ CredentialFrame(s)
  \/ \E h \in subs[s] : SubscribeGuards(s, h) \/ ExecThrows(s, h) \/ Subscribed(s, h)
  \/ \E v \in revs[s] : Authorize(s, v) \/ Revoke(s, v) \/ RevalidationEnds(s, v)
  \/ ReceiveAck(s)

Next ==
  \/ Connect \/ Destroy \/ SetJwt
  \/ \E r \in Room : Subscribe(r) \/ Unsubscribe(r)
  \/ \E s \in Socket : Opened(s) \/ Closed(s) \/ Drop(s) \/ Answer(s)
  \/ \E stray \in BOOLEAN : TimerFires(stray)

(* Timers fire, a connection is made or refused, a closed socket says so,  *)
(* and the server handles the frames it gets.                              *)
Fairness ==
  /\ \A s \in Socket : WF_vars(Opened(s)) /\ WF_vars(Closed(s)) /\ WF_vars(Answer(s))
  /\ \A stray \in BOOLEAN : WF_vars(TimerFires(stray))

Spec == Init /\ [][Next]_vars
LiveSpec == Spec /\ Fairness

----------------------------------------------------------------------------
(* What the variables hold; a destroyed client remembers no socket. *)
TypeOK ==
  /\ ws \in 0 .. MaxSockets
  /\ timer \in BOOLEAN
  /\ strays \in 0 .. MaxDrops + MaxCalls
  /\ destroyed \in BOOLEAN
  /\ jwt \in Token
  /\ rooms \subseteq Room
  /\ phase \in [Socket -> {"connecting", "open", "closing", "closed"}]
  /\ \A s \in Socket :
       /\ up[s] \in Seq(Frame)
       /\ down[s] \in Seq(SUBSET Room)
       /\ subs[s] \subseteq Subscribing
       /\ revs[s] \subseteq Revalidation
       /\ phase[s] # "open" => up[s] = <<>> /\ down[s] = <<>> /\ subs[s] = {}
  /\ cred \in [Socket -> Token]
  /\ topics \in [Socket -> SUBSET Room]
  /\ refused \in [Socket -> SUBSET Room]
  /\ leftover \in [Socket -> SUBSET Room]
  /\ ws # 0 => phase[ws] \in {"connecting", "open"}
  /\ destroyed => ws = 0 /\ ~timer
  /\ asked \in BOOLEAN
  /\ raced \in BOOLEAN
  /\ calls \in 0 .. MaxCalls
  /\ drops \in 0 .. MaxDrops

(* However often the connection is lost, the client has one socket or one  *)
(* reconnect timer at a time, and none after destroy(); unless connect()   *)
(* was called while a timer was running or the socket that destroy() gave  *)
(* up was still closing, which #connect and onclose do not look at.        *)
OneSession ==
  ~raced => Cardinality(Live) + strays + (IF timer THEN 1 ELSE 0)
            <= IF destroyed THEN 0 ELSE 1

(* Neither the guards of a subscribe nor those of a resubscribe are run    *)
(* with a credential older than the token the client had when it asked.    *)
JudgedByLatest ==
  \A s \in Live : \A h \in subs[s] :
    h.as <= cred[s] \/ (~SignedIn(h.as) /\ cred[s] = 0)

AtRest ==
  /\ IsOpen(ws)
  /\ up[ws] = <<>> /\ down[ws] = <<>> /\ subs[ws] = {} /\ revs[ws] = {}

(* When all is answered the server subscribes the socket to the rooms the  *)
(* client keeps, under its token: through lost connections, changes of the *)
(* token and revoked rooms.  The exceptions are a room whose subscribe was *)
(* refused, which the client keeps and does not ask for again, and a room  *)
(* left on the server by an unsubscribe that overtook the subscribe, or by *)
(* an acknowledgement that reached the client after it asked anew.         *)
RoomsAgree ==
  AtRest /\ ~raced =>
    /\ rooms \ topics[ws] \subseteq refused[ws]
    /\ topics[ws] \ rooms \subseteq leftover[ws]
    /\ cred[ws] = jwt \/ (~SignedIn(jwt) /\ cred[ws] = 0)

(* After connect(), whatever is lost on the way, the client is connected   *)
(* in the end and everything it asked for is answered, until destroy().    *)
ComesToRest == asked ~> (AtRest \/ ~asked)
=============================================================================
