---------------------------- MODULE SocketRooms ----------------------------
(***************************************************************************)
(* The rooms of one websocket in a child server: the wsRoute of a pubsub   *)
(* endpoint, the credential frame with its revalidation of the rooms, and  *)
(* the close of the socket.  Frames arrive in order, but the handler of a  *)
(* frame is a coroutine: while a subscribe awaits its guards and its exec  *)
(* function, or a revalidation the guards of a room, later frames and the  *)
(* close are handled.                                                      *)
(*                                                                         *)
(* A room is held in three places: the topics Bun publishes to (topics),   *)
(* the live room contexts of the socket (a Map object in a WeakMap), and   *)
(* the adaptor, which tells the gateway (joined).  An unsubscribe and a    *)
(* close await nothing but argument parsing and an empty list of handlers, *)
(* which ends within the turn of the event loop: each is one step.         *)
(***************************************************************************)
EXTENDS Integers, FiniteSets

CONSTANTS
  Room,      \* rooms the client asks for
  Guarded,   \* those whose guards let signed-in sockets only pass
  MaxFrames  \* bound: frames the client sends

ASSUME SocketRoomsAssumption ==
  /\ Guarded \subseteq Room
  /\ MaxFrames \in Nat

VARIABLES
  open,    \* the socket is open
  cred,    \* AppWsData: the credential frames are handled with
  frames,  \* frames so far; the last one's number names what it creates
  topics,  \* rooms ws.subscribe()d to
  maps,    \* the Map objects that have held the socket's room contexts
  cur,     \* #liveWsPubsubRoomCtx.get(ws), 0 for undefined
  joined,  \* SolidPubSub.#socketRooms.get(socketId)
  subs,    \* subscribe handlers in progress
  revs,    \* revalidations in progress
  late,    \* history: rooms joined by a handler that was overtaken by a
           \* credential frame or the close
  lost     \* history: rooms whose Map was thrown away with them in it

rooms == <<topics, maps, cur, joined>>
history == <<late, lost>>
vars == <<open, cred, frames, rooms, subs, revs, history>>

Frame == 1 .. MaxFrames
Credential == {"in", "out"}

(* under: the credential the guards were passed with, "none" before that. *)
Subscribing == [id : Frame, room : Room, under : Credential \union {"none"}]

(* at: the rooms (one, or none) whose authorize() is awaited; verdict: what *)
(* it has found; todo: the rooms after it.                                 *)
Revalidation ==
  [id : Frame, map : Frame, at : SUBSET Room, todo : SUBSET Room,
   verdict : {"none", "pass", "fail"}]

Init ==
  /\ open = TRUE
  /\ cred \in Credential
  /\ frames = 0
  /\ topics = {}
  /\ maps = [m \in Frame |-> {}]
  /\ cur = 0
  /\ joined = {}
  /\ subs = {}
  /\ revs = {}
  /\ late = {}
  /\ lost = {}

Live == IF cur = 0 THEN {} ELSE maps[cur]

Allowed(r) == r \notin Guarded \/ cred = "in"

ReceiveFrame == open /\ frames < MaxFrames /\ frames' = frames + 1

----------------------------------------------------------------------------
(* Subscribe *)

SubscribeFrame(r) ==
  /\ ReceiveFrame
  /\ subs' = subs \union {[id |-> frames + 1, room |-> r, under |-> "none"]}
  /\ UNCHANGED <<open, cred, rooms, revs, history>>

(* exec() runs the guards; a failing one ends the handler with an error.   *)
SubscribeGuards(h) ==
  /\ h.under = "none"
  /\ subs' = (subs \ {h}) \union
             (IF Allowed(h.room) THEN {[h EXCEPT !.under = cred]} ELSE {})
  /\ UNCHANGED <<open, cred, frames, rooms, revs, history>>

ExecThrows(h) ==
  /\ h.under # "none"
  /\ subs' = subs \ {h}
  /\ UNCHANGED <<open, cred, frames, rooms, revs, history>>

\* A mistake to detect: the room is not kept for revalidation.
SubscribedUntracked(h) ==
  /\ h.under # "none"
  /\ subs' = subs \ {h}
  /\ topics' = IF open THEN topics \union {h.room} ELSE topics
  /\ joined' = joined \union {h.room}
  /\ UNCHANGED <<open, cred, frames, maps, cur, revs, history>>

(* The rest of the handler, whatever happened to the socket meanwhile;     *)
(* ws.subscribe does nothing on a closed socket.                           *)
Subscribed(h) ==
  /\ h.under # "none"
  /\ subs' = subs \ {h}
  /\ topics' = IF open THEN topics \union {h.room} ELSE topics
  /\ LET map == IF cur = 0 THEN h.id ELSE cur IN
       /\ maps' = [maps EXCEPT ![map] = @ \union {h.room}]
       /\ cur' = map
  /\ joined' = joined \union {h.room}
  /\ late' = IF open /\ h.under = cred THEN late \ {h.room}
             ELSE late \union {h.room}
  /\ lost' = lost \ {h.room}
  /\ UNCHANGED <<open, cred, frames, revs>>

----------------------------------------------------------------------------
(* Unsubscribe: a socket without live rooms only leaves the topic. *)

UnsubscribeFrame(r) ==
  /\ ReceiveFrame
  /\ topics' = topics \ {r}
  /\ IF cur = 0
     THEN UNCHANGED <<maps, cur, joined>>
     ELSE /\ maps' = [maps EXCEPT ![cur] = @ \ {r}]
          /\ cur' = IF maps[cur] \subseteq {r} THEN 0 ELSE cur
          /\ joined' = joined \ {r}
  /\ UNCHANGED <<open, cred, subs, revs, history>>

----------------------------------------------------------------------------
(* The credential frame and revalidateWsRooms *)

CredentialFrame(c) ==
  /\ ReceiveFrame
  /\ cred' = c
  /\ \/ Live = {} /\ UNCHANGED revs
     \/ \E r \in Live :
          revs' = revs \union {[id |-> frames + 1, map |-> cur, at |-> {r},
                                todo |-> Live \ {r}, verdict |-> "none"]}
  /\ UNCHANGED <<open, rooms, subs, history>>

(* authorize() reads the credential of the socket. *)
Authorize(v) ==
  /\ v.verdict = "none"
  /\ revs' = (revs \ {v}) \union
       {[v EXCEPT !.verdict = IF \A r \in v.at : Allowed(r) THEN "pass" ELSE "fail"]}
  /\ UNCHANGED <<open, cred, frames, rooms, subs, history>>

(* The rooms that are dropped when the await of authorize() returns. *)
Revoked(v) == IF v.verdict = "fail" THEN v.at ELSE {}

\* A mistake to detect: a revoked room is left in the adaptor and the Map only.
RevokeQuietly(v) ==
  /\ UNCHANGED topics
  /\ joined' = joined \ Revoked(v)
  /\ maps' = [maps EXCEPT ![v.map] = @ \ Revoked(v)]

Revoke(v) ==
  /\ topics' = topics \ Revoked(v)
  /\ joined' = joined \ Revoked(v)
  /\ maps' = [maps EXCEPT ![v.map] = @ \ Revoked(v)]

NextRoom(v) ==
  /\ v.verdict # "none"
  /\ Revoke(v)
  /\ \E r \in v.todo :
       revs' = (revs \ {v}) \union {[v EXCEPT !.at = {r}, !.todo = @ \ {r},
                                              !.verdict = "none"]}
  /\ UNCHANGED <<open, cred, frames, cur, subs, history>>

(* The WeakMap entry is deleted when the Map this revalidation began with  *)
(* is empty, although the entry may hold another Map by now.               *)
RevalidationEnds(v) ==
  /\ v.verdict # "none"
  /\ v.todo = {}
  /\ Revoke(v)
  /\ revs' = revs \ {v}
  /\ IF maps[v.map] \subseteq Revoked(v)
     THEN /\ cur' = 0
          /\ lost' = lost \union (IF cur = v.map THEN {} ELSE Live)
     ELSE UNCHANGED <<cur, lost>>
  /\ UNCHANGED <<open, cred, frames, subs, late>>

----------------------------------------------------------------------------
(* handleWsClose, unregisterSocket; Bun drops the topics. *)
Close ==
  /\ open
  /\ open' = FALSE
  /\ topics' = {}
  /\ cur' = 0
  /\ joined' = {}
  /\ late' = {}
  /\ UNCHANGED <<cred, frames, maps, subs, revs, lost>>

Next ==
  \/ \E r \in Room : SubscribeFrame(r) \/ UnsubscribeFrame(r)
  \/ \E c \in Credential : CredentialFrame(c)
  \/ \E h \in subs : SubscribeGuards(h) \/ ExecThrows(h) \/ Subscribed(h)
  \/ \E v \in revs : Authorize(v) \/ NextRoom(v) \/ RevalidationEnds(v)
  \/ Close

Spec == Init /\ [][Next]_vars

----------------------------------------------------------------------------
TypeOK ==
  /\ open \in BOOLEAN
  /\ cred \in Credential
  /\ frames \in 0 .. MaxFrames
  /\ topics \subseteq Room
  /\ maps \in [Frame -> SUBSET Room]
  /\ cur \in 0 .. MaxFrames
  /\ joined \subseteq Room
  /\ subs \subseteq Subscribing
  /\ revs \subseteq Revalidation
  /\ late \subseteq Room
  /\ lost \subseteq Room

(* The gateway routes to this child every room that the socket hears, and  *)
(* no other, unless the room's context was lost; whatever subscribes,      *)
(* revalidations and credentials overlap.                                  *)
HeardIsRouted ==
  open => topics \subseteq joined /\ joined \subseteq topics \union lost

(* A closed socket is left in a room only by a subscribe that was still    *)
(* awaiting its guards or its exec when the socket closed.                 *)
GhostsAreLate == ~open => joined \subseteq late

(* A room escapes the revalidations only when a revalidation that began    *)
(* with an older Map threw its context away.                               *)
UntrackedIsLost == topics \subseteq Live \union lost

(* When no revalidation is in progress, the socket hears no room that its  *)
(* credential does not open, but for those whose subscribe was overtaken   *)
(* by the credential frame, or whose context was lost.                     *)
RoomsMatchCredential ==
  revs = {} => \A r \in topics : Allowed(r) \/ r \in late \union lost

(* The three places that hold the rooms of an open socket agree, but for   *)
(* rooms whose context a revalidation threw away.                          *)
PlacesAgree == HeardIsRouted /\ UntrackedIsLost

(* Neither a close nor a credential leaves a room behind, but for the two  *)
(* races that late and lost record.                                        *)
LateRoomsOnly == GhostsAreLate /\ RoomsMatchCredential
=============================================================================
