--------------------------- MODULE WsClientProofs ---------------------------
(***************************************************************************)
(* Proofs about WsClient for every set of rooms and every bound: whatever  *)
(* is called, lost or answered in whatever order, the client has one       *)
(* session, the server judges what it asks for by the token it had, and    *)
(* the two agree on the rooms when all is answered.                        *)
(***************************************************************************)
EXTENDS WsClient, FiniteSetTheorems, SequenceTheorems, TLAPS

-----------------------------------------------------------------------------
(* The inductive invariant: types *)

Closing == {s \in Socket : phase[s] = "closing"}

Flags ==
  /\ timer \in BOOLEAN /\ destroyed \in BOOLEAN
  /\ asked \in BOOLEAN /\ raced \in BOOLEAN

Numbers ==
  /\ strays \in Nat
  /\ calls \in 0 .. MaxCalls /\ drops \in 0 .. MaxDrops
  /\ jwt \in 0 .. calls + 1

Sockets ==
  /\ ws \in 0 .. MaxSockets
  /\ phase \in [Socket -> {"connecting", "open", "closing", "closed"}]
  /\ ws # 0 => phase[ws] \in {"connecting", "open"}

Ended == destroyed => ws = 0 /\ ~timer

ClientTypes == Flags /\ Numbers /\ Sockets /\ Ended

RoomTypes == rooms \subseteq Room /\ IsFiniteSet(rooms)

ServerTypes ==
  /\ up \in [Socket -> Seq(Frame)]
  /\ down \in [Socket -> Seq(SUBSET Room)]
  /\ cred \in [Socket -> Token]
  /\ topics \in [Socket -> SUBSET Room]
  /\ subs \in [Socket -> SUBSET Subscribing]
  /\ revs \in [Socket -> SUBSET Revalidation]
  /\ refused \in [Socket -> SUBSET Room]
  /\ leftover \in [Socket -> SUBSET Room]
  /\ \A s \in Socket : IsFiniteSet(subs[s]) /\ IsFiniteSet(revs[s])

\* Only a socket that is open has anything under way or at the server.
Blank(s) ==
  /\ up[s] = <<>> /\ down[s] = <<>> /\ cred[s] = 0
  /\ topics[s] = {} /\ subs[s] = {} /\ revs[s] = {}

Blanks == \A s \in Socket : phase[s] # "open" => Blank(s)

\* Each timer and each closing socket is owed to a call or a drop.
Counted == strays + (IF timer THEN 1 ELSE 0) + Cardinality(Closing) <= calls + drops

Typed == ClientTypes /\ RoomTypes /\ ServerTypes /\ Blanks /\ Counted

LEMMA ClosingFinite == IsFiniteSet(Closing) /\ IsFiniteSet(Closing')
<1>1. IsFiniteSet(Socket)
  BY FS_Interval, WsClientAssumption DEF Socket, WsClientAssumption
<1> QED  BY <1>1, FS_Subset DEF Closing

-----------------------------------------------------------------------------
(* Lemmas about operators *)

\* A finite set as a sequence: it has the elements of the set, and no others.
LEMMA SetToSeqOf ==
  ASSUME NEW S, IsFiniteSet(S)
  PROVE  /\ SetToSeq(S) \in Seq(S)
         /\ \A x \in S : \E i \in 1 .. Len(SetToSeq(S)) : SetToSeq(S)[i] = x
<1> DEFINE n == Cardinality(S)
<1>1. n \in Nat /\ \E f \in [1 .. n -> S] : IsInjective(f)
  BY FS_CardinalityType DEF ExistsBijection, Bijection, Injection
<1>2. SetToSeq(S) \in [1 .. n -> S] /\ IsInjective(SetToSeq(S))
  BY <1>1 DEF SetToSeq
<1> DEFINE q == SetToSeq(S)
<1>3. q \in Seq(S) /\ Len(q) = n
  <2> HIDE DEF q, n
  <2>1. q \in Seq(S)
    BY <1>1, <1>2 DEF q, n
  <2> QED  BY <1>1, <1>2, <2>1, LenProperties DEF q, n
<1>4. IsFiniteSet(1 .. n) /\ Cardinality(1 .. n) = n
  BY <1>1, FS_Interval
<1>5. q \in Injection(1 .. n, S)
  BY <1>2 DEF Injection
<1>6. q \in Surjection(1 .. n, S)
  BY <1>4, <1>5, FS_Injection
<1> QED  BY <1>3, <1>6 DEF Surjection

\* What is sent for the rooms: each is asked for, and nothing else is said.
LEMMA RoomFramesOf ==
  ASSUME rooms \subseteq Room, IsFiniteSet(rooms), jwt \in Token
  PROVE  /\ RoomFrames \in Seq(Frame)
         /\ \A i \in 1 .. Len(RoomFrames) :
              /\ RoomFrames[i].type = "sub" /\ RoomFrames[i].as = jwt
              /\ RoomFrames[i].room \in rooms
         /\ \A r \in rooms : \E i \in 1 .. Len(RoomFrames) : RoomFrames[i].room = r
<1> DEFINE q == SetToSeq(rooms)
           frame(i) == RoomFrame("sub", q[i])
<1>1. /\ q \in Seq(rooms) /\ \A x \in rooms : \E i \in 1 .. Len(q) : q[i] = x
  BY SetToSeqOf
<1>2. Len(q) \in Nat /\ \A i \in 1 .. Len(q) : q[i] \in rooms
  BY <1>1, LenProperties, ElementOfSeq
<1>3. RoomFrames = [i \in 1 .. Len(q) |-> frame(i)]
  BY DEF RoomFrames
<1> HIDE DEF q
<1>4. \A i \in 1 .. Len(q) : frame(i) \in Frame
  BY <1>2 DEF RoomFrame, Frame
<1>5. [i \in 1 .. Len(q) |-> frame(i)] \in Seq(Frame)
  <2> HIDE DEF frame
  <2> QED  BY <1>2, <1>4, IsASeq
<1>6. Len(RoomFrames) = Len(q)
  BY <1>2, <1>3, <1>5, LenProperties
<1>7. \A i \in 1 .. Len(q) : RoomFrames[i] = frame(i)
  BY <1>3
<1> QED  BY <1>1, <1>2, <1>3, <1>5, <1>6, <1>7 DEF RoomFrame

LEMMA ResubscribeOf ==
  ASSUME rooms \subseteq Room, IsFiniteSet(rooms), jwt \in Token
  PROVE  /\ Resubscribe \in Seq(Frame)
         /\ \A i \in 1 .. Len(Resubscribe) :
              /\ Resubscribe[i].as = jwt
              /\ \/ Resubscribe[i].type = "sub" /\ Resubscribe[i].room \in rooms
                 \/ Resubscribe[i].type = "auth" /\ i = 1 /\ SignedIn(jwt)
         /\ SignedIn(jwt) => Len(Resubscribe) > 0 /\ Resubscribe[1].type = "auth"
         /\ \A r \in rooms : \E i \in 1 .. Len(Resubscribe) :
              Resubscribe[i].type = "sub" /\ Resubscribe[i].room = r
<1> DEFINE q == RoomFrames
           a == AuthFrame
<1>1. /\ q \in Seq(Frame)
      /\ \A i \in 1 .. Len(q) : q[i].type = "sub" /\ q[i].as = jwt /\ q[i].room \in rooms
      /\ \A r \in rooms : \E i \in 1 .. Len(q) : q[i].room = r
  BY RoomFramesOf
<1>2. a \in Frame /\ a.type = "auth" /\ a.as = jwt
  BY DEF AuthFrame, Frame
<1>3. Resubscribe = (IF SignedIn(jwt) THEN <<a>> ELSE <<>>) \o q
  BY DEF Resubscribe
<1> HIDE DEF q, a, Frame
<1>4. CASE SignedIn(jwt)
  <2>1. Resubscribe = <<a>> \o q
    BY <1>3, <1>4
  <2>2. <<a>> \in Seq(Frame) /\ Len(<<a>>) = 1 /\ <<a>>[1] = a
    BY <1>2
  <2>3. /\ Resubscribe \in Seq(Frame) /\ Len(Resubscribe) = 1 + Len(q) /\ Len(q) \in Nat
        /\ \A i \in 1 .. Len(Resubscribe) : Resubscribe[i] = IF i <= 1 THEN a ELSE q[i - 1]
    BY <1>1, <2>1, <2>2, ConcatProperties, LenProperties
  <2>4. \A i \in 1 .. Len(q) : i + 1 \in 1 .. Len(Resubscribe) /\ Resubscribe[i + 1] = q[i]
    BY <2>3
  <2>5. \A i \in 1 .. Len(Resubscribe) :
          \/ i = 1 /\ Resubscribe[i] = a
          \/ i - 1 \in 1 .. Len(q) /\ Resubscribe[i] = q[i - 1]
    BY <2>3
  <2>6. \A r \in rooms : \E i \in 1 .. Len(Resubscribe) :
          Resubscribe[i].type = "sub" /\ Resubscribe[i].room = r
    BY <1>1, <2>4
  <2>7. Len(Resubscribe) > 0 /\ Resubscribe[1] = a
    BY <2>3
  <2> QED  BY <1>1, <1>2, <1>4, <2>3, <2>5, <2>6, <2>7
<1>5. CASE ~SignedIn(jwt)
  <2>1. Resubscribe = q
    BY <1>1, <1>3, <1>5
  <2> QED  BY <1>1, <1>5, <2>1
<1> QED  BY <1>4, <1>5

\* A handler gets a number that no other in progress has.
LEMMA FreshIdOf ==
  ASSUME NEW S, IsFiniteSet(S)
  PROVE  FreshId(S) \in Nat /\ \A h \in S : h.id # FreshId(S)
<1> DEFINE n == Cardinality(S)
           Free(i) == \A h \in S : h.id # i
<1>1. n \in Nat
  BY FS_CardinalityType
<1>2. \E i \in 1 .. n + 1 : Free(i)
  <2> SUFFICES ASSUME \A i \in 1 .. n + 1 : \E h \in S : h.id = i
               PROVE  FALSE
    OBVIOUS
  <2> DEFINE f == [i \in 1 .. n + 1 |-> CHOOSE h \in S : h.id = i]
  <2>1. \A i \in 1 .. n + 1 : f[i] \in S /\ f[i].id = i
    OBVIOUS
  <2>2. f \in [1 .. n + 1 -> S]
    BY <2>1
  <2>3. IsFiniteSet(1 .. n + 1) /\ Cardinality(1 .. n + 1) = n + 1
    BY <1>1, FS_Interval
  <2> HIDE DEF f
  <2>4. \E x, y \in 1 .. n + 1 : x # y /\ f[x] = f[y]
    <3>1. Cardinality(S) < Cardinality(1 .. n + 1)
      BY <1>1, <2>3
    <3> DEFINE D == 1 .. n + 1
    <3>2. f \in [D -> S] /\ IsFiniteSet(D) /\ Cardinality(S) < Cardinality(D)
      BY <2>2, <2>3, <3>1
    <3> HIDE DEF D
    <3>3. \E x, y \in D : x # y /\ f[x] = f[y]
      BY <3>2, FS_PigeonHole
    <3> QED  BY <3>3 DEF D
  <2> QED  BY <2>1, <2>4
<1>3. FreshId(S) = CHOOSE i \in 1 .. n + 1 : Free(i)
  BY DEF FreshId
<1> HIDE DEF Free, n
<1>4. FreshId(S) \in 1 .. n + 1 /\ Free(FreshId(S))
  BY <1>2, <1>3
<1> QED  BY <1>1, <1>4 DEF Free

\* A revalidation goes on to another room, or revokes one.
LEMMA RevalidationChanges ==
  ASSUME NEW v \in Revalidation, NEW S \in SUBSET Room, NEW T \in SUBSET Room
  PROVE  /\ [v EXCEPT !.todo = S, !.failed = T] \in Revalidation
         /\ [v EXCEPT !.failed = T, !.revoked = S] \in Revalidation
<1> DEFINE a == [v EXCEPT !.todo = S]
           b == [v EXCEPT !.failed = T]
<1>1. a \in Revalidation /\ b \in Revalidation /\ a.revoked = v.revoked
  BY DEF Revalidation
<1> HIDE DEF a, b
<1>2. /\ [a EXCEPT !.failed = T] \in Revalidation /\ [a EXCEPT !.failed = T].revoked = a.revoked
      /\ [b EXCEPT !.revoked = S] \in Revalidation /\ [b EXCEPT !.revoked = S].revoked = S
  BY <1>1 DEF Revalidation
<1> QED  BY <1>1, <1>2 DEF a, b

LEMMA RevalidationTells ==
  ASSUME NEW v \in Revalidation, NEW S, NEW T
  PROVE  /\ [v EXCEPT !.todo = S, !.failed = T].revoked = v.revoked
         /\ [v EXCEPT !.failed = T, !.revoked = S].revoked = S
<1> DEFINE a == [v EXCEPT !.todo = S]
           b == [v EXCEPT !.failed = T]
<1>1. DOMAIN v = {"id", "todo", "failed", "revoked"}
  BY DEF Revalidation
<1>2. a.revoked = v.revoked /\ DOMAIN a = DOMAIN v /\ DOMAIN b = DOMAIN v
  BY <1>1
<1> HIDE DEF a, b
<1>3. [a EXCEPT !.failed = T].revoked = a.revoked /\ [b EXCEPT !.revoked = S].revoked = S
  BY <1>1, <1>2
<1> QED  BY <1>2, <1>3 DEF a, b

-----------------------------------------------------------------------------
(* Every step keeps the types *)

LEMMA InitTyped == Init => Typed
<1> SUFFICES ASSUME Init PROVE Typed
  OBVIOUS
<1> USE WsClientAssumption DEF WsClientAssumption, Init
<1>1. Closing = {}
  BY DEF Closing
<1>2. ClientTypes
  <2>1. Flags
    BY DEF Flags
  <2>2. Numbers /\ Sockets /\ Ended
    BY DEF Numbers, Sockets, Ended
  <2> QED  BY <2>1, <2>2 DEF ClientTypes
<1>5. RoomTypes
  <2>1. rooms = {} /\ IsFiniteSet({})
    BY FS_EmptySet
  <2> QED  BY <2>1 DEF RoomTypes
<1>3. ServerTypes
  <2>1. <<>> \in Seq(Frame) /\ <<>> \in Seq(SUBSET Room) /\ 0 \in Token
    BY DEF Token
  <2> QED  BY <2>1, FS_EmptySet DEF ServerTypes
<1>4. Blanks /\ Counted
  <2>1. Cardinality(Closing) = 0
    BY <1>1, FS_EmptySet
  <2> QED  BY <2>1 DEF Blanks, Blank, Counted
<1> QED  BY <1>2, <1>3, <1>4, <1>5 DEF Typed

\* What is under way to or at a socket is forgotten.
LEMMA ForgetTyped ==
  ASSUME Typed, NEW s \in Socket, Forget(s)
  PROVE  /\ ServerTypes' /\ Blank(s)'
         /\ \A t \in Socket \ {s} : Blank(t) => Blank(t)'
<1>1. <<>> \in Seq(Frame) /\ <<>> \in Seq(SUBSET Room) /\ 0 \in Token
  BY WsClientAssumption DEF Token, WsClientAssumption
<1>2. ServerTypes'
  BY <1>1, FS_EmptySet DEF Typed, ServerTypes, Forget
<1>3. Blank(s)' /\ \A t \in Socket \ {s} : Blank(t) => Blank(t)'
  BY DEF Typed, ServerTypes, Forget, Blank
<1> QED  BY <1>2, <1>3

\* Nothing is sent and nothing is handled: a socket is opened, say.
LEMMA ServerRests ==
  ASSUME Typed, UNCHANGED <<up, down, cred, topics, subs, revs, refused, leftover>>
  PROVE  ServerTypes' /\ \A t \in Socket : Blank(t) => Blank(t)'
BY DEF Typed, ServerTypes, Blank

LEMMA RoomsRest == ASSUME Typed, rooms' = rooms PROVE RoomTypes'
BY DEF Typed, RoomTypes

LEMMA OpenSocketTyped ==
  ASSUME Typed, OpenSocket
  PROVE  /\ ws' \in Socket /\ phase' \in [Socket -> {"connecting", "open", "closing", "closed"}]
         /\ phase'[ws'] = "connecting" /\ phase[ws'] = "closed"
         /\ \A t \in Socket \ {ws'} : phase'[t] = phase[t]
         /\ Closing' = Closing
<1>1. PICK s \in Socket : phase[s] = "closed" /\ ws' = s /\ phase' = [phase EXCEPT ![s] = "connecting"]
  BY DEF OpenSocket
<1>2. phase \in [Socket -> {"connecting", "open", "closing", "closed"}]
  BY DEF Typed, ClientTypes, Sockets
<1> QED  BY <1>1, <1>2 DEF Closing

LEMMA ConnectTyped == ASSUME Typed, Connect PROVE Typed'
<1> USE WsClientAssumption DEF WsClientAssumption
<1>1. /\ ws' \in Socket /\ phase' \in [Socket -> {"connecting", "open", "closing", "closed"}]
      /\ phase'[ws'] = "connecting" /\ phase[ws'] = "closed"
      /\ \A t \in Socket \ {ws'} : phase'[t] = phase[t]
      /\ Closing' = Closing
  BY OpenSocketTyped DEF Connect
<1>2. ServerTypes' /\ \A t \in Socket : Blank(t) => Blank(t)'
  BY ServerRests DEF Connect, network, server, history
<1>3. ClientTypes'
  <2>1. Flags'
    BY DEF Connect, Races, Typed, ClientTypes, Flags
  <2>2. Numbers'
    BY DEF Connect, Call, Typed, ClientTypes, Numbers
  <2>3. Sockets' /\ Ended'
    BY <1>1 DEF Connect, Sockets, Ended, Socket
  <2> QED  BY <2>1, <2>2, <2>3 DEF ClientTypes
<1>6. RoomTypes'
  BY RoomsRest DEF Connect
<1>4. Blanks'
  BY <1>1, <1>2 DEF Typed, Blanks
<1>5. Counted'
  <2>1. Cardinality(Closing) \in Nat
    BY ClosingFinite, FS_CardinalityType
  <2> QED  BY <1>1, <2>1 DEF Typed, ClientTypes, Numbers, Counted, Connect, Call
<1> QED  BY <1>2, <1>3, <1>4, <1>5, <1>6 DEF Typed

LEMMA TimerTyped ==
  ASSUME Typed, NEW stray \in BOOLEAN, TimerFires(stray)
  PROVE  Typed'
<1> USE WsClientAssumption DEF WsClientAssumption
<1>0. /\ timer' = FALSE /\ strays' \in Nat
      /\ strays' <= strays + IF timer THEN 1 ELSE 0
      /\ UNCHANGED <<destroyed, jwt, rooms, asked, raced, calls, drops>>
  BY DEF TimerFires, Typed, ClientTypes, Numbers
<1>1. ServerTypes' /\ \A t \in Socket : Blank(t) => Blank(t)'
  BY ServerRests DEF TimerFires, network, server, history
<1>2. \/ UNCHANGED <<ws, phase>>
      \/ /\ ~destroyed
         /\ ws' \in Socket /\ phase' \in [Socket -> {"connecting", "open", "closing", "closed"}]
         /\ phase'[ws'] = "connecting" /\ phase[ws'] = "closed"
         /\ \A t \in Socket \ {ws'} : phase'[t] = phase[t]
         /\ Closing' = Closing
  BY OpenSocketTyped DEF TimerFires
<1>3. Closing' = Closing
  BY <1>2 DEF Closing
<1>4. ClientTypes'
  <2>1. Flags' /\ Numbers'
    BY <1>0 DEF Typed, ClientTypes, Flags, Numbers
  <2>2. Sockets'
    BY <1>2 DEF Typed, ClientTypes, Sockets, Socket
  <2>3. Ended'
    BY <1>0, <1>2 DEF Typed, ClientTypes, Ended
  <2> QED  BY <2>1, <2>2, <2>3 DEF ClientTypes
<1>5. Blanks'
  BY <1>1, <1>2 DEF Typed, Blanks
<1>6. Counted'
  <2>1. Cardinality(Closing) \in Nat
    BY ClosingFinite, FS_CardinalityType
  <2> QED  BY <1>0, <1>3, <2>1 DEF Typed, ClientTypes, Numbers, Counted
<1> QED  BY <1>0, <1>1, <1>4, <1>5, <1>6, RoomsRest DEF Typed

\* onclose, of a socket that was closed or lost.
LEMMA CloseTyped ==
  ASSUME Typed, NEW s \in Socket, Closed(s) \/ Drop(s)
  PROVE  Typed'
<1> USE WsClientAssumption DEF WsClientAssumption
<1>0. /\ phase' = [phase EXCEPT ![s] = "closed"]
      /\ phase \in [Socket -> {"connecting", "open", "closing", "closed"}]
      /\ ScheduleReconnect(s) /\ Forget(s)
      /\ UNCHANGED <<destroyed, jwt, rooms, asked, raced, calls>>
      /\ drops' \in 0 .. MaxDrops
  BY DEF Closed, Drop, Typed, ClientTypes, Sockets, Numbers
<1>1. /\ ServerTypes' /\ Blank(s)'
      /\ \A t \in Socket \ {s} : Blank(t) => Blank(t)'
  BY <1>0, ForgetTyped
<1>2. /\ phase'[s] = "closed" /\ \A t \in Socket \ {s} : phase'[t] = phase[t]
      /\ phase' \in [Socket -> {"connecting", "open", "closing", "closed"}]
  BY <1>0
<1>3. Closing' = Closing \ {s}
  BY <1>0, <1>2 DEF Closing
<1>4. \/ UNCHANGED <<ws, timer, strays>>
      \/ /\ ~destroyed /\ ws' = 0 /\ timer' = TRUE
         /\ strays' = strays + IF timer THEN 1 ELSE 0
  BY <1>0 DEF ScheduleReconnect
<1>5. ClientTypes'
  <2>0. Flags'
    BY <1>0, <1>4 DEF Typed, ClientTypes, Flags
  <2>1. Ended'
    BY <1>0, <1>4 DEF Typed, ClientTypes, Ended
  <2>2. Numbers'
    BY <1>0, <1>4 DEF Typed, ClientTypes, Numbers
  <2>3. ws' # 0 => ws' = ws /\ ws # s
    BY <1>0 DEF ScheduleReconnect, Typed, ClientTypes, Ended, Sockets, Closed, Drop
  <2>4. Sockets'
    BY <1>2, <1>4, <2>3 DEF Typed, ClientTypes, Sockets, Socket
  <2> QED  BY <2>0, <2>1, <2>2, <2>4 DEF ClientTypes
<1>6. Blanks'
  BY <1>1, <1>2 DEF Typed, Blanks
<1>7. Counted'
  <2>1. /\ Cardinality(Closing) \in Nat
        /\ Cardinality(Closing') = IF s \in Closing THEN Cardinality(Closing) - 1 ELSE Cardinality(Closing)
    BY <1>3, ClosingFinite, FS_CardinalityType, FS_RemoveElement
  <2>2. CASE Closed(s)
    <3>1. s \in Closing /\ drops' = drops
      BY <2>2 DEF Closed, Closing
    <3> QED  BY <1>0, <1>4, <2>1, <3>1 DEF Typed, ClientTypes, Numbers, Counted
  <2>3. CASE Drop(s)
    <3>1. s \notin Closing /\ drops' = drops + 1
      BY <2>3 DEF Drop, Live, Closing
    <3> QED  BY <1>0, <1>4, <2>1, <3>1 DEF Typed, ClientTypes, Numbers, Counted
  <2> QED  BY <2>2, <2>3
<1> QED  BY <1>0, <1>1, <1>5, <1>6, <1>7, RoomsRest DEF Typed

LEMMA DestroyTyped == ASSUME Typed, Destroy PROVE Typed'
<1> USE WsClientAssumption DEF WsClientAssumption
<1>0. /\ ws' = 0 /\ timer' = FALSE /\ destroyed' = TRUE /\ asked' = FALSE
      /\ UNCHANGED <<strays, jwt, rooms, raced, drops>>
      /\ calls' = calls + 1 /\ calls < MaxCalls
  BY DEF Destroy, CloseSocket, Call
<1>1. Cardinality(Closing) \in Nat /\ RoomTypes'
  BY <1>0, ClosingFinite, FS_CardinalityType, RoomsRest
<1>4. Flags' /\ Numbers' /\ Ended' /\ ws' \in 0 .. MaxSockets
  <2>1. Flags'
    BY <1>0 DEF Typed, ClientTypes, Flags
  <2>2. Numbers' /\ ws' \in 0 .. MaxSockets
    BY <1>0 DEF Typed, ClientTypes, Numbers
  <2> QED  BY <1>0, <2>1, <2>2 DEF Ended
<1>2. CASE ws = 0
  <2>1. UNCHANGED <<phase, network, server, history>> /\ Closing' = Closing
    BY <1>2 DEF Destroy, CloseSocket, Closing
  <2>2. ServerTypes' /\ \A t \in Socket : Blank(t) => Blank(t)'
    BY <2>1, ServerRests DEF network, server, history
  <2>3. ClientTypes'
    BY <1>0, <1>4, <2>1 DEF Typed, ClientTypes, Sockets
  <2>4. Blanks' /\ Counted'
    BY <1>0, <1>1, <2>1, <2>2 DEF Typed, ClientTypes, Numbers, Blanks, Counted
  <2> QED  BY <1>1, <2>2, <2>3, <2>4 DEF Typed
<1>3. ASSUME NEW s \in Socket, s = ws PROVE Typed'
  <2>0. phase' = [phase EXCEPT ![s] = "closing"] /\ Forget(s) /\ phase[s] \in {"connecting", "open"}
    BY <1>3 DEF Destroy, CloseSocket, Typed, ClientTypes, Sockets, Socket
  <2>1. /\ ServerTypes' /\ Blank(s)'
        /\ \A t \in Socket \ {s} : Blank(t) => Blank(t)'
    BY <2>0, ForgetTyped
  <2>2. /\ phase' \in [Socket -> {"connecting", "open", "closing", "closed"}]
        /\ phase'[s] = "closing" /\ \A t \in Socket \ {s} : phase'[t] = phase[t]
    BY <2>0 DEF Typed, ClientTypes, Sockets
  <2>3. ClientTypes'
    BY <1>0, <1>4, <2>2 DEF ClientTypes, Sockets
  <2>4. Closing' = Closing \union {s} /\ s \notin Closing
    BY <2>0, <2>2 DEF Closing
  <2>5. Cardinality(Closing') = Cardinality(Closing) + 1
    BY <2>4, ClosingFinite, FS_AddElement
  <2>6. Counted'
    BY <1>0, <1>1, <2>5 DEF Typed, ClientTypes, Numbers, Counted
  <2>7. Blanks'
    BY <2>1, <2>2 DEF Typed, Blanks
  <2> QED  BY <1>1, <2>1, <2>3, <2>6, <2>7 DEF Typed
<1> QED  BY <1>2, <1>3 DEF Typed, ClientTypes, Sockets, Socket

\* The client does nothing of its own.
LEMMA ClientRests ==
  ASSUME Typed, UNCHANGED <<session, jwt, phase, asked, raced, calls, drops>>
  PROVE  ClientTypes' /\ Counted'
<1> USE DEF session
<1>1. Flags' /\ Ended'
  BY DEF Typed, ClientTypes, Flags, Ended
<1>2. Numbers' /\ Sockets'
  BY DEF Typed, ClientTypes, Numbers, Sockets
<1>3. Counted'
  BY DEF Typed, Counted, Closing
<1> QED  BY <1>1, <1>2, <1>3 DEF ClientTypes

\* Frames are appended for a socket that is open; nothing else happens there.
LEMMA SendTyped ==
  ASSUME Typed, UNCHANGED <<down, cred, topics, subs, revs, refused, leftover>>,
         NEW s \in Socket, NEW fs \in Seq(Frame), up' = [up EXCEPT ![s] = @ \o fs]
  PROVE  ServerTypes' /\ \A t \in Socket \ {s} : Blank(t) => Blank(t)'
<1>1. up[s] \o fs \in Seq(Frame)
  BY ConcatProperties DEF Typed, ServerTypes
<1> HIDE DEF Frame
<1>2. ServerTypes'
  BY <1>1 DEF Typed, ServerTypes
<1>3. \A t \in Socket \ {s} : Blank(t) => Blank(t)'
  BY DEF Typed, ServerTypes, Blank
<1> QED  BY <1>2, <1>3

LEMMA OpenedTyped ==
  ASSUME Typed, NEW s \in Socket, Opened(s)
  PROVE  Typed'
<1>0. /\ phase[s] = "connecting" /\ phase' = [phase EXCEPT ![s] = "open"]
      /\ up' = IF ws # 0 /\ phase'[ws] = "open" THEN [up EXCEPT ![ws] = @ \o Resubscribe] ELSE up
      /\ UNCHANGED <<ws, timer, strays, destroyed, jwt, rooms, asked, raced, calls, drops>>
      /\ UNCHANGED <<down, cred, topics, subs, revs, refused, leftover>>
  BY DEF Opened, session, server, history
<1>1. /\ phase' \in [Socket -> {"connecting", "open", "closing", "closed"}]
      /\ phase'[s] = "open" /\ \A t \in Socket \ {s} : phase'[t] = phase[t]
  BY <1>0 DEF Typed, ClientTypes, Sockets
<1>2. Closing' = Closing
  BY <1>0, <1>1 DEF Closing
<1>3. ClientTypes' /\ RoomTypes' /\ Counted'
  <2>1. Flags' /\ Ended' /\ RoomTypes'
    BY <1>0, RoomsRest DEF Typed, ClientTypes, Flags, Ended
  <2>2. Numbers'
    BY <1>0 DEF Typed, ClientTypes, Numbers
  <2>3. Sockets'
    BY <1>0, <1>1 DEF Typed, ClientTypes, Sockets, Socket
  <2>4. Counted'
    BY <1>0, <1>2 DEF Typed, Counted
  <2> QED  BY <2>1, <2>2, <2>3, <2>4 DEF ClientTypes
<1>4. Resubscribe \in Seq(Frame)
  <2>1. jwt \in Token /\ rooms \subseteq Room /\ IsFiniteSet(rooms)
    BY WsClientAssumption DEF Typed, ClientTypes, Numbers, RoomTypes, Token, WsClientAssumption
  <2> QED  BY <2>1, ResubscribeOf
<1> HIDE DEF Resubscribe
<1>5. CASE up' = up
  <2>1. ServerTypes' /\ \A t \in Socket : Blank(t) => Blank(t)'
    BY <1>0, <1>5, ServerRests
  <2> QED  BY <1>1, <1>3, <2>1 DEF Typed, Blanks
<1>6. ASSUME NEW t \in Socket, t = ws, phase'[t] = "open", up' = [up EXCEPT ![t] = @ \o Resubscribe]
      PROVE  Typed'
  <2>1. ServerTypes' /\ \A x \in Socket \ {t} : Blank(x) => Blank(x)'
    BY <1>0, <1>4, <1>6, SendTyped
  <2> QED  BY <1>1, <1>3, <1>6, <2>1 DEF Typed, Blanks
<1> QED  BY <1>0, <1>5, <1>6 DEF Typed, ClientTypes, Sockets, Socket

\* A frame goes out if #ws is open.
LEMMA SendIfOpenTyped ==
  ASSUME Typed, UNCHANGED <<ws, phase, down, cred, topics, subs, revs, refused, leftover>>,
         NEW f \in Frame, SendIfOpen(f)
  PROVE  ServerTypes' /\ Blanks'
<1> HIDE DEF Frame
<1>1. CASE up' = up
  <2>1. ServerTypes' /\ \A t \in Socket : Blank(t) => Blank(t)'
    BY <1>1, ServerRests
  <2> QED  BY <2>1 DEF Typed, Blanks
<1>2. ASSUME NEW s \in Socket, s = ws, phase[s] = "open", up' = [up EXCEPT ![s] = Append(@, f)]
      PROVE  ServerTypes' /\ Blanks'
  <2>1. up \in [Socket -> Seq(Frame)] /\ Append(up[s], f) \in Seq(Frame)
    BY DEF Typed, ServerTypes
  <2>2. ServerTypes'
    BY <1>2, <2>1 DEF Typed, ServerTypes
  <2>3. \A t \in Socket \ {s} : Blank(t) => Blank(t)'
    BY <1>2, <2>1 DEF Blank
  <2> QED  BY <1>2, <2>2, <2>3 DEF Typed, Blanks
<1> QED  BY <1>1, <1>2 DEF SendIfOpen, IsOpen, Typed, ClientTypes, Sockets, Socket

LEMMA SetJwtTyped == ASSUME Typed, SetJwt PROVE Typed'
<1>0. /\ calls < MaxCalls /\ calls' = calls + 1 /\ jwt' = jwt + 1
      /\ SendIfOpen([type |-> "auth", as |-> jwt + 1])
      /\ UNCHANGED <<ws, timer, strays, destroyed, rooms, phase, asked, raced, drops>>
      /\ UNCHANGED <<down, cred, topics, subs, revs, refused, leftover>>
  BY DEF SetJwt, Call, session, server, history
<1>1. [type |-> "auth", as |-> jwt + 1] \in Frame
  BY <1>0, WsClientAssumption DEF Typed, ClientTypes, Numbers, Frame, Token, WsClientAssumption
<1>2. ServerTypes' /\ Blanks'
  BY <1>0, <1>1, SendIfOpenTyped
<1>3. Flags' /\ Ended' /\ RoomTypes'
  BY <1>0, RoomsRest DEF Typed, ClientTypes, Flags, Ended
<1>4. Numbers' /\ Sockets'
  BY <1>0, WsClientAssumption DEF Typed, ClientTypes, Numbers, Sockets, WsClientAssumption
<1>5. Counted'
  <2>1. Cardinality(Closing) \in Nat /\ Closing' = Closing
    BY <1>0, ClosingFinite, FS_CardinalityType DEF Closing
  <2> QED  BY <1>0, <2>1 DEF Typed, ClientTypes, Numbers, Counted
<1> QED  BY <1>2, <1>3, <1>4, <1>5 DEF Typed, ClientTypes

LEMMA RoomCallTyped ==
  ASSUME Typed, NEW r \in Room, Subscribe(r) \/ Unsubscribe(r)
  PROVE  Typed'
<1>0. /\ calls < MaxCalls /\ calls' = calls + 1
      /\ UNCHANGED <<ws, timer, strays, destroyed, jwt, phase, asked, raced, drops>>
      /\ UNCHANGED <<down, cred, topics, subs, revs, refused, leftover>>
      /\ SendIfOpen(RoomFrame("sub", r)) \/ SendIfOpen(RoomFrame("unsub", r))
      /\ rooms' = rooms \union {r} \/ rooms' = rooms \ {r}
  BY DEF Subscribe, Unsubscribe, Call, session, server, history
<1>1. RoomFrame("sub", r) \in Frame /\ RoomFrame("unsub", r) \in Frame
  <2>1. jwt \in Token
    BY WsClientAssumption DEF Typed, ClientTypes, Numbers, Token, WsClientAssumption
  <2> QED  BY <2>1 DEF RoomFrame, Frame
<1>2. ServerTypes' /\ Blanks'
  BY <1>0, <1>1, SendIfOpenTyped
<1>3. RoomTypes'
  <2>1. IsFiniteSet(rooms \union {r}) /\ IsFiniteSet(rooms \ {r})
    BY FS_AddElement, FS_RemoveElement DEF Typed, RoomTypes
  <2> QED  BY <1>0, <2>1 DEF Typed, RoomTypes
<1>4. Flags' /\ Ended'
  BY <1>0 DEF Typed, ClientTypes, Flags, Ended
<1>5. Numbers' /\ Sockets'
  BY <1>0, WsClientAssumption DEF Typed, ClientTypes, Numbers, Sockets, WsClientAssumption
<1>6. Counted'
  <2>1. Cardinality(Closing) \in Nat /\ Closing' = Closing
    BY <1>0, ClosingFinite, FS_CardinalityType DEF Closing
  <2> QED  BY <1>0, <2>1 DEF Typed, ClientTypes, Numbers, Counted
<1> QED  BY <1>2, <1>3, <1>4, <1>5, <1>6 DEF Typed, ClientTypes

\* A socket that is open, and the server's side of it, go on.
LEMMA AnswerTypedIf ==
  ASSUME Typed, NEW s \in Socket, phase[s] = "open",
         UNCHANGED <<session, jwt, phase, asked, raced, calls, drops>>,
         RoomTypes', ServerTypes',
         \A t \in Socket \ {s} :
           /\ up'[t] = up[t] /\ down'[t] = down[t] /\ cred'[t] = cred[t]
           /\ topics'[t] = topics[t] /\ subs'[t] = subs[t] /\ revs'[t] = revs[t]
  PROVE  Typed'
<1>1. ClientTypes' /\ Counted'
  BY ClientRests
<1>2. Blanks'
  BY DEF Typed, Blanks, Blank
<1> QED  BY <1>1, <1>2 DEF Typed

LEMMA FrameTyped ==
  ASSUME Typed, NEW s \in Socket,
         SubscribeFrame(s) \/ UnsubscribeFrame(s) \/ CredentialFrame(s)
  PROVE  Typed'
<1>0. /\ phase[s] = "open" /\ up[s] # <<>> /\ up' = [up EXCEPT ![s] = Tail(@)]
      /\ UNCHANGED <<session, jwt, rooms, phase, asked, raced, calls, drops>>
  BY DEF SubscribeFrame, UnsubscribeFrame, CredentialFrame, Receive, IsOpen
<1>1. /\ up \in [Socket -> Seq(Frame)] /\ Head(up[s]) \in Frame /\ Tail(up[s]) \in Seq(Frame)
  BY <1>0 DEF Typed, ServerTypes
<1>2. up' \in [Socket -> Seq(Frame)] /\ \A t \in Socket \ {s} : up'[t] = up[t]
  BY <1>0, <1>1
<1>3. RoomTypes'
  BY <1>0, RoomsRest
<1> DEFINE f == Head(up[s])
<1>4. /\ f.as \in Token
      /\ f.type \in {"sub", "unsub"} => f.room \in Room
  BY <1>1 DEF Frame
<1> HIDE DEF f
<1>5. CASE SubscribeFrame(s)
  <2> DEFINE h == [id |-> FreshId(subs[s]), room |-> f.room, as |-> f.as, passed |-> FALSE]
  <2>1. h \in Subscribing
    <3>1. FreshId(subs[s]) \in Nat
      BY FreshIdOf DEF Typed, ServerTypes
    <3>2. f.room \in Room
      BY <1>4, <1>5 DEF SubscribeFrame, Receive, f
    <3> QED  BY <1>4, <3>1, <3>2 DEF Subscribing
  <2>2. /\ subs' = [subs EXCEPT ![s] = @ \union {h}]
        /\ UNCHANGED <<down, cred, topics, revs, refused, leftover>>
    BY <1>5 DEF SubscribeFrame, history, f, Typed, ServerTypes
  <2>3. IsFiniteSet(subs[s] \union {h})
    BY FS_AddElement DEF Typed, ServerTypes
  <2> HIDE DEF h
  <2>4. ServerTypes'
    BY <1>2, <2>1, <2>2, <2>3 DEF Typed, ServerTypes
  <2> QED  BY <1>0, <1>2, <1>3, <2>2, <2>4, AnswerTypedIf DEF Typed, ServerTypes
<1>6. CASE UnsubscribeFrame(s)
  <2>1. /\ \E T \in SUBSET Room : topics' = [topics EXCEPT ![s] = T]
        /\ \E L \in SUBSET Room : leftover' = [leftover EXCEPT ![s] = L]
        /\ UNCHANGED <<down, cred, subs, revs, refused>>
    <3>1. f.room \in Room
      BY <1>4, <1>6 DEF UnsubscribeFrame, Receive, f
    <3>2. /\ topics' = [topics EXCEPT ![s] = topics[s] \ {f.room}]
          /\ \/ leftover' = [leftover EXCEPT ![s] = leftover[s] \union {f.room}]
             \/ leftover' = [leftover EXCEPT ![s] = leftover[s] \ {f.room}]
          /\ UNCHANGED <<down, cred, subs, revs, refused>>
      BY <1>6 DEF UnsubscribeFrame, f
    <3> QED  BY <3>1, <3>2 DEF Typed, ServerTypes
  <2>2. ServerTypes'
    BY <1>2, <2>1 DEF Typed, ServerTypes
  <2> QED  BY <1>0, <1>2, <1>3, <2>1, <2>2, AnswerTypedIf DEF Typed, ServerTypes
<1>7. CASE CredentialFrame(s)
  <2> DEFINE v == [id |-> FreshId(revs[s]), todo |-> topics[s], failed |-> {}, revoked |-> {}]
  <2>1. v \in Revalidation
    <3>1. FreshId(revs[s]) \in Nat /\ topics[s] \subseteq Room
      BY FreshIdOf DEF Typed, ServerTypes
    <3> QED  BY <3>1 DEF Revalidation
  <2>2. /\ cred' = [cred EXCEPT ![s] = f.as]
        /\ revs' = revs \/ revs' = [revs EXCEPT ![s] = @ \union {v}]
        /\ UNCHANGED <<down, topics, subs, refused, leftover>>
    BY <1>7 DEF CredentialFrame, history, f
  <2>3. IsFiniteSet(revs[s] \union {v})
    BY FS_AddElement DEF Typed, ServerTypes
  <2> HIDE DEF v, Revalidation
  <2>4. ServerTypes'
    <3> DEFINE V == revs[s] \union {v}
    <3>1. V \in SUBSET Revalidation /\ revs \in [Socket -> SUBSET Revalidation]
      BY <2>1 DEF Typed, ServerTypes
    <3>2. revs' = revs \/ revs' = [revs EXCEPT ![s] = V]
      BY <2>2
    <3>3. \A t \in Socket : IsFiniteSet(revs[t])
      BY DEF Typed, ServerTypes
    <3>4. IsFiniteSet(V)
      BY <2>3
    <3> HIDE DEF V
    <3>5. revs' \in [Socket -> SUBSET Revalidation] /\ \A t \in Socket : IsFiniteSet(revs'[t])
      BY <3>1, <3>2, <3>3, <3>4
    <3>6. cred' \in [Socket -> Token]
      BY <1>4, <2>2 DEF Typed, ServerTypes
    <3> QED  BY <1>2, <2>2, <3>5, <3>6 DEF Typed, ServerTypes
  <2> QED  BY <1>0, <1>2, <1>3, <2>2, <2>4, AnswerTypedIf DEF Typed, ServerTypes
<1> QED  BY <1>5, <1>6, <1>7

LEMMA SubscribingTyped ==
  ASSUME Typed, NEW s \in Socket, NEW h \in subs[s],
         SubscribeGuards(s, h) \/ ExecThrows(s, h) \/ Subscribed(s, h)
  PROVE  Typed'
<1>0. /\ phase[s] = "open"
      /\ UNCHANGED <<session, jwt, rooms, phase, up, asked, raced, calls, drops>>
      /\ UNCHANGED <<down, cred, revs, leftover>>
  BY DEF SubscribeGuards, ExecThrows, Subscribed, Serve, IsOpen
<1>1. h \in Subscribing /\ h.room \in Room /\ [h EXCEPT !.passed = TRUE] \in Subscribing
  <2>1. h \in Subscribing
    BY DEF Typed, ServerTypes
  <2> QED  BY <2>1 DEF Subscribing
<1> DEFINE e == [h EXCEPT !.passed = TRUE]
<1>2. /\ \/ subs' = [subs EXCEPT ![s] = @ \ {h}]
         \/ subs' = [subs EXCEPT ![s] = (@ \ {h}) \union {e}]
      /\ \/ refused' = refused
         \/ refused' = [refused EXCEPT ![s] = @ \union {h.room}]
         \/ refused' = [refused EXCEPT ![s] = @ \ {h.room}]
      /\ \/ topics' = topics
         \/ topics' = [topics EXCEPT ![s] = @ \union {h.room}]
  BY DEF SubscribeGuards, ExecThrows, Subscribed
<1>3. IsFiniteSet(subs[s] \ {h}) /\ IsFiniteSet((subs[s] \ {h}) \union {e})
  BY FS_AddElement, FS_RemoveElement DEF Typed, ServerTypes
<1>4. RoomTypes'
  BY <1>0, RoomsRest
<1>5. e \in Subscribing
  BY <1>1
<1> HIDE DEF e
<1>6. ServerTypes'
  <2>1. PICK H \in SUBSET Subscribing : subs' = [subs EXCEPT ![s] = H] /\ IsFiniteSet(H)
    <3>1. /\ subs[s] \ {h} \in SUBSET Subscribing
          /\ (subs[s] \ {h}) \union {e} \in SUBSET Subscribing
      BY <1>5 DEF Typed, ServerTypes
    <3> QED  BY <1>2, <1>3, <3>1
  <2>2. PICK R \in SUBSET Room : refused' = refused \/ refused' = [refused EXCEPT ![s] = R]
    <3>1. /\ refused[s] \union {h.room} \in SUBSET Room
          /\ refused[s] \ {h.room} \in SUBSET Room
      BY <1>1 DEF Typed, ServerTypes
    <3> QED  BY <1>2, <3>1
  <2>3. PICK T \in SUBSET Room : topics' = topics \/ topics' = [topics EXCEPT ![s] = T]
    <3>1. topics[s] \union {h.room} \in SUBSET Room
      BY <1>1 DEF Typed, ServerTypes
    <3> QED  BY <1>2, <3>1
  <2>4. subs' \in [Socket -> SUBSET Subscribing] /\ \A t \in Socket : IsFiniteSet(subs'[t])
    BY <2>1 DEF Typed, ServerTypes
  <2>5. refused' \in [Socket -> SUBSET Room] /\ topics' \in [Socket -> SUBSET Room]
    BY <2>2, <2>3 DEF Typed, ServerTypes
  <2> QED  BY <1>0, <2>4, <2>5 DEF Typed, ServerTypes
<1> QED  BY <1>0, <1>2, <1>4, <1>6, AnswerTypedIf DEF Typed, ServerTypes

LEMMA RevalidationTyped ==
  ASSUME Typed, NEW s \in Socket, NEW v \in revs[s],
         Authorize(s, v) \/ Revoke(s, v) \/ RevalidationEnds(s, v)
  PROVE  Typed'
<1>0. /\ phase[s] = "open"
      /\ UNCHANGED <<session, jwt, rooms, phase, up, asked, raced, calls, drops>>
      /\ UNCHANGED <<cred, subs, refused, leftover>>
  BY DEF Authorize, Revoke, RevalidationEnds, Serve, IsOpen, history
<1>1. v \in Revalidation /\ v.revoked \subseteq Room /\ v.todo \subseteq Room /\ v.failed \subseteq Room
  BY DEF Typed, ServerTypes, Revalidation
<1>2. PICK e \in Revalidation :
        /\ \/ revs' = [revs EXCEPT ![s] = (@ \ {v}) \union {e}]
           \/ revs' = [revs EXCEPT ![s] = @ \ {v}]
        /\ topics' = topics \/ topics' = [topics EXCEPT ![s] = @ \ v.failed]
        /\ down' = down \/ down' = [down EXCEPT ![s] = Append(@, v.revoked)]
  <2>1. CASE Authorize(s, v)
    <3>1. PICK r \in v.todo : revs' = [revs EXCEPT ![s] = (@ \ {v}) \union
                 {[v EXCEPT !.todo = @ \ {r},
                            !.failed = IF Opens(cred[s], r) THEN {} ELSE {r}]}]
      BY <2>1 DEF Authorize
    <3> DEFINE S == v.todo \ {r}
               T == IF Opens(cred[s], r) THEN {} ELSE {r}
               e == [v EXCEPT !.todo = S, !.failed = T]
    <3>2. S \in SUBSET Room /\ T \in SUBSET Room
      BY <1>1
    <3>3. e \in Revalidation
      <4> HIDE DEF S, T
      <4> QED  BY <1>1, <3>2, RevalidationChanges
    <3>4. revs' = [revs EXCEPT ![s] = (@ \ {v}) \union {e}]
      BY <3>1
    <3>5. topics' = topics /\ down' = down
      BY <2>1 DEF Authorize
    <3> HIDE DEF e
    <3> QED  BY <3>3, <3>4, <3>5
  <2>2. CASE Revoke(s, v)
    <3> DEFINE e == [v EXCEPT !.failed = {}, !.revoked = v.revoked \union v.failed]
    <3>1. e \in Revalidation
      BY <1>1, RevalidationChanges
    <3>2. /\ revs' = [revs EXCEPT ![s] = (@ \ {v}) \union {e}]
          /\ topics' = [topics EXCEPT ![s] = @ \ v.failed] /\ down' = down
      BY <2>2 DEF Revoke
    <3> HIDE DEF e
    <3> QED  BY <3>1, <3>2
  <2>3. CASE RevalidationEnds(s, v)
    BY <1>1, <2>3 DEF RevalidationEnds
  <2> QED  BY <2>1, <2>2, <2>3
<1>3. IsFiniteSet(revs[s] \ {v}) /\ IsFiniteSet((revs[s] \ {v}) \union {e})
  BY FS_AddElement, FS_RemoveElement DEF Typed, ServerTypes
<1>4. RoomTypes'
  BY <1>0, RoomsRest
<1>5. ServerTypes'
  <2> HIDE DEF Revalidation
  <2>1. Append(down[s], v.revoked) \in Seq(SUBSET Room)
    BY <1>1 DEF Typed, ServerTypes
  <2>4. PICK V \in SUBSET Revalidation : revs' = [revs EXCEPT ![s] = V] /\ IsFiniteSet(V)
    <3>1. /\ revs[s] \ {v} \in SUBSET Revalidation
          /\ (revs[s] \ {v}) \union {e} \in SUBSET Revalidation
      BY DEF Typed, ServerTypes
    <3> QED  BY <1>2, <1>3, <3>1
  <2>2. revs' \in [Socket -> SUBSET Revalidation] /\ \A t \in Socket : IsFiniteSet(revs'[t])
    BY <2>4 DEF Typed, ServerTypes
  <2>3. topics' \in [Socket -> SUBSET Room] /\ down' \in [Socket -> Seq(SUBSET Room)]
    <3>1. topics \in [Socket -> SUBSET Room] /\ down \in [Socket -> Seq(SUBSET Room)]
      BY DEF Typed, ServerTypes
    <3> DEFINE D == Append(down[s], v.revoked)
    <3>2. D \in Seq(SUBSET Room)
      BY <2>1
    <3> HIDE DEF D
    <3>3. \A W \in SUBSET Room : [topics EXCEPT ![s] = W] \in [Socket -> SUBSET Room]
      BY <3>1
    <3>4. [down EXCEPT ![s] = D] \in [Socket -> Seq(SUBSET Room)]
      BY <3>1, <3>2
    <3> QED  BY <1>2, <3>1, <3>3, <3>4 DEF D
  <2> QED  BY <1>0, <2>2, <2>3, SMTT(40) DEF Typed, ServerTypes
<1> QED  BY <1>0, <1>2, <1>4, <1>5, AnswerTypedIf DEF Typed, ServerTypes

LEMMA ReceiveAckTyped ==
  ASSUME Typed, NEW s \in Socket, ReceiveAck(s)
  PROVE  Typed'
<1>0. /\ phase[s] = "open" /\ down[s] # <<>>
      /\ UNCHANGED <<session, jwt, phase, up, asked, raced, calls, drops>>
      /\ UNCHANGED <<cred, topics, subs, revs, refused>>
      /\ down' = [down EXCEPT ![s] = Tail(@)]
      /\ rooms' = rooms \ Head(down[s])
      /\ leftover' = [leftover EXCEPT ![s] = @ \union
                         {r \in Head(down[s]) : r \in topics[s] \/ Asked(s, r)}]
  BY DEF ReceiveAck, IsOpen, server
<1>1. Head(down[s]) \subseteq Room /\ Tail(down[s]) \in Seq(SUBSET Room)
  BY <1>0 DEF Typed, ServerTypes
<1>2. RoomTypes'
  BY <1>0, FS_Subset DEF Typed, RoomTypes
<1>3. ServerTypes'
  BY <1>0, <1>1 DEF Typed, ServerTypes
<1> QED  BY <1>0, <1>2, <1>3, AnswerTypedIf DEF Typed, ServerTypes

LEMMA NextTyped == Typed /\ [Next]_vars => Typed'
<1> SUFFICES ASSUME Typed, [Next]_vars PROVE Typed'
  OBVIOUS
<1>1. CASE Connect \/ Destroy \/ SetJwt
  BY <1>1, ConnectTyped, DestroyTyped, SetJwtTyped
<1>2. ASSUME NEW r \in Room, Subscribe(r) \/ Unsubscribe(r) PROVE Typed'
  BY <1>2, RoomCallTyped
<1>3. ASSUME NEW s \in Socket, Opened(s) \/ Closed(s) \/ Drop(s) PROVE Typed'
  BY <1>3, OpenedTyped, CloseTyped
<1>4. ASSUME NEW s \in Socket, Answer(s) PROVE Typed'
  BY <1>4, FrameTyped, SubscribingTyped, RevalidationTyped, ReceiveAckTyped DEF Answer
<1>5. ASSUME NEW stray \in BOOLEAN, TimerFires(stray) PROVE Typed'
  BY <1>5, TimerTyped
<1>6. CASE UNCHANGED vars
  <2>1. ServerTypes' /\ \A t \in Socket : Blank(t) => Blank(t)'
    BY <1>6, ServerRests DEF vars, network, server, history
  <2>2. ClientTypes' /\ Counted' /\ RoomTypes' /\ phase' = phase
    BY <1>6, ClientRests, RoomsRest DEF vars
  <2> QED  BY <2>1, <2>2 DEF Typed, Blanks
<1> QED  BY <1>1, <1>2, <1>3, <1>4, <1>5, <1>6 DEF Next

-----------------------------------------------------------------------------
(* One session *)

\* Until connect() meets a timer or a closing socket: the socket that lives is
\* the one #ws remembers, a timer runs when there is none, and only destroy()
\* closes a socket.
Session ==
  ~raced => /\ Live \subseteq {ws}
            /\ strays = 0
            /\ timer => ws = 0
            /\ ~destroyed => Closing = {}

LEMMA SessionIsOne == ASSUME Typed, Session PROVE OneSession
<1> SUFFICES ASSUME ~raced
             PROVE  Cardinality(Live) + strays + (IF timer THEN 1 ELSE 0)
                      <= IF destroyed THEN 0 ELSE 1
  BY DEF OneSession
<1>1. Live \subseteq {ws} /\ strays = 0 /\ (timer => ws = 0) /\ Live \subseteq Socket
  BY DEF Session, Live
<1>2. CASE ws = 0
  <2>1. Live = {} /\ Cardinality({}) = 0
    BY <1>1, <1>2, FS_EmptySet DEF Socket
  <2>2. Cardinality(Live) = 0
    BY <2>1
  <2>3. destroyed => ~timer
    BY DEF Typed, ClientTypes, Ended
  <2> QED  BY <1>1, <2>2, <2>3
<1>3. CASE ws # 0
  <2>1. Cardinality({ws}) = 1 /\ IsFiniteSet({ws})
    BY FS_Singleton
  <2>2. Cardinality(Live) \in Nat /\ Cardinality(Live) <= 1
    BY <1>1, <2>1, FS_Subset, FS_CardinalityType
  <2>3. ~destroyed /\ ~timer
    BY <1>1, <1>3 DEF Typed, ClientTypes, Ended
  <2> QED  BY <1>1, <2>2, <2>3
<1> QED  BY <1>2, <1>3

LEMMA InitSession == Init => Session
<1> SUFFICES ASSUME Init PROVE Session
  OBVIOUS
<1>1. Live = {} /\ Closing = {}
  BY DEF Init, Live, Closing
<1> QED  BY <1>1 DEF Init, Session

\* Nothing that Session speaks of is touched.
LEMMA SessionRests ==
  ASSUME Session, UNCHANGED <<session, phase, raced>>
  PROVE  Session'
BY DEF Session, session, Live, Closing

LEMMA OpeningSession ==
  ASSUME Typed, Session, OpenSocket, raced' \in BOOLEAN, timer' = FALSE, destroyed' = FALSE,
         ~raced' => /\ ~raced /\ ws = 0 /\ strays' = 0 /\ Closing = {}
  PROVE  Session'
<1>1. /\ ws' \in Socket /\ phase' \in [Socket -> {"connecting", "open", "closing", "closed"}]
      /\ \A t \in Socket \ {ws'} : phase'[t] = phase[t]
      /\ Closing' = Closing
  BY OpenSocketTyped
<1> SUFFICES ASSUME ~raced'
             PROVE  /\ Live' \subseteq {ws'} /\ strays' = 0 /\ (timer' => ws' = 0)
                    /\ (~destroyed' => Closing' = {})
  BY DEF Session
<1>2. ~raced /\ ws = 0 /\ strays' = 0 /\ Closing = {}
  OBVIOUS
<1>3. Live = {}
  BY <1>2 DEF Session, Live, Socket
<1>4. Live' \subseteq {ws'}
  BY <1>1, <1>3 DEF Live
<1> QED  BY <1>1, <1>2, <1>4

LEMMA ConnectSession == ASSUME Typed, Session, Connect PROVE Session'
<1>1. OpenSocket /\ ws = 0 /\ destroyed' = FALSE /\ timer' = timer /\ strays' = strays
  BY DEF Connect
<1>2. raced' \in BOOLEAN
  BY ConnectTyped DEF Typed, ClientTypes, Flags
<1>3. timer \in BOOLEAN /\ strays \in Nat
  BY DEF Typed, ClientTypes, Flags, Numbers
<1>4. ~raced' => ~raced /\ ~timer /\ strays = 0 /\ Closing = {}
  <2>1. raced' = (raced \/ Races)
    BY DEF Connect
  <2>2. ~raced' => ~raced /\ ~Races
    BY <2>1
  <2>3. ~Races => ~timer /\ strays = 0 /\ Closing = {}
    BY <1>3 DEF Races, Closing
  <2> QED  BY <2>2, <2>3
<1>5. CASE timer
  <2>1. raced'
    BY <1>4, <1>5
  <2> QED  BY <2>1 DEF Session
<1>6. CASE ~timer
  <2>1. timer' = FALSE
    BY <1>1, <1>3, <1>6
  <2> QED  BY <1>1, <1>2, <1>4, <2>1, OpeningSession
<1> QED  BY <1>5, <1>6

LEMMA TimerSession ==
  ASSUME Typed, Session, NEW stray \in BOOLEAN, TimerFires(stray)
  PROVE  Session'
<1> SUFFICES ASSUME ~raced PROVE Session'
  <2>1. raced' = raced
    BY DEF TimerFires
  <2> QED  BY <2>1 DEF Session
<1>1. strays = 0 /\ (timer => ws = 0) /\ (~destroyed => Closing = {})
  BY DEF Session
<1>2. ~stray /\ timer
  BY <1>1 DEF TimerFires
<1>3. ~destroyed /\ ws = 0
  BY <1>1, <1>2 DEF Typed, ClientTypes, Ended
<1>4. destroyed' = FALSE
  BY <1>3 DEF TimerFires, Typed, ClientTypes, Flags
<1>5. OpenSocket /\ timer' = FALSE /\ strays' = 0 /\ raced' = raced /\ raced' \in BOOLEAN
  BY <1>1, <1>2, <1>3 DEF TimerFires, Typed, ClientTypes, Flags
<1> QED  BY <1>1, <1>3, <1>4, <1>5, OpeningSession

LEMMA OpenedSession ==
  ASSUME Typed, Session, NEW s \in Socket, Opened(s)
  PROVE  Session'
<1>1. /\ phase[s] = "connecting" /\ phase' = [phase EXCEPT ![s] = "open"]
      /\ UNCHANGED <<ws, timer, strays, destroyed, raced>>
      /\ phase \in [Socket -> {"connecting", "open", "closing", "closed"}]
  BY DEF Opened, session, Typed, ClientTypes, Sockets
<1>2. Live' = Live /\ Closing' = Closing
  BY <1>1 DEF Live, Closing
<1> QED  BY <1>1, <1>2 DEF Session

LEMMA CloseSession ==
  ASSUME Typed, Session, NEW s \in Socket, Closed(s) \/ Drop(s)
  PROVE  Session'
<1>0. /\ phase' = [phase EXCEPT ![s] = "closed"] /\ ScheduleReconnect(s)
      /\ UNCHANGED <<destroyed, raced>>
      /\ phase \in [Socket -> {"connecting", "open", "closing", "closed"}]
  BY DEF Closed, Drop, Typed, ClientTypes, Sockets
<1> SUFFICES ASSUME ~raced PROVE Session'
  BY <1>0 DEF Session
<1>1. /\ Live \subseteq {ws} /\ strays = 0 /\ (timer => ws = 0)
      /\ (~destroyed => Closing = {}) /\ (destroyed => ws = 0)
  BY DEF Session, Typed, ClientTypes, Ended
<1>2. Live' = Live \ {s} /\ Closing' = Closing \ {s}
  BY <1>0 DEF Live, Closing
<1>3. CASE Closed(s)
  <2>1. destroyed
    BY <1>1, <1>3 DEF Closed, Closing
  <2>2. UNCHANGED <<ws, timer, strays>>
    BY <1>0, <2>1 DEF ScheduleReconnect
  <2> QED  BY <1>0, <1>1, <1>2, <2>1, <2>2 DEF Session
<1>4. CASE Drop(s)
  <2>1. s \in Live /\ ws = s /\ ws # 0
    BY <1>1, <1>4 DEF Drop, Socket
  <2>2. ~destroyed /\ ~timer
    BY <1>1, <2>1
  <2>3. ws' = 0 /\ strays' = strays
    BY <1>0, <1>1, <2>1, <2>2 DEF ScheduleReconnect
  <2>4. Live' = {}
    BY <1>1, <1>2, <2>1
  <2> QED  BY <1>0, <1>1, <1>2, <2>2, <2>3, <2>4 DEF Session
<1> QED  BY <1>3, <1>4

LEMMA DestroySession == ASSUME Typed, Session, Destroy PROVE Session'
<1>0. ws' = 0 /\ timer' = FALSE /\ destroyed' = TRUE /\ UNCHANGED <<strays, raced>>
  BY DEF Destroy, CloseSocket
<1>1. ~raced => Live' = {}
  <2>1. phase' = IF ws = 0 THEN phase ELSE [phase EXCEPT ![ws] = "closing"]
    BY DEF Destroy, CloseSocket
  <2>2. phase \in [Socket -> {"connecting", "open", "closing", "closed"}] /\ ws \in Socket \union {0}
    BY DEF Typed, ClientTypes, Sockets, Socket
  <2> QED  BY <2>1, <2>2 DEF Session, Live, Socket
<1> QED  BY <1>0, <1>1 DEF Session

LEMMA NextSession == Typed /\ Session /\ [Next]_vars => Session'
<1> SUFFICES ASSUME Typed, Session, [Next]_vars PROVE Session'
  OBVIOUS
<1>1. CASE Connect \/ Destroy
  BY <1>1, ConnectSession, DestroySession
<1>2. CASE SetJwt \/ \E r \in Room : Subscribe(r) \/ Unsubscribe(r)
  BY <1>2, SessionRests DEF SetJwt, Subscribe, Unsubscribe
<1>3. ASSUME NEW s \in Socket, Opened(s) \/ Closed(s) \/ Drop(s) PROVE Session'
  BY <1>3, OpenedSession, CloseSession
<1>4. ASSUME NEW s \in Socket, Answer(s) PROVE Session'
  <2>1. UNCHANGED <<session, phase, raced>>
    BY <1>4 DEF Answer, SubscribeFrame, UnsubscribeFrame, CredentialFrame, Receive,
                SubscribeGuards, ExecThrows, Subscribed, Authorize, Revoke, RevalidationEnds,
                Serve, ReceiveAck
  <2> QED  BY <2>1, SessionRests
<1>5. ASSUME NEW stray \in BOOLEAN, TimerFires(stray) PROVE Session'
  BY <1>5, TimerSession
<1>6. CASE UNCHANGED vars
  BY <1>6, SessionRests DEF vars
<1> QED  BY <1>1, <1>2, <1>3, <1>4, <1>5, <1>6 DEF Next

-----------------------------------------------------------------------------
(* The server judges what it is asked for by the token the client had *)

\* Whoever has handled the first n frames of q, and held c before, holds a token
\* no older than t, or none and t signs out.
Told(q, n, c, t) ==
  \/ t <= c
  \/ \E i \in 1 .. n : q[i].type = "auth" /\ t <= q[i].as
  \/ ~SignedIn(t) /\ c = 0 /\ \A i \in 1 .. n : q[i].type # "auth"

\* Tokens reach a socket in the order they were set, ...
InOrder(s) ==
  /\ cred[s] <= jwt
  /\ \A h \in subs[s] : h.as <= jwt
  /\ \A i \in 1 .. Len(up[s]) :
       /\ cred[s] <= up[s][i].as /\ up[s][i].as <= jwt
       /\ \A h \in subs[s] : h.as <= up[s][i].as
       /\ \A j \in 1 .. i : up[s][j].as <= up[s][i].as

\* ... each before the subscribes it is to judge.
ToldBefore(s) ==
  /\ \A i \in 1 .. Len(up[s]) : up[s][i].type = "sub" => Told(up[s], i - 1, cred[s], up[s][i].as)
  /\ \A h \in subs[s] : h.as <= cred[s] \/ (~SignedIn(h.as) /\ cred[s] = 0)

\* And the socket the client uses has been sent the token it holds.
Current(s) == Told(up[s], Len(up[s]), cred[s], jwt)

Judged ==
  /\ \A s \in Socket : InOrder(s) /\ ToldBefore(s)
  /\ \A s \in Socket : s = ws /\ phase[s] = "open" => Current(s)

LEMMA JudgedSuffices == Judged => JudgedByLatest
BY DEF Judged, ToldBefore, JudgedByLatest, Live

\* What is compared is numbers.
LEMMA AsTyped ==
  ASSUME Typed, NEW s \in Socket
  PROVE  /\ up[s] \in Seq(Frame) /\ Len(up[s]) \in Nat
         /\ \A i \in 1 .. Len(up[s]) : up[s][i] \in Frame /\ up[s][i].as \in Nat
         /\ \A h \in subs[s] : h.as \in Nat
         /\ cred[s] \in Nat /\ jwt \in Nat
<1>1. up[s] \in Seq(Frame) /\ subs[s] \subseteq Subscribing /\ cred[s] \in Token
  BY DEF Typed, ServerTypes
<1>2. jwt \in Nat
  BY DEF Typed, ClientTypes, Numbers
<1>3. Token \subseteq Nat
  BY WsClientAssumption DEF Token, WsClientAssumption
<1>4. /\ \A f \in Frame : f.as \in Nat
      /\ \A h \in Subscribing : h.as \in Nat
  BY <1>3 DEF Frame, Subscribing
<1> HIDE DEF Frame
<1>5. Len(up[s]) \in Nat /\ \A i \in 1 .. Len(up[s]) : up[s][i] \in Frame
  BY <1>1, LenProperties, ElementOfSeq
<1> QED  BY <1>1, <1>2, <1>3, <1>4, <1>5

LEMMA InitJudged == Init => Judged
<1> SUFFICES ASSUME Init PROVE Judged
  OBVIOUS
<1>1. \A s \in Socket : up[s] = <<>> /\ subs[s] = {} /\ cred[s] = 0 /\ phase[s] = "closed"
  BY DEF Init
<1>2. 0 <= jwt /\ Len(<<>>) = 0
  BY DEF Init
<1> QED  BY <1>1, <1>2 DEF Judged, InOrder, ToldBefore

\* A socket without anything under way has nothing to judge.
LEMMA BlankJudged ==
  ASSUME Typed', NEW s \in Socket, Blank(s)'
  PROVE  InOrder(s)' /\ ToldBefore(s)'
<1>1. jwt' \in Nat /\ up'[s] = <<>> /\ subs'[s] = {} /\ cred'[s] = 0 /\ Len(<<>>) = 0
  BY DEF Typed, ClientTypes, Numbers, Blank
<1> QED  BY <1>1 DEF InOrder, ToldBefore

\* Nor has one to and from which nothing moves.
LEMMA RestJudged ==
  ASSUME Typed, NEW s \in Socket, InOrder(s), ToldBefore(s),
         up'[s] = up[s], cred'[s] = cred[s], jwt' \in Nat, jwt <= jwt',
         \A h \in subs'[s] : \E g \in subs[s] : h.as = g.as
  PROVE  /\ InOrder(s)' /\ ToldBefore(s)'
         /\ jwt' = jwt => (Current(s) => Current(s)')
<1>1. InOrder(s)'
  BY AsTyped DEF InOrder
<1>2. ToldBefore(s)'
  BY DEF ToldBefore
<1> QED  BY <1>1, <1>2 DEF Current

\* More frames: the token is told as before unless one changes it.
LEMMA ToldMore ==
  ASSUME NEW q, NEW p, NEW n \in Nat, NEW m \in Nat, n <= m, NEW c, NEW t,
         Told(q, n, c, t),
         \A i \in 1 .. n : p[i] = q[i],
         \A i \in n + 1 .. m : p[i].type # "auth"
  PROVE  Told(p, m, c, t)
<1>1. \A i \in 1 .. n : i \in 1 .. m
  OBVIOUS
<1>2. \A i \in 1 .. m : i \in 1 .. n \/ i \in n + 1 .. m
  OBVIOUS
<1> QED  BY <1>1, <1>2 DEF Told

LEMMA ToldSame ==
  ASSUME NEW q, NEW p, NEW n \in Nat, NEW c, NEW t,
         Told(q, n, c, t), \A i \in 1 .. n : p[i] = q[i]
  PROVE  Told(p, n, c, t)
BY DEF Told

\* A frame is sent: it carries the token of now.
LEMMA AppendJudged ==
  ASSUME Typed, NEW s \in Socket, InOrder(s), ToldBefore(s),
         NEW f \in Frame, up'[s] = Append(up[s], f),
         f.as = jwt', jwt' \in Nat, jwt <= jwt',
         f.type # "auth" => jwt' = jwt /\ Current(s),
         cred'[s] = cred[s], subs'[s] = subs[s]
  PROVE  InOrder(s)' /\ ToldBefore(s)' /\ Current(s)'
<1> DEFINE q == up[s]
           n == Len(up[s])
<1>0. /\ n \in Nat /\ cred[s] \in Nat /\ jwt \in Nat /\ q \in Seq(Frame)
      /\ \A i \in 1 .. n : q[i].as \in Nat
      /\ \A h \in subs[s] : h.as \in Nat
  BY AsTyped
<1>1. /\ Len(up'[s]) = n + 1
      /\ \A i \in 1 .. n : up'[s][i] = q[i]
      /\ up'[s][n + 1] = f
  BY <1>0, AppendProperties
<1> HIDE DEF Frame
<1>2. InOrder(s)'
  <2> SUFFICES ASSUME NEW i \in 1 .. n + 1
               PROVE  /\ cred[s] <= up'[s][i].as /\ up'[s][i].as <= jwt'
                      /\ \A h \in subs[s] : h.as <= up'[s][i].as
                      /\ \A j \in 1 .. i : up'[s][j].as <= up'[s][i].as
    <3>1. Len(up'[s]) = n + 1
      BY <1>1
    <3> HIDE DEF n, q
    <3> QED  BY <3>1 DEF InOrder
  <2>1. CASE i \in 1 .. n
    <3>1. \A j \in 1 .. i : j \in 1 .. n
      BY <2>1, <1>0
    <3> QED  BY <1>0, <1>1, <2>1, <3>1, SMTT(40) DEF InOrder
  <2>2. CASE i = n + 1
    <3>1. \A j \in 1 .. n : up'[s][j].as <= jwt'
      BY <1>0, <1>1 DEF InOrder
    <3>2. \A j \in 1 .. i : j \in 1 .. n \/ j = n + 1
      BY <1>0, <2>2
    <3> QED  BY <1>0, <1>1, <2>2, <3>1, <3>2 DEF InOrder
  <2> QED  BY <2>1, <2>2, <1>0
<1>3. ToldBefore(s)'
  <2> SUFFICES ASSUME NEW i \in 1 .. n + 1, up'[s][i].type = "sub"
               PROVE  Told(up'[s], i - 1, cred[s], up'[s][i].as)
    BY <1>0, <1>1 DEF ToldBefore
  <2> DEFINE k == i - 1
  <2>1. Told(q, k, cred[s], up'[s][i].as)
    <3>1. CASE i \in 1 .. n
      BY <1>1, <3>1 DEF ToldBefore
    <3>2. CASE i = n + 1
      <4>1. k = n /\ up'[s][i] = f /\ f.type # "auth"
        BY <1>0, <1>1, <3>2
      <4> QED  BY <4>1 DEF Current
    <3> QED  BY <1>0, <3>1, <3>2
  <2>2. k \in Nat /\ \A j \in 1 .. k : j \in 1 .. n
    BY <1>0
  <2>3. \A j \in 1 .. k : up'[s][j] = q[j]
    BY <1>1, <2>2
  <2> HIDE DEF k, q, n
  <2>4. Told(up'[s], k, cred[s], up'[s][i].as)
    BY <2>1, <2>2, <2>3, ToldSame
  <2> QED  BY <2>4 DEF k
<1>4. Current(s)'
  <2>1. CASE f.type = "auth"
    BY <1>0, <1>1, <2>1 DEF Current, Told
  <2>2. CASE f.type # "auth"
    <3>1. Told(q, n, cred[s], jwt) /\ jwt' = jwt
      BY <2>2 DEF Current
    <3>2. \A i \in n + 1 .. n + 1 : up'[s][i].type # "auth"
      BY <1>0, <1>1, <2>2
    <3>3. Told(up'[s], n + 1, cred[s], jwt)
      <4> DEFINE k == n + 1
      <4>1. n \in Nat /\ k \in Nat /\ n <= k
        BY <1>0
      <4>2. (\A i \in 1 .. n : up'[s][i] = q[i]) /\ \A i \in n + 1 .. k : up'[s][i].type # "auth"
        BY <1>1, <3>2
      <4> HIDE DEF q, n, k
      <4>3. Told(up'[s], k, cred[s], jwt)
        BY <3>1, <4>1, <4>2, ToldMore
      <4> QED  BY <4>3 DEF k
    <3> QED  BY <1>1, <3>1, <3>3 DEF Current
  <2> QED  BY <2>1, <2>2
<1> QED  BY <1>2, <1>3, <1>4

\* All rooms are asked for again, after the token if there is one.
LEMMA ResubscribeJudged ==
  ASSUME Typed, NEW s \in Socket, InOrder(s), ToldBefore(s),
         up'[s] = up[s] \o Resubscribe, jwt' = jwt,
         SignedIn(jwt) \/ Current(s),
         cred'[s] = cred[s], subs'[s] = subs[s]
  PROVE  InOrder(s)' /\ ToldBefore(s)' /\ Current(s)'
<1> DEFINE q == up[s]
           n == Len(up[s])
           p == Resubscribe
           m == Len(Resubscribe)
           u == up'[s]
<1>0. /\ n \in Nat /\ cred[s] \in Nat /\ jwt \in Nat /\ q \in Seq(Frame)
      /\ \A i \in 1 .. n : q[i].as \in Nat
      /\ \A h \in subs[s] : h.as \in Nat
  BY AsTyped
<1>1. /\ p \in Seq(Frame)
      /\ \A i \in 1 .. m : p[i].as = jwt /\ (p[i].type = "auth" => i = 1 /\ SignedIn(jwt))
      /\ SignedIn(jwt) => m > 0 /\ p[1].type = "auth"
  <2>1. jwt \in Token /\ rooms \subseteq Room /\ IsFiniteSet(rooms)
    BY WsClientAssumption DEF Typed, ClientTypes, Numbers, RoomTypes, Token, WsClientAssumption
  <2> HIDE DEF Resubscribe
  <2> QED  BY <2>1, ResubscribeOf
<1> HIDE DEF Resubscribe, Frame
<1>2. /\ m \in Nat /\ Len(u) = n + m
      /\ \A i \in 1 .. n + m : u[i] = IF i <= n THEN q[i] ELSE p[i - n]
  BY <1>0, <1>1, ConcatProperties, LenProperties
<1>3. \A i \in 1 .. n : u[i] = q[i]
  BY <1>0, <1>2
<1>8. \A i \in n + 1 .. n + m : u[i] = p[i - n] /\ i - n \in 1 .. m
  BY <1>0, <1>2
<1>9. n \in Nat /\ m \in Nat /\ \A i \in 1 .. n + m : i \in 1 .. n \/ i \in n + 1 .. n + m
  BY <1>0, <1>2
<1>10. \A i \in n + 1 .. n + m : u[i].as = jwt
  BY <1>1, <1>8
<1>11. \A i \in n + 1 .. n + m : u[i].type = "auth" => i = n + 1 /\ SignedIn(jwt)
  BY <1>1, <1>8, <1>9
<1> HIDE DEF p, m, n, q, u
<1>4. InOrder(s)'
  <2> SUFFICES ASSUME NEW i \in 1 .. n + m
               PROVE  /\ cred[s] <= u[i].as /\ u[i].as <= jwt
                      /\ \A h \in subs[s] : h.as <= u[i].as
                      /\ \A j \in 1 .. i : u[j].as <= u[i].as
    BY <1>0, <1>2 DEF InOrder, u
  <2>1. CASE i \in 1 .. n
    <3>1. \A j \in 1 .. i : j \in 1 .. n
      BY <2>1, <1>0
    <3> QED  BY <1>0, <1>3, <2>1, <3>1 DEF InOrder, n, q
  <2>2. CASE i \in n + 1 .. n + m
    <3>1. u[i].as = jwt
      BY <1>10, <2>2
    <3>2. \A j \in 1 .. n + m : u[j].as <= jwt
      <4>1. \A j \in 1 .. n : u[j].as <= jwt
        BY <1>3 DEF InOrder, n, q
      <4>2. \A j \in n + 1 .. n + m : u[j].as = jwt /\ jwt <= jwt
        BY <1>0, <1>9, <1>10
      <4> QED  BY <1>9, <4>1, <4>2
    <3>3. \A j \in 1 .. i : j \in 1 .. n + m
      BY <1>0, <1>2
    <3> QED  BY <1>0, <3>1, <3>2, <3>3 DEF InOrder
  <2> QED  BY <2>1, <2>2, <1>9
<1>5. \A k \in n .. n + m :
        k > n \/ Current(s) => Told(u, k, cred[s], jwt)
  <2> SUFFICES ASSUME NEW k \in n .. n + m, k > n \/ Current(s)
               PROVE  Told(u, k, cred[s], jwt)
    OBVIOUS
  <2>1. CASE SignedIn(jwt) /\ k > n
    <3>1. n + 1 \in 1 .. k /\ n + 1 \in n + 1 .. n + m /\ (n + 1) - n = 1 /\ 1 \in 1 .. m
      BY <1>0, <1>1, <1>2, <2>1
    <3>2. u[n + 1].type = "auth" /\ u[n + 1].as = jwt
      BY <1>1, <1>8, <2>1, <3>1
    <3>3. jwt <= u[n + 1].as
      BY <1>0, <3>2
    <3> QED  BY <3>1, <3>2, <3>3 DEF Told
  <2>2. CASE ~SignedIn(jwt) \/ k = n
    <3>1. Current(s) /\ Told(q, n, cred[s], jwt)
      BY <2>2 DEF Current, n, q
    <3>2. \A i \in n + 1 .. k : u[i].type # "auth"
      BY <1>9, <1>11, <2>2
    <3>3. n \in Nat /\ k \in Nat /\ n <= k
      BY <1>9
    <3>4. Told(q, n, cred[s], jwt)
      BY <3>1
    <3> QED  BY <1>3, <3>2, <3>3, <3>4, ToldMore
  <2> QED  BY <1>0, <1>2, <2>1, <2>2
<1>6. ToldBefore(s)'
  <2> SUFFICES ASSUME NEW i \in 1 .. n + m, u[i].type = "sub"
               PROVE  Told(u, i - 1, cred[s], u[i].as)
    BY <1>0, <1>2 DEF ToldBefore, u
  <2>1. CASE i \in 1 .. n
    <3>1. Told(q, i - 1, cred[s], u[i].as)
      BY <1>3, <2>1 DEF ToldBefore, n, q
    <3> DEFINE k == i - 1
    <3>2. k \in Nat /\ \A j \in 1 .. k : j \in 1 .. n
      BY <1>0, <2>1
    <3>3. \A j \in 1 .. k : u[j] = q[j]
      BY <1>3, <3>2
    <3> HIDE DEF k
    <3>4. Told(u, k, cred[s], u[i].as)
      BY <3>1, <3>2, <3>3, ToldSame DEF k
    <3> QED  BY <3>4 DEF k
  <2>2. CASE i \in n + 1 .. n + m
    <3>1. u[i].as = jwt /\ i - 1 \in n .. n + m
      BY <1>9, <1>10, <2>2
    <3>2. i - 1 > n \/ Current(s)
      <4>1. CASE i - 1 = n
        <5>1. i = n + 1
          BY <1>9, <2>2, <4>1
        <5>2. u[n + 1] = p[1]
          BY <1>8, <1>9, <2>2, <5>1
        <5>3. ~SignedIn(jwt)
          BY <1>1, <5>1, <5>2
        <5> QED  BY <5>3
      <4> QED  BY <1>9, <2>2, <4>1
    <3> QED  BY <1>5, <3>1, <3>2
  <2> QED  BY <2>1, <2>2, <1>9
<1>7. Current(s)'
  <2>1. n + m \in n .. n + m /\ (n + m > n \/ Current(s))
    BY <1>0, <1>1, <1>2
  <2>2. Told(u, n + m, cred[s], jwt)
    BY <1>5, <2>1
  <2> QED  BY <1>2, <2>2 DEF Current, u
<1> QED  BY <1>4, <1>6, <1>7

\* The first frame is handled: what it says of the token is what counts now.
LEMMA ToldTail ==
  ASSUME NEW q, NEW u, NEW n \in Nat \ {0}, NEW c \in Nat, NEW d \in Nat, NEW t \in Nat,
         \A i \in 1 .. n - 1 : u[i] = q[i + 1],
         c <= d,
         q[1].type = "auth" => d = q[1].as,
         q[1].type # "auth" => d = c,
         Told(q, n, c, t)
  PROVE  Told(u, n - 1, d, t)
<1>1. CASE t <= c
  BY <1>1 DEF Told
<1>2. ASSUME NEW i \in 1 .. n, q[i].type = "auth", t <= q[i].as
      PROVE  Told(u, n - 1, d, t)
  <2>1. CASE i = 1
    BY <1>2, <2>1 DEF Told
  <2>2. CASE i # 1
    <3>1. i - 1 \in 1 .. n - 1 /\ (i - 1) + 1 = i
      BY <2>2
    <3>2. u[i - 1] = q[i]
      BY <3>1
    <3> QED  BY <1>2, <3>1, <3>2 DEF Told
  <2> QED  BY <2>1, <2>2
<1>3. CASE ~SignedIn(t) /\ c = 0 /\ \A i \in 1 .. n : q[i].type # "auth"
  <2>1. 1 \in 1 .. n /\ \A i \in 1 .. n - 1 : i + 1 \in 1 .. n
    OBVIOUS
  <2>2. d = 0 /\ \A i \in 1 .. n - 1 : u[i].type # "auth"
    BY <1>3, <2>1
  <2> QED  BY <1>3, <2>2 DEF Told
<1> QED  BY <1>1, <1>2, <1>3 DEF Told

LEMMA HandleJudged ==
  ASSUME Typed, NEW s \in Socket, InOrder(s), ToldBefore(s),
         up[s] # <<>>, up'[s] = Tail(up[s]), jwt' = jwt,
         Head(up[s]).type = "auth" => cred'[s] = Head(up[s]).as,
         Head(up[s]).type # "auth" => cred'[s] = cred[s],
         \A h \in subs'[s] : \/ \E g \in subs[s] : h.as = g.as
                             \/ Head(up[s]).type = "sub" /\ h.as = Head(up[s]).as
  PROVE  InOrder(s)' /\ ToldBefore(s)' /\ (Current(s) => Current(s)')
<1> DEFINE q == up[s]
           u == up'[s]
           n == Len(up[s])
           f == Head(up[s])
           d == cred'[s]
           c == cred[s]
<1>0. /\ n \in Nat /\ c \in Nat /\ jwt \in Nat /\ q \in Seq(Frame)
      /\ \A i \in 1 .. n : q[i].as \in Nat
      /\ \A h \in subs[s] : h.as \in Nat
  BY AsTyped
<1>1. n \in Nat \ {0} /\ Len(u) = n - 1 /\ f = q[1] /\ \A i \in 1 .. n - 1 : u[i] = q[i + 1]
  BY <1>0, HeadTailProperties, EmptySeq
<1>2. 1 \in 1 .. n /\ \A i \in 1 .. n - 1 : i + 1 \in 1 .. n /\ 1 \in 1 .. i + 1
  BY <1>1
<1>3. /\ c <= jwt /\ \A i \in 1 .. n : c <= q[i].as /\ q[i].as <= jwt
      /\ \A i \in 1 .. n : \A j \in 1 .. i : q[j].as <= q[i].as
      /\ \A h \in subs[s] : h.as <= jwt /\ \A i \in 1 .. n : h.as <= q[i].as
  BY DEF InOrder
<1>4. /\ \A i \in 1 .. n : q[i].type = "sub" => Told(q, i - 1, c, q[i].as)
      /\ \A h \in subs[s] : h.as <= c \/ (~SignedIn(h.as) /\ c = 0)
  BY DEF ToldBefore
<1>5. /\ f.type = "auth" => d = f.as
      /\ f.type # "auth" => d = c
      /\ \A h \in subs'[s] : (\E g \in subs[s] : h.as = g.as) \/ (f.type = "sub" /\ h.as = f.as)
  OBVIOUS
<1>6. d \in Nat /\ c <= d /\ d <= jwt /\ (d = c \/ d = f.as)
  BY <1>0, <1>1, <1>2, <1>3, <1>5
<1> HIDE DEF q, u, n, f, d, c
<1>7. InOrder(s)'
  <2>1. \A h \in subs'[s] : h.as <= jwt
    BY <1>1, <1>2, <1>3, <1>5
  <2>2. \A i \in 1 .. n - 1 : d <= u[i].as /\ u[i].as <= jwt
    BY <1>1, <1>2, <1>3, <1>6
  <2>3. \A i \in 1 .. n - 1 : \A h \in subs'[s] : h.as <= u[i].as
    BY <1>1, <1>2, <1>3, <1>5
  <2>4. \A i \in 1 .. n - 1 : \A j \in 1 .. i : u[j].as <= u[i].as
    <3> SUFFICES ASSUME NEW i \in 1 .. n - 1, NEW j \in 1 .. i PROVE u[j].as <= u[i].as
      OBVIOUS
    <3>1. j \in 1 .. n - 1 /\ j + 1 \in 1 .. i + 1
      BY <1>1
    <3> QED  BY <1>1, <1>2, <1>3, <3>1
  <2>5. jwt' = jwt
    OBVIOUS
  <2> QED  BY <1>1, <1>6, <2>1, <2>2, <2>3, <2>4, <2>5 DEF InOrder, u, d
<1>8. ToldBefore(s)'
  <2>1. ASSUME NEW i \in 1 .. n - 1, u[i].type = "sub"
        PROVE  Told(u, i - 1, d, u[i].as)
    <3>1. u[i] = q[i + 1] /\ i + 1 \in 1 .. n /\ (i + 1) - 1 = i /\ i \in Nat \ {0}
      BY <1>1, <1>2
    <3>2. Told(q, i, c, u[i].as)
      BY <1>4, <2>1, <3>1
    <3>3. \A j \in 1 .. i - 1 : u[j] = q[j + 1]
      BY <1>1
    <3>4. u[i].as \in Nat
      BY <1>0, <3>1 DEF q, n
    <3> QED  BY <1>0, <1>1, <1>5, <1>6, <3>1, <3>2, <3>3, <3>4, ToldTail DEF c
  <2>2. \A h \in subs'[s] : h.as <= d \/ (~SignedIn(h.as) /\ d = 0)
    <3> SUFFICES ASSUME NEW h \in subs'[s] PROVE h.as <= d \/ (~SignedIn(h.as) /\ d = 0)
      OBVIOUS
    <3>1. ASSUME NEW g \in subs[s], h.as = g.as
          PROVE  h.as <= d \/ (~SignedIn(h.as) /\ d = 0)
      <4>1. g.as <= f.as /\ g.as \in Nat /\ c \in Nat
        BY <1>0, <1>1, <1>2, <1>3 DEF c
      <4> QED  BY <1>4, <1>6, <3>1, <4>1
    <3>2. CASE f.type = "sub" /\ h.as = f.as
      <4>1. Told(q, 0, c, f.as) /\ d = c
        BY <1>1, <1>2, <1>4, <1>5, <3>2
      <4> QED  BY <3>2, <4>1 DEF Told
    <3> QED  BY <1>5, <3>1, <3>2
  <2> QED  BY <1>1, <2>1, <2>2 DEF ToldBefore, u, d
<1>9. ASSUME Current(s) PROVE Current(s)'
  <2>1. Told(q, n, c, jwt) /\ c \in Nat /\ jwt \in Nat
    BY <1>0, <1>9 DEF Current, q, n, c
  <2>2. Told(u, n - 1, d, jwt)
    BY <1>1, <1>5, <1>6, <2>1, ToldTail
  <2> QED  BY <1>1, <2>2 DEF Current, u, d
<1> QED  BY <1>7, <1>8, <1>9

\* The steps of one socket, or of none: what the others hold stays.
LEMMA OthersJudged ==
  ASSUME Typed, Typed', Judged, jwt' = jwt,
         NEW S \in SUBSET Socket,
         \A t \in Socket \ S : up'[t] = up[t] /\ cred'[t] = cred[t] /\ subs'[t] = subs[t],
         \A t \in Socket \ S : t = ws' /\ phase'[t] = "open" => t = ws /\ phase[t] = "open",
         \A t \in S : /\ InOrder(t)' /\ ToldBefore(t)'
                      /\ t = ws' /\ phase'[t] = "open" => Current(t)'
  PROVE  Judged'
<1>1. jwt \in Nat /\ jwt <= jwt' /\ jwt' \in Nat
  BY DEF Typed, ClientTypes, Numbers
<1>2. ASSUME NEW t \in Socket \ S
      PROVE  /\ InOrder(t)' /\ ToldBefore(t)'
             /\ t = ws' /\ phase'[t] = "open" => Current(t)'
  <2>1. InOrder(t) /\ ToldBefore(t) /\ (t = ws' /\ phase'[t] = "open" => Current(t))
    BY DEF Judged
  <2>2. \A h \in subs'[t] : \E g \in subs[t] : h.as = g.as
    OBVIOUS
  <2> QED  BY <1>1, <2>1, <2>2, RestJudged
<1> QED  BY <1>2 DEF Judged

LEMMA ConnectionJudged ==
  ASSUME Typed, Typed', Judged,
         \/ Connect \/ Destroy
         \/ \E stray \in BOOLEAN : TimerFires(stray)
         \/ \E s \in Socket : Closed(s) \/ Drop(s)
  PROVE  Judged'
<1>1. jwt' = jwt
  BY DEF Connect, Destroy, TimerFires, Closed, Drop
<1>2. ASSUME NEW s \in Socket, Closed(s) \/ Drop(s) PROVE Judged'
  <2>1. /\ phase'[s] = "closed" /\ \A t \in Socket \ {s} : phase'[t] = phase[t]
        /\ ws' \in {0, ws} /\ Forget(s)
    <3>1. /\ phase' = [phase EXCEPT ![s] = "closed"] /\ ScheduleReconnect(s) /\ Forget(s)
          /\ phase \in [Socket -> {"connecting", "open", "closing", "closed"}]
      BY <1>2 DEF Closed, Drop, Typed, ClientTypes, Sockets
    <3> QED  BY <3>1 DEF ScheduleReconnect
  <2>2. /\ \A t \in Socket \ {s} : up'[t] = up[t] /\ cred'[t] = cred[t] /\ subs'[t] = subs[t]
        /\ Blank(s)'
    BY <2>1, ForgetTyped DEF Forget, Typed, ServerTypes
  <2>3. InOrder(s)' /\ ToldBefore(s)'
    BY <2>2, BlankJudged
  <2>4. \A t \in Socket \ {s} : t = ws' /\ phase'[t] = "open" => t = ws /\ phase[t] = "open"
    BY <2>1 DEF Socket
  <2> DEFINE S == {s}
  <2>5. /\ S \in SUBSET Socket
        /\ \A t \in Socket \ S : up'[t] = up[t] /\ cred'[t] = cred[t] /\ subs'[t] = subs[t]
        /\ \A t \in Socket \ S : t = ws' /\ phase'[t] = "open" => t = ws /\ phase[t] = "open"
        /\ \A t \in S : /\ InOrder(t)' /\ ToldBefore(t)'
                        /\ t = ws' /\ phase'[t] = "open" => Current(t)'
    BY <2>1, <2>2, <2>3, <2>4
  <2> HIDE DEF S
  <2> QED  BY <1>1, <2>5, OthersJudged
<1>3. ASSUME NEW s \in Socket, s = ws, Destroy PROVE Judged'
  <2>1. Forget(s) /\ ws' = 0
    BY <1>3 DEF Destroy, CloseSocket, Socket
  <2>2. /\ \A t \in Socket \ {s} : up'[t] = up[t] /\ cred'[t] = cred[t] /\ subs'[t] = subs[t]
        /\ Blank(s)'
    BY <2>1, ForgetTyped DEF Forget, Typed, ServerTypes
  <2>3. InOrder(s)' /\ ToldBefore(s)'
    BY <2>2, BlankJudged
  <2> DEFINE S == {s}
  <2>5. /\ S \in SUBSET Socket
        /\ \A t \in Socket \ S : up'[t] = up[t] /\ cred'[t] = cred[t] /\ subs'[t] = subs[t]
        /\ \A t \in Socket : t # ws'
        /\ \A t \in S : InOrder(t)' /\ ToldBefore(t)'
    BY <2>1, <2>2, <2>3 DEF Socket
  <2> HIDE DEF S
  <2> QED  BY <1>1, <2>5, OthersJudged
<1>4. ASSUME UNCHANGED <<network, server, history>>,
             OpenSocket \/ UNCHANGED <<ws, phase>> \/ ws' = 0
      PROVE  Judged'
  <2>1. \A t \in Socket : up'[t] = up[t] /\ cred'[t] = cred[t] /\ subs'[t] = subs[t]
    BY <1>4 DEF network, server, history
  <2>2. \A t \in Socket : t = ws' /\ phase'[t] = "open" => t = ws /\ phase[t] = "open"
    <3>1. CASE OpenSocket
      BY <3>1, OpenSocketTyped
    <3>2. CASE UNCHANGED <<ws, phase>> \/ ws' = 0
      BY <3>2 DEF Socket
    <3> QED  BY <1>4, <3>1, <3>2
  <2> DEFINE S == {}
  <2>5. /\ S \in SUBSET Socket
        /\ \A t \in Socket \ S : up'[t] = up[t] /\ cred'[t] = cred[t] /\ subs'[t] = subs[t]
        /\ \A t \in Socket \ S : t = ws' /\ phase'[t] = "open" => t = ws /\ phase[t] = "open"
        /\ \A t \in S : FALSE
    BY <2>1, <2>2
  <2> HIDE DEF S
  <2> QED  BY <1>1, <2>5, OthersJudged
<1>5. CASE Connect \/ \E stray \in BOOLEAN : TimerFires(stray)
  BY <1>4, <1>5 DEF Connect, TimerFires
<1>6. CASE Destroy
  <2>1. CASE ws = 0
    BY <1>4, <1>6, <2>1 DEF Destroy, CloseSocket
  <2>2. CASE ws \in Socket
    BY <1>3, <1>6, <2>2
  <2> QED  BY <2>1, <2>2 DEF Typed, ClientTypes, Sockets, Socket
<1> QED  BY <1>2, <1>5, <1>6

LEMMA OpenedJudged ==
  ASSUME Typed, Typed', Judged, NEW s \in Socket, Opened(s)
  PROVE  Judged'
<1>0. /\ phase[s] = "connecting" /\ UNCHANGED <<ws, jwt, cred, subs>>
      /\ up' = IF ws # 0 /\ phase'[ws] = "open" THEN [up EXCEPT ![ws] = @ \o Resubscribe] ELSE up
  BY DEF Opened, session, server
<1>1. \A t \in Socket \ {s} : phase'[t] = phase[t]
  BY DEF Opened, Typed, ClientTypes, Sockets
<1>2. up \in [Socket -> Seq(Frame)]
  BY DEF Typed, ServerTypes
<1> HIDE DEF Resubscribe
<1>3. ASSUME NEW t \in Socket, t = ws, phase'[t] = "open" PROVE Judged'
  <2>1. up' = [up EXCEPT ![t] = up[t] \o Resubscribe]
    BY <1>0, <1>3 DEF Socket
  <2>2. up'[t] = up[t] \o Resubscribe /\ \A x \in Socket \ {t} : up'[x] = up[x]
    BY <1>2, <2>1
  <2>3. SignedIn(jwt) \/ Current(t)
    <3>1. CASE t = s
      <4>1. up[t] = <<>> /\ cred[t] = 0 /\ Len(<<>>) = 0
        BY <1>0, <3>1 DEF Typed, Blanks, Blank
      <4> QED  BY <4>1 DEF Current, Told
    <3>2. CASE t # s
      BY <1>1, <1>3, <3>2 DEF Judged
    <3> QED  BY <3>1, <3>2
  <2>4. InOrder(t) /\ ToldBefore(t) /\ jwt' = jwt /\ cred'[t] = cred[t] /\ subs'[t] = subs[t]
    BY <1>0 DEF Judged
  <2>5. InOrder(t)' /\ ToldBefore(t)' /\ Current(t)'
    BY <2>2, <2>3, <2>4, ResubscribeJudged
  <2> DEFINE S == {t}
  <2>6. /\ S \in SUBSET Socket
        /\ \A x \in Socket \ S : up'[x] = up[x] /\ cred'[x] = cred[x] /\ subs'[x] = subs[x]
        /\ \A x \in Socket \ S : x # ws'
        /\ \A x \in S : InOrder(x)' /\ ToldBefore(x)' /\ Current(x)'
    BY <1>0, <1>3, <2>2, <2>5
  <2> HIDE DEF S
  <2> QED  BY <2>4, <2>6, OthersJudged
<1>4. CASE ~(ws \in Socket /\ phase'[ws] = "open")
  <2>1. ws \in Socket \union {0}
    BY DEF Typed, ClientTypes, Sockets, Socket
  <2>2. up' = up
    BY <1>0, <1>4, <2>1
  <2> DEFINE S == {}
  <2>3. /\ S \in SUBSET Socket
        /\ \A x \in Socket \ S : up'[x] = up[x] /\ cred'[x] = cred[x] /\ subs'[x] = subs[x]
        /\ \A x \in Socket \ S : x = ws' /\ phase'[x] = "open" => FALSE
        /\ \A x \in S : FALSE
    BY <1>0, <1>4, <2>2
  <2> HIDE DEF S
  <2> QED  BY <1>0, <2>3, OthersJudged
<1> QED  BY <1>3, <1>4

\* The client sends a frame if its socket is open.
LEMMA SendIfOpenJudged ==
  ASSUME Typed, Judged, UNCHANGED <<ws, phase, cred, subs>>,
         NEW f \in Frame, SendIfOpen(f), f.as = jwt',
         jwt' \in Nat, jwt <= jwt', f.type # "auth" => jwt' = jwt
  PROVE  Judged'
<1>1. up \in [Socket -> Seq(Frame)] /\ ws \in Socket \union {0}
  BY DEF Typed, ServerTypes, ClientTypes, Sockets, Socket
<1> HIDE DEF Frame
<1>2. ASSUME NEW t \in Socket
      PROVE  /\ InOrder(t)' /\ ToldBefore(t)'
             /\ t = ws' /\ phase'[t] = "open" => Current(t)'
  <2>1. InOrder(t) /\ ToldBefore(t) /\ (t = ws /\ phase[t] = "open" => Current(t))
    BY DEF Judged
  <2>2. CASE t = ws /\ phase[t] = "open"
    <3>1. up'[t] = Append(up[t], f) /\ cred'[t] = cred[t] /\ subs'[t] = subs[t]
      BY <1>1, <2>2 DEF SendIfOpen, IsOpen, Socket
    <3> QED  BY <2>1, <2>2, <3>1, AppendJudged
  <2>3. CASE ~(t = ws /\ phase[t] = "open")
    <3>1. up'[t] = up[t] /\ cred'[t] = cred[t] /\ subs'[t] = subs[t]
      BY <1>1, <2>3 DEF SendIfOpen, IsOpen
    <3>2. \A h \in subs'[t] : \E g \in subs[t] : h.as = g.as
      BY <3>1
    <3>3. InOrder(t)' /\ ToldBefore(t)'
      BY <2>1, <3>1, <3>2, RestJudged
    <3> QED  BY <2>3, <3>3
  <2> QED  BY <2>2, <2>3
<1> QED  BY <1>2 DEF Judged

LEMMA TokenOf ==
  ASSUME NEW c \in 0 .. MaxCalls, NEW t \in 0 .. c + 1
  PROVE  t \in Token
BY WsClientAssumption DEF Token, WsClientAssumption

LEMMA CallJudged ==
  ASSUME Typed, Typed', Judged,
         SetJwt \/ \E r \in Room : Subscribe(r) \/ Unsubscribe(r)
  PROVE  Judged'
<1>1. /\ jwt \in Nat /\ jwt' \in Nat /\ jwt \in Token /\ jwt' \in Token
      /\ UNCHANGED <<ws, phase, cred, subs>>
  <2>1. UNCHANGED <<ws, phase, cred, subs>>
    BY DEF SetJwt, Subscribe, Unsubscribe, session, server
  <2>2. Numbers /\ Numbers'
    BY DEF Typed, ClientTypes
  <2>3. jwt \in Token /\ jwt' \in Token
    BY <2>2, TokenOf DEF Numbers
  <2> QED  BY <2>1, <2>2, <2>3 DEF Numbers
<1>2. CASE SetJwt
  <2> DEFINE f == [type |-> "auth", as |-> jwt + 1]
  <2>1. f \in Frame /\ SendIfOpen(f) /\ f.as = jwt' /\ jwt <= jwt' /\ f.type = "auth"
    BY <1>1, <1>2 DEF SetJwt, Frame
  <2> HIDE DEF f
  <2> QED  BY <1>1, <2>1, SendIfOpenJudged
<1>3. ASSUME NEW r \in Room, NEW type \in {"sub", "unsub"},
             jwt' = jwt, SendIfOpen(RoomFrame(type, r))
      PROVE  Judged'
  <2> DEFINE f == RoomFrame(type, r)
  <2>1. f \in Frame /\ f.as = jwt' /\ jwt <= jwt' /\ f.type = type
    BY <1>1, <1>3 DEF RoomFrame, Frame
  <2>2. SendIfOpen(f)
    BY <1>3
  <2> HIDE DEF f
  <2> QED  BY <1>1, <1>3, <2>1, <2>2, SendIfOpenJudged
<1> QED  BY <1>2, <1>3 DEF Subscribe, Unsubscribe

LEMMA AnswerJudged ==
  ASSUME Typed, Typed', Judged, NEW s \in Socket, Answer(s)
  PROVE  Judged'
<1>0. InOrder(s) /\ ToldBefore(s) /\ (s = ws /\ phase[s] = "open" => Current(s))
  BY DEF Judged
<1>1. UNCHANGED <<session, jwt, phase>> /\ jwt' = jwt /\ ws' = ws /\ phase' = phase
  BY DEF Answer, SubscribeFrame, UnsubscribeFrame, CredentialFrame, Receive,
         SubscribeGuards, ExecThrows, Subscribed, Authorize, Revoke, RevalidationEnds,
         Serve, ReceiveAck, session
<1>2. \A t \in Socket \ {s} : up'[t] = up[t] /\ cred'[t] = cred[t] /\ subs'[t] = subs[t]
  <2>1. /\ up' = up \/ up' = [up EXCEPT ![s] = Tail(@)]
        /\ cred' = cred \/ cred' = [cred EXCEPT ![s] = Head(up[s]).as]
        /\ subs' = subs \/ \E H : subs' = [subs EXCEPT ![s] = H]
    BY DEF Answer, SubscribeFrame, UnsubscribeFrame, CredentialFrame, Receive,
           SubscribeGuards, ExecThrows, Subscribed, Authorize, Revoke, RevalidationEnds,
           Serve, ReceiveAck, server
  <2>2. up \in [Socket -> Seq(Frame)] /\ cred \in [Socket -> Token] /\ subs \in [Socket -> SUBSET Subscribing]
    BY DEF Typed, ServerTypes
  <2> HIDE DEF Frame, Token, Subscribing
  <2> QED  BY <2>1, <2>2
<1>3. InOrder(s)' /\ ToldBefore(s)' /\ (Current(s) => Current(s)')
  <2>0. /\ up \in [Socket -> Seq(Frame)] /\ cred \in [Socket -> Token]
        /\ subs \in [Socket -> SUBSET Subscribing]
    BY DEF Typed, ServerTypes
  <2>1. CASE SubscribeFrame(s) \/ UnsubscribeFrame(s) \/ CredentialFrame(s)
    <3>1. /\ up[s] # <<>> /\ up'[s] = Tail(up[s])
          /\ Head(up[s]).type = "auth" => cred'[s] = Head(up[s]).as
          /\ Head(up[s]).type # "auth" => cred'[s] = cred[s]
      BY <2>0, <2>1 DEF SubscribeFrame, UnsubscribeFrame, CredentialFrame, Receive
    <3>2. \A h \in subs'[s] : \/ \E g \in subs[s] : h.as = g.as
                              \/ Head(up[s]).type = "sub" /\ h.as = Head(up[s]).as
      BY <2>0, <2>1 DEF SubscribeFrame, UnsubscribeFrame, CredentialFrame, Receive
    <3> QED  BY <1>0, <1>1, <3>1, <3>2, HandleJudged
  <2>2. CASE \/ \E h \in subs[s] : SubscribeGuards(s, h) \/ ExecThrows(s, h) \/ Subscribed(s, h)
             \/ \E v \in revs[s] : Authorize(s, v) \/ Revoke(s, v) \/ RevalidationEnds(s, v)
             \/ ReceiveAck(s)
    <3>1. up'[s] = up[s] /\ cred'[s] = cred[s]
      BY <2>2 DEF SubscribeGuards, ExecThrows, Subscribed, Authorize, Revoke,
                  RevalidationEnds, Serve, ReceiveAck, server
    <3>3. jwt' \in Nat /\ jwt <= jwt'
      BY <1>1, AsTyped
    <3>2. \A h \in subs'[s] : \E g \in subs[s] : h.as = g.as
      <4>1. ASSUME NEW h \in subs[s], SubscribeGuards(s, h) PROVE \A g \in subs'[s] : \E k \in subs[s] : g.as = k.as
        <5>1. h \in Subscribing
          BY <2>0
        <5>2. [h EXCEPT !.passed = TRUE].as = h.as
          BY <5>1 DEF Subscribing
        <5> QED  BY <2>0, <4>1, <5>2 DEF SubscribeGuards
      <4>2. CASE subs' = subs \/ \E h \in subs[s] : subs' = [subs EXCEPT ![s] = @ \ {h}]
        BY <2>0, <4>2
      <4> QED  BY <2>2, <4>1, <4>2 DEF ExecThrows, Subscribed, Authorize, Revoke,
                        RevalidationEnds, ReceiveAck, server
    <3> QED  BY <1>0, <1>1, <3>1, <3>2, <3>3, RestJudged
  <2> QED  BY <2>1, <2>2 DEF Answer
<1> DEFINE S == {s}
<1>4. /\ S \in SUBSET Socket
      /\ \A t \in Socket \ S : up'[t] = up[t] /\ cred'[t] = cred[t] /\ subs'[t] = subs[t]
      /\ \A t \in Socket \ S : t = ws' /\ phase'[t] = "open" => t = ws /\ phase[t] = "open"
      /\ \A t \in S : /\ InOrder(t)' /\ ToldBefore(t)'
                      /\ t = ws' /\ phase'[t] = "open" => Current(t)'
  BY <1>0, <1>1, <1>2, <1>3
<1> HIDE DEF S
<1> QED  BY <1>1, <1>4, OthersJudged

LEMMA NextJudged == Typed /\ Judged /\ [Next]_vars => Judged'
<1> SUFFICES ASSUME Typed, Judged, [Next]_vars PROVE Judged'
  OBVIOUS
<1>0. Typed'
  BY NextTyped
<1>1. CASE UNCHANGED vars
  BY <1>1 DEF vars, session, network, server, history, Judged, InOrder, ToldBefore, Current
<1>2. CASE \/ Connect \/ Destroy
           \/ \E stray \in BOOLEAN : TimerFires(stray)
           \/ \E s \in Socket : Closed(s) \/ Drop(s)
  BY <1>0, <1>2, ConnectionJudged
<1>3. CASE SetJwt \/ \E r \in Room : Subscribe(r) \/ Unsubscribe(r)
  BY <1>0, <1>3, CallJudged
<1>4. ASSUME NEW s \in Socket, Opened(s) PROVE Judged'
  BY <1>0, <1>4, OpenedJudged
<1>5. ASSUME NEW s \in Socket, Answer(s) PROVE Judged'
  BY <1>0, <1>5, AnswerJudged
<1> QED  BY <1>1, <1>2, <1>3, <1>4, <1>5 DEF Next
-----------------------------------------------------------------------------
(* The client and the server agree on the rooms *)

On(q, type, r) == \E i \in 1 .. Len(q) : q[i].type = type /\ q[i].room = r

\* A subscribe of the room is under way, and no unsubscribe after it.
Wanted(q, r) ==
  \E i \in 1 .. Len(q) :
    /\ q[i].type = "sub" /\ q[i].room = r
    /\ \A j \in i + 1 .. Len(q) : ~(q[j].type = "unsub" /\ q[j].room = r)

\* The server has the room, or will, or the client learns that it has not.
Known(s, r) ==
  \/ r \in topics[s] \/ r \in refused[s]
  \/ \E h \in subs[s] : h.room = r
  \/ \E v \in revs[s] : r \in v.revoked
  \/ \E i \in 1 .. Len(down[s]) : r \in down[s][i]

KeepsAt(s) ==
  \A r \in rooms : Wanted(up[s], r) \/ (~On(up[s], "unsub", r) /\ Known(s, r))

LeavesAt(s) ==
  \A r \in Room \ rooms :
    r \in topics[s] \/ Asked(s, r) => r \in leftover[s] \/ On(up[s], "unsub", r)

\* The rooms the client keeps are asked for at the socket it uses, and those it
\* has given up are given up there, but for what an unsubscribe or an
\* acknowledgement missed.
Agreed ==
  \A s \in Socket : s = ws /\ phase[s] = "open" => KeepsAt(s) /\ (~raced => LeavesAt(s))

\* The first frame goes, the rest is as under way as before.
LEMMA TailOn ==
  ASSUME NEW q \in Seq(Frame), q # <<>>, NEW r
  PROVE  /\ \A type \in {"sub", "unsub"} : On(Tail(q), type, r) => On(q, type, r)
         /\ \A type \in {"sub", "unsub"} :
              On(q, type, r) => On(Tail(q), type, r) \/ (Head(q).type = type /\ Head(q).room = r)
         /\ Wanted(q, r) =>
              \/ Wanted(Tail(q), r)
              \/ Head(q).type = "sub" /\ Head(q).room = r /\ ~On(Tail(q), "unsub", r)
<1> DEFINE u == Tail(q)
           n == Len(q)
<1>1. n \in Nat \ {0} /\ Len(u) = n - 1 /\ Head(q) = q[1] /\ \A i \in 1 .. n - 1 : u[i] = q[i + 1]
  BY HeadTailProperties, EmptySeq, LenProperties
<1> HIDE DEF u, n, Frame
<1>2. \A i \in 1 .. n - 1 : i + 1 \in 1 .. n
  BY <1>1
<1>3. \A i \in 1 .. n : i = 1 \/ (i - 1 \in 1 .. n - 1 /\ u[i - 1] = q[i])
  BY <1>1
<1>4. \A type \in {"sub", "unsub"} : On(u, type, r) => On(q, type, r)
  BY <1>1, <1>2 DEF On, n
<1>5. \A type \in {"sub", "unsub"} :
        On(q, type, r) => On(u, type, r) \/ (Head(q).type = type /\ Head(q).room = r)
  BY <1>1, <1>3 DEF On, n
<1>6. ASSUME NEW i \in 1 .. n, q[i].type = "sub", q[i].room = r,
             \A j \in i + 1 .. n : ~(q[j].type = "unsub" /\ q[j].room = r)
      PROVE  \/ Wanted(u, r)
             \/ Head(q).type = "sub" /\ Head(q).room = r /\ ~On(u, "unsub", r)
  <2>1. \A j \in i .. n - 1 : ~(u[j].type = "unsub" /\ u[j].room = r)
    <3> SUFFICES ASSUME NEW j \in i .. n - 1 PROVE ~(u[j].type = "unsub" /\ u[j].room = r)
      OBVIOUS
    <3>1. j + 1 \in i + 1 .. n /\ j \in 1 .. n - 1
      BY <1>1
    <3> QED  BY <1>1, <1>6, <3>1
  <2>2. CASE i = 1
    BY <1>1, <1>6, <2>1, <2>2 DEF On
  <2>3. CASE i # 1
    <3>1. i - 1 \in 1 .. n - 1 /\ u[i - 1] = q[i] /\ (i - 1) + 1 = i
      BY <1>3, <2>3
    <3>2. Wanted(u, r)
      BY <1>1, <1>6, <2>1, <3>1 DEF Wanted
    <3> QED  BY <3>2
  <2> QED  BY <2>2, <2>3
<1>7. Wanted(q, r) =>
        \/ Wanted(u, r)
        \/ Head(q).type = "sub" /\ Head(q).room = r /\ ~On(u, "unsub", r)
  BY <1>6 DEF Wanted, n
<1> QED  BY <1>4, <1>5, <1>7 DEF u

\* More frames are sent.
LEMMA ConcatOn ==
  ASSUME NEW q \in Seq(Frame), NEW p \in Seq(Frame), NEW r
  PROVE  /\ \A type \in {"sub", "unsub"} :
              On(q \o p, type, r) <=> On(q, type, r) \/ On(p, type, r)
         /\ ~On(p, "unsub", r) /\ (Wanted(q, r) \/ On(p, "sub", r)) => Wanted(q \o p, r)
<1> DEFINE u == q \o p
           n == Len(q)
           m == Len(p)
<1>1. /\ n \in Nat /\ m \in Nat /\ Len(u) = n + m
      /\ \A i \in 1 .. n + m : u[i] = IF i <= n THEN q[i] ELSE p[i - n]
  BY ConcatProperties, LenProperties
<1> HIDE DEF u, n, m, Frame
<1>2. \A i \in 1 .. n : i \in 1 .. n + m /\ u[i] = q[i]
  BY <1>1
<1>3. \A i \in 1 .. m : i + n \in 1 .. n + m /\ u[i + n] = p[i]
  BY <1>1
<1>4. \A i \in 1 .. n + m :
        i \in 1 .. n \/ (i \in n + 1 .. n + m /\ i - n \in 1 .. m /\ u[i] = p[i - n])
  BY <1>1
<1>5. \A type \in {"sub", "unsub"} : On(u, type, r) <=> On(q, type, r) \/ On(p, type, r)
  <2> SUFFICES ASSUME NEW type \in {"sub", "unsub"}
               PROVE  On(u, type, r) <=> On(q, type, r) \/ On(p, type, r)
    OBVIOUS
  <2>1. On(q, type, r) => On(u, type, r)
    BY <1>1, <1>2 DEF On, n
  <2>2. On(p, type, r) => On(u, type, r)
    BY <1>1, <1>3 DEF On, m
  <2>3. On(u, type, r) => On(q, type, r) \/ On(p, type, r)
    BY <1>1, <1>2, <1>4 DEF On, n, m
  <2> QED  BY <2>1, <2>2, <2>3
<1>6. ASSUME ~On(p, "unsub", r) PROVE \A j \in n + 1 .. n + m : ~(u[j].type = "unsub" /\ u[j].room = r)
  <2> SUFFICES ASSUME NEW j \in n + 1 .. n + m, u[j].type = "unsub", u[j].room = r PROVE FALSE
    OBVIOUS
  <2>1. j - n \in 1 .. m /\ u[j] = p[j - n]
    BY <1>1
  <2> QED  BY <1>6, <2>1 DEF On, m
<1>7. ASSUME ~On(p, "unsub", r), Wanted(q, r) PROVE Wanted(u, r)
  <2>1. PICK i \in 1 .. n : /\ q[i].type = "sub" /\ q[i].room = r
                            /\ \A j \in i + 1 .. n : ~(q[j].type = "unsub" /\ q[j].room = r)
    BY <1>7 DEF Wanted, n
  <2>2. \A j \in i + 1 .. n + m : ~(u[j].type = "unsub" /\ u[j].room = r)
    <3> SUFFICES ASSUME NEW j \in i + 1 .. n + m PROVE ~(u[j].type = "unsub" /\ u[j].room = r)
      OBVIOUS
    <3>1. j \in 1 .. n + m /\ (j \in i + 1 .. n \/ j \in n + 1 .. n + m)
      BY <1>1
    <3>2. CASE j \in i + 1 .. n
      BY <1>1, <2>1, <3>2
    <3>3. CASE j \in n + 1 .. n + m
      BY <1>6, <1>7, <3>3
    <3> QED  BY <3>1, <3>2, <3>3
  <2> QED  BY <1>1, <1>2, <2>1, <2>2 DEF Wanted
<1>8. ASSUME ~On(p, "unsub", r), On(p, "sub", r) PROVE Wanted(u, r)
  <2>1. PICK i \in 1 .. m : p[i].type = "sub" /\ p[i].room = r
    BY <1>8 DEF On, m
  <2> DEFINE k == i + n
  <2>2. k \in 1 .. n + m /\ u[k] = p[i] /\ \A j \in k + 1 .. n + m : j \in n + 1 .. n + m
    BY <1>1, <1>3
  <2> HIDE DEF k
  <2> QED  BY <1>1, <1>6, <1>8, <2>1, <2>2 DEF Wanted
<1> QED  BY <1>5, <1>7, <1>8 DEF u

LEMMA AskedOn ==
  ASSUME NEW s, NEW r
  PROVE  Asked(s, r) <=> (\E h \in subs[s] : h.room = r) \/ On(up[s], "sub", r)
BY DEF Asked, On
LEMMA BlankLeaves == ASSUME NEW s, Blank(s) PROVE LeavesAt(s)
<1>1. Len(up[s]) = 0 /\ topics[s] = {} /\ subs[s] = {}
  BY DEF Blank
<1> QED  BY <1>1 DEF LeavesAt, Asked

\* The client sends what it wants and gives up.
LEMMA SendAgreed ==
  ASSUME Typed, NEW s \in Socket, NEW p \in Seq(Frame), up'[s] = up[s] \o p,
         down'[s] = down[s], topics'[s] = topics[s], subs'[s] = subs[s],
         revs'[s] = revs[s], refused'[s] = refused[s], leftover'[s] = leftover[s],
         \A r \in rooms' : /\ ~On(p, "unsub", r)
                           /\ On(p, "sub", r) \/ (r \in rooms /\ KeepsAt(s)),
         \A r \in Room \ rooms' : /\ ~On(p, "sub", r)
                                  /\ r \notin rooms \/ On(p, "unsub", r)
  PROVE  KeepsAt(s)' /\ (LeavesAt(s) => LeavesAt(s)')
<1> DEFINE q == up[s]
           u == up'[s]
<1>1. q \in Seq(Frame) /\ u = q \o p
  BY DEF Typed, ServerTypes
<1> HIDE DEF q, u, Frame
<1>2. \A r : /\ \A type \in {"sub", "unsub"} : On(u, type, r) <=> On(q, type, r) \/ On(p, type, r)
             /\ ~On(p, "unsub", r) /\ (Wanted(q, r) \/ On(p, "sub", r)) => Wanted(u, r)
  BY <1>1, ConcatOn
<1>3. ASSUME NEW r \in rooms'
      PROVE  Wanted(u, r) \/ (~On(u, "unsub", r) /\ Known(s, r)')
  <2>1. CASE On(p, "sub", r)
    BY <1>2, <2>1
  <2>2. CASE r \in rooms /\ KeepsAt(s)
    <3>1. Wanted(q, r) \/ (~On(q, "unsub", r) /\ Known(s, r))
      BY <2>2 DEF KeepsAt, q
    <3>2. Known(s, r) => Known(s, r)'
      BY DEF Known
    <3> QED  BY <1>2, <3>1, <3>2
  <2> QED  BY <2>1, <2>2
<1>4. ASSUME LeavesAt(s), NEW r \in Room \ rooms', r \in topics'[s] \/ Asked(s, r)'
      PROVE  r \in leftover'[s] \/ On(u, "unsub", r)
  <2>1. CASE On(p, "unsub", r)
    BY <1>2, <2>1
  <2>2. CASE r \notin rooms
    <3>1. r \in topics[s] \/ (\E h \in subs[s] : h.room = r) \/ On(u, "sub", r)
      BY <1>4 DEF Asked, On, u
    <3>2. r \in topics[s] \/ Asked(s, r)
      BY <1>2, <3>1, AskedOn DEF q
    <3>3. r \in leftover[s] \/ On(q, "unsub", r)
      BY <1>4, <2>2, <3>2 DEF LeavesAt, q
    <3> QED  BY <1>2, <3>3
  <2> QED  BY <2>1, <2>2
<1> QED  BY <1>3, <1>4 DEF KeepsAt, LeavesAt, u

LEMMA CallAgreed ==
  ASSUME Typed, Agreed, SetJwt \/ \E r \in Room : Subscribe(r) \/ Unsubscribe(r)
  PROVE  Agreed'
<1> SUFFICES ASSUME NEW s \in Socket, s = ws', phase'[s] = "open"
             PROVE  KeepsAt(s)' /\ (~raced' => LeavesAt(s)')
  BY DEF Agreed
<1>1. /\ UNCHANGED <<ws, phase, raced, down, topics, subs, revs, refused, leftover>>
      /\ up \in [Socket -> Seq(Frame)]
  BY DEF SetJwt, Subscribe, Unsubscribe, session, server, history, Typed, ServerTypes
<1>2. s = ws /\ IsOpen(ws) /\ KeepsAt(s) /\ (~raced => LeavesAt(s))
  BY <1>1 DEF Agreed, IsOpen, Socket
<1>3. jwt \in Token /\ (SetJwt => jwt' \in Token)
  <2>1. calls \in 0 .. MaxCalls /\ jwt \in 0 .. calls + 1
    BY DEF Typed, ClientTypes, Numbers
  <2>2. SetJwt => Numbers'
    BY SetJwtTyped DEF Typed, ClientTypes
  <2> QED  BY <2>1, <2>2, TokenOf DEF Numbers
<1>4. ASSUME NEW f \in Frame, SendIfOpen(f),
             \A r \in rooms' : /\ ~(f.type = "unsub" /\ f.room = r)
                               /\ (f.type = "sub" /\ f.room = r) \/ r \in rooms,
             \A r \in Room \ rooms' : /\ ~(f.type = "sub" /\ f.room = r)
                                      /\ r \notin rooms \/ (f.type = "unsub" /\ f.room = r)
      PROVE  KeepsAt(s)' /\ (~raced' => LeavesAt(s)')
  <2> HIDE DEF Frame
  <2>1. up' = [up EXCEPT ![s] = Append(up[s], f)]
    BY <1>2, <1>4 DEF SendIfOpen
  <2> DEFINE p == <<f>>
  <2>2. p \in Seq(Frame) /\ Len(p) = 1 /\ p[1] = f /\ Append(up[s], f) = up[s] \o p
    BY <1>1
  <2>3. up'[s] = up[s] \o p
    BY <1>1, <2>1, <2>2
  <2> HIDE DEF p
  <2>4. \A r : \A type \in {"sub", "unsub"} : On(p, type, r) <=> f.type = type /\ f.room = r
    BY <2>2 DEF On
  <2>5. /\ \A r \in rooms' : /\ ~On(p, "unsub", r)
                             /\ On(p, "sub", r) \/ (r \in rooms /\ KeepsAt(s))
        /\ \A r \in Room \ rooms' : /\ ~On(p, "sub", r)
                                    /\ r \notin rooms \/ On(p, "unsub", r)
    BY <1>2, <1>4, <2>4
  <2>6. KeepsAt(s)' /\ (LeavesAt(s) => LeavesAt(s)')
    BY <1>1, <2>2, <2>3, <2>5, SendAgreed
  <2> QED  BY <1>1, <1>2, <2>6
<1>5. CASE SetJwt
  <2> DEFINE f == [type |-> "auth", as |-> jwt + 1]
  <2>1. f \in Frame /\ f.type = "auth" /\ SendIfOpen(f) /\ rooms' = rooms
    BY <1>3, <1>5 DEF SetJwt, Frame
  <2> HIDE DEF f
  <2> QED  BY <1>4, <2>1
<1>6. ASSUME NEW r \in Room, Subscribe(r)
      PROVE  KeepsAt(s)' /\ (~raced' => LeavesAt(s)')
  <2> DEFINE f == RoomFrame("sub", r)
  <2>1. f \in Frame /\ f.type = "sub" /\ f.room = r /\ SendIfOpen(f) /\ rooms' = rooms \union {r}
    BY <1>3, <1>6 DEF Subscribe, RoomFrame, Frame
  <2> HIDE DEF f
  <2> QED  BY <1>4, <2>1
<1>7. ASSUME NEW r \in Room, Unsubscribe(r)
      PROVE  KeepsAt(s)' /\ (~raced' => LeavesAt(s)')
  <2> DEFINE f == RoomFrame("unsub", r)
  <2>1. f \in Frame /\ f.type = "unsub" /\ f.room = r /\ SendIfOpen(f) /\ rooms' = rooms \ {r}
    BY <1>3, <1>7 DEF Unsubscribe, RoomFrame, Frame
  <2> HIDE DEF f
  <2> QED  BY <1>4, <2>1
<1> QED  BY <1>5, <1>6, <1>7

LEMMA OpenedAgreed ==
  ASSUME Typed, Agreed, NEW x \in Socket, Opened(x)
  PROVE  Agreed'
<1> SUFFICES ASSUME NEW s \in Socket, s = ws', phase'[s] = "open"
             PROVE  KeepsAt(s)' /\ (~raced' => LeavesAt(s)')
  BY DEF Agreed
<1>1. /\ UNCHANGED <<ws, rooms, jwt, raced, down, topics, subs, revs, refused, leftover>>
      /\ phase[x] = "connecting" /\ \A t \in Socket \ {x} : phase'[t] = phase[t]
      /\ up \in [Socket -> Seq(Frame)]
      /\ rooms \subseteq Room /\ IsFiniteSet(rooms)
  BY DEF Opened, session, server, history, Typed, ServerTypes, RoomTypes, ClientTypes, Sockets
<1> HIDE DEF Resubscribe, Frame
<1>2. s = ws /\ up'[s] = up[s] \o Resubscribe
  BY <1>1 DEF Opened, Socket
<1>3. jwt \in Token
  <2>1. calls \in 0 .. MaxCalls /\ jwt \in 0 .. calls + 1
    BY DEF Typed, ClientTypes, Numbers
  <2> QED  BY <2>1, TokenOf
<1> DEFINE p == Resubscribe
<1>4. /\ p \in Seq(Frame)
      /\ \A i \in 1 .. Len(p) : \/ p[i].type = "sub" /\ p[i].room \in rooms
                                \/ p[i].type = "auth"
      /\ \A r \in rooms : \E i \in 1 .. Len(p) : p[i].type = "sub" /\ p[i].room = r
  BY <1>1, <1>3, ResubscribeOf
<1> HIDE DEF p
<1>5. /\ \A r \in rooms' : ~On(p, "unsub", r) /\ On(p, "sub", r)
      /\ \A r \in Room \ rooms' : ~On(p, "sub", r) /\ r \notin rooms
  BY <1>1, <1>4 DEF On
<1>6. KeepsAt(s)' /\ (LeavesAt(s) => LeavesAt(s)')
  BY <1>1, <1>2, <1>4, <1>5, SendAgreed DEF p
<1>7. ~raced => LeavesAt(s)
  <2>1. CASE s = x
    <3>1. Blank(s)
      BY <1>1, <2>1 DEF Typed, Blanks
    <3> QED  BY <3>1, BlankLeaves
  <2>2. CASE s # x
    BY <1>1, <1>2, <2>2 DEF Agreed
  <2> QED  BY <2>1, <2>2
<1> QED  BY <1>1, <1>6, <1>7

\* Whatever else changes the connection leaves no socket that is open.
LEMMA ConnectionAgreed ==
  ASSUME Typed,
         \/ Connect \/ Destroy
         \/ \E stray \in BOOLEAN : TimerFires(stray)
         \/ \E s \in Socket : Closed(s) \/ Drop(s)
  PROVE  Agreed'
<1> SUFFICES \A s \in Socket : ~(s = ws' /\ phase'[s] = "open")
  BY DEF Agreed
<1>1. destroyed => ws = 0
  BY DEF Typed, ClientTypes, Ended
<1>2. CASE OpenSocket
  BY <1>2, OpenSocketTyped
<1>3. CASE ws' = 0
  BY <1>3 DEF Socket
<1>4. CASE Connect \/ Destroy
  BY <1>2, <1>3, <1>4 DEF Connect, Destroy, CloseSocket
<1>5. ASSUME NEW stray \in BOOLEAN, TimerFires(stray) PROVE OpenSocket \/ ws' = 0
  BY <1>1, <1>5 DEF TimerFires
<1>6. ASSUME NEW s \in Socket, Closed(s) \/ Drop(s) PROVE ws' = 0
  <2>1. ScheduleReconnect(s)
    BY <1>6 DEF Closed, Drop
  <2> QED  BY <1>1, <2>1 DEF ScheduleReconnect
<1> QED  BY <1>2, <1>3, <1>4, <1>5, <1>6
\* A frame is handled: a subscribe is then in progress, an unsubscribe done.
LEMMA HandleAgreed ==
  ASSUME Typed, NEW s \in Socket, up[s] # <<>>, up'[s] = Tail(up[s]), rooms' = rooms,
         \A r \in Room : LET f == Head(up[s]) IN
           /\ f.type = "sub" /\ f.room = r => Known(s, r)'
           /\ f.type = "unsub" /\ f.room = r =>
                r \notin topics'[s] /\ (Asked(s, r)' => r \in leftover'[s])
           /\ ~(f.type = "unsub" /\ f.room = r) =>
                /\ Known(s, r) => Known(s, r)'
                /\ r \in topics'[s] \/ Asked(s, r)' => r \in topics[s] \/ Asked(s, r)
                /\ r \in leftover[s] => r \in leftover'[s]
  PROVE  (KeepsAt(s) => KeepsAt(s)') /\ (LeavesAt(s) => LeavesAt(s)')
<1> DEFINE q == up[s]
           u == up'[s]
           f == Head(up[s])
<1>1. q \in Seq(Frame) /\ q # <<>> /\ u = Tail(q) /\ f = Head(q) /\ rooms \subseteq Room
  BY DEF Typed, ServerTypes, RoomTypes
<1>2. \A r \in Room :
        /\ f.type = "sub" /\ f.room = r => Known(s, r)'
        /\ f.type = "unsub" /\ f.room = r =>
             r \notin topics'[s] /\ (Asked(s, r)' => r \in leftover'[s])
        /\ ~(f.type = "unsub" /\ f.room = r) =>
             /\ Known(s, r) => Known(s, r)'
             /\ r \in topics'[s] \/ Asked(s, r)' => r \in topics[s] \/ Asked(s, r)
             /\ r \in leftover[s] => r \in leftover'[s]
  OBVIOUS
<1> HIDE DEF q, u, f, Frame
<1>3. \A r :
        /\ \A type \in {"sub", "unsub"} : On(u, type, r) => On(q, type, r)
        /\ \A type \in {"sub", "unsub"} :
             On(q, type, r) => On(u, type, r) \/ (f.type = type /\ f.room = r)
        /\ Wanted(q, r) =>
             Wanted(u, r) \/ (f.type = "sub" /\ f.room = r /\ ~On(u, "unsub", r))
  BY <1>1, TailOn
<1>4. ASSUME KeepsAt(s), NEW r \in rooms
      PROVE  Wanted(u, r) \/ (~On(u, "unsub", r) /\ Known(s, r)')
  <2>1. Wanted(q, r) \/ (~On(q, "unsub", r) /\ Known(s, r))
    BY <1>4 DEF KeepsAt, q
  <2>2. CASE Wanted(q, r)
    BY <1>1, <1>2, <1>3, <2>2
  <2>3. CASE ~On(q, "unsub", r) /\ Known(s, r)
    <3>1. ~On(u, "unsub", r)
      BY <1>3, <2>3
    <3>2. ~(f.type = "unsub" /\ f.room = r)
      <4> SUFFICES ASSUME f.type = "unsub", f.room = r PROVE FALSE
        OBVIOUS
      <4>1. 1 \in 1 .. Len(q) /\ q[1] = f
        BY <1>1, EmptySeq, LenProperties
      <4> QED  BY <2>3, <4>1 DEF On
    <3> QED  BY <1>1, <1>2, <2>3, <3>1, <3>2
  <2> QED  BY <2>1, <2>2, <2>3
<1>5. ASSUME LeavesAt(s), NEW r \in Room \ rooms, r \in topics'[s] \/ Asked(s, r)'
      PROVE  r \in leftover'[s] \/ On(u, "unsub", r)
  <2>1. CASE f.type = "unsub" /\ f.room = r
    BY <1>2, <1>5, <2>1
  <2>2. CASE ~(f.type = "unsub" /\ f.room = r)
    <3>1. r \in topics[s] \/ Asked(s, r)
      BY <1>2, <1>5, <2>2
    <3>2. r \in leftover[s] \/ On(q, "unsub", r)
      BY <1>5, <3>1 DEF LeavesAt, q
    <3> QED  BY <1>2, <1>3, <2>2, <3>2
  <2> QED  BY <2>1, <2>2
<1> QED  BY <1>4, <1>5 DEF KeepsAt, LeavesAt, u

\* No frame is handled.
LEMMA ServeAgreed ==
  ASSUME Typed, NEW s \in Socket, up'[s] = up[s], rooms' \subseteq rooms,
         \A r \in rooms' : Known(s, r) => Known(s, r)',
         \A r \in Room \ rooms' :
           r \in topics'[s] \/ Asked(s, r)' =>
             \/ r \in leftover'[s]
             \/ r \notin rooms /\ (r \in topics[s] \/ Asked(s, r)) /\ r \notin leftover[s]
  PROVE  (KeepsAt(s) => KeepsAt(s)') /\ (LeavesAt(s) => LeavesAt(s)')
<1>1. \A r : (Wanted(up[s], r)' <=> Wanted(up[s], r)) /\ (On(up[s], "unsub", r)' <=> On(up[s], "unsub", r))
  BY DEF Wanted, On
<1>2. KeepsAt(s) => KeepsAt(s)'
  BY <1>1 DEF KeepsAt
<1>3. LeavesAt(s) => LeavesAt(s)'
  BY <1>1 DEF LeavesAt
<1> QED  BY <1>2, <1>3

LEMMA FrameAgreed ==
  ASSUME Typed, NEW s \in Socket,
         SubscribeFrame(s) \/ UnsubscribeFrame(s) \/ CredentialFrame(s)
  PROVE  (KeepsAt(s) => KeepsAt(s)') /\ (LeavesAt(s) => LeavesAt(s)')
<1> DEFINE f == Head(up[s])
<1>0. /\ up \in [Socket -> Seq(Frame)] /\ subs \in [Socket -> SUBSET Subscribing]
      /\ revs \in [Socket -> SUBSET Revalidation] /\ topics \in [Socket -> SUBSET Room]
      /\ leftover \in [Socket -> SUBSET Room]
  BY DEF Typed, ServerTypes
<1> HIDE DEF Frame, Subscribing, Revalidation
<1>1. up[s] # <<>> /\ up'[s] = Tail(up[s]) /\ rooms' = rooms /\ down' = down /\ refused' = refused
  BY <1>0 DEF SubscribeFrame, UnsubscribeFrame, CredentialFrame, Receive, history
<1>2. \A r : On(up'[s], "sub", r) => On(up[s], "sub", r)
  BY <1>0, <1>1, TailOn
<1>3. CASE SubscribeFrame(s)
  <2>1. PICK h : h.room = f.room /\ subs'[s] = subs[s] \union {h}
    <3> DEFINE h == [id |-> FreshId(subs[s]), room |-> f.room, as |-> f.as, passed |-> FALSE]
    <3>1. h.room = f.room /\ subs'[s] = subs[s] \union {h}
      BY <1>0, <1>3 DEF SubscribeFrame
    <3> HIDE DEF h
    <3> QED  BY <3>1
  <2>2. UNCHANGED <<topics, revs, leftover>> /\ f.type = "sub"
    BY <1>3 DEF SubscribeFrame, Receive, history
  <2>3. On(up[s], "sub", f.room)
    <3>1. up[s] \in Seq(Frame) /\ 1 \in 1 .. Len(up[s]) /\ up[s][1] = f
      BY <1>0, <1>1, EmptySeq, LenProperties
    <3> QED  BY <2>2, <3>1 DEF On
  <2>4. \A r : Asked(s, r)' => Asked(s, r)
    <3>1. \A r : Asked(s, r)' => (\E g \in subs'[s] : g.room = r) \/ On(up'[s], "sub", r)
      BY DEF Asked, On
    <3> QED  BY <1>2, <2>1, <2>3, <3>1, AskedOn
  <2>5. \A r : /\ Known(s, r) => Known(s, r)'
               /\ f.room = r => Known(s, r)'
    BY <1>1, <2>1, <2>2 DEF Known
  <2> HIDE DEF f
  <2>6. \A r \in Room :
           /\ f.type = "sub" /\ f.room = r => Known(s, r)'
           /\ f.type = "unsub" /\ f.room = r =>
                r \notin topics'[s] /\ (Asked(s, r)' => r \in leftover'[s])
           /\ ~(f.type = "unsub" /\ f.room = r) =>
                /\ Known(s, r) => Known(s, r)'
                /\ r \in topics'[s] \/ Asked(s, r)' => r \in topics[s] \/ Asked(s, r)
                /\ r \in leftover[s] => r \in leftover'[s]
    BY <2>2, <2>4, <2>5
  <2> QED  BY <1>1, <2>6, HandleAgreed DEF f
<1>4. CASE UnsubscribeFrame(s)
  <2>1. /\ topics'[s] = topics[s] \ {f.room} /\ subs' = subs /\ revs' = revs
        /\ leftover'[s] = IF Asked(s, f.room) THEN leftover[s] \union {f.room}
                          ELSE leftover[s] \ {f.room}
        /\ f.type = "unsub"
    BY <1>0, <1>4 DEF UnsubscribeFrame, Receive
  <2>2. \A r : Asked(s, r)' => Asked(s, r)
    <3>1. \A r : Asked(s, r)' => (\E g \in subs'[s] : g.room = r) \/ On(up'[s], "sub", r)
      BY DEF Asked, On
    <3> QED  BY <1>2, <2>1, <3>1, AskedOn
  <2>3. \A r : r # f.room => (Known(s, r) => Known(s, r)')
    BY <1>1, <2>1 DEF Known
  <2> HIDE DEF f
  <2>4. \A r \in Room :
           /\ f.type = "sub" /\ f.room = r => Known(s, r)'
           /\ f.type = "unsub" /\ f.room = r =>
                r \notin topics'[s] /\ (Asked(s, r)' => r \in leftover'[s])
           /\ ~(f.type = "unsub" /\ f.room = r) =>
                /\ Known(s, r) => Known(s, r)'
                /\ r \in topics'[s] \/ Asked(s, r)' => r \in topics[s] \/ Asked(s, r)
                /\ r \in leftover[s] => r \in leftover'[s]
    BY <2>1, <2>2, <2>3
  <2> QED  BY <1>1, <2>4, HandleAgreed DEF f
<1>5. CASE CredentialFrame(s)
  <2>1. /\ topics' = topics /\ subs' = subs /\ leftover' = leftover /\ f.type = "auth"
        /\ revs[s] \subseteq revs'[s]
    BY <1>0, <1>5 DEF CredentialFrame, Receive, history
  <2>2. \A r : Asked(s, r)' => Asked(s, r)
    <3>1. \A r : Asked(s, r)' => (\E g \in subs'[s] : g.room = r) \/ On(up'[s], "sub", r)
      BY DEF Asked, On
    <3> QED  BY <1>2, <2>1, <3>1, AskedOn
  <2>3. \A r : Known(s, r) => Known(s, r)'
    BY <1>1, <2>1 DEF Known
  <2> HIDE DEF f
  <2>4. \A r \in Room :
           /\ f.type = "sub" /\ f.room = r => Known(s, r)'
           /\ f.type = "unsub" /\ f.room = r =>
                r \notin topics'[s] /\ (Asked(s, r)' => r \in leftover'[s])
           /\ ~(f.type = "unsub" /\ f.room = r) =>
                /\ Known(s, r) => Known(s, r)'
                /\ r \in topics'[s] \/ Asked(s, r)' => r \in topics[s] \/ Asked(s, r)
                /\ r \in leftover[s] => r \in leftover'[s]
    BY <2>1, <2>2, <2>3
  <2> QED  BY <1>1, <2>4, HandleAgreed DEF f
<1> QED  BY <1>3, <1>4, <1>5
LEMMA SubscribingAgreed ==
  ASSUME Typed, NEW s \in Socket, NEW h \in subs[s],
         SubscribeGuards(s, h) \/ ExecThrows(s, h) \/ Subscribed(s, h)
  PROVE  (KeepsAt(s) => KeepsAt(s)') /\ (LeavesAt(s) => LeavesAt(s)')
<1>0. /\ subs \in [Socket -> SUBSET Subscribing] /\ topics \in [Socket -> SUBSET Room]
      /\ refused \in [Socket -> SUBSET Room] /\ h \in Subscribing
  BY DEF Typed, ServerTypes
<1>1. UNCHANGED <<rooms, up, down, revs, leftover>>
  BY DEF SubscribeGuards, ExecThrows, Subscribed, Serve
<1>2. [h EXCEPT !.passed = TRUE].room = h.room
  BY <1>0 DEF Subscribing
<1> DEFINE e == [h EXCEPT !.passed = TRUE]
<1>3. /\ \/ subs'[s] = (subs[s] \ {h}) \union {e} /\ UNCHANGED <<topics, refused>>
         \/ /\ subs'[s] = subs[s] \ {h} /\ topics' = topics
            /\ refused'[s] = refused[s] \union {h.room}
         \/ /\ subs'[s] = subs[s] \ {h} /\ topics'[s] = topics[s] \union {h.room}
            /\ refused'[s] = refused[s] \ {h.room}
      /\ e.room = h.room
  BY <1>0, <1>2 DEF SubscribeGuards, ExecThrows, Subscribed
<1> HIDE DEF e, Subscribing
<1>4. \A r : Known(s, r) => Known(s, r)'
  <2>1. \A r : (\E g \in subs[s] : g.room = r) =>
                 (\E g \in subs'[s] : g.room = r) \/ r \in topics'[s] \/ r \in refused'[s]
    BY <1>3
  <2>2. \A r : r \in topics[s] \/ r \in refused[s] => r \in topics'[s] \/ r \in refused'[s]
    BY <1>3
  <2> QED  BY <1>1, <2>1, <2>2 DEF Known
<1>5. \A r : r \in topics'[s] \/ Asked(s, r)' => r \in topics[s] \/ Asked(s, r)
  <2>1. \A r : (\E g \in subs'[s] : g.room = r) \/ r \in topics'[s] =>
                 (\E g \in subs[s] : g.room = r) \/ r \in topics[s]
    BY <1>3
  <2> QED  BY <1>1, <2>1 DEF Asked
<1>6. /\ \A r \in rooms' : Known(s, r) => Known(s, r)'
      /\ \A r \in Room \ rooms' :
           r \in topics'[s] \/ Asked(s, r)' =>
             \/ r \in leftover'[s]
             \/ r \notin rooms /\ (r \in topics[s] \/ Asked(s, r)) /\ r \notin leftover[s]
      /\ up'[s] = up[s] /\ rooms' \subseteq rooms
  BY <1>1, <1>4, <1>5
<1> QED  BY <1>6, ServeAgreed

LEMMA RevalidationAgreed ==
  ASSUME Typed, NEW s \in Socket, NEW v \in revs[s],
         Authorize(s, v) \/ Revoke(s, v) \/ RevalidationEnds(s, v)
  PROVE  (KeepsAt(s) => KeepsAt(s)') /\ (LeavesAt(s) => LeavesAt(s)')
<1>0. /\ revs \in [Socket -> SUBSET Revalidation] /\ topics \in [Socket -> SUBSET Room]
      /\ down \in [Socket -> Seq(SUBSET Room)] /\ v \in Revalidation
      /\ v.revoked \subseteq Room /\ v.failed \subseteq Room /\ v.todo \subseteq Room
  <2>1. v \in Revalidation
    BY DEF Typed, ServerTypes
  <2> QED  BY <2>1 DEF Typed, ServerTypes, Revalidation
<1>1. UNCHANGED <<rooms, up, subs, refused, leftover>>
  BY DEF Authorize, Revoke, RevalidationEnds, Serve, history
<1>2. \A r : Known(s, r) => Known(s, r)'
  <2>1. CASE Authorize(s, v)
    <3>1. PICK r \in v.todo : revs' = [revs EXCEPT ![s] = (@ \ {v}) \union
                 {[v EXCEPT !.todo = @ \ {r},
                            !.failed = IF Opens(cred[s], r) THEN {} ELSE {r}]}]
      BY <2>1 DEF Authorize
    <3> DEFINE S == v.todo \ {r}
               T == IF Opens(cred[s], r) THEN {} ELSE {r}
               e == [v EXCEPT !.todo = S, !.failed = T]
    <3>2. S \in SUBSET Room /\ T \in SUBSET Room
      BY <1>0
    <3>3. e.revoked = v.revoked
      <4>1. e = [v EXCEPT !.todo = S, !.failed = T]
        OBVIOUS
      <4> HIDE DEF S, T, e, Revalidation
      <4> QED  BY <1>0, <4>1, RevalidationTells
    <3>4. revs'[s] = (revs[s] \ {v}) \union {e} /\ topics' = topics /\ down' = down
      BY <1>0, <2>1, <3>1 DEF Authorize
    <3> HIDE DEF e
    <3>5. \A r1 : (\E w \in revs[s] : r1 \in w.revoked) => \E w \in revs'[s] : r1 \in w.revoked
      BY <3>3, <3>4
    <3> QED  BY <1>1, <3>4, <3>5 DEF Known
  <2>2. CASE Revoke(s, v)
    <3> DEFINE e == [v EXCEPT !.failed = {}, !.revoked = v.revoked \union v.failed]
    <3>1. e.revoked = v.revoked \union v.failed
      <4> DEFINE S == v.revoked \union v.failed
                 T == {}
      <4>1. S \in SUBSET Room /\ T \in SUBSET Room /\ e = [v EXCEPT !.failed = T, !.revoked = S]
        BY <1>0
      <4> HIDE DEF S, T, e, Revalidation
      <4>2. e.revoked = S
        BY <1>0, <4>1, RevalidationTells
      <4> QED  BY <4>2 DEF S
    <3>2. /\ revs'[s] = (revs[s] \ {v}) \union {e} /\ down' = down
          /\ topics'[s] = topics[s] \ v.failed
      BY <1>0, <2>2 DEF Revoke
    <3> HIDE DEF e
    <3>3. \A r1 : (\E w \in revs[s] : r1 \in w.revoked) => \E w \in revs'[s] : r1 \in w.revoked
      BY <3>1, <3>2
    <3>4. \A r1 : r1 \in topics[s] => r1 \in topics'[s] \/ \E w \in revs'[s] : r1 \in w.revoked
      BY <3>1, <3>2
    <3> QED  BY <1>1, <3>2, <3>3, <3>4 DEF Known
  <2>3. CASE RevalidationEnds(s, v)
    <3>1. /\ revs'[s] = revs[s] \ {v} /\ topics' = topics
          /\ down'[s] = IF v.revoked = {} THEN down[s] ELSE Append(down[s], v.revoked)
      BY <1>0, <2>3 DEF RevalidationEnds
    <3>2. /\ Len(down[s]) \in Nat /\ down[s] \in Seq(SUBSET Room)
      BY <1>0, LenProperties
    <3>3. \A r1 : (\E i \in 1 .. Len(down[s]) : r1 \in down[s][i]) =>
                    \E i \in 1 .. Len(down'[s]) : r1 \in down'[s][i]
      BY <1>0, <3>1, <3>2, AppendProperties
    <3>4. \A r1 \in v.revoked : \E i \in 1 .. Len(down'[s]) : r1 \in down'[s][i]
      <4> SUFFICES ASSUME v.revoked # {}
                   PROVE  \A r1 \in v.revoked : \E i \in 1 .. Len(down'[s]) : r1 \in down'[s][i]
        OBVIOUS
      <4>1. Len(down'[s]) = Len(down[s]) + 1 /\ down'[s][Len(down[s]) + 1] = v.revoked
        BY <1>0, <3>1, <3>2, AppendProperties
      <4>2. Len(down'[s]) \in 1 .. Len(down'[s]) /\ down'[s][Len(down'[s])] = v.revoked
        BY <3>2, <4>1
      <4> QED  BY <4>2
    <3>5. \A r1 : (\E w \in revs[s] : r1 \in w.revoked) =>
                    r1 \in v.revoked \/ \E w \in revs'[s] : r1 \in w.revoked
      BY <3>1
    <3> QED  BY <1>1, <3>1, <3>3, <3>4, <3>5 DEF Known
  <2> QED  BY <2>1, <2>2, <2>3
<1>3. \A r : r \in topics'[s] \/ Asked(s, r)' => r \in topics[s] \/ Asked(s, r)
  <2>1. topics'[s] \subseteq topics[s]
    BY <1>0 DEF Authorize, Revoke, RevalidationEnds
  <2> QED  BY <1>1, <2>1 DEF Asked
<1>4. /\ \A r \in rooms' : Known(s, r) => Known(s, r)'
      /\ \A r \in Room \ rooms' :
           r \in topics'[s] \/ Asked(s, r)' =>
             \/ r \in leftover'[s]
             \/ r \notin rooms /\ (r \in topics[s] \/ Asked(s, r)) /\ r \notin leftover[s]
      /\ up'[s] = up[s] /\ rooms' \subseteq rooms
  BY <1>1, <1>2, <1>3
<1> QED  BY <1>4, ServeAgreed

LEMMA AckAgreed ==
  ASSUME Typed, NEW s \in Socket, ReceiveAck(s)
  PROVE  (KeepsAt(s) => KeepsAt(s)') /\ (LeavesAt(s) => LeavesAt(s)')
<1> DEFINE d == Head(down[s])
           n == Len(down[s])
<1>0. /\ down \in [Socket -> Seq(SUBSET Room)] /\ leftover \in [Socket -> SUBSET Room]
      /\ rooms \subseteq Room
  BY DEF Typed, ServerTypes, RoomTypes
<1>1. /\ UNCHANGED <<up, topics, subs, revs, refused>>
      /\ down[s] # <<>> /\ down'[s] = Tail(down[s]) /\ rooms' = rooms \ d
      /\ leftover'[s] = leftover[s] \union {r \in d : r \in topics[s] \/ Asked(s, r)}
  BY <1>0 DEF ReceiveAck, server
<1>2. /\ n \in Nat \ {0} /\ Len(down'[s]) = n - 1 /\ d = down[s][1]
      /\ \A i \in 1 .. n - 1 : down'[s][i] = down[s][i + 1]
  BY <1>0, <1>1, HeadTailProperties, EmptySeq, LenProperties
<1> HIDE DEF d, n
<1>3. \A r : (\E i \in 1 .. n : r \in down[s][i]) =>
               r \in d \/ \E i \in 1 .. n - 1 : r \in down'[s][i]
  <2> SUFFICES ASSUME NEW i \in 1 .. n, NEW r \in down[s][i]
               PROVE  r \in d \/ \E j \in 1 .. n - 1 : r \in down'[s][j]
    OBVIOUS
  <2>1. CASE i = 1
    BY <1>2, <2>1
  <2>2. CASE i # 1
    <3> DEFINE k == i - 1
    <3>1. k \in 1 .. n - 1 /\ down'[s][k] = down[s][i]
      BY <1>2, <2>2
    <3> HIDE DEF k
    <3> QED  BY <3>1
  <2> QED  BY <2>1, <2>2
<1>4. \A r \in rooms' : Known(s, r) => Known(s, r)'
  BY <1>1, <1>2, <1>3 DEF Known, n
<1>5. \A r \in Room \ rooms' :
        r \in topics'[s] \/ Asked(s, r)' =>
          \/ r \in leftover'[s]
          \/ r \notin rooms /\ (r \in topics[s] \/ Asked(s, r)) /\ r \notin leftover[s]
  <2>1. \A r : r \in topics'[s] \/ Asked(s, r)' <=> r \in topics[s] \/ Asked(s, r)
    BY <1>1 DEF Asked
  <2> QED  BY <1>1, <2>1
<1>6. up'[s] = up[s] /\ rooms' \subseteq rooms
  BY <1>1
<1> QED  BY <1>4, <1>5, <1>6, ServeAgreed

LEMMA AnswerAgreed ==
  ASSUME Typed, Session, Agreed, NEW x \in Socket, Answer(x)
  PROVE  Agreed'
<1> SUFFICES ASSUME NEW s \in Socket, s = ws', phase'[s] = "open"
             PROVE  KeepsAt(s)' /\ (~raced' => LeavesAt(s)')
  BY DEF Agreed
<1>1. ws' = ws /\ phase' = phase /\ raced' = raced /\ phase[x] = "open"
  BY DEF Answer, SubscribeFrame, UnsubscribeFrame, CredentialFrame, Receive,
         SubscribeGuards, ExecThrows, Subscribed, Authorize, Revoke, RevalidationEnds,
         Serve, ReceiveAck, session, IsOpen
<1>2. KeepsAt(s) /\ (~raced => LeavesAt(s))
  BY <1>1 DEF Agreed
<1>3. CASE x = s
  <2>1. (KeepsAt(s) => KeepsAt(s)') /\ (LeavesAt(s) => LeavesAt(s)')
    BY <1>3, FrameAgreed, SubscribingAgreed, RevalidationAgreed, AckAgreed DEF Answer
  <2> QED  BY <1>1, <1>2, <2>1
<1>4. CASE x # s
  <2>1. raced
    BY <1>1, <1>4 DEF Session, Live
  <2>2. /\ up'[s] = up[s] /\ down'[s] = down[s] /\ topics'[s] = topics[s]
        /\ subs'[s] = subs[s] /\ revs'[s] = revs[s] /\ refused'[s] = refused[s]
    <3>1. /\ up' = up \/ \E q : up' = [up EXCEPT ![x] = q]
          /\ down' = down \/ \E q : down' = [down EXCEPT ![x] = q]
          /\ topics' = topics \/ \E q : topics' = [topics EXCEPT ![x] = q]
          /\ subs' = subs \/ \E q : subs' = [subs EXCEPT ![x] = q]
          /\ revs' = revs \/ \E q : revs' = [revs EXCEPT ![x] = q]
          /\ refused' = refused \/ \E q : refused' = [refused EXCEPT ![x] = q]
      BY DEF Answer, SubscribeFrame, UnsubscribeFrame, CredentialFrame, Receive,
             SubscribeGuards, ExecThrows, Subscribed, Authorize, Revoke, RevalidationEnds,
             Serve, ReceiveAck, server, history
    <3>2. /\ up \in [Socket -> Seq(Frame)] /\ down \in [Socket -> Seq(SUBSET Room)]
          /\ topics \in [Socket -> SUBSET Room] /\ subs \in [Socket -> SUBSET Subscribing]
          /\ revs \in [Socket -> SUBSET Revalidation] /\ refused \in [Socket -> SUBSET Room]
      BY DEF Typed, ServerTypes
    <3> HIDE DEF Frame, Subscribing, Revalidation
    <3> QED  BY <1>4, <3>1, <3>2
  <2>3. rooms' \subseteq rooms
    BY DEF Answer, SubscribeFrame, UnsubscribeFrame, CredentialFrame, Receive,
           SubscribeGuards, ExecThrows, Subscribed, Authorize, Revoke, RevalidationEnds,
           Serve, ReceiveAck
  <2>4. \A r : Known(s, r)' <=> Known(s, r)
    BY <2>2 DEF Known
  <2>5. KeepsAt(s)'
    BY <1>2, <2>2, <2>3, <2>4 DEF KeepsAt, Wanted, On
  <2> QED  BY <1>1, <2>1, <2>5
<1> QED  BY <1>3, <1>4

LEMMA InitAgreed == Init => Agreed
BY DEF Init, Agreed

LEMMA NextAgreed == Typed /\ Session /\ Agreed /\ [Next]_vars => Agreed'
<1> SUFFICES ASSUME Typed, Session, Agreed, [Next]_vars PROVE Agreed'
  OBVIOUS
<1>1. CASE UNCHANGED vars
  BY <1>1 DEF vars, session, network, server, history, Agreed, KeepsAt, LeavesAt, Wanted, On,
              Known, Asked
<1>2. CASE \/ Connect \/ Destroy
           \/ \E stray \in BOOLEAN : TimerFires(stray)
           \/ \E s \in Socket : Closed(s) \/ Drop(s)
  BY <1>2, ConnectionAgreed
<1>3. CASE SetJwt \/ \E r \in Room : Subscribe(r) \/ Unsubscribe(r)
  BY <1>3, CallAgreed
<1>4. ASSUME NEW s \in Socket, Opened(s) PROVE Agreed'
  BY <1>4, OpenedAgreed
<1>5. ASSUME NEW s \in Socket, Answer(s) PROVE Agreed'
  BY <1>5, AnswerAgreed
<1> QED  BY <1>1, <1>2, <1>3, <1>4, <1>5 DEF Next
-----------------------------------------------------------------------------
(* What follows, for every behaviour *)

IInv == Typed /\ Session /\ Judged /\ Agreed

\* At rest nothing is under way, so what is asked for is there.
LEMMA AgreedSuffices == ASSUME IInv PROVE RoomsAgree
<1> SUFFICES ASSUME AtRest, ~raced
             PROVE  /\ rooms \ topics[ws] \subseteq refused[ws]
                    /\ topics[ws] \ rooms \subseteq leftover[ws]
                    /\ cred[ws] = jwt \/ (~SignedIn(jwt) /\ cred[ws] = 0)
  BY DEF RoomsAgree
<1>1. PICK s \in Socket : s = ws
  BY DEF AtRest, IsOpen, IInv, Typed, ClientTypes, Sockets, Socket
<1>2. /\ phase[s] = "open" /\ Len(up[s]) = 0 /\ Len(down[s]) = 0
      /\ subs[s] = {} /\ revs[s] = {}
  BY <1>1 DEF AtRest, IsOpen
<1>3. KeepsAt(s) /\ LeavesAt(s) /\ Current(s) /\ InOrder(s)
  BY <1>1, <1>2 DEF IInv, Agreed, Judged
<1>4. \A r : ~Wanted(up[s], r) /\ ~On(up[s], "unsub", r)
  BY <1>2 DEF Wanted, On
<1>5. rooms \ topics[s] \subseteq refused[s]
  BY <1>2, <1>3, <1>4 DEF KeepsAt, Known
<1>6. topics[s] \subseteq Room
  BY DEF IInv, Typed, ServerTypes
<1>7. topics[s] \ rooms \subseteq leftover[s]
  BY <1>3, <1>4, <1>6 DEF LeavesAt
<1>8. cred[s] = jwt \/ (~SignedIn(jwt) /\ cred[s] = 0)
  <2>1. cred[s] \in Nat /\ jwt \in Nat /\ cred[s] <= jwt
    BY <1>3, AsTyped DEF InOrder, IInv
  <2>2. jwt <= cred[s] \/ (~SignedIn(jwt) /\ cred[s] = 0)
    BY <1>2, <1>3 DEF Current, Told
  <2> QED  BY <2>1, <2>2
<1> QED  BY <1>1, <1>5, <1>7, <1>8

LEMMA TypedSuffices == ASSUME Typed PROVE TypeOK
<1>1. Flags /\ Numbers /\ Sockets /\ Ended /\ Counted /\ RoomTypes /\ ServerTypes /\ Blanks
  BY DEF Typed, ClientTypes
<1>2. strays \in 0 .. MaxDrops + MaxCalls
  <2>1. Cardinality(Closing) \in Nat
    BY ClosingFinite, FS_CardinalityType
  <2>2. MaxDrops \in Nat /\ MaxCalls \in Nat
    BY WsClientAssumption DEF WsClientAssumption
  <2>3. strays <= calls + drops
    BY <1>1, <2>1 DEF Counted, Numbers
  <2> QED  BY <1>1, <2>2, <2>3 DEF Numbers
<1>3. jwt \in Token
  BY <1>1, TokenOf DEF Numbers
<1>4. \A s \in Socket : phase[s] # "open" => up[s] = <<>> /\ down[s] = <<>> /\ subs[s] = {}
  BY <1>1 DEF Blanks, Blank
<1>5. /\ timer \in BOOLEAN /\ destroyed \in BOOLEAN /\ asked \in BOOLEAN /\ raced \in BOOLEAN
      /\ destroyed => ws = 0 /\ ~timer
  BY <1>1 DEF Flags, Ended
<1>6. /\ \A s \in Socket :
           /\ up[s] \in Seq(Frame) /\ down[s] \in Seq(SUBSET Room)
           /\ subs[s] \subseteq Subscribing /\ revs[s] \subseteq Revalidation
      /\ cred \in [Socket -> Token] /\ topics \in [Socket -> SUBSET Room]
      /\ refused \in [Socket -> SUBSET Room] /\ leftover \in [Socket -> SUBSET Room]
  BY <1>1 DEF ServerTypes
<1>7. /\ ws \in 0 .. MaxSockets
      /\ phase \in [Socket -> {"connecting", "open", "closing", "closed"}]
      /\ ws # 0 => phase[ws] \in {"connecting", "open"}
      /\ calls \in 0 .. MaxCalls /\ drops \in 0 .. MaxDrops /\ rooms \subseteq Room
  BY <1>1 DEF Sockets, Numbers, RoomTypes
<1> HIDE DEF Frame, Subscribing, Revalidation, Token, Socket
<1> QED  BY <1>2, <1>3, <1>4, <1>5, <1>6, <1>7 DEF TypeOK

\* The inductive invariant: it holds at first, and no step breaks it.
THEOREM ClientInvariant == Spec => []IInv
<1>1. Init => IInv
  BY InitTyped, InitSession, InitJudged, InitAgreed DEF IInv
<1>2. IInv /\ [Next]_vars => IInv'
  BY NextTyped, NextSession, NextJudged, NextAgreed DEF IInv
<1> QED  BY <1>1, <1>2, PTL DEF Spec

\* Every variable keeps its type: no more timers run than calls and lost
\* connections account for, and a destroyed client remembers no socket.
THEOREM TypeCorrect == Spec => []TypeOK
<1>1. IInv => TypeOK
  BY TypedSuffices DEF IInv
<1> QED  BY <1>1, ClientInvariant, PTL

\* However often #scheduleReconnect runs, one socket or one timer lives, and none
\* after destroy(); unless connect() met a timer, or a socket still closing.
THEOREM OneSessionCorrect == Spec => []OneSession
<1>1. IInv => OneSession
  BY SessionIsOne DEF IInv
<1> QED  BY <1>1, ClientInvariant, PTL

\* The guards of a subscribe run with a token no older than the one the client
\* had when it asked: onopen and setJwt send the token before the rooms.
THEOREM JudgedCorrect == Spec => []JudgedByLatest
<1>1. IInv => JudgedByLatest
  BY JudgedSuffices DEF IInv
<1> QED  BY <1>1, ClientInvariant, PTL

\* When all is answered the server has subscribed the socket to the rooms of
\* #roomSubscribeMap, under the client's token, but for refused and missed ones.
THEOREM RoomsAgreeCorrect == Spec => []RoomsAgree
<1>1. IInv => RoomsAgree
  BY AgreedSuffices
<1> QED  BY <1>1, ClientInvariant, PTL
=============================================================================
