------------------------- MODULE SocketRoomsProofs -------------------------
(***************************************************************************)
(* Proofs about SocketRooms for every set of rooms, every set of guarded   *)
(* ones and every number of frames.                                        *)
(***************************************************************************)
EXTENDS SocketRooms, TLAPS

----------------------------------------------------------------------------
(* A handler that has passed the guards of a guarded room did so with the  *)
(* credential of a signed-in socket.                                       *)
PassedGuards ==
  \A h \in subs : h.under # "none" => h.room \notin Guarded \/ h.under = "in"

(* A room the socket should not hear any more is still to be revoked: a    *)
(* revalidation has it ahead of it, or is about to drop it.                *)
AheadOf(v) == v.todo \union (IF v.verdict = "pass" THEN {} ELSE v.at)

Revocable ==
  \A r \in topics :
    \/ Allowed(r)
    \/ r \in late \union lost
    \/ \E v \in revs : r \in AheadOf(v)

IInv ==
  /\ TypeOK
  /\ HeardIsRouted
  /\ GhostsAreLate
  /\ UntrackedIsLost
  /\ PassedGuards
  /\ Revocable

----------------------------------------------------------------------------
LEMMA InitInv == Init => IInv
BY SocketRoomsAssumption
   DEF Init, IInv, TypeOK, HeardIsRouted, GhostsAreLate, UntrackedIsLost,
       PassedGuards, Revocable, Frame, Credential, Subscribing, Revalidation, Live

(* Every step keeps the types. *)
LEMMA TypeStep ==
  ASSUME TypeOK, [Next]_vars
  PROVE  TypeOK'
<1> USE SocketRoomsAssumption DEF TypeOK, Frame, Credential
<1>1. ASSUME NEW r \in Room, SubscribeFrame(r)  PROVE TypeOK'
  BY <1>1 DEF SubscribeFrame, ReceiveFrame, Subscribing, rooms, history
<1>2. ASSUME NEW r \in Room, UnsubscribeFrame(r)  PROVE TypeOK'
  BY <1>2 DEF UnsubscribeFrame, ReceiveFrame, history
<1>3. ASSUME NEW c \in Credential, CredentialFrame(c)  PROVE TypeOK'
  <2> SUFFICES revs' \subseteq Revalidation
    BY <1>3 DEF CredentialFrame, ReceiveFrame, rooms, history
  <2> QED  BY <1>3 DEF CredentialFrame, ReceiveFrame, Revalidation, Live
<1>4. ASSUME NEW h \in subs, SubscribeGuards(h)  PROVE TypeOK'
  <2>1. [h EXCEPT !.under = cred] \in Subscribing
    BY DEF Subscribing
  <2> QED  BY <1>4, <2>1 DEF SubscribeGuards, rooms, history
<1>5. ASSUME NEW h \in subs, ExecThrows(h)  PROVE TypeOK'
  BY <1>5 DEF ExecThrows, rooms, history
<1>6. ASSUME NEW h \in subs, Subscribed(h)  PROVE TypeOK'
  <2>1. h.id \in Frame /\ h.room \in Room
    BY DEF Subscribing
  <2> QED  BY <1>6, <2>1 DEF Subscribed
<1>7. ASSUME NEW v \in revs, Authorize(v)  PROVE TypeOK'
  <2>1. \A w \in {"pass", "fail"} : [v EXCEPT !.verdict = w] \in Revalidation
    BY DEF Revalidation
  <2> QED  BY <1>7, <2>1 DEF Authorize, rooms, history
<1>8. ASSUME NEW v \in revs  PROVE v.map \in Frame /\ v.at \subseteq Room /\ v.todo \subseteq Room
  BY DEF Revalidation
<1>9. ASSUME NEW v \in revs, NextRoom(v)  PROVE TypeOK'
  <2>1. \A r \in v.todo :
          [v EXCEPT !.at = {r}, !.todo = @ \ {r}, !.verdict = "none"] \in Revalidation
    BY DEF Revalidation
  <2> QED  BY <1>8, <1>9, <2>1 DEF NextRoom, Revoke, Revoked, history
<1>10. ASSUME NEW v \in revs, RevalidationEnds(v)  PROVE TypeOK'
  BY <1>8, <1>10 DEF RevalidationEnds, Revoke, Revoked, Live
<1>11. CASE Close
  <2>1. 0 \in 0 .. MaxFrames
    OBVIOUS
  <2> QED  BY <1>11, <2>1, Zenon DEF Close
<1>12. CASE UNCHANGED vars
  BY <1>12 DEF vars, rooms, history
<1> QED
  BY <1>1, <1>2, <1>3, <1>4, <1>5, <1>6, <1>7, <1>9, <1>10, <1>11, <1>12 DEF Next

----------------------------------------------------------------------------
(* What is heard, joined and tracked. *)

LEMMA RoomsStep ==
  ASSUME TypeOK, HeardIsRouted, GhostsAreLate, UntrackedIsLost, [Next]_vars
  PROVE  HeardIsRouted' /\ GhostsAreLate' /\ UntrackedIsLost'
<1> USE SocketRoomsAssumption
    DEF TypeOK, Frame, HeardIsRouted, GhostsAreLate, UntrackedIsLost, Live
<1>1. ASSUME UNCHANGED <<open, topics, maps, cur, joined, late, lost>>
      PROVE  HeardIsRouted' /\ GhostsAreLate' /\ UntrackedIsLost'
  BY <1>1
<1>2. ASSUME NEW r \in Room, UnsubscribeFrame(r)
      PROVE  HeardIsRouted' /\ GhostsAreLate' /\ UntrackedIsLost'
  <2>1. CASE cur = 0
    BY <1>2, <2>1 DEF UnsubscribeFrame, ReceiveFrame, history
  <2>2. CASE cur # 0
    <3>1. open /\ open' = open /\ late' = late /\ lost' = lost
      BY <1>2 DEF UnsubscribeFrame, ReceiveFrame, history
    <3>2. topics' = topics \ {r} /\ joined' = joined \ {r}
      BY <1>2, <2>2 DEF UnsubscribeFrame
    <3>3. Live' = Live \ {r}
      BY <1>2, <2>2 DEF UnsubscribeFrame
    <3> QED  BY <2>2, <3>1, <3>2, <3>3
  <2> QED  BY <2>1, <2>2
<1>3. ASSUME NEW h \in subs, Subscribed(h)
      PROVE  HeardIsRouted' /\ GhostsAreLate' /\ UntrackedIsLost'
  <2>1. h.id \in Frame /\ h.room \in Room
    BY DEF Subscribing
  <2>2. open' = open /\ joined' = joined \union {h.room} /\ lost' = lost \ {h.room}
        /\ topics' = IF open THEN topics \union {h.room} ELSE topics
    BY <1>3 DEF Subscribed
  <2>3. Live \union {h.room} \subseteq Live'
    BY <1>3, <2>1 DEF Subscribed
  <2>4. ~open => late' = late \union {h.room}
    BY <1>3 DEF Subscribed
  <2> QED  BY <2>2, <2>3, <2>4
<1>4. ASSUME NEW v \in revs, NextRoom(v)
      PROVE  HeardIsRouted' /\ GhostsAreLate' /\ UntrackedIsLost'
  <2>1. v.map \in Frame
    BY DEF Revalidation
  <2>2. open' = open /\ cur' = cur /\ late' = late /\ lost' = lost
        /\ topics' = topics \ Revoked(v) /\ joined' = joined \ Revoked(v)
        /\ maps' = [maps EXCEPT ![v.map] = @ \ Revoked(v)]
    BY <1>4 DEF NextRoom, Revoke, history
  <2>3. Live \ Revoked(v) \subseteq Live'
    BY <2>1, <2>2
  <2> QED  BY <2>2, <2>3
<1>5. ASSUME NEW v \in revs, RevalidationEnds(v)
      PROVE  HeardIsRouted' /\ GhostsAreLate' /\ UntrackedIsLost'
  <2>1. v.map \in Frame
    BY DEF Revalidation
  <2>2. open' = open /\ late' = late
        /\ topics' = topics \ Revoked(v) /\ joined' = joined \ Revoked(v)
        /\ maps' = [maps EXCEPT ![v.map] = @ \ Revoked(v)]
    BY <1>5 DEF RevalidationEnds, Revoke
  <2>3. lost \subseteq lost' /\ Live \ Revoked(v) \subseteq Live' \union lost'
    BY <1>5, <2>1, <2>2 DEF RevalidationEnds
  <2> QED  BY <2>2, <2>3
<1>6. CASE Close
  BY <1>6 DEF Close
<1>7. ASSUME NEW r \in Room, SubscribeFrame(r)
      PROVE  HeardIsRouted' /\ GhostsAreLate' /\ UntrackedIsLost'
  BY <1>1, <1>7 DEF SubscribeFrame, rooms, history
<1>8. ASSUME NEW c \in Credential, CredentialFrame(c)
      PROVE  HeardIsRouted' /\ GhostsAreLate' /\ UntrackedIsLost'
  BY <1>1, <1>8 DEF CredentialFrame, rooms, history
<1>9. ASSUME NEW h \in subs, SubscribeGuards(h) \/ ExecThrows(h)
      PROVE  HeardIsRouted' /\ GhostsAreLate' /\ UntrackedIsLost'
  BY <1>1, <1>9 DEF SubscribeGuards, ExecThrows, rooms, history
<1>10. ASSUME NEW v \in revs, Authorize(v)
       PROVE  HeardIsRouted' /\ GhostsAreLate' /\ UntrackedIsLost'
  BY <1>1, <1>10 DEF Authorize, rooms, history
<1>11. CASE UNCHANGED vars
  BY <1>1, <1>11 DEF vars, rooms, history
<1> QED
  BY <1>2, <1>3, <1>4, <1>5, <1>6, <1>7, <1>8, <1>9, <1>10, <1>11, Zenon DEF Next

----------------------------------------------------------------------------
(* What the credential opens. *)

LEMMA GuardsStep ==
  ASSUME TypeOK, PassedGuards, [Next]_vars
  PROVE  PassedGuards'
<1> USE DEF PassedGuards
<1>1. ASSUME subs' \subseteq subs  PROVE PassedGuards'
  BY <1>1
<1>2. ASSUME NEW r \in Room, SubscribeFrame(r)  PROVE PassedGuards'
  BY <1>2 DEF SubscribeFrame
<1>3. ASSUME NEW h \in subs, SubscribeGuards(h)  PROVE PassedGuards'
  <2>1. ASSUME Allowed(h.room)
        PROVE  [h EXCEPT !.under = cred].room = h.room /\ [h EXCEPT !.under = cred].under = cred
    BY DEF TypeOK, Subscribing
  <2> DEFINE passed == [h EXCEPT !.under = cred]
  <2>2. subs' \subseteq subs \/ (Allowed(h.room) /\ subs' = (subs \ {h}) \union {passed})
    BY <1>3 DEF SubscribeGuards
  <2>3. Allowed(h.room) => passed.room = h.room /\ passed.under = cred
    BY <2>1
  <2> HIDE DEF passed
  <2> QED  BY <2>2, <2>3 DEF Allowed
<1>4. ASSUME NEW h \in subs, ExecThrows(h) \/ Subscribed(h)  PROVE PassedGuards'
  BY <1>4 DEF ExecThrows, Subscribed
<1>5. ASSUME NEW r \in Room, UnsubscribeFrame(r)  PROVE PassedGuards'
  BY <1>5 DEF UnsubscribeFrame
<1>6. ASSUME NEW c \in Credential, CredentialFrame(c)  PROVE PassedGuards'
  BY <1>6 DEF CredentialFrame
<1>7. ASSUME NEW v \in revs, Authorize(v) \/ NextRoom(v) \/ RevalidationEnds(v)
      PROVE  PassedGuards'
  BY <1>7 DEF Authorize, NextRoom, RevalidationEnds
<1>8. CASE Close \/ UNCHANGED vars
  BY <1>8 DEF Close, vars
<1> QED
  BY <1>2, <1>3, <1>4, <1>5, <1>6, <1>7, <1>8, Zenon DEF Next

(* A step keeps Revocable if each room heard after it that needs revoking  *)
(* was heard before it, and the revalidation that had it ahead still has.  *)
LEMMA RevokeLater ==
  ASSUME Revocable,
         topics' \subseteq topics, UNCHANGED <<cred, late>>, lost \subseteq lost',
         \A v \in revs, r \in topics' :
           r \in AheadOf(v) => Allowed(r) \/ \E w \in revs' : r \in AheadOf(w)
  PROVE  Revocable'
<1>1. \A w : AheadOf(w)' = AheadOf(w)
  BY DEF AheadOf
<1> QED  BY <1>1 DEF Revocable, Allowed

LEMMA RevocableStep ==
  ASSUME TypeOK, UntrackedIsLost, PassedGuards, Revocable, [Next]_vars
  PROVE  Revocable'
<1>1. ASSUME topics' \subseteq topics, UNCHANGED <<cred, late, lost, revs>>
      PROVE  Revocable'
  BY <1>1, RevokeLater, Zenon
<1>2. ASSUME NEW r \in Room, SubscribeFrame(r) \/ UnsubscribeFrame(r)
      PROVE  Revocable'
  BY <1>1, <1>2 DEF SubscribeFrame, UnsubscribeFrame, rooms, history
<1>3. ASSUME NEW c \in Credential, CredentialFrame(c)
      PROVE  Revocable'
  <2>1. topics' = topics /\ late' = late /\ lost' = lost
    BY <1>3 DEF CredentialFrame, rooms, history
  <2>2. CASE Live = {}
    BY <2>1, <2>2 DEF UntrackedIsLost, Revocable
  <2>3. CASE Live # {}
    <3>1. PICK w \in revs' : AheadOf(w) = Live
      <4>1. PICK r \in Live : [id |-> frames + 1, map |-> cur, at |-> {r},
                               todo |-> Live \ {r}, verdict |-> "none"] \in revs'
        BY <1>3, <2>3 DEF CredentialFrame
      <4> DEFINE w == [id |-> frames + 1, map |-> cur, at |-> {r},
                       todo |-> Live \ {r}, verdict |-> "none"]
      <4>2. AheadOf(w) = Live
        BY DEF AheadOf
      <4> QED  BY <4>1, <4>2
    <3>2. AheadOf(w)' = AheadOf(w)
      BY DEF AheadOf
    <3> QED  BY <2>1, <3>1, <3>2 DEF UntrackedIsLost, Revocable
  <2> QED  BY <2>2, <2>3
<1>4. ASSUME NEW h \in subs, SubscribeGuards(h) \/ ExecThrows(h)
      PROVE  Revocable'
  BY <1>1, <1>4 DEF SubscribeGuards, ExecThrows, rooms, history
<1>5. ASSUME NEW h \in subs, Subscribed(h)
      PROVE  Revocable'
  <2>1. \A w : AheadOf(w)' = AheadOf(w)
    BY DEF AheadOf
  <2>2. cred' = cred /\ revs' = revs /\ topics' \subseteq topics \union {h.room}
        /\ lost' = lost \ {h.room}
        /\ late' = IF open /\ h.under = cred THEN late \ {h.room} ELSE late \union {h.room}
    BY <1>5 DEF Subscribed
  <2>3. h.under = cred => Allowed(h.room)
    BY <1>5 DEF Subscribed, PassedGuards, Allowed
  <2> QED  BY <2>1, <2>2, <2>3 DEF Revocable, Allowed
<1>6. ASSUME NEW v \in revs, Authorize(v)
      PROVE  Revocable'
  <2> DEFINE verdict == IF \A r \in v.at : Allowed(r) THEN "pass" ELSE "fail"
             w == [v EXCEPT !.verdict = verdict]
  <2>1. v.verdict = "none" /\ revs' = (revs \ {v}) \union {w}
        /\ topics' = topics /\ UNCHANGED <<cred, late, lost>>
    BY <1>6 DEF Authorize, rooms, history
  <2>2. w.todo = v.todo /\ w.at = v.at /\ w.verdict = verdict
    BY DEF TypeOK, Revalidation
  <2>3. \A r \in AheadOf(v) : Allowed(r) \/ r \in AheadOf(w)
    <3>1. CASE \A r \in v.at : Allowed(r)
      BY <2>1, <2>2, <3>1 DEF AheadOf
    <3>2. CASE ~ \A r \in v.at : Allowed(r)
      BY <2>1, <2>2, <3>2 DEF AheadOf
    <3> QED  BY <3>1, <3>2
  <2> HIDE DEF w
  <2> QED  BY <2>1, <2>3, RevokeLater
<1>7. ASSUME NEW v \in revs, NextRoom(v)
      PROVE  Revocable'
  <2>1. topics' = topics \ Revoked(v) /\ UNCHANGED <<cred, late, lost>>
    BY <1>7 DEF NextRoom, Revoke, history
  <2>2. PICK r \in v.todo :
          revs' = (revs \ {v}) \union
                  {[v EXCEPT !.at = {r}, !.todo = v.todo \ {r}, !.verdict = "none"]}
    BY <1>7 DEF NextRoom
  <2> DEFINE w == [v EXCEPT !.at = {r}, !.todo = v.todo \ {r}, !.verdict = "none"]
  <2>3. w.todo = v.todo \ {r} /\ w.at = {r} /\ w.verdict = "none"
    BY DEF TypeOK, Revalidation
  <2>4. v.verdict \in {"pass", "fail"}
    BY <1>7 DEF NextRoom, TypeOK, Revalidation
  <2>5. AheadOf(v) \ Revoked(v) \subseteq AheadOf(w)
    BY <2>3, <2>4 DEF AheadOf, Revoked
  <2>6. w \in revs' /\ revs \ {v} \subseteq revs'
    BY <2>2
  <2> HIDE DEF w
  <2> QED  BY <2>1, <2>5, <2>6, RevokeLater
<1>8. ASSUME NEW v \in revs, RevalidationEnds(v)
      PROVE  Revocable'
  <2>1. topics' = topics \ Revoked(v) /\ revs' = revs \ {v}
        /\ UNCHANGED <<cred, late>> /\ lost \subseteq lost'
    BY <1>8 DEF RevalidationEnds, Revoke
  <2>2. v.verdict \in {"pass", "fail"} /\ v.todo = {}
    BY <1>8 DEF RevalidationEnds, TypeOK, Revalidation
  <2>3. AheadOf(v) \subseteq Revoked(v)
    BY <2>2 DEF AheadOf, Revoked
  <2> QED  BY <2>1, <2>3, RevokeLater
<1>9. CASE Close
  BY <1>9 DEF Close, Revocable
<1>10. CASE UNCHANGED vars
  BY <1>1, <1>10 DEF vars, rooms, history
<1> QED
  BY <1>2, <1>3, <1>4, <1>5, <1>6, <1>7, <1>8, <1>9, <1>10, Zenon DEF Next

----------------------------------------------------------------------------
LEMMA NextInv == IInv /\ [Next]_vars => IInv'
BY TypeStep, RoomsStep, GuardsStep, RevocableStep, Zenon DEF IInv

(* The inductive invariant: the types, the three invariants about who      *)
(* holds a room, the guards that subscribes in progress have passed, and   *)
(* that a revalidation has ahead of it what is still to be revoked.        *)
THEOREM SocketInvariant == Spec => []IInv
BY InitInv, NextInv, PTL DEF Spec

(* The variables of a socket keep their types. *)
THEOREM TypeCorrect == Spec => []TypeOK
<1>1. IInv => TypeOK
  BY DEF IInv
<1> QED  BY <1>1, SocketInvariant, PTL

(* Every room a socket hears is routed to its child by the gateway, and no *)
(* other is, unless a revalidation has thrown its context away.            *)
THEOREM RoutingCorrect == Spec => []HeardIsRouted
<1>1. IInv => HeardIsRouted
  BY DEF IInv
<1> QED  BY <1>1, SocketInvariant, PTL

(* Only a subscribe that the close of the socket has overtaken leaves a    *)
(* room behind.                                                            *)
THEOREM GhostsCorrect == Spec => []GhostsAreLate
<1>1. IInv => GhostsAreLate
  BY DEF IInv
<1> QED  BY <1>1, SocketInvariant, PTL

(* A room escapes the revalidations only when its context was thrown away  *)
(* by a revalidation that began with an older Map.                         *)
THEOREM TrackingCorrect == Spec => []UntrackedIsLost
<1>1. IInv => UntrackedIsLost
  BY DEF IInv
<1> QED  BY <1>1, SocketInvariant, PTL

(* Rooms outlive a change of the credential only through the two races     *)
(* that late and lost record.                                              *)
THEOREM CredentialCorrect == Spec => []RoomsMatchCredential
<1>1. IInv => RoomsMatchCredential
  BY DEF IInv, Revocable, RoomsMatchCredential
<1> QED  BY <1>1, SocketInvariant, PTL

(* The topics, the contexts and the adaptor hold the same rooms, but for   *)
(* those whose context was thrown away.                                    *)
THEOREM PlacesCorrect == Spec => []PlacesAgree
<1>1. HeardIsRouted /\ UntrackedIsLost => PlacesAgree
  BY DEF PlacesAgree
<1> QED  BY <1>1, RoutingCorrect, TrackingCorrect, PTL

(* Neither a close nor a credential leaves a room behind, but for the two  *)
(* races that late and lost record.                                        *)
THEOREM LateCorrect == Spec => []LateRoomsOnly
<1>1. GhostsAreLate /\ RoomsMatchCredential => LateRoomsOnly
  BY DEF LateRoomsOnly
<1> QED  BY <1>1, GhostsCorrect, CredentialCorrect, PTL
=============================================================================
