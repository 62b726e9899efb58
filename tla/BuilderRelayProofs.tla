------------------------ MODULE BuilderRelayProofs ------------------------
(***************************************************************************)
(* Proofs about BuilderRelay for every number of server processes,         *)
(* requests and gateways, every limit of held requests and every bound.    *)
(*                                                                         *)
(* IInv says of every entry of the three tables whose it is: a request     *)
(* held or accepted under a number of the present gateway is the one that  *)
(* the gateway has under that number, and each request that waits is under *)
(* such an entry.  The sequences matter by their elements only, so a step  *)
(* is described by what it moves from held to accepted (Moves) and by what *)
(* it answers (Settles), and the invariant is proved of the two together.  *)
(***************************************************************************)
EXTENDS BuilderRelay, SequenceTheorems, FiniteSetTheorems, TLAPS

(* What the variables hold: entries of #builderReqMap, of #inFlight of the *)
(* router, of the builder and of the host's queue.                         *)
Route == [kid : Kid, local : 1..MaxAsks]
Tables == UNION {[D -> Route] : D \in SUBSET (1..MaxAsks)}
Gateway == [gen : 1..MaxGateways, phase : {"down", "booting", "ready"}, next : 1..MaxAsks + 1,
            map : Tables]
Flight == [backendId : 1..MaxAsks, generation : 1..MaxGateways]
Flights == UNION {[D -> Flight] : D \in SUBSET Nat}
Router == [generation : 1..MaxGateways, next : Nat \ {0}, inFlight : Flights]
Accept == [id : Nat, who : Request]
Answer == [id : Nat, ok : BOOLEAN, who : Request]
Builder == [status : {"starting", "ready", "recycling", "restarting", "stopped"},
            proc : BOOLEAN, ready : BOOLEAN]
Results(res) == res \in [DOMAIN res -> {"waiting", "ended"}] /\ DOMAIN res \subseteq Request

Types ==
  /\ gw \in Gateway
  /\ kid \in [Kid -> [epoch : 0..MaxDeaths, up : BOOLEAN]]
  /\ Results(result) /\ IsFiniteSet(DOMAIN result)
  /\ router \in Router
  /\ held \in Seq(Message)
  /\ queue \in Seq(Answer)
  /\ work \in Seq(Accept)
  /\ bh \in Builder
  /\ mode \in Modes /\ attempt \in 0..StartAttempts
  /\ dropped \subseteq DOMAIN result
  /\ faults \in [kid : 0..MaxDeaths, builder : Nat]

(* The requests that a builder accepted and whose answers are not handled: *)
(* with the builder, or answered and in the queue.                         *)
Accepted == {[id |-> x.id, who |-> x.who] : x \in Range(work) \union Range(queue)}

(* Request m.who goes under number m.id of gateway g: if the present       *)
(* gateway gave the number, its table has that request there or nothing    *)
(* any more, and the request is not from a process yet to come.            *)
Right(m, g, kd) ==
  /\ m.who.gen <= g.gen
  /\ m.who.gen = g.gen =>
       /\ m.id < g.next
       /\ m.id \in DOMAIN g.map => g.map[m.id] = [kid |-> m.who.kid, local |-> m.who.id]
       /\ g.phase # "down" => m.who.epoch <= kd[m.who.kid].epoch

HeldRight(H, g, kd) == \A m \in H : Right(m, g, kd)

(* An accepted request is right under the number that its answer will be   *)
(* given; without an entry of this generation no answer is.                *)
AcceptedRight(A, rt, g, kd) ==
  \A x \in A :
    /\ x.id < rt.next /\ x.who.gen <= g.gen
    /\ x.id \in DOMAIN rt.inFlight /\ rt.inFlight[x.id].generation = g.gen
         => Right([id |-> rt.inFlight[x.id].backendId, who |-> x.who], g, kd)

(* The requests of the process that made r.                                *)
Peers(r, D) == {q \in D : q.gen = r.gen /\ q.kid = r.kid /\ q.epoch = r.epoch}

(* Processes and gateways number from 1 without gaps, so the next number   *)
(* is fresh.                                                               *)
Numbered(D, g, kd) ==
  /\ \A r \in D :
       /\ r.gen <= g.gen
       /\ r.gen = g.gen /\ g.phase # "down" => r.epoch <= kd[r.kid].epoch
       /\ r.id <= Cardinality(Peers(r, D))
  /\ Cardinality(D) <= MaxAsks
  /\ g.next <= Cardinality(D) + 1
  /\ \A n \in DOMAIN g.map : n < g.next

Counted ==
  /\ \A k \in Kid : kid[k].epoch <= faults.kid
  /\ router.generation = gw.gen

Flown(rt) == \A h \in DOMAIN rt.inFlight : h < rt.next

(* A gateway that is down has lost its table and its processes, and while  *)
(* the host replaces it nothing else starts one.                           *)
Phases ==
  /\ gw.phase = "down" => gw.map = << >> /\ \A k \in Kid : kid[k] = [epoch |-> 0, up |-> FALSE]
  /\ mode \in {"recycling", "reloading"} => gw.phase = "down" /\ gw.gen < MaxGateways

(* Request r, number n of the gateway, is held, or in the host's table     *)
(* under a number that a builder accepted.                                 *)
Carried(n, r, gen, rt, H, A) ==
  \/ [id |-> n, who |-> r] \in H
  \/ \E h \in DOMAIN rt.inFlight :
       /\ rt.inFlight[h] = [backendId |-> n, generation |-> gen]
       /\ \E x \in A : x.id = h

(* Who waits is a process that is up, and its request is carried or was    *)
(* answered before the gateway was ready.                                  *)
Waits(g, kd, res, rt, H, A, D) ==
  \A r \in DOMAIN res : res[r] = "waiting" =>
    /\ r.gen = g.gen /\ g.phase # "down" /\ kd[r.kid] = [epoch |-> r.epoch, up |-> TRUE]
    /\ \/ r \in D
       \/ \E n \in DOMAIN g.map :
            /\ g.map[n] = [kid |-> r.kid, local |-> r.id]
            /\ Carried(n, r, g.gen, rt, H, A)

(* The inductive invariant.                                                *)
IInv ==
  /\ Types
  /\ HeldRight(Range(held), gw, kid)
  /\ AcceptedRight(Accepted, router, gw, kid)
  /\ Numbered(DOMAIN result, gw, kid)
  /\ Counted
  /\ Flown(router)
  /\ Phases
  /\ Waits(gw, kid, result, router, Range(held), Accepted, dropped)
  /\ ForeignAnswersAreOlder

----------------------------------------------------------------------------
(* Tables, and the elements of sequences.                                  *)
LEMMA TableIs ==
  ASSUME NEW D, NEW R, NEW f
  PROVE  f \in UNION {[S -> R] : S \in SUBSET D} <=> f \in [DOMAIN f -> R] /\ DOMAIN f \subseteq D
OBVIOUS

LEMMA InSeq ==
  ASSUME NEW T, NEW s \in Seq(T)
  PROVE  Range(s) \subseteq T /\ DOMAIN s = 1..Len(s) /\ Len(s) \in Nat
BY DEF Range

LEMMA AppendRange ==
  ASSUME NEW T, NEW s \in Seq(T), NEW x \in T
  PROVE  Append(s, x) \in Seq(T) /\ Range(Append(s, x)) = Range(s) \union {x}
<1>1. Append(s, x) \in Seq(T) /\ Len(Append(s, x)) = Len(s) + 1 /\ Len(s) \in Nat
  OBVIOUS
<1>2. \A i \in 1..Len(s) : Append(s, x)[i] = s[i]
  OBVIOUS
<1>3. Append(s, x)[Len(s) + 1] = x
  OBVIOUS
<1>4. DOMAIN Append(s, x) = 1..(Len(s) + 1) /\ DOMAIN s = 1..Len(s)
  BY <1>1
<1>5. 1..(Len(s) + 1) = (1..Len(s)) \union {Len(s) + 1}
  BY <1>1
<1> QED  BY <1>1, <1>2, <1>3, <1>4, <1>5 DEF Range

LEMMA ConcatRange ==
  ASSUME NEW T, NEW s \in Seq(T), NEW t \in Seq(T)
  PROVE  s \o t \in Seq(T) /\ Range(s \o t) = Range(s) \union Range(t)
<1>1. s \o t \in Seq(T) /\ Len(s \o t) = Len(s) + Len(t) /\ Len(s) \in Nat /\ Len(t) \in Nat
  OBVIOUS
<1>2. \A i \in 1..Len(s) : (s \o t)[i] = s[i] /\ i \in 1..(Len(s) + Len(t))
  BY <1>1
<1>3. \A i \in 1..Len(t) : (s \o t)[Len(s) + i] = t[i] /\ Len(s) + i \in 1..(Len(s) + Len(t))
  BY <1>1
<1>4. \A i \in 1..(Len(s) + Len(t)) : i \notin 1..Len(s) => (s \o t)[i] = t[i - Len(s)] /\ i - Len(s) \in 1..Len(t)
  BY <1>1
<1>5. DOMAIN (s \o t) = 1..(Len(s) + Len(t)) /\ DOMAIN s = 1..Len(s) /\ DOMAIN t = 1..Len(t)
  BY <1>1
<1>6. Range(s \o t) \subseteq Range(s) \union Range(t)
  BY <1>2, <1>4, <1>5 DEF Range
<1>7. Range(s) \subseteq Range(s \o t)
  BY <1>2, <1>5 DEF Range
<1>8. Range(t) \subseteq Range(s \o t)
  BY <1>3, <1>5 DEF Range
<1> QED  BY <1>1, <1>6, <1>7, <1>8

LEMMA TailRange ==
  ASSUME NEW T, NEW s \in Seq(T), s # << >>
  PROVE  /\ Tail(s) \in Seq(T) /\ Head(s) \in T
         /\ Range(s) = Range(Tail(s)) \union {Head(s)}
<1>1. Tail(s) \in Seq(T) /\ Len(Tail(s)) = Len(s) - 1 /\ Len(s) \in Nat /\ Len(s) > 0
  OBVIOUS
<1>2. \A i \in 1..(Len(s) - 1) : Tail(s)[i] = s[i + 1] /\ i + 1 \in 1..Len(s)
  BY <1>1
<1>3. Head(s) = s[1] /\ 1 \in 1..Len(s)
  BY <1>1
<1>4. \A i \in 1..Len(s) : i # 1 => s[i] = Tail(s)[i - 1] /\ i - 1 \in 1..(Len(s) - 1)
  BY <1>1
<1>5. DOMAIN Tail(s) = 1..(Len(s) - 1) /\ DOMAIN s = 1..Len(s)
  BY <1>1
<1>6. Range(Tail(s)) \subseteq Range(s)
  BY <1>2, <1>5 DEF Range
<1>7. Range(s) \subseteq Range(Tail(s)) \union {Head(s)}
  BY <1>3, <1>4, <1>5 DEF Range
<1>8. Head(s) \in Range(s) /\ Range(s) \subseteq T
  BY <1>3, <1>5 DEF Range
<1> QED  BY <1>1, <1>6, <1>7, <1>8

LEMMA PrefixRange ==
  ASSUME NEW T, NEW s \in Seq(T), NEW m \in Nat, m <= Len(s)
  PROVE  /\ SubSeq(s, 1, m) \in Seq(T) /\ Len(SubSeq(s, 1, m)) = m
         /\ Range(SubSeq(s, 1, m)) = {s[i] : i \in 1..m}
<1>1. SubSeq(s, 1, m) \in Seq(T) /\ Len(SubSeq(s, 1, m)) = m
  OBVIOUS
<1>2. \A i \in 1..m : SubSeq(s, 1, m)[i] = s[i]
  OBVIOUS
<1>3. DOMAIN SubSeq(s, 1, m) = 1..m
  BY <1>1
<1> QED  BY <1>1, <1>2, <1>3 DEF Range

LEMMA EmptyRange == Range(<< >>) = {} /\ DOMAIN << >> = {}
BY DEF Range

----------------------------------------------------------------------------
(* The requests under the numbers R of gateway g are answered: nothing     *)
(* else leaves the table, and nobody still waits for one of R but those    *)
(* that were told before the gateway was ready.                            *)
Settles(g, kd, res, R, D, g2, res2, D2) ==
  /\ g2 \in Gateway /\ g2.gen = g.gen /\ g2.phase = g.phase /\ g2.next = g.next
  /\ \A n \in DOMAIN g2.map : n \in DOMAIN g.map /\ g2.map[n] = g.map[n]
  /\ \A n \in DOMAIN g.map : n \in DOMAIN g2.map \/ n \in R
  /\ Results(res2) /\ DOMAIN res2 = DOMAIN res
  /\ \A r \in DOMAIN res : res2[r] \in {res[r], "ended"}
  /\ D \subseteq D2 /\ D2 \subseteq D \union DOMAIN res
  /\ \A n \in DOMAIN g.map, r \in DOMAIN res :
       /\ n \in R
       /\ r = [gen |-> g.gen, kid |-> g.map[n].kid, epoch |-> kd[g.map[n].kid].epoch, id |-> g.map[n].local]
       /\ res[r] = "waiting"
       => res2[r] = "ended" \/ r \in D2

LEMMA NothingSettles ==
  ASSUME NEW g \in Gateway, NEW kd, NEW res, Results(res), NEW D
  PROVE  Settles(g, kd, res, {}, D, g, res, D)
BY DEF Settles

(* Deliver does that for the answers it is given.                          *)
LEMMA DeliverSettles ==
  ASSUME NEW g \in Gateway, NEW res, Results(res), NEW answers,
         g.gen = gw.gen \/ DOMAIN g.map = {},
         Deliver(g, res, answers)
  PROVE  Settles(g, kid, res, {a.id : a \in answers}, dropped, gw', result', dropped')
<1> DEFINE known == {a \in answers : a.id \in DOMAIN g.map}
           asker(a) == Asker(g.map[a.id].kid, g.map[a.id].local)
           awaited == {a \in known : asker(a) \in DOMAIN res /\ res[asker(a)] = "waiting"}
<1>1. CASE g.phase # "ready"
  <2>1. /\ gw' = g /\ result' = res
        /\ dropped' = dropped \union ({asker(a) : a \in known} \intersect DOMAIN res)
    BY <1>1 DEF Deliver
  <2> QED  BY <2>1 DEF Settles, Asker
<1>2. CASE g.phase = "ready"
  <2>1. /\ gw' = [g EXCEPT !.map = Restrict(@, DOMAIN @ \ {a.id : a \in known})]
        /\ result' = [r \in DOMAIN res |-> IF \E a \in awaited : asker(a) = r THEN "ended" ELSE res[r]]
        /\ dropped' = dropped
    BY <1>2 DEF Deliver
  <2> DEFINE left == DOMAIN g.map \ {a.id : a \in known}
             table == Restrict(g.map, left)
  <2>2. g.map \in [DOMAIN g.map -> Route] /\ DOMAIN g.map \subseteq 1..MaxAsks
    BY TableIs DEF Gateway, Tables
  <2>3. table \in [left -> Route] /\ \A n \in left : table[n] = g.map[n]
    BY <2>2 DEF Restrict
  <2>5. gw' = [g EXCEPT !.map = table]
    BY <2>1
  <2> HIDE DEF table
  <2>4. table \in Tables /\ DOMAIN table = left
    <3>1. DOMAIN table = left /\ left \subseteq 1..MaxAsks
      BY <2>2, <2>3
    <3> HIDE DEF left
    <3> QED  BY <2>3, <3>1 DEF Tables
  <2>6. gw' \in Gateway /\ gw'.gen = g.gen /\ gw'.phase = g.phase /\ gw'.next = g.next /\ gw'.map = table
    BY <2>4, <2>5 DEF Gateway
  <2>7. Results(result') /\ DOMAIN result' = DOMAIN res /\ \A r \in DOMAIN res : result'[r] \in {res[r], "ended"}
    BY <2>1 DEF Results
  <2>8. \A n \in DOMAIN g.map : n \in DOMAIN table \/ n \in {a.id : a \in answers}
    BY <2>4
  <2>9. ASSUME NEW n \in DOMAIN g.map, NEW r \in DOMAIN res, n \in {a.id : a \in answers},
               r = [gen |-> g.gen, kid |-> g.map[n].kid, epoch |-> kid[g.map[n].kid].epoch, id |-> g.map[n].local],
               res[r] = "waiting"
        PROVE  result'[r] = "ended"
    <3>1. PICK a \in answers : a.id = n
      BY <2>9
    <3>2. asker(a) = r
      BY <3>1, <2>9 DEF Asker
    <3>3. a \in awaited
      BY <3>1, <3>2, <2>9
    <3> QED  BY <3>2, <3>3, <2>1
  <2> QED  BY <2>1, <2>3, <2>4, <2>6, <2>7, <2>8, <2>9 DEF Settles
<1> QED  BY <1>1, <1>2

----------------------------------------------------------------------------
(* Requests held (H) or accepted (A) are held or accepted afterwards (H2,  *)
(* A2) unless they are among the answered R; what is newly accepted was    *)
(* held, and the table of the host says under which number of g.           *)
Moves(g, rt, H, A, R, rt2, H2, A2) ==
  /\ rt.next <= rt2.next
  /\ H2 \subseteq H
  /\ \A m \in H :
       \/ m \in H2 \/ m.id \in R
       \/ \E h \in DOMAIN rt2.inFlight :
            /\ rt2.inFlight[h] = [backendId |-> m.id, generation |-> g.gen]
            /\ \E x \in A2 : x.id = h
  /\ \A h \in DOMAIN rt.inFlight :
       rt.inFlight[h].generation = g.gen /\ (\E x \in A : x.id = h) =>
         \/ rt.inFlight[h].backendId \in R
         \/ /\ h \in DOMAIN rt2.inFlight /\ rt2.inFlight[h] = rt.inFlight[h]
            /\ \E x \in A2 : x.id = h
  /\ \A x \in A2 :
       \/ /\ x \in A
          /\ x.id \in DOMAIN rt2.inFlight =>
               x.id \in DOMAIN rt.inFlight /\ rt2.inFlight[x.id] = rt.inFlight[x.id]
       \/ /\ x.id < rt2.next
          /\ \E m \in H : /\ x.who = m.who /\ x.id \in DOMAIN rt2.inFlight
                          /\ rt2.inFlight[x.id] = [backendId |-> m.id, generation |-> g.gen]

(* Every part of the invariant survives a step that moves and settles.     *)
LEMMA RightStays ==
  ASSUME NEW g, NEW kd, NEW res, NEW R, NEW D, NEW g2, NEW res2, NEW D2,
         Settles(g, kd, res, R, D, g2, res2, D2), NEW m, Right(m, g, kd)
  PROVE  Right(m, g2, kd)
<1>1. /\ g2.gen = g.gen /\ g2.phase = g.phase /\ g2.next = g.next
      /\ \A n \in DOMAIN g2.map : n \in DOMAIN g.map /\ g2.map[n] = g.map[n]
  BY DEF Settles
<1> QED  BY <1>1 DEF Right

LEMMA MovesHeld ==
  ASSUME NEW g, NEW kd, NEW res, NEW R, NEW D, NEW g2, NEW res2, NEW D2,
         Settles(g, kd, res, R, D, g2, res2, D2),
         NEW H, NEW H2, H2 \subseteq H, HeldRight(H, g, kd)
  PROVE  HeldRight(H2, g2, kd)
BY RightStays DEF HeldRight

LEMMA MovesAccepted ==
  ASSUME NEW g, NEW kd, NEW res, NEW R, NEW D, NEW g2, NEW res2, NEW D2,
         Settles(g, kd, res, R, D, g2, res2, D2),
         NEW rt \in Router, NEW rt2 \in Router, NEW H \in SUBSET Message, NEW H2, NEW A \in SUBSET Accept,
         NEW A2 \in SUBSET Accept, Moves(g, rt, H, A, R, rt2, H2, A2),
         HeldRight(H, g, kd), AcceptedRight(A, rt, g, kd)
  PROVE  AcceptedRight(A2, rt2, g2, kd)
<1> SUFFICES ASSUME NEW x \in A2
             PROVE  /\ x.id < rt2.next /\ x.who.gen <= g2.gen
                    /\ x.id \in DOMAIN rt2.inFlight /\ rt2.inFlight[x.id].generation = g2.gen
                         => Right([id |-> rt2.inFlight[x.id].backendId, who |-> x.who], g2, kd)
  BY DEF AcceptedRight
<1>1. g2.gen = g.gen
  BY DEF Settles
<1>2. CASE /\ x \in A
           /\ x.id \in DOMAIN rt2.inFlight =>
                x.id \in DOMAIN rt.inFlight /\ rt2.inFlight[x.id] = rt.inFlight[x.id]
  <2>1. x.id < rt.next /\ x.who.gen <= g.gen
    BY <1>2 DEF AcceptedRight
  <2>2. x.id < rt2.next
    BY <2>1 DEF Moves, Router, Accept
  <2>3. ASSUME x.id \in DOMAIN rt2.inFlight, rt2.inFlight[x.id].generation = g2.gen
        PROVE  Right([id |-> rt2.inFlight[x.id].backendId, who |-> x.who], g2, kd)
    <3>1. Right([id |-> rt2.inFlight[x.id].backendId, who |-> x.who], g, kd)
      BY <1>1, <1>2, <2>3 DEF AcceptedRight
    <3> QED  BY <3>1, RightStays
  <2> QED  BY <1>1, <2>1, <2>2, <2>3
<1>3. ASSUME x.id < rt2.next, NEW m \in H, x.who = m.who, x.id \in DOMAIN rt2.inFlight,
             rt2.inFlight[x.id] = [backendId |-> m.id, generation |-> g.gen]
      PROVE  /\ x.who.gen <= g2.gen
             /\ Right([id |-> rt2.inFlight[x.id].backendId, who |-> x.who], g2, kd)
  <2>1. Right(m, g, kd)
    BY DEF HeldRight
  <2>2. m = [id |-> m.id, who |-> m.who]
    BY DEF Message
  <2>3. rt2.inFlight[x.id].backendId = m.id
    BY <1>3
  <2>4. [id |-> rt2.inFlight[x.id].backendId, who |-> x.who] = m
    BY <1>3, <2>2, <2>3
  <2>5. x.who.gen <= g.gen
    BY <1>3, <2>1 DEF Right
  <2> QED  BY <1>1, <2>1, <2>4, <2>5, RightStays
<1> QED  BY <1>2, <1>3 DEF Moves

LEMMA MovesWaits ==
  ASSUME NEW g \in Gateway, NEW kd, NEW res, Results(res), NEW R, NEW D, NEW g2, NEW res2, NEW D2,
         Settles(g, kd, res, R, D, g2, res2, D2),
         NEW rt, NEW rt2, NEW H, NEW H2, NEW A, NEW A2, Moves(g, rt, H, A, R, rt2, H2, A2),
         Waits(g, kd, res, rt, H, A, D)
  PROVE  Waits(g2, kd, res2, rt2, H2, A2, D2)
<1> SUFFICES ASSUME NEW r \in DOMAIN res2, res2[r] = "waiting"
             PROVE  /\ r.gen = g2.gen /\ g2.phase # "down" /\ kd[r.kid] = [epoch |-> r.epoch, up |-> TRUE]
                    /\ \/ r \in D2
                       \/ \E n \in DOMAIN g2.map :
                            /\ g2.map[n] = [kid |-> r.kid, local |-> r.id]
                            /\ Carried(n, r, g2.gen, rt2, H2, A2)
  BY DEF Waits
<1>1. /\ g2.gen = g.gen /\ g2.phase = g.phase
      /\ r \in DOMAIN res /\ res[r] = "waiting" /\ r \in Request
  BY DEF Settles, Results
<1>2. /\ r.gen = g.gen /\ g.phase # "down" /\ kd[r.kid] = [epoch |-> r.epoch, up |-> TRUE]
      /\ \/ r \in D
         \/ \E n \in DOMAIN g.map :
              /\ g.map[n] = [kid |-> r.kid, local |-> r.id]
              /\ Carried(n, r, g.gen, rt, H, A)
  BY <1>1 DEF Waits
<1>3. ASSUME NEW n \in DOMAIN g.map, g.map[n] = [kid |-> r.kid, local |-> r.id],
             Carried(n, r, g.gen, rt, H, A), r \notin D2
      PROVE  n \in DOMAIN g2.map /\ g2.map[n] = g.map[n] /\ Carried(n, r, g2.gen, rt2, H2, A2)
  <2>1. kd[r.kid].epoch = r.epoch
    BY <1>2
  <2>2. r = [gen |-> g.gen, kid |-> g.map[n].kid, epoch |-> kd[g.map[n].kid].epoch, id |-> g.map[n].local]
    BY <1>1, <1>2, <1>3, <2>1 DEF Request
  <2>3. n \notin R
    BY <1>1, <1>3, <2>2 DEF Settles
  <2>4. n \in DOMAIN g2.map /\ g2.map[n] = g.map[n]
    BY <2>3 DEF Settles
  <2>5. CASE [id |-> n, who |-> r] \in H
    <3>1. [id |-> n, who |-> r].id = n
      OBVIOUS
    <3>2. \/ [id |-> n, who |-> r] \in H2
          \/ \E h \in DOMAIN rt2.inFlight :
               /\ rt2.inFlight[h] = [backendId |-> n, generation |-> g.gen]
               /\ \E x \in A2 : x.id = h
      BY <2>3, <2>5, <3>1 DEF Moves
    <3> QED  BY <1>1, <2>4, <3>2 DEF Carried
  <2>6. ASSUME NEW h \in DOMAIN rt.inFlight, rt.inFlight[h] = [backendId |-> n, generation |-> g.gen],
               \E x \in A : x.id = h
        PROVE  Carried(n, r, g2.gen, rt2, H2, A2)
    <3>1. rt.inFlight[h].generation = g.gen /\ rt.inFlight[h].backendId = n
      BY <2>6
    <3>2. /\ h \in DOMAIN rt2.inFlight /\ rt2.inFlight[h] = rt.inFlight[h]
          /\ \E x \in A2 : x.id = h
      BY <2>3, <2>6, <3>1 DEF Moves
    <3> QED  BY <1>1, <2>6, <3>2 DEF Carried
  <2> QED  BY <1>3, <2>4, <2>5, <2>6 DEF Carried
<1>4. D \subseteq D2
  BY DEF Settles
<1> QED  BY <1>1, <1>2, <1>3, <1>4

----------------------------------------------------------------------------
(* A failure is nobody's build.                                            *)
LEMMA FailuresBuildNothing ==
  ASSUME NEW g, NEW res, NEW answers, \A a \in answers : a.ok = FALSE, Deliver(g, res, answers)
  PROVE  built' = built
<1> DEFINE known == {a \in answers : a.id \in DOMAIN g.map}
           asker(a) == Asker(g.map[a.id].kid, g.map[a.id].local)
           awaited == {a \in known : asker(a) \in DOMAIN res /\ res[asker(a)] = "waiting"}
           build(a) == [to |-> asker(a), by |-> a.who, issued |-> a.issued]
<1>1. CASE g.phase # "ready"
  BY <1>1 DEF Deliver
<1>2. CASE g.phase = "ready"
  <2>1. built' = built \union {build(a) : a \in {b \in awaited : b.ok}}
    BY <1>2 DEF Deliver
  <2>2. {b \in awaited : b.ok} = {}
    OBVIOUS
  <2> HIDE DEF awaited, build
  <2> QED  BY <2>1, <2>2
<1> QED  BY <1>1, <1>2

LEMMA AcceptedIsAccept ==
  ASSUME work \in Seq(Accept), queue \in Seq(Answer)
  PROVE  Accepted \subseteq Accept
<1>1. Range(work) \subseteq Accept /\ Range(queue) \subseteq Answer
  BY InSeq
<1> QED  BY <1>1 DEF Accepted, Accept, Answer

LEMMA RouterCounts ==
  ASSUME NEW rt \in Router, NEW m \in Nat, NEW rt2, rt2 = [rt EXCEPT !.next = @ + m]
  PROVE  rt2 \in Router /\ rt2.generation = rt.generation /\ rt2.next = rt.next + m /\ rt2.inFlight = rt.inFlight
<1>1. rt.next + m \in Nat \ {0}
  BY DEF Router
<1>2. rt2 = [generation |-> rt.generation, next |-> rt.next + m, inFlight |-> rt.inFlight]
  BY DEF Router
<1> QED  BY <1>1, <1>2 DEF Router

(* #sendToBuilder moves what it is given to the builder, or holds it, or   *)
(* answers it with a failure.                                              *)
LEMMA SendMoves ==
  ASSUME NEW status \in {"starting", "ready", "recycling", "restarting", "stopped"},
         NEW rt \in Router, Flown(rt),
         NEW msgs \in Seq(Message), NEW kept \in Seq(Message), NEW g \in Gateway,
         NEW res, Results(res), g.gen = gw.gen \/ DOMAIN g.map = {}, rt.generation = g.gen,
         work \in Seq(Accept), queue \in Seq(Answer), bh \in Builder,
         \A x \in Accepted : x.id < rt.next,
         SendToBuilder(status, rt, msgs, kept, g, res), queue' = queue
  PROVE  /\ router' \in Router /\ router'.generation = rt.generation /\ Flown(router')
         /\ held' \in Seq(Message) /\ work' \in Seq(Accept) /\ bh' \in Builder /\ built' = built
         /\ \E R : /\ Settles(g, kid, res, R, dropped, gw', result', dropped')
                   /\ Moves(g, rt, Range(kept) \union Range(msgs), Accepted, R, router', Range(held'), Accepted')
<1> DEFINE n == Len(msgs)
           given == rt.next .. rt.next + n - 1
           message(h) == msgs[h - rt.next + 1]
<1>n. n \in Nat /\ rt.next \in Nat /\ DOMAIN msgs = 1..n /\ \A i \in 1..n : msgs[i] \in Message
  BY InSeq DEF Router
<1>fl. rt.inFlight \in [DOMAIN rt.inFlight -> Flight] /\ DOMAIN rt.inFlight \subseteq Nat
  BY TableIs DEF Router, Flights
<1>a. Accepted \subseteq Accept
  BY AcceptedIsAccept
<1>1. CASE status = "ready"
  <2> DEFINE flight == [h \in DOMAIN rt.inFlight \union given |->
                          IF h \in given THEN [backendId |-> message(h).id, generation |-> rt.generation]
                          ELSE rt.inFlight[h]]
             issued == [i \in 1..n |-> [id |-> rt.next + i - 1, who |-> msgs[i].who]]
  <2>1. /\ router' = [rt EXCEPT !.next = @ + n, !.inFlight = flight]
        /\ bh' = [bh EXCEPT !.status = status, !.ready = TRUE]
        /\ work' = work \o issued
        /\ held' = kept /\ gw' = g /\ result' = res /\ built' = built /\ dropped' = dropped
    BY <1>1 DEF SendToBuilder
  <2>2. \A h \in given : h - rt.next + 1 \in 1..n /\ message(h) \in Message /\ h \in Nat
    BY <1>n
  <2>3. /\ flight \in [DOMAIN flight -> Flight] /\ DOMAIN flight = DOMAIN rt.inFlight \union given
        /\ DOMAIN flight \subseteq Nat
        /\ \A h \in given : flight[h] = [backendId |-> message(h).id, generation |-> rt.generation]
        /\ \A h \in DOMAIN rt.inFlight : h \notin given => flight[h] = rt.inFlight[h]
    BY <1>fl, <2>2 DEF Flight, Message, Router
  <2>4. /\ issued \in Seq(Accept) /\ DOMAIN issued = 1..n
        /\ \A i \in 1..n : issued[i] = [id |-> rt.next + i - 1, who |-> msgs[i].who]
    <3>1. \A i \in 1..n : [id |-> rt.next + i - 1, who |-> msgs[i].who] \in Accept
      BY <1>n DEF Accept, Message
    <3>2. issued \in [1..n -> Accept]
      BY <3>1
    <3>3. DOMAIN issued = 1..n /\ \A i \in 1..n : issued[i] = [id |-> rt.next + i - 1, who |-> msgs[i].who]
      OBVIOUS
    <3> HIDE DEF issued
    <3>4. issued \in Seq(Accept)
      BY <1>n, <3>2
    <3> QED  BY <3>3, <3>4
  <2> HIDE DEF flight, issued
  <2>5. flight \in Flights
    BY <2>3 DEF Flights
  <2>6. /\ router' \in Router /\ router'.generation = rt.generation
        /\ router'.next = rt.next + n /\ router'.inFlight = flight
    <3>1. router' = [rt EXCEPT !.next = @ + n, !.inFlight = flight]
      BY <2>1
    <3> HIDE DEF n
    <3>2. router' = [generation |-> rt.generation, next |-> rt.next + n, inFlight |-> flight]
      BY <3>1 DEF Router
    <3>3. rt.next + n \in Nat \ {0}
      BY <1>n DEF Router
    <3> QED  BY <2>5, <3>2, <3>3 DEF Router
  <2>7. \A h \in DOMAIN rt.inFlight : h < rt.next /\ h \notin given
    BY <1>n, <1>fl DEF Flown
  <2>8. Flown(router')
    BY <1>n, <1>fl, <2>3, <2>6, <2>7 DEF Flown
  <2>9. bh' \in Builder
    BY <2>1 DEF Builder
  <2>10. work' \in Seq(Accept) /\ Range(work') = Range(work) \union Range(issued)
    BY <2>1, <2>4, ConcatRange
  <2>11. Range(issued) = {[id |-> rt.next + i - 1, who |-> msgs[i].who] : i \in 1..n}
    BY <2>4 DEF Range
  <2>12. Accepted' = Accepted \union Range(issued)
    <3>1. Accepted' = {[id |-> x.id, who |-> x.who] : x \in Range(work') \union Range(queue)}
      BY DEF Accepted, Range
    <3>2. \A x \in Range(issued) : x = [id |-> x.id, who |-> x.who]
      <4>1. Range(issued) \subseteq Accept
        BY <2>4, InSeq
      <4> QED  BY <4>1 DEF Accept
    <3> QED  BY <2>10, <3>1, <3>2 DEF Accepted
  <2>13. \A i \in 1..n : /\ rt.next + i - 1 \in DOMAIN flight
                         /\ flight[rt.next + i - 1] = [backendId |-> msgs[i].id, generation |-> g.gen]
                         /\ rt.next + i - 1 < rt.next + n
                         /\ [id |-> rt.next + i - 1, who |-> msgs[i].who] \in Accepted'
    <3> SUFFICES ASSUME NEW i \in 1..n
                 PROVE  /\ rt.next + i - 1 \in DOMAIN flight
                        /\ flight[rt.next + i - 1] = [backendId |-> msgs[i].id, generation |-> g.gen]
                        /\ rt.next + i - 1 < rt.next + n
                        /\ [id |-> rt.next + i - 1, who |-> msgs[i].who] \in Accepted'
      OBVIOUS
    <3>1. rt.next + i - 1 \in given /\ (rt.next + i - 1) - rt.next + 1 = i /\ rt.next + i - 1 < rt.next + n
      BY <1>n
    <3>2. message(rt.next + i - 1) = msgs[i]
      BY <3>1
    <3> HIDE DEF message, given
    <3> QED  BY <2>3, <2>11, <2>12, <3>1, <3>2
  <2>14. Moves(g, rt, Range(kept) \union Range(msgs), Accepted, {}, router', Range(held'), Accepted')
    <3>1. rt.next <= router'.next
      BY <1>n, <2>6
    <3>2. Range(held') = Range(kept)
      BY <2>1
    <3>3. \A m \in Range(msgs) : \E h \in DOMAIN flight :
             /\ flight[h] = [backendId |-> m.id, generation |-> g.gen]
             /\ \E x \in Accepted' : x.id = h
      <4> SUFFICES ASSUME NEW i \in 1..n
                   PROVE  \E h \in DOMAIN flight :
                            /\ flight[h] = [backendId |-> msgs[i].id, generation |-> g.gen]
                            /\ \E x \in Accepted' : x.id = h
        BY <1>n DEF Range
      <4>1. [id |-> rt.next + i - 1, who |-> msgs[i].who].id = rt.next + i - 1
        OBVIOUS
      <4> QED  BY <2>13, <4>1
    <3>4. \A h \in DOMAIN rt.inFlight : (\E x \in Accepted : x.id = h) =>
            /\ h \in DOMAIN flight /\ flight[h] = rt.inFlight[h] /\ \E x \in Accepted' : x.id = h
      BY <2>3, <2>7, <2>12
    <3>5. \A x \in Accepted : x.id \in DOMAIN flight => x.id \in DOMAIN rt.inFlight /\ flight[x.id] = rt.inFlight[x.id]
      BY <1>n, <1>a, <2>3, <2>7 DEF Accept
    <3>6. \A x \in Range(issued) : /\ x.id < router'.next
            /\ \E m \in Range(msgs) : /\ x.who = m.who /\ x.id \in DOMAIN flight
                                      /\ flight[x.id] = [backendId |-> m.id, generation |-> g.gen]
      <4> SUFFICES ASSUME NEW i \in 1..n, NEW x, x = [id |-> rt.next + i - 1, who |-> msgs[i].who]
                   PROVE  /\ x.id < router'.next
                          /\ \E m \in Range(msgs) : /\ x.who = m.who /\ x.id \in DOMAIN flight
                                      /\ flight[x.id] = [backendId |-> m.id, generation |-> g.gen]
        BY <2>11
      <4>1. x.id = rt.next + i - 1 /\ x.who = msgs[i].who /\ msgs[i] \in Range(msgs)
        BY <1>n DEF Range
      <4> QED  BY <2>6, <2>13, <4>1
    <3> QED  BY <2>6, <2>12, <3>1, <3>2, <3>3, <3>4, <3>5, <3>6 DEF Moves
  <2>15. Settles(g, kid, res, {}, dropped, gw', result', dropped')
    BY <2>1, NothingSettles
  <2> QED  BY <2>1, <2>6, <2>8, <2>9, <2>10, <2>14, <2>15
<1>2. CASE status # "ready"
  <2> DEFINE room == IF Returning /\ Len(kept) < HeldLimit THEN HeldLimit - Len(kept) ELSE 0
             limit == IF room < n THEN room ELSE n
             taken == SubSeq(msgs, 1, limit)
             refused == {[id |-> msgs[i].id, ok |-> FALSE] : i \in Len(taken) + 1 .. n}
             R == {a.id : a \in refused}
  <2>1. /\ router' = [rt EXCEPT !.next = @ + n]
        /\ held' = kept \o taken
        /\ Deliver(g, res, refused)
        /\ bh' = bh /\ work' = work
    BY <1>2 DEF SendToBuilder
  <2>2. limit \in Nat /\ limit <= n
    <3>1. room \in Nat
      BY RelayAssumption, InSeq DEF RelayAssumption
    <3> QED  BY <1>n, <3>1
  <2>3. taken \in Seq(Message) /\ Len(taken) = limit /\ Range(taken) = {msgs[i] : i \in 1..limit}
    BY <2>2, PrefixRange
  <2>4. \A a \in refused : a.ok = FALSE
    OBVIOUS
  <2>5. \A i \in 1..n : msgs[i] \in Range(taken) \/ msgs[i].id \in R
    <3> SUFFICES ASSUME NEW i \in 1..n, i \notin 1..limit  PROVE msgs[i].id \in R
      BY <2>3
    <3>1. i \in Len(taken) + 1 .. n
      BY <1>n, <2>2, <2>3
    <3>2. [id |-> msgs[i].id, ok |-> FALSE].id = msgs[i].id
      OBVIOUS
    <3> HIDE DEF taken
    <3> QED  BY <3>1, <3>2
  <2> HIDE DEF limit, taken, refused, room
  <2>6. held' \in Seq(Message) /\ Range(held') = Range(kept) \union Range(taken)
    BY <2>1, <2>3, ConcatRange
  <2>7. /\ router' \in Router /\ router'.generation = rt.generation
        /\ router'.next = rt.next + n /\ router'.inFlight = rt.inFlight
    BY <1>n, <2>1, RouterCounts
  <2>8. Flown(router')
    BY <1>n, <1>fl, <2>7 DEF Flown
  <2>9. built' = built
    BY <2>1, <2>4, FailuresBuildNothing
  <2>10. Settles(g, kid, res, R, dropped, gw', result', dropped')
    BY <2>1, DeliverSettles
  <2>11. Accepted' = Accepted
    BY <2>1 DEF Accepted, Range
  <2>12. Moves(g, rt, Range(kept) \union Range(msgs), Accepted, R, router', Range(held'), Accepted')
    <3>1. rt.next <= router'.next
      BY <1>n, <2>7
    <3>2. Range(taken) \subseteq Range(msgs)
      <4>1. \A i \in 1..limit : i \in 1..n
        BY <1>n, <2>2
      <4> QED  BY <1>n, <2>3, <4>1 DEF Range
    <3>3. \A m \in Range(msgs) : m \in Range(taken) \/ m.id \in R
      BY <1>n, <2>5 DEF Range
    <3> HIDE DEF R
    <3> QED  BY <2>6, <2>7, <2>11, <3>1, <3>2, <3>3 DEF Moves
  <2> QED  BY <2>1, <2>6, <2>7, <2>8, <2>9, <2>10, <2>12
<1> QED  BY <1>1, <1>2

----------------------------------------------------------------------------
(* The invariant after a step, from its parts; then for steps of the host  *)
(* that move nothing, and for those that move and settle.                  *)
LEMMA NextState ==
  ASSUME Types', HeldRight(Range(held'), gw', kid'), AcceptedRight(Accepted', router', gw', kid'),
         Numbered(DOMAIN result', gw', kid'), Counted', Flown(router'), Phases',
         Waits(gw', kid', result', router', Range(held'), Accepted', dropped'), ForeignAnswersAreOlder'
  PROVE  IInv'
<1>1. HeldRight(Range(held), gw, kid)'
  BY DEF HeldRight, Right, Range
<1>2. AcceptedRight(Accepted, router, gw, kid)'
  BY DEF AcceptedRight, Right
<1>3. Numbered(DOMAIN result, gw, kid)'
  BY DEF Numbered, Peers
<1>4. Flown(router)'
  BY DEF Flown
<1>5. Waits(gw, kid, result, router, Range(held), Accepted, dropped)'
  BY DEF Waits, Carried, Range
<1> QED  BY <1>1, <1>2, <1>3, <1>4, <1>5 DEF IInv

LEMMA HostSteps ==
  ASSUME IInv, Types', Phases', Accepted' = Accepted, faults'.kid = faults.kid,
         UNCHANGED <<gw, kid, result, built, router, held, dropped>>
  PROVE  IInv'
<1>1. Counted' /\ ForeignAnswersAreOlder'
  BY DEF IInv, Counted, ForeignAnswersAreOlder
<1> QED  BY <1>1, NextState DEF IInv

LEMMA RelaySteps ==
  ASSUME IInv, Types', Phases', ForeignAnswersAreOlder', faults'.kid = faults.kid, kid' = kid,
         router'.generation = router.generation, Flown(router'),
         NEW R, Settles(gw, kid, result, R, dropped, gw', result', dropped'),
         Moves(gw, router, Range(held), Accepted, R, router', Range(held'), Accepted')
  PROVE  IInv'
<1>1. /\ gw \in Gateway /\ Results(result) /\ router \in Router /\ router' \in Router
      /\ Range(held) \subseteq Message /\ Accepted \subseteq Accept
  BY InSeq, AcceptedIsAccept DEF IInv, Types
<1>2. Accepted' \subseteq Accept
  <2>1. work' \in Seq(Accept) /\ queue' \in Seq(Answer)
    BY DEF Types
  <2>2. Range(work') \subseteq Accept /\ Range(queue') \subseteq Answer
    BY <2>1, InSeq
  <2>3. Accepted' = {[id |-> x.id, who |-> x.who] : x \in Range(work') \union Range(queue')}
    BY DEF Accepted, Range
  <2> QED  BY <2>2, <2>3 DEF Accept, Answer
<1>3. HeldRight(Range(held'), gw', kid')
  BY MovesHeld DEF IInv, Moves
<1>4. AcceptedRight(Accepted', router', gw', kid')
  BY <1>1, <1>2, MovesAccepted DEF IInv
<1>5. Waits(gw', kid', result', router', Range(held'), Accepted', dropped')
  BY <1>1, MovesWaits DEF IInv
<1>6. gw'.gen = gw.gen /\ gw'.phase = gw.phase /\ gw'.next = gw.next /\ DOMAIN result' = DOMAIN result
      /\ \A n \in DOMAIN gw'.map : n \in DOMAIN gw.map
  BY DEF Settles
<1>7. Numbered(DOMAIN result', gw', kid')
  BY <1>6 DEF IInv, Numbered
<1>8. Counted'
  BY <1>6 DEF IInv, Counted
<1> QED  BY <1>3, <1>4, <1>5, <1>7, <1>8, NextState

----------------------------------------------------------------------------
(* An answer in the queue stands for the request it answers: the steps of  *)
(* the builder itself leave Accepted alone.                                *)
Entries(s) == {[id |-> x.id, who |-> x.who] : x \in Range(s)}

LEMMA AcceptedIs == Accepted = Entries(work) \union Entries(queue)
BY DEF Accepted, Entries

LEMMA AcceptedNext == Accepted' = Entries(work') \union Entries(queue')
BY DEF Accepted, Entries, Range

LEMMA AnswersAccepted ==
  ASSUME IInv, NEW ok \in BOOLEAN, BuilderAnswers(ok)
  PROVE  work' \in Seq(Accept) /\ queue' \in Seq(Answer) /\ Accepted' = Accepted
<1> DEFINE a == [id |-> Head(work).id, ok |-> ok, who |-> Head(work).who]
<1>1. work \in Seq(Accept) /\ queue \in Seq(Answer) /\ work # << >>
      /\ work' = Tail(work) /\ queue' = Append(queue, a)
  BY DEF IInv, Types, BuilderAnswers
<1>2. Tail(work) \in Seq(Accept) /\ Head(work) \in Accept /\ Range(work) = Range(Tail(work)) \union {Head(work)}
  BY <1>1, TailRange
<1>3. a \in Answer /\ [id |-> a.id, who |-> a.who] = [id |-> Head(work).id, who |-> Head(work).who]
  BY <1>2 DEF Accept, Answer
<1> HIDE DEF a
<1>4. queue' \in Seq(Answer) /\ Range(queue') = Range(queue) \union {a}
  BY <1>1, <1>3, AppendRange
<1>5. Entries(work) = Entries(work') \union {[id |-> Head(work).id, who |-> Head(work).who]}
  BY <1>1, <1>2 DEF Entries
<1>6. Entries(queue') = Entries(queue) \union {[id |-> a.id, who |-> a.who]}
  BY <1>4 DEF Entries
<1>7. Accepted' = Accepted
  BY <1>3, <1>5, <1>6, AcceptedIs, AcceptedNext
<1> QED  BY <1>1, <1>2, <1>4, <1>7

LEMMA FailedAccepted ==
  ASSUME IInv, FailInFlight, work' = << >>
  PROVE  work' \in Seq(Accept) /\ queue' \in Seq(Answer) /\ Accepted' = Accepted
<1> DEFINE failed == [i \in DOMAIN work |-> [id |-> work[i].id, ok |-> FALSE, who |-> work[i].who]]
<1>1. work \in Seq(Accept) /\ queue \in Seq(Answer) /\ queue' = queue \o failed
  BY DEF IInv, Types, FailInFlight
<1>2. DOMAIN work = 1..Len(work) /\ Len(work) \in Nat /\ \A i \in DOMAIN work : work[i] \in Accept
  BY <1>1, InSeq DEF Range
<1>3. \A i \in DOMAIN work : failed[i] = [id |-> work[i].id, ok |-> FALSE, who |-> work[i].who]
  OBVIOUS
<1>4. failed \in [1..Len(work) -> Answer]
  BY <1>2 DEF Accept, Answer
<1>5. DOMAIN failed = DOMAIN work
  OBVIOUS
<1> HIDE DEF failed
<1>6. failed \in Seq(Answer)
  BY <1>2, <1>4
<1>7. queue' \in Seq(Answer) /\ Range(queue') = Range(queue) \union Range(failed)
  BY <1>1, <1>6, ConcatRange
<1>8. Entries(failed) = Entries(work)
  <2>1. \A i \in DOMAIN work : [id |-> failed[i].id, who |-> failed[i].who] = [id |-> work[i].id, who |-> work[i].who]
    <3> SUFFICES ASSUME NEW i \in DOMAIN work
                 PROVE  failed[i].id = work[i].id /\ failed[i].who = work[i].who
      OBVIOUS
    <3>1. failed[i] = [id |-> work[i].id, ok |-> FALSE, who |-> work[i].who]
      BY <1>3
    <3> QED  BY <3>1
  <2>2. Range(failed) = {failed[i] : i \in DOMAIN work} /\ Range(work) = {work[i] : i \in DOMAIN work}
    BY <1>5 DEF Range
  <2>3. /\ Entries(failed) = {[id |-> failed[i].id, who |-> failed[i].who] : i \in DOMAIN work}
        /\ Entries(work) = {[id |-> work[i].id, who |-> work[i].who] : i \in DOMAIN work}
    BY <2>2 DEF Entries
  <2> DEFINE mine(i) == [id |-> work[i].id, who |-> work[i].who]
             theirs(i) == [id |-> failed[i].id, who |-> failed[i].who]
  <2>4. /\ \A i \in DOMAIN work : theirs(i) = mine(i)
        /\ Entries(failed) = {theirs(i) : i \in DOMAIN work} /\ Entries(work) = {mine(i) : i \in DOMAIN work}
    BY <2>1, <2>3
  <2> HIDE DEF mine, theirs
  <2> QED  BY <2>4
<1>9. Entries(queue') = Entries(queue) \union Entries(failed)
  BY <1>7 DEF Entries
<1>10. Entries(work') = {} /\ work' \in Seq(Accept)
  BY EmptyRange DEF Entries
<1> QED  BY <1>7, <1>8, <1>9, <1>10, AcceptedIs, AcceptedNext

LEMMA AcceptedStays ==
  ASSUME UNCHANGED <<work, queue>>
  PROVE  Accepted' = Accepted
BY AcceptedIs, AcceptedNext

LEMMA Attempts == 0 \in 0..StartAttempts /\ 1 \in 0..StartAttempts
BY RelayAssumption DEF RelayAssumption

LEMMA BuilderStates ==
  /\ Stopped \in Builder /\ [Stopped EXCEPT !.status = "restarting"] \in Builder
  /\ \A s \in {"starting", "restarting"} : Spawned(s) \in Builder
BY DEF Stopped, Spawned, Builder

LEMMA BuilderAnswersKeeps ==
  ASSUME IInv, NEW ok \in BOOLEAN, BuilderAnswers(ok)
  PROVE  IInv'
<1>1. UNCHANGED <<gw, kid, result, built, router, held, bh, mode, attempt, dropped, faults>>
  BY DEF BuilderAnswers
<1>2. work' \in Seq(Accept) /\ queue' \in Seq(Answer) /\ Accepted' = Accepted
  BY AnswersAccepted
<1>3. Types' /\ Phases'
  BY <1>1, <1>2 DEF IInv, Types, Phases, Results
<1> QED  BY <1>1, <1>2, <1>3, HostSteps

LEMMA ReadyBuilderExitsKeeps ==
  ASSUME IInv, ReadyBuilderExits
  PROVE  IInv'
<1>1. UNCHANGED <<gw, kid, result, built, router, held, mode, attempt, dropped>>
  BY DEF ReadyBuilderExits
<1>2. work' \in Seq(Accept) /\ queue' \in Seq(Answer) /\ Accepted' = Accepted
  BY FailedAccepted DEF ReadyBuilderExits
<1>3. bh' \in Builder
  BY BuilderStates DEF ReadyBuilderExits
<1>4. faults' \in [kid : 0..MaxDeaths, builder : Nat] /\ faults'.kid = faults.kid
  <2>1. faults \in [kid : 0..MaxDeaths, builder : Nat]
    BY DEF IInv, Types
  <2>2. faults' = [faults EXCEPT !.builder = IF bh.status = "ready" THEN @ + 1 ELSE @]
    BY DEF ReadyBuilderExits
  <2> QED  BY <2>1, <2>2
<1>5. Types' /\ Phases'
  BY <1>1, <1>2, <1>3, <1>4 DEF IInv, Types, Phases, Results
<1> QED  BY <1>1, <1>2, <1>4, <1>5, HostSteps

LEMMA HostAloneKeeps ==
  ASSUME IInv, RestartTimer \/ ReplacementFails \/ Recycle \/ RecoverBuilder
  PROVE  IInv'
<1>1. UNCHANGED <<gw, kid, result, built, router, held, queue, work, dropped>>
  BY DEF RestartTimer, ReplacementFails, Recycle, RecoverBuilder
<1>2. bh' \in Builder
  <2>1. CASE Recycle
    BY <2>1 DEF Recycle, IInv, Types, Builder
  <2> QED  BY <2>1, BuilderStates DEF RestartTimer, ReplacementFails, RecoverBuilder, StartBuilder
<1>3. faults' \in [kid : 0..MaxDeaths, builder : Nat] /\ faults'.kid = faults.kid
  BY DEF RestartTimer, ReplacementFails, Recycle, RecoverBuilder, IInv, Types
<1>4. mode' \in Modes /\ attempt' \in 0..StartAttempts
      /\ (mode' \in {"recycling", "reloading"} => mode' = mode)
  BY Attempts DEF RestartTimer, ReplacementFails, Recycle, RecoverBuilder, StartBuilder, IInv, Types, Modes
<1>5. Types' /\ Phases'
  BY <1>1, <1>2, <1>3, <1>4 DEF IInv, Types, Phases, Results
<1> QED  BY <1>1, <1>3, <1>5, AcceptedStays, HostSteps

LEMMA SuspendKeeps ==
  ASSUME IInv, Suspend
  PROVE  IInv'
<1>1. UNCHANGED <<gw, kid, result, built, router, held, attempt, dropped>> /\ mode' = "suspended"
  BY DEF Suspend
<1>2. work' \in Seq(Accept) /\ queue' \in Seq(Answer) /\ Accepted' = Accepted
  BY FailedAccepted DEF Suspend
<1>3. bh' \in Builder
  BY BuilderStates DEF Suspend
<1>4. faults' \in [kid : 0..MaxDeaths, builder : Nat] /\ faults'.kid = faults.kid
  <2>1. faults' = [faults EXCEPT !.builder = @ + 1] /\ faults \in [kid : 0..MaxDeaths, builder : Nat]
    BY DEF Suspend, IInv, Types
  <2> QED  BY <2>1
<1>5. Types' /\ Phases'
  BY <1>1, <1>2, <1>3, <1>4 DEF IInv, Types, Phases, Results, Modes
<1> QED  BY <1>1, <1>2, <1>4, <1>5, HostSteps

----------------------------------------------------------------------------
(* What an answer that is handled adds to the builds.                      *)
LEMMA DeliverBuilds ==
  ASSUME NEW a, a.id \in DOMAIN gw.map => gw.map[a.id] \in Route,
         Deliver(gw, result, {a}), NEW b \in built', b \notin built
  PROVE  /\ gw.phase = "ready" /\ a.id \in DOMAIN gw.map
         /\ b = [to |-> Asker(gw.map[a.id].kid, gw.map[a.id].local), by |-> a.who, issued |-> a.issued]
<1> DEFINE known == {x \in {a} : x.id \in DOMAIN gw.map}
           asker(x) == Asker(gw.map[x.id].kid, gw.map[x.id].local)
           awaited == {x \in known : asker(x) \in DOMAIN result /\ result[asker(x)] = "waiting"}
           build(x) == [to |-> asker(x), by |-> x.who, issued |-> x.issued]
<1>1. gw.phase = "ready"
  BY DEF Deliver
<1>2. built' = built \union {build(x) : x \in {y \in awaited : y.ok}}
  BY <1>1 DEF Deliver
<1>3. \A x \in awaited : x = a /\ a.id \in DOMAIN gw.map
  OBVIOUS
<1> HIDE DEF awaited
<1>4. b = build(a) /\ a.id \in DOMAIN gw.map
  BY <1>2, <1>3
<1> QED  BY <1>1, <1>4

LEMMA BuildIsRight ==
  ASSUME gw \in Gateway, kid \in [Kid -> [epoch : 0..MaxDeaths, up : BOOLEAN]], gw.phase = "ready",
         NEW n \in DOMAIN gw.map, NEW by \in Request, Right([id |-> n, who |-> by], gw, kid),
         NEW b, b = [to |-> Asker(gw.map[n].kid, gw.map[n].local), by |-> by, issued |-> gw.gen]
  PROVE  \/ b.to = b.by
         \/ b.by.gen < b.to.gen /\ b.issued = b.to.gen
         \/ /\ <<b.by.gen, b.by.kid, b.by.id>> = <<b.to.gen, b.to.kid, b.to.id>>
            /\ b.by.epoch < b.to.epoch
<1> DEFINE to == Asker(gw.map[n].kid, gw.map[n].local)
<1>1. to = [gen |-> gw.gen, kid |-> gw.map[n].kid, epoch |-> kid[gw.map[n].kid].epoch, id |-> gw.map[n].local]
  BY DEF Asker
<1>2. to.gen = gw.gen /\ to.kid = gw.map[n].kid /\ to.epoch = kid[gw.map[n].kid].epoch /\ to.id = gw.map[n].local
  BY <1>1
<1>3. b.to = to /\ b.by = by /\ b.issued = gw.gen
  OBVIOUS
<1> HIDE DEF to
<1>4. by.gen \in Nat /\ gw.gen \in Nat /\ by.epoch \in Nat /\ by.kid \in Kid
      /\ by = [gen |-> by.gen, kid |-> by.kid, epoch |-> by.epoch, id |-> by.id]
  BY DEF Request, Gateway
<1>5. by.gen <= gw.gen
      /\ (by.gen = gw.gen => gw.map[n] = [kid |-> by.kid, local |-> by.id] /\ by.epoch <= kid[by.kid].epoch)
  BY DEF Right
<1>6. CASE by.gen < gw.gen
  BY <1>2, <1>3, <1>6
<1>7. CASE by.gen = gw.gen
  <2>1. gw.map[n].kid = by.kid /\ gw.map[n].local = by.id
    BY <1>5, <1>7
  <2>2. to.kid = by.kid /\ to.id = by.id /\ to.gen = by.gen /\ to.epoch = kid[by.kid].epoch
    BY <1>2, <1>7, <2>1
  <2>3. kid[by.kid].epoch \in Nat
    BY <1>4
  <2>4. CASE by.epoch = kid[by.kid].epoch
    BY <1>1, <1>3, <1>4, <1>7, <2>1, <2>4
  <2>5. CASE by.epoch < kid[by.kid].epoch
    BY <1>3, <2>2, <2>5
  <2> QED  BY <1>4, <1>5, <1>7, <2>3, <2>4, <2>5
<1> QED  BY <1>4, <1>5, <1>6, <1>7

LEMMA HandleAnswerKeeps ==
  ASSUME IInv, HandleAnswer
  PROVE  IInv'
<1> DEFINE a == Head(queue)
           sent == router.inFlight[a.id]
           mine == a.id \in DOMAIN router.inFlight /\ sent.generation = router.generation
           answer == [id |-> sent.backendId, ok |-> a.ok, who |-> a.who, issued |-> sent.generation]
           R == IF mine THEN {sent.backendId} ELSE {}
           left == DOMAIN router.inFlight \ {a.id}
           flight == Restrict(router.inFlight, left)
<1>1. /\ queue # << >> /\ queue' = Tail(queue)
      /\ router' = [router EXCEPT !.inFlight = flight]
      /\ mine => Deliver(gw, result, {answer})
      /\ ~mine => UNCHANGED <<gw, result, built, dropped>>
      /\ UNCHANGED <<kid, held, bh, work, mode, attempt, faults>>
  BY DEF HandleAnswer
<1>t. /\ gw \in Gateway /\ Results(result) /\ router \in Router /\ work \in Seq(Accept) /\ queue \in Seq(Answer)
      /\ router.generation = gw.gen /\ dropped \subseteq DOMAIN result
      /\ kid \in [Kid -> [epoch : 0..MaxDeaths, up : BOOLEAN]]
  BY DEF IInv, Types, Counted
<1>2. queue' \in Seq(Answer) /\ a \in Answer /\ Range(queue) = Range(queue') \union {a}
  BY <1>1, <1>t, TailRange
<1>3. router.inFlight \in [DOMAIN router.inFlight -> Flight] /\ DOMAIN router.inFlight \subseteq Nat
  <2>1. router.inFlight \in Flights
    BY <1>t DEF Router
  <2> HIDE DEF flight, left, sent, R, mine, answer
  <2> QED  BY <2>1, TableIs DEF Flights
<1>4. flight \in [left -> Flight] /\ DOMAIN flight = left /\ \A h \in left : flight[h] = router.inFlight[h]
  BY <1>3 DEF Restrict
<1> HIDE DEF flight
<1>5. flight \in Flights
  BY <1>3, <1>4 DEF Flights
<1>6. /\ router' \in Router /\ router'.generation = router.generation
      /\ router'.next = router.next /\ router'.inFlight = flight
  BY <1>1, <1>5, <1>t DEF Router
<1>7. Accepted = Accepted' \union {[id |-> a.id, who |-> a.who]}
  <2>1. Entries(queue) = Entries(queue') \union {[id |-> a.id, who |-> a.who]}
    BY <1>2 DEF Entries
  <2>2. Entries(work') = Entries(work)
    BY <1>1
  <2> QED  BY <2>1, <2>2, AcceptedIs, AcceptedNext
<1> DEFINE entry == [id |-> a.id, who |-> a.who]
<1>8. entry \in Accepted /\ entry.id = a.id /\ entry.who = a.who
  BY <1>7
<1> HIDE DEF a
<1>9. Flown(router')
  BY <1>4, <1>6 DEF IInv, Flown
<1>10. Moves(gw, router, Range(held), Accepted, R, router', Range(held'), Accepted')
  <2>1. router.next <= router'.next
    BY <1>6, <1>t DEF Router
  <2>2. Range(held') = Range(held)
    BY <1>1
  <2>3. ASSUME NEW h \in DOMAIN router.inFlight, router.inFlight[h].generation = gw.gen,
               \E x \in Accepted : x.id = h
        PROVE  \/ router.inFlight[h].backendId \in R
               \/ /\ h \in DOMAIN flight /\ flight[h] = router.inFlight[h]
                  /\ \E x \in Accepted' : x.id = h
    <3>1. CASE h = a.id
      BY <1>t, <2>3, <3>1
    <3>2. CASE h # a.id
      <4>1. PICK x \in Accepted : x.id = h
        BY <2>3
      <4>2. x # entry
        BY <1>8, <3>2, <4>1
      <4> QED  BY <1>4, <1>7, <3>2, <4>1, <4>2
    <3> QED  BY <3>1, <3>2
  <2>4. \A x \in Accepted' : /\ x \in Accepted
                             /\ x.id \in DOMAIN flight => x.id \in DOMAIN router.inFlight /\ flight[x.id] = router.inFlight[x.id]
    BY <1>4, <1>7
  <2> HIDE DEF R
  <2> QED  BY <1>6, <2>1, <2>2, <2>3, <2>4 DEF Moves
<1>11. Settles(gw, kid, result, R, dropped, gw', result', dropped')
  <2>1. CASE mine
    <3>1. {b.id : b \in {answer}} = R
      BY <2>1
    <3>2. Deliver(gw, result, {answer})
      BY <1>1, <2>1
    <3> HIDE DEF R, answer
    <3> QED  BY <1>t, <3>1, <3>2, DeliverSettles
  <2>2. CASE ~mine
    <3>1. gw' = gw /\ result' = result /\ dropped' = dropped /\ R = {}
      BY <1>1, <2>2
    <3> QED  BY <1>t, <3>1, NothingSettles
  <2> QED  BY <2>1, <2>2
<1>12. ForeignAnswersAreOlder'
  <2> SUFFICES ASSUME NEW b \in built', b \notin built
               PROVE  \/ b.to = b.by
                      \/ b.by.gen < b.to.gen /\ b.issued = b.to.gen
                      \/ /\ <<b.by.gen, b.by.kid, b.by.id>> = <<b.to.gen, b.to.kid, b.to.id>>
                         /\ b.by.epoch < b.to.epoch
    BY DEF IInv, ForeignAnswersAreOlder
  <2>1. mine
    BY <1>1
  <2>2. answer.id = sent.backendId /\ answer.who = a.who /\ answer.issued = gw.gen
    BY <1>t, <2>1
  <2>3. Deliver(gw, result, {answer})
    BY <1>1, <2>1
  <2>4. \A n \in DOMAIN gw.map : gw.map[n] \in Route
    BY <1>t, TableIs DEF Gateway, Tables
  <2> HIDE DEF answer
  <2>5. /\ gw.phase = "ready" /\ sent.backendId \in DOMAIN gw.map
        /\ b = [to |-> Asker(gw.map[sent.backendId].kid, gw.map[sent.backendId].local), by |-> a.who, issued |-> gw.gen]
    BY <2>2, <2>3, <2>4, DeliverBuilds
  <2>6. Right([id |-> sent.backendId, who |-> a.who], gw, kid)
    BY <1>8, <1>t, <2>1 DEF IInv, AcceptedRight
  <2>7. a.who \in Request
    BY <1>2 DEF Answer
  <2>8. gw \in Gateway /\ kid \in [Kid -> [epoch : 0..MaxDeaths, up : BOOLEAN]]
    BY <1>t
  <2> DEFINE n == sent.backendId
             by == a.who
  <2>9. /\ gw.phase = "ready" /\ n \in DOMAIN gw.map /\ by \in Request
        /\ b = [to |-> Asker(gw.map[n].kid, gw.map[n].local), by |-> by, issued |-> gw.gen]
        /\ Right([id |-> n, who |-> by], gw, kid)
    BY <2>5, <2>6, <2>7
  <2> HIDE DEF n, by
  <2> QED  BY <2>8, <2>9, BuildIsRight
<1>13. Types'
  <2>1. gw' \in Gateway /\ Results(result') /\ DOMAIN result' = DOMAIN result /\ dropped' \subseteq dropped \union DOMAIN result
    BY <1>11 DEF Settles
  <2> QED  BY <1>1, <1>2, <1>6, <2>1, <1>t DEF IInv, Types
<1>14. Phases'
  <2>1. gw'.gen = gw.gen /\ gw'.phase = gw.phase /\ (gw.map = << >> => DOMAIN gw'.map \subseteq DOMAIN gw.map)
        /\ gw' \in Gateway
    BY <1>11 DEF Settles
  <2>2. gw.phase = "down" => gw' = gw
    BY <1>1 DEF Deliver, IInv, Phases
  <2> QED  BY <1>1, <2>1, <2>2 DEF IInv, Phases
<1> QED  BY <1>1, <1>6, <1>9, <1>10, <1>11, <1>12, <1>13, <1>14, RelaySteps

----------------------------------------------------------------------------
LEMMA EmptyTable ==
  ASSUME NEW f, f \in Tables, DOMAIN f = {}
  PROVE  f = << >>
<1>1. f \in [{} -> Route]
  BY TableIs DEF Tables
<1>2. << >> \in [{} -> Route]
  OBVIOUS
<1> QED  BY <1>1, <1>2

(* What was held is sent, under the number it has.                         *)
LEMMA SendSteps ==
  ASSUME IInv, SendToBuilder("ready", router, held, << >>, gw, result)
               \/ SendToBuilder(bh.status, router, held, << >>, gw, result),
         UNCHANGED <<kid, queue, faults>>, mode' \in Modes, mode' \in {"recycling", "reloading"} => mode' = mode,
         attempt' \in 0..StartAttempts
  PROVE  IInv'
<1>1. PICK status \in {"starting", "ready", "recycling", "restarting", "stopped"} :
        SendToBuilder(status, router, held, << >>, gw, result)
  BY DEF IInv, Types, Builder
<1>2. /\ gw \in Gateway /\ Results(result) /\ router \in Router /\ work \in Seq(Accept) /\ queue \in Seq(Answer)
      /\ router.generation = gw.gen /\ dropped \subseteq DOMAIN result /\ held \in Seq(Message) /\ bh \in Builder
      /\ Flown(router) 
  BY DEF IInv, Types, Counted
<1>s. << >> \in Seq(Message)
  OBVIOUS
<1>a. \A x \in Accepted : x.id < router.next
  BY DEF IInv, AcceptedRight
<1>3. Range(<< >>) \union Range(held) = Range(held)
  BY EmptyRange
<1>4. /\ router' \in Router /\ router'.generation = router.generation /\ Flown(router')
      /\ held' \in Seq(Message) /\ work' \in Seq(Accept) /\ bh' \in Builder /\ built' = built
  BY <1>1, <1>2, <1>s, <1>a, SendMoves
<1>5. PICK R : /\ Settles(gw, kid, result, R, dropped, gw', result', dropped')
               /\ Moves(gw, router, Range(<< >>) \union Range(held), Accepted, R, router', Range(held'), Accepted')
  BY <1>1, <1>2, <1>s, <1>a, SendMoves
<1>6. Types'
  <2>1. gw' \in Gateway /\ Results(result') /\ DOMAIN result' = DOMAIN result /\ dropped' \subseteq dropped \union DOMAIN result
    BY <1>5 DEF Settles
  <2> QED  BY <1>2, <1>4, <2>1 DEF IInv, Types
<1>7. Phases'
  <2>1. /\ gw'.phase = gw.phase /\ gw' \in Gateway /\ \A n \in DOMAIN gw'.map : n \in DOMAIN gw.map
    BY <1>5 DEF Settles
  <2>2. gw.phase = "down" => DOMAIN gw.map = {}
    BY EmptyRange DEF IInv, Phases
  <2>3. gw.phase = "down" => gw'.map = << >>
    BY <2>1, <2>2, EmptyTable DEF Gateway
  <2>4. gw'.gen = gw.gen
    BY <1>5 DEF Settles
  <2> QED  BY <2>1, <2>3, <2>4 DEF IInv, Phases
<1>8. ForeignAnswersAreOlder'
  BY <1>4 DEF IInv, ForeignAnswersAreOlder
<1> QED  BY <1>3, <1>4, <1>5, <1>6, <1>7, <1>8, RelaySteps

LEMMA AwakeKeeps ==
  ASSUME IInv, Awake
  PROVE  IInv'
<1>1. /\ SendToBuilder(bh.status, router, held, << >>, gw, result)
      /\ mode' = "awake" /\ UNCHANGED <<kid, queue, attempt, faults>>
  BY DEF Awake
<1> QED  BY <1>1, SendSteps DEF IInv, Types, Modes

LEMMA BuilderReadyKeeps ==
  ASSUME IInv, BuilderReady
  PROVE  IInv'
<1>1. attempt' \in 0..StartAttempts /\ mode' \in Modes /\ (mode' \in {"recycling", "reloading"} => mode' = mode)
      /\ UNCHANGED <<kid, queue, faults>>
  BY Attempts DEF BuilderReady, IInv, Types, Modes
<1>2. CASE mode \in {"waking", "reloading"}
  <2>1. UNCHANGED <<router, held, work, gw, result, built, dropped>> /\ bh' \in Builder
    BY <1>2 DEF BuilderReady, IInv, Types, Builder
  <2>2. Types' /\ Phases'
    BY <1>1, <2>1 DEF IInv, Types, Phases, Results
  <2> QED  BY <1>1, <2>1, <2>2, AcceptedStays, HostSteps
<1>3. CASE mode \notin {"waking", "reloading"}
  <2>1. SendToBuilder("ready", router, held, << >>, gw, result)
    BY <1>3 DEF BuilderReady
  <2> QED  BY <1>1, <2>1, SendSteps
<1> QED  BY <1>2, <1>3

----------------------------------------------------------------------------
LEMMA PhasesSettle ==
  ASSUME IInv, NEW R, Settles(gw, kid, result, R, dropped, gw', result', dropped'), kid' = kid,
         mode' \in {"recycling", "reloading"} => mode' = mode
  PROVE  Phases'
<1>1. /\ gw'.gen = gw.gen /\ gw'.phase = gw.phase /\ gw' \in Gateway
      /\ \A n \in DOMAIN gw'.map : n \in DOMAIN gw.map
  BY DEF Settles
<1>2. gw.phase = "down" => DOMAIN gw.map = {}
  BY EmptyRange DEF IInv, Phases
<1>3. gw.phase = "down" => gw'.map = << >>
  BY <1>1, <1>2, EmptyTable DEF Gateway
<1> QED  BY <1>1, <1>3 DEF IInv, Phases

LEMMA StartFailsKeeps ==
  ASSUME IInv, StartFails
  PROVE  IInv'
<1>0. /\ gw \in Gateway /\ Results(result) /\ router \in Router /\ work \in Seq(Accept) /\ queue \in Seq(Answer)
      /\ dropped \subseteq DOMAIN result /\ held \in Seq(Message) /\ attempt \in 0..StartAttempts
      /\ faults \in [kid : 0..MaxDeaths, builder : Nat] /\ mode \in Modes
  BY DEF IInv, Types
<1>1. /\ UNCHANGED <<kid, router, queue, work>>
      /\ faults' = [faults EXCEPT !.builder = IF attempt = StartAttempts THEN @ + 1 ELSE @]
  BY DEF StartFails
<1>2. faults' \in [kid : 0..MaxDeaths, builder : Nat] /\ faults'.kid = faults.kid
  BY <1>0, <1>1
<1>3. CASE attempt < StartAttempts
  <2>1. attempt' = attempt + 1 /\ bh' = Spawned("starting") /\ UNCHANGED <<mode, held, gw, result, built, dropped>>
    BY <1>3 DEF StartFails, StartBuilder
  <2>2. attempt' \in 0..StartAttempts /\ bh' \in Builder
    BY <1>0, <1>3, <2>1, BuilderStates, RelayAssumption DEF RelayAssumption
  <2>3. Types' /\ Phases'
    BY <1>1, <1>2, <2>1, <2>2 DEF IInv, Types, Phases, Results
  <2> QED  BY <1>1, <1>2, <2>1, <2>3, AcceptedStays, HostSteps
<1>4. CASE ~(attempt < StartAttempts)
  <2> DEFINE failed == {[id |-> held[i].id, ok |-> FALSE] : i \in DOMAIN held}
             R == {a.id : a \in failed}
  <2>1. /\ bh' = Stopped /\ attempt' = 0 /\ mode' = "down" /\ held' = << >>
        /\ Deliver(gw, result, failed)
    BY <1>4 DEF StartFails
  <2>2. \A a \in failed : a.ok = FALSE
    OBVIOUS
  <2>3. \A m \in Range(held) : m.id \in R
    <3> SUFFICES ASSUME NEW i \in DOMAIN held  PROVE held[i].id \in R
      BY DEF Range
    <3>1. [id |-> held[i].id, ok |-> FALSE].id = held[i].id
      OBVIOUS
    <3> QED  BY <3>1
  <2> HIDE DEF failed
  <2>4. built' = built
    BY <2>1, <2>2, FailuresBuildNothing
  <2>5. Settles(gw, kid, result, R, dropped, gw', result', dropped')
    BY <1>0, <2>1, DeliverSettles
  <2> HIDE DEF R
  <2>6. Accepted' = Accepted
    BY <1>1, AcceptedStays
  <2>7. Moves(gw, router, Range(held), Accepted, R, router', Range(held'), Accepted')
    <3>1. Range(held') = {} /\ router.next <= router'.next
      BY <1>0, <1>1, <2>1, EmptyRange DEF Router
    <3> QED  BY <1>1, <2>3, <2>6, <3>1 DEF Moves
  <2>8. Phases'
    BY <1>1, <2>1, <2>5, PhasesSettle
  <2>9. Types'
    <3>1. gw' \in Gateway /\ Results(result') /\ DOMAIN result' = DOMAIN result /\ dropped' \subseteq dropped \union DOMAIN result
      BY <2>5 DEF Settles
    <3>2. bh' \in Builder /\ attempt' \in 0..StartAttempts /\ mode' \in Modes /\ held' \in Seq(Message)
      BY <2>1, BuilderStates, Attempts DEF Modes
    <3> QED  BY <1>0, <1>1, <1>2, <3>1, <3>2 DEF IInv, Types
  <2>10. ForeignAnswersAreOlder' /\ Flown(router')
    BY <1>1, <2>4 DEF IInv, ForeignAnswersAreOlder, Flown
  <2> QED  BY <1>1, <1>2, <2>5, <2>7, <2>8, <2>9, <2>10, RelaySteps
<1> QED  BY <1>3, <1>4

----------------------------------------------------------------------------
LEMMA EmptyIsTable == << >> \in Tables /\ << >> \in Flights
<1>1. << >> \in [{} -> Route] /\ << >> \in [{} -> Flight]
  OBVIOUS
<1> QED  BY <1>1 DEF Tables, Flights

(* The gateway goes: nobody waits, and nothing is in its table.            *)
LEMMA GatewayGoneSteps ==
  ASSUME IInv, GatewayGone, UNCHANGED <<router, held, dropped>>, Accepted' = Accepted,
         work' \in Seq(Accept), queue' \in Seq(Answer), bh' \in Builder,
         mode' \in Modes, attempt' \in 0..StartAttempts,
         faults' \in [kid : 0..MaxDeaths, builder : Nat], faults'.kid = faults.kid,
         mode' \in {"recycling", "reloading"} => mode' = mode \/ gw.gen < MaxGateways
  PROVE  IInv'
<1>1. /\ gw' = [gw EXCEPT !.phase = "down", !.map = << >>]
      /\ kid' = [k \in Kid |-> [epoch |-> 0, up |-> FALSE]]
      /\ result' = [r \in DOMAIN result |-> IF r \in DOMAIN result THEN "ended" ELSE result[r]]
      /\ built' = built
  BY DEF GatewayGone, Abandon
<1>2. Types
  BY DEF IInv
<1>3. /\ gw' \in Gateway /\ gw'.gen = gw.gen /\ gw'.next = gw.next /\ gw'.phase = "down" /\ gw'.map = << >>
      /\ DOMAIN gw'.map = {}
  <2>1. gw' = [gen |-> gw.gen, phase |-> "down", next |-> gw.next, map |-> << >>]
    BY <1>1, <1>2 DEF Types, Gateway
  <2> QED  BY <1>2, <2>1, EmptyIsTable, EmptyRange DEF Types, Gateway
<1>4. kid' \in [Kid -> [epoch : 0..MaxDeaths, up : BOOLEAN]] /\ \A k \in Kid : kid'[k] = [epoch |-> 0, up |-> FALSE]
  BY <1>1, RelayAssumption DEF RelayAssumption
<1>5. Results(result') /\ DOMAIN result' = DOMAIN result /\ \A r \in DOMAIN result' : result'[r] = "ended"
  BY <1>1, <1>2 DEF Types, Results
<1>6. Types'
  BY <1>2, <1>3, <1>4, <1>5 DEF Types
<1>7. \A m : Right(m, gw, kid) => Right(m, gw', kid')
  BY <1>3 DEF Right
<1>8. HeldRight(Range(held'), gw', kid')
  BY <1>7 DEF IInv, HeldRight
<1>9. AcceptedRight(Accepted', router', gw', kid')
  BY <1>3, <1>7 DEF IInv, AcceptedRight
<1>10. Numbered(DOMAIN result', gw', kid')
  BY <1>3, <1>5 DEF IInv, Numbered
<1>11. Counted'
  <2>1. \A k \in Kid : kid'[k].epoch = 0
    BY <1>4
  <2>2. 0 <= faults'.kid
    OBVIOUS
  <2> QED  BY <1>3, <2>1, <2>2 DEF IInv, Counted
<1>12. Phases'
  BY <1>3, <1>4 DEF IInv, Phases
<1>13. Waits(gw', kid', result', router', Range(held'), Accepted', dropped')
  BY <1>5 DEF Waits
<1>14. ForeignAnswersAreOlder' /\ Flown(router')
  BY <1>1 DEF IInv, ForeignAnswersAreOlder, Flown
<1> QED  BY <1>6, <1>8, <1>9, <1>10, <1>11, <1>12, <1>13, <1>14, NextState

LEMMA GatewayExitsKeeps ==
  ASSUME IInv, GatewayExits
  PROVE  IInv'
<1>1. GatewayGone /\ UNCHANGED <<dropped, faults, router, held, queue, bh, work, mode, attempt>>
  BY DEF GatewayExits, builderVars
<1> QED  BY <1>1, AcceptedStays, GatewayGoneSteps DEF IInv, Types

LEMMA RecycleChildrenKeeps ==
  ASSUME IInv, RecycleChildren
  PROVE  IInv'
<1>1. /\ GatewayGone /\ UNCHANGED <<router, held, dropped>> /\ mode' = "recycling" /\ gw.gen < MaxGateways
      /\ faults' = [faults EXCEPT !.builder = @ + 1] /\ attempt' = 1 /\ bh' = Spawned("starting")
  BY DEF RecycleChildren, StartBuilder
<1>2. work' \in Seq(Accept) /\ queue' \in Seq(Answer) /\ Accepted' = Accepted
  BY FailedAccepted DEF RecycleChildren
<1>3. faults' \in [kid : 0..MaxDeaths, builder : Nat] /\ faults'.kid = faults.kid
  BY <1>1 DEF IInv, Types
<1>4. bh' \in Builder /\ attempt' \in 0..StartAttempts /\ mode' \in Modes
  BY <1>1, BuilderStates, Attempts DEF Modes
<1> QED  BY <1>1, <1>2, <1>3, <1>4, GatewayGoneSteps

LEMMA WakeForEditKeeps ==
  ASSUME IInv, NEW config \in BOOLEAN, WakeForEdit(config)
  PROVE  IInv'
<1>1. /\ UNCHANGED <<router, held, queue, work, dropped, faults>>
      /\ attempt' = 1 /\ bh' = Spawned("starting")
  BY DEF WakeForEdit, StartBuilder
<1>2. bh' \in Builder /\ attempt' \in 0..StartAttempts
  BY <1>1, BuilderStates, Attempts
<1>3. Accepted' = Accepted
  BY <1>1, AcceptedStays
<1>4. CASE config
  <2>1. GatewayGone /\ mode' = "reloading" /\ gw.gen < MaxGateways
    BY <1>4 DEF WakeForEdit
  <2> QED  BY <1>1, <1>2, <1>3, <2>1, GatewayGoneSteps DEF IInv, Types, Modes
<1>5. CASE ~config
  <2>1. UNCHANGED <<gw, kid, result, built>> /\ mode' = "waking"
    BY <1>5 DEF WakeForEdit
  <2>2. Types' /\ Phases'
    BY <1>1, <1>2, <2>1 DEF IInv, Types, Phases, Results, Modes
  <2> QED  BY <1>1, <1>3, <2>1, <2>2, HostSteps
<1> QED  BY <1>4, <1>5

----------------------------------------------------------------------------
LEMMA RouterRestarts ==
  ASSUME NEW rt \in Router, NEW rt2, rt2 = [rt EXCEPT !.generation = @ + 1, !.inFlight = << >>]
  PROVE  rt2 = [generation |-> rt.generation + 1, next |-> rt.next, inFlight |-> << >>]
BY DEF Router

(* A new gateway: whatever is held or accepted belongs to an earlier one,  *)
(* and nothing that was issued will be answered.                           *)
LEMMA FreshGatewayIsRight ==
  ASSUME IInv, gw.phase = "down", gw.gen < MaxGateways
  PROVE  /\ FreshGateway \in Gateway /\ FreshGateway.gen = gw.gen + 1 /\ FreshGateway.phase = "booting"
         /\ DOMAIN FreshGateway.map = {}
         /\ StartGeneration \in Router /\ StartGeneration.generation = FreshGateway.gen
         /\ StartGeneration.next = router.next /\ DOMAIN StartGeneration.inFlight = {} /\ Flown(StartGeneration)
         /\ HeldRight(Range(held), FreshGateway, kid)
         /\ AcceptedRight(Accepted, StartGeneration, FreshGateway, kid)
         /\ Numbered(DOMAIN result, FreshGateway, kid)
         /\ Waits(FreshGateway, kid, result, StartGeneration, Range(held), Accepted, dropped)
<1>1. /\ gw \in Gateway /\ Results(result) /\ router \in Router /\ router.generation = gw.gen
      /\ IsFiniteSet(DOMAIN result) /\ Range(held) \subseteq Message /\ Accepted \subseteq Accept
  BY InSeq, AcceptedIsAccept DEF IInv, Types, Counted
<1>2. gw.gen \in Nat /\ gw.gen + 1 \in 1..MaxGateways /\ 1 \in 1..MaxAsks + 1
  BY <1>1, RelayAssumption DEF Gateway, RelayAssumption
<1>3. /\ FreshGateway \in Gateway /\ FreshGateway.gen = gw.gen + 1 /\ FreshGateway.phase = "booting"
      /\ FreshGateway.next = 1 /\ FreshGateway.map = << >> /\ DOMAIN FreshGateway.map = {}
  BY <1>2, EmptyIsTable, EmptyRange DEF FreshGateway, Gateway
<1>4. StartGeneration = [generation |-> gw.gen + 1, next |-> router.next, inFlight |-> << >>]
  <2>1. StartGeneration = [router EXCEPT !.generation = @ + 1, !.inFlight = << >>]
    BY DEF StartGeneration
  <2> DEFINE rt2 == StartGeneration
  <2>2. rt2 = [generation |-> router.generation + 1, next |-> router.next, inFlight |-> << >>]
    BY <1>1, <2>1, RouterRestarts
  <2> QED  BY <1>1, <2>2
<1>5. /\ StartGeneration \in Router /\ StartGeneration.generation = gw.gen + 1
      /\ StartGeneration.next = router.next /\ DOMAIN StartGeneration.inFlight = {}
  BY <1>1, <1>2, <1>4, EmptyIsTable, EmptyRange DEF Router
<1>6. Flown(StartGeneration)
  BY <1>5 DEF Flown
<1>7. ASSUME NEW m, m.who.gen \in Nat, m.who.gen <= gw.gen
      PROVE  Right(m, FreshGateway, kid)
  BY <1>2, <1>3, <1>7 DEF Right
<1>8. HeldRight(Range(held), FreshGateway, kid)
  <2> SUFFICES ASSUME NEW m \in Range(held)  PROVE Right(m, FreshGateway, kid)
    BY DEF HeldRight
  <2>1. m.who.gen \in Nat /\ m.who.gen <= gw.gen
    <3>1. Right(m, gw, kid)
      BY DEF IInv, HeldRight
    <3>2. m.who \in Request
      BY <1>1 DEF Message
    <3> QED  BY <3>1, <3>2 DEF Right, Request
  <2> QED  BY <1>7, <2>1
<1>9. AcceptedRight(Accepted, StartGeneration, FreshGateway, kid)
  <2> SUFFICES ASSUME NEW x \in Accepted  PROVE x.id < router.next /\ x.who.gen <= gw.gen + 1
    BY <1>3, <1>5 DEF AcceptedRight
  <2>1. x.id < router.next /\ x.who.gen <= gw.gen /\ x.who.gen \in Nat
    <3>1. x.id < router.next /\ x.who.gen <= gw.gen
      BY DEF IInv, AcceptedRight
    <3>2. x.who \in Request
      BY <1>1 DEF Accept
    <3> QED  BY <3>1, <3>2 DEF Request
  <2> QED  BY <1>2, <2>1
<1>10. Numbered(DOMAIN result, FreshGateway, kid)
  <2>1. Cardinality(DOMAIN result) \in Nat
    BY <1>1, FS_CardinalityType
  <2>2. \A r \in DOMAIN result : r.gen \in Nat /\ r.gen <= gw.gen
    BY <1>1 DEF IInv, Numbered, Results, Request
  <2>3. \A r \in DOMAIN result : r.gen <= gw.gen + 1 /\ r.gen # gw.gen + 1
    BY <1>2, <2>2
  <2> QED  BY <1>3, <2>1, <2>3 DEF IInv, Numbered
<1>11. \A r \in DOMAIN result : result[r] # "waiting"
  BY DEF IInv, Waits
<1>12. Waits(FreshGateway, kid, result, StartGeneration, Range(held), Accepted, dropped)
  BY <1>11 DEF Waits
<1> QED  BY <1>3, <1>5, <1>6, <1>8, <1>9, <1>10, <1>12

LEMMA FreshGatewaySteps ==
  ASSUME IInv, gw.phase = "down", gw.gen < MaxGateways, gw' = FreshGateway, router' = StartGeneration,
         UNCHANGED <<kid, result, built, held, queue, bh, work, attempt, dropped, faults>>,
         mode' \in Modes \ {"recycling", "reloading"}
  PROVE  IInv'
<1>1. /\ gw' \in Gateway /\ gw'.phase = "booting" /\ router' \in Router /\ router'.generation = gw'.gen
      /\ Flown(router') /\ HeldRight(Range(held'), gw', kid') /\ Numbered(DOMAIN result', gw', kid')
      /\ AcceptedRight(Accepted', router', gw', kid')
      /\ Waits(gw', kid', result', router', Range(held'), Accepted', dropped')
  BY FreshGatewayIsRight, AcceptedStays
<1>2. Types'
  BY <1>1 DEF IInv, Types, Results
<1>3. Counted' /\ Phases' /\ ForeignAnswersAreOlder'
  BY <1>1 DEF IInv, Counted, Phases, ForeignAnswersAreOlder
<1> QED  BY <1>1, <1>2, <1>3, NextState

LEMMA StartGatewayKeeps ==
  ASSUME IInv, StartGateway
  PROVE  IInv'
<1>1. /\ gw.phase = "down" /\ gw.gen < MaxGateways /\ gw' = FreshGateway /\ router' = StartGeneration
      /\ UNCHANGED <<kid, result, built, held, queue, bh, work, mode, attempt, dropped, faults>>
      /\ mode \notin {"recycling", "reloading"}
  BY DEF StartGateway
<1>2. mode' \in Modes \ {"recycling", "reloading"}
  BY <1>1 DEF IInv, Types
<1> QED  BY <1>1, <1>2, FreshGatewaySteps

LEMMA RecycledKeeps ==
  ASSUME IInv, Recycled
  PROVE  IInv'
<1>1. /\ mode \in {"recycling", "reloading"} /\ mode' = "awake" /\ UNCHANGED <<kid, queue, attempt, faults>>
  BY DEF Recycled
<1>2. gw.phase = "down" /\ gw.gen < MaxGateways
  BY <1>1 DEF IInv, Phases
<1>3. CASE mode # "reloading"
  <2>1. /\ gw' = FreshGateway /\ router' = StartGeneration /\ UNCHANGED <<result, built, held, bh, work, dropped>>
    BY <1>3 DEF Recycled
  <2>2. mode' \in Modes \ {"recycling", "reloading"}
    BY <1>1 DEF Modes
  <2> QED  BY <1>1, <1>2, <2>1, <2>2, FreshGatewaySteps
<1>4. CASE mode = "reloading"
  <2> DEFINE g == FreshGateway
             rt == StartGeneration
  <2>1. SendToBuilder(bh.status, rt, held, << >>, g, result)
    BY <1>4 DEF Recycled
  <2>2. /\ g \in Gateway /\ g.gen = gw.gen + 1 /\ g.phase = "booting" /\ DOMAIN g.map = {}
        /\ rt \in Router /\ rt.generation = g.gen /\ rt.next = router.next /\ Flown(rt)
        /\ HeldRight(Range(held), g, kid)
        /\ AcceptedRight(Accepted, rt, g, kid)
        /\ Numbered(DOMAIN result, g, kid)
        /\ Waits(g, kid, result, rt, Range(held), Accepted, dropped)
    BY <1>2, FreshGatewayIsRight
  <2> HIDE DEF g, rt
  <2>3. /\ Results(result) /\ work \in Seq(Accept) /\ queue \in Seq(Answer)
        /\ dropped \subseteq DOMAIN result /\ held \in Seq(Message) /\ bh \in Builder
        /\ bh.status \in {"starting", "ready", "recycling", "restarting", "stopped"}
    BY DEF IInv, Types, Builder
  <2>s. << >> \in Seq(Message) /\ Range(<< >>) \union Range(held) = Range(held)
    BY EmptyRange
  <2>a. \A x \in Accepted : x.id < rt.next
    BY <2>2 DEF AcceptedRight
  <2>4. /\ router' \in Router /\ router'.generation = rt.generation /\ Flown(router')
        /\ held' \in Seq(Message) /\ work' \in Seq(Accept) /\ bh' \in Builder /\ built' = built
        /\ \E R : /\ Settles(g, kid, result, R, dropped, gw', result', dropped')
                  /\ Moves(g, rt, Range(<< >>) \union Range(held), Accepted, R, router', Range(held'), Accepted')
    BY <1>1, <2>1, <2>2, <2>3, <2>s, <2>a, SendMoves
  <2>5. PICK R : /\ Settles(g, kid, result, R, dropped, gw', result', dropped')
                 /\ Moves(g, rt, Range(held), Accepted, R, router', Range(held'), Accepted')
    BY <2>4, <2>s
  <2>6. Accepted \subseteq Accept /\ Accepted' \subseteq Accept /\ Range(held) \subseteq Message
    <3>1. Range(work') \subseteq Accept /\ Range(queue') \subseteq Answer
      BY <1>1, <2>3, <2>4, InSeq
    <3>2. Entries(work') \subseteq Accept /\ Entries(queue') \subseteq Accept
      BY <3>1 DEF Entries, Accept, Answer
    <3> QED  BY <2>3, <3>2, AcceptedNext, AcceptedIsAccept, InSeq
  <2>7. HeldRight(Range(held'), gw', kid)
    BY <2>2, <2>5, MovesHeld DEF Moves
  <2>8. AcceptedRight(Accepted', router', gw', kid)
    BY <2>2, <2>4, <2>5, <2>6, MovesAccepted
  <2>9. Waits(gw', kid, result', router', Range(held'), Accepted', dropped')
    BY <2>2, <2>3, <2>5, MovesWaits
  <2>10. /\ DOMAIN gw'.map = {}
         /\ gw' \in Gateway /\ gw'.gen = g.gen /\ gw'.phase = "booting" /\ gw'.next = g.next
         /\ Results(result') /\ DOMAIN result' = DOMAIN result /\ dropped' \subseteq dropped \union DOMAIN result
    BY <2>2, <2>5 DEF Settles
  <2>11. Numbered(DOMAIN result', gw', kid)
    BY <2>2, <2>10 DEF Numbered
  <2>12. Types'
    BY <1>1, <2>3, <2>4, <2>10 DEF IInv, Types, Modes
  <2>13. Counted' /\ Phases' /\ ForeignAnswersAreOlder'
    BY <1>1, <2>2, <2>4, <2>10 DEF IInv, Counted, Phases, ForeignAnswersAreOlder
  <2> QED  BY <1>1, <2>4, <2>7, <2>8, <2>9, <2>11, <2>12, <2>13, NextState
<1> QED  BY <1>3, <1>4

----------------------------------------------------------------------------
LEMMA KidReadyKeeps ==
  ASSUME IInv, NEW k \in Kid, KidReady(k)
  PROVE  IInv'
<1>1. /\ gw.phase # "down" /\ ~kid[k].up /\ kid' = [kid EXCEPT ![k].up = TRUE]
      /\ UNCHANGED <<result, built, dropped, faults, router, held, queue, bh, work, mode, attempt>>
  BY DEF KidReady, builderVars
<1>2. Types
  BY DEF IInv
<1>3. /\ gw' \in Gateway /\ gw'.gen = gw.gen /\ gw'.next = gw.next /\ gw'.map = gw.map /\ gw'.phase # "down"
  BY <1>1, <1>2 DEF KidReady, Types, Gateway
<1>4. /\ kid' \in [Kid -> [epoch : 0..MaxDeaths, up : BOOLEAN]]
      /\ \A j \in Kid : kid'[j].epoch = kid[j].epoch /\ (j # k => kid'[j] = kid[j])
  BY <1>1, <1>2 DEF Types
<1>5. Types'
  BY <1>1, <1>2, <1>3, <1>4 DEF Types, Results
<1>6. \A m : m.who \in Request /\ Right(m, gw, kid) => Right(m, gw', kid')
  BY <1>1, <1>3, <1>4 DEF Right, Request
<1>7. Range(held) \subseteq Message /\ Accepted \subseteq Accept /\ Accepted' = Accepted
  BY <1>1, <1>2, InSeq, AcceptedIsAccept, AcceptedStays DEF Types
<1>8. HeldRight(Range(held'), gw', kid')
  BY <1>1, <1>6, <1>7 DEF IInv, HeldRight, Message
<1>9. AcceptedRight(Accepted', router', gw', kid')
  <2> SUFFICES ASSUME NEW x \in Accepted
               PROVE  /\ x.id < router.next /\ x.who.gen <= gw.gen
                      /\ x.id \in DOMAIN router.inFlight /\ router.inFlight[x.id].generation = gw.gen
                           => Right([id |-> router.inFlight[x.id].backendId, who |-> x.who], gw', kid')
    BY <1>1, <1>3, <1>7 DEF AcceptedRight
  <2>1. x.who \in Request
    BY <1>7 DEF Accept
  <2> DEFINE m == [id |-> router.inFlight[x.id].backendId, who |-> x.who]
  <2>2. m.who = x.who
    OBVIOUS
  <2>3. Right(m, gw, kid) => Right(m, gw', kid')
    <3> HIDE DEF m
    <3> QED  BY <1>6, <2>1, <2>2
  <2> QED  BY <2>3 DEF IInv, AcceptedRight
<1>10. Numbered(DOMAIN result', gw', kid')
  <2>1. \A r \in DOMAIN result : r.kid \in Kid
    BY <1>2 DEF Types, Results, Request
  <2> QED  BY <1>1, <1>3, <1>4, <2>1 DEF IInv, Numbered
<1>11. Counted' /\ Phases' /\ ForeignAnswersAreOlder' /\ Flown(router')
  BY <1>1, <1>3, <1>4 DEF IInv, Counted, Phases, ForeignAnswersAreOlder, Flown
<1>12. Waits(gw', kid', result', router', Range(held'), Accepted', dropped')
  <2> SUFFICES ASSUME NEW r \in DOMAIN result, result[r] = "waiting"
               PROVE  /\ r.gen = gw.gen /\ kid'[r.kid] = [epoch |-> r.epoch, up |-> TRUE]
                      /\ \/ r \in dropped
                         \/ \E n \in DOMAIN gw.map :
                              /\ gw.map[n] = [kid |-> r.kid, local |-> r.id]
                              /\ Carried(n, r, gw.gen, router, Range(held), Accepted)
    BY <1>1, <1>3, <1>7 DEF Waits
  <2>1. /\ r.gen = gw.gen /\ kid[r.kid] = [epoch |-> r.epoch, up |-> TRUE]
        /\ \/ r \in dropped
           \/ \E n \in DOMAIN gw.map :
                /\ gw.map[n] = [kid |-> r.kid, local |-> r.id]
                /\ Carried(n, r, gw.gen, router, Range(held), Accepted)
    BY DEF IInv, Waits
  <2>2. r.kid # k /\ r.kid \in Kid
    BY <1>1, <1>2, <2>1 DEF Types, Results, Request
  <2> QED  BY <1>4, <2>1, <2>2
<1> QED  BY <1>5, <1>8, <1>9, <1>10, <1>11, <1>12, NextState

LEMMA KidDiesKeeps ==
  ASSUME IInv, NEW k \in Kid, KidDies(k)
  PROVE  IInv'
<1>1. /\ kid[k].up /\ faults.kid < MaxDeaths
      /\ kid' = [kid EXCEPT ![k] = [epoch |-> @.epoch + 1, up |-> FALSE]]
      /\ faults' = [faults EXCEPT !.kid = @ + 1]
      /\ result' = [r \in DOMAIN result |->
           IF r \in {q \in DOMAIN result : q.gen = gw.gen /\ q.kid = k} THEN "ended" ELSE result[r]]
      /\ UNCHANGED <<gw, built, dropped, router, held, queue, bh, work, mode, attempt>>
  BY DEF KidDies, Abandon, builderVars
<1>2. Types
  BY DEF IInv
<1>3. gw.phase # "down"
  BY <1>1 DEF IInv, Phases
<1>4. /\ kid[k].epoch \in Nat /\ kid[k].epoch <= faults.kid /\ faults.kid \in Nat /\ MaxDeaths \in Nat
      /\ \A j \in Kid : kid[j].epoch \in Nat /\ kid[j].epoch <= faults.kid
  BY <1>2, RelayAssumption DEF Types, IInv, Counted, RelayAssumption
<1>5. /\ kid' \in [Kid -> [epoch : 0..MaxDeaths, up : BOOLEAN]]
      /\ kid'[k].epoch = kid[k].epoch + 1
      /\ \A j \in Kid : j # k => kid'[j] = kid[j]
  <2>1. kid[k].epoch + 1 \in 0..MaxDeaths
    BY <1>1, <1>4
  <2> QED  BY <1>1, <1>2, <2>1 DEF Types
<1>6. \A j \in Kid : kid[j].epoch <= kid'[j].epoch /\ kid'[j].epoch <= faults.kid + 1 /\ kid'[j].epoch \in Nat
  BY <1>4, <1>5
<1>7. faults' \in [kid : 0..MaxDeaths, builder : Nat] /\ faults'.kid = faults.kid + 1
  <2>1. faults \in [kid : 0..MaxDeaths, builder : Nat]
    BY <1>2 DEF Types
  <2>2. faults' = [kid |-> faults.kid + 1, builder |-> faults.builder]
    BY <1>1, <2>1
  <2>3. faults.kid + 1 \in 0..MaxDeaths /\ faults.builder \in Nat
    BY <1>1, <1>4, <2>1
  <2> QED  BY <2>2, <2>3
<1>8. /\ Results(result') /\ DOMAIN result' = DOMAIN result
      /\ \A r \in DOMAIN result : result'[r] = "waiting" => result[r] = "waiting" /\ ~(r.gen = gw.gen /\ r.kid = k)
  BY <1>1, <1>2 DEF Types, Results
<1>9. Types'
  BY <1>1, <1>2, <1>5, <1>7, <1>8 DEF Types
<1>10. Range(held) \subseteq Message /\ Accepted \subseteq Accept /\ Accepted' = Accepted
  BY <1>1, <1>2, InSeq, AcceptedIsAccept, AcceptedStays DEF Types
<1>11. \A m : m.who \in Request /\ Right(m, gw, kid) => Right(m, gw, kid')
  <2> SUFFICES ASSUME NEW m, m.who \in Request, Right(m, gw, kid)  PROVE Right(m, gw, kid')
    OBVIOUS
  <2>1. m.who.epoch \in Nat /\ m.who.kid \in Kid
    BY DEF Request
  <2>2. m.who.epoch <= kid[m.who.kid].epoch => m.who.epoch <= kid'[m.who.kid].epoch
    BY <1>4, <1>6, <2>1
  <2> QED  BY <2>2 DEF Right
<1>12. HeldRight(Range(held'), gw', kid')
  BY <1>1, <1>10, <1>11 DEF IInv, HeldRight, Message
<1>13. AcceptedRight(Accepted', router', gw', kid')
  <2> SUFFICES ASSUME NEW x \in Accepted
               PROVE  /\ x.id < router.next /\ x.who.gen <= gw.gen
                      /\ x.id \in DOMAIN router.inFlight /\ router.inFlight[x.id].generation = gw.gen
                           => Right([id |-> router.inFlight[x.id].backendId, who |-> x.who], gw, kid')
    BY <1>1, <1>10 DEF AcceptedRight
  <2>1. x.who \in Request
    BY <1>10 DEF Accept
  <2> DEFINE m == [id |-> router.inFlight[x.id].backendId, who |-> x.who]
  <2>2. m.who = x.who
    OBVIOUS
  <2>3. Right(m, gw, kid) => Right(m, gw, kid')
    <3> HIDE DEF m
    <3> QED  BY <1>11, <2>1, <2>2
  <2> QED  BY <2>3 DEF IInv, AcceptedRight
<1>14. Numbered(DOMAIN result', gw', kid')
  <2>1. \A r \in DOMAIN result : r.epoch \in Nat /\ r.kid \in Kid
    BY <1>2 DEF Types, Results, Request
  <2>2. \A r \in DOMAIN result : r.epoch <= kid[r.kid].epoch => r.epoch <= kid'[r.kid].epoch
    BY <1>4, <1>6, <2>1
  <2> QED  BY <1>1, <1>8, <2>2 DEF IInv, Numbered
<1>15. Counted' /\ Phases' /\ ForeignAnswersAreOlder' /\ Flown(router')
  BY <1>1, <1>3, <1>6, <1>7 DEF IInv, Counted, Phases, ForeignAnswersAreOlder, Flown
<1>16. Waits(gw', kid', result', router', Range(held'), Accepted', dropped')
  <2> SUFFICES ASSUME NEW r \in DOMAIN result, result'[r] = "waiting"
               PROVE  /\ r.gen = gw.gen /\ gw.phase # "down" /\ kid'[r.kid] = [epoch |-> r.epoch, up |-> TRUE]
                      /\ \/ r \in dropped
                         \/ \E n \in DOMAIN gw.map :
                              /\ gw.map[n] = [kid |-> r.kid, local |-> r.id]
                              /\ Carried(n, r, gw.gen, router, Range(held), Accepted)
    BY <1>1, <1>8, <1>10 DEF Waits
  <2>1. result[r] = "waiting" /\ ~(r.gen = gw.gen /\ r.kid = k)
    BY <1>8
  <2>2. /\ r.gen = gw.gen /\ gw.phase # "down" /\ kid[r.kid] = [epoch |-> r.epoch, up |-> TRUE]
        /\ \/ r \in dropped
           \/ \E n \in DOMAIN gw.map :
                /\ gw.map[n] = [kid |-> r.kid, local |-> r.id]
                /\ Carried(n, r, gw.gen, router, Range(held), Accepted)
    BY <2>1 DEF IInv, Waits
  <2>3. r.kid # k /\ r.kid \in Kid
    BY <1>2, <2>1, <2>2 DEF Types, Results, Request
  <2> QED  BY <1>5, <2>2, <2>3
<1> QED  BY <1>9, <1>12, <1>13, <1>14, <1>15, <1>16, NextState

LEMMA RpcTimeoutKeeps ==
  ASSUME IInv, NEW t \in DOMAIN result, RpcTimeout(t)
  PROVE  IInv'
<1>1. /\ result' = [r \in DOMAIN result |-> IF r \in {t} THEN "ended" ELSE result[r]]
      /\ UNCHANGED <<gw, kid, built, dropped, faults, router, held, queue, bh, work, mode, attempt>>
  BY DEF RpcTimeout, Abandon, builderVars
<1>2. /\ Results(result') /\ DOMAIN result' = DOMAIN result
      /\ \A r \in DOMAIN result : result'[r] = "waiting" => result[r] = "waiting"
  BY <1>1 DEF IInv, Types, Results
<1>3. Accepted' = Accepted
  BY <1>1, AcceptedStays
<1>4. Types'
  BY <1>1, <1>2 DEF IInv, Types
<1>5. Waits(gw', kid', result', router', Range(held'), Accepted', dropped')
  BY <1>1, <1>2, <1>3 DEF IInv, Waits
<1>6. Counted' /\ Phases' /\ ForeignAnswersAreOlder'
  BY <1>1 DEF IInv, Counted, Phases, ForeignAnswersAreOlder
<1> QED  BY <1>1, <1>2, <1>3, <1>4, <1>5, <1>6, NextState DEF IInv

----------------------------------------------------------------------------
(* A process that asks uses a number that none of its requests has.        *)
LEMMA NextLocalIsFresh ==
  ASSUME IInv, NEW k \in Kid, NEW who, who = Asker(k, NextLocal(k)), gw.phase # "down",
         Cardinality(DOMAIN result) < MaxAsks
  PROVE  /\ who \in Request /\ who \notin DOMAIN result
         /\ who.gen = gw.gen /\ who.kid = k /\ who.epoch = kid[k].epoch
         /\ Cardinality(DOMAIN result \union {who}) = Cardinality(DOMAIN result) + 1
         /\ \A r \in DOMAIN result \union {who} :
              r.id <= Cardinality(Peers(r, DOMAIN result \union {who}))
<1> DEFINE D == DOMAIN result
           P == Peers(who, D)
<1>1. /\ gw.gen \in 1..MaxGateways /\ kid[k].epoch \in 0..MaxDeaths /\ D \subseteq Request /\ IsFiniteSet(D)
      /\ MaxAsks \in Nat
  BY RelayAssumption DEF IInv, Types, Gateway, Results, RelayAssumption
<1>2. who = [gen |-> gw.gen, kid |-> k, epoch |-> kid[k].epoch, id |-> NextLocal(k)]
  BY DEF Asker
<1>3. who.gen = gw.gen /\ who.kid = k /\ who.epoch = kid[k].epoch /\ who.id = NextLocal(k)
  BY <1>2
<1>4. P = {r \in D : r = Asker(k, r.id)}
  <2>1. \A r \in D : r = [gen |-> r.gen, kid |-> r.kid, epoch |-> r.epoch, id |-> r.id]
    BY <1>1 DEF Request
  <2>2. \A r \in D : Asker(k, r.id) = [gen |-> gw.gen, kid |-> k, epoch |-> kid[k].epoch, id |-> r.id]
    BY DEF Asker
  <2>3. ASSUME NEW r \in D, r = Asker(k, r.id)
        PROVE  r.gen = gw.gen /\ r.kid = k /\ r.epoch = kid[k].epoch
    <3> DEFINE e == [gen |-> gw.gen, kid |-> k, epoch |-> kid[k].epoch, id |-> r.id]
    <3>1. r = e
      BY <2>2, <2>3
    <3>2. e.gen = gw.gen /\ e.kid = k /\ e.epoch = kid[k].epoch
      OBVIOUS
    <3> HIDE DEF e
    <3> QED  BY <3>1, <3>2
  <2>4. \A r \in D : r.gen = gw.gen /\ r.kid = k /\ r.epoch = kid[k].epoch => r = Asker(k, r.id)
    BY <2>1, <2>2
  <2> QED  BY <1>3, <2>3, <2>4 DEF Peers
<1>5. who.id = 1 + Cardinality(P)
  BY <1>3, <1>4 DEF NextLocal
<1>6. P \subseteq D /\ IsFiniteSet(P) /\ Cardinality(P) \in Nat /\ Cardinality(D) \in Nat
      /\ Cardinality(P) <= Cardinality(D)
  <2>1. P \subseteq D
    BY DEF Peers
  <2> QED  BY <1>1, <2>1, FS_Subset, FS_CardinalityType
<1>7. who.id \in 1..MaxAsks
  BY <1>1, <1>5, <1>6
<1>8. who \in Request
  BY <1>1, <1>2, <1>3, <1>7 DEF Request
<1>9. \A r \in D : r.id <= Cardinality(Peers(r, D)) /\ r.id \in Nat
  BY <1>1 DEF IInv, Numbered, Request
<1>10. who \notin D
  BY <1>5, <1>6, <1>9
<1>11. Cardinality(D \union {who}) = Cardinality(D) + 1
  BY <1>1, <1>10, FS_AddElement
<1>12. IsFiniteSet(D \union {who})
  BY <1>1, FS_AddElement
<1>13. ASSUME NEW r \in D
       PROVE  r.id <= Cardinality(Peers(r, D \union {who}))
  <2>1. Peers(r, D) \subseteq Peers(r, D \union {who}) /\ Peers(r, D \union {who}) \subseteq D \union {who}
    BY DEF Peers
  <2>2. IsFiniteSet(Peers(r, D \union {who}))
    BY <1>12, <2>1, FS_Subset
  <2>3. /\ Cardinality(Peers(r, D)) <= Cardinality(Peers(r, D \union {who}))
        /\ Cardinality(Peers(r, D)) \in Nat /\ Cardinality(Peers(r, D \union {who})) \in Nat
    BY <2>1, <2>2, FS_Subset, FS_CardinalityType
  <2> QED  BY <1>9, <2>3
<1>14. who.id <= Cardinality(Peers(who, D \union {who}))
  <2>1. Peers(who, D \union {who}) = P \union {who} /\ who \notin P
    BY <1>10 DEF Peers
  <2>2. Cardinality(P \union {who}) = Cardinality(P) + 1
    BY <1>6, <2>1, FS_AddElement
  <2> QED  BY <1>5, <1>6, <2>1, <2>2
<1> QED  BY <1>3, <1>8, <1>10, <1>11, <1>13, <1>14

(* With the new request in the table of the gateway and thought of as      *)
(* held, the invariant holds; #sendToBuilder then moves it on.             *)
LEMMA AskIsRight ==
  ASSUME IInv, NEW k \in Kid, kid[k].up, Cardinality(DOMAIN result) < MaxAsks,
         NEW who, who = Asker(k, NextLocal(k)), NEW msg, msg = [id |-> gw.next, who |-> who],
         NEW g, g = [gw EXCEPT !.next = @ + 1, !.map = Bind(@, gw.next, [kid |-> k, local |-> who.id])],
         NEW res, res = Bind(result, who, "waiting")
  PROVE  /\ g \in Gateway /\ g.gen = gw.gen /\ g.phase = gw.phase /\ gw.phase # "down"
         /\ Results(res) /\ IsFiniteSet(DOMAIN res) /\ DOMAIN result \subseteq DOMAIN res
         /\ msg \in Message
         /\ HeldRight(Range(held) \union {msg}, g, kid)
         /\ AcceptedRight(Accepted, router, g, kid)
         /\ Numbered(DOMAIN res, g, kid)
         /\ Waits(g, kid, res, router, Range(held) \union {msg}, Accepted, dropped)
<1> DEFINE D == DOMAIN result
           n == gw.next
           table == Bind(gw.map, n, [kid |-> k, local |-> who.id])
<1>1. /\ gw \in Gateway /\ gw.gen \in Nat /\ n \in Nat /\ n <= Cardinality(D) + 1 /\ n >= 1
      /\ IsFiniteSet(D) /\ MaxAsks \in Nat
      /\ D \subseteq Request /\ result \in [D -> {"waiting", "ended"}]
      /\ Range(held) \subseteq Message /\ Accepted \subseteq Accept
  BY RelayAssumption, InSeq, AcceptedIsAccept DEF IInv, Types, Gateway, Numbered, Results, RelayAssumption
<1>2. gw.phase # "down"
  BY DEF IInv, Phases
<1>3. /\ who \in Request /\ who \notin D
      /\ who.gen = gw.gen /\ who.kid = k /\ who.epoch = kid[k].epoch
      /\ Cardinality(D \union {who}) = Cardinality(D) + 1
      /\ \A r \in D \union {who} : r.id <= Cardinality(Peers(r, D \union {who}))
  BY <1>2, NextLocalIsFresh
<1>4. Cardinality(D) \in Nat
  BY <1>1, FS_CardinalityType
<1>5. n \in 1..MaxAsks /\ n + 1 \in 1..MaxAsks + 1
  BY <1>1, <1>4
<1>6. gw.map \in [DOMAIN gw.map -> Route] /\ DOMAIN gw.map \subseteq 1..MaxAsks
      /\ \A x \in DOMAIN gw.map : x \in Nat /\ x < n
  <2>1. gw.map \in Tables
    BY <1>1 DEF Gateway
  <2>2. \A x \in DOMAIN gw.map : x < n
    BY DEF IInv, Numbered
  <2> HIDE DEF table
  <2> QED  BY <2>1, <2>2, TableIs DEF Tables
<1>7. /\ DOMAIN table = DOMAIN gw.map \union {n}
      /\ table[n] = [kid |-> k, local |-> who.id]
      /\ \A x \in DOMAIN gw.map : table[x] = gw.map[x]
  BY <1>1, <1>6 DEF Bind
<1>8. table \in Tables
  <2>1. [kid |-> k, local |-> who.id] \in Route
    BY <1>3 DEF Route, Request
  <2>2. table = [x \in DOMAIN table |-> table[x]]
    BY DEF Bind
  <2> HIDE DEF table
  <2>3. table \in [DOMAIN table -> Route] /\ DOMAIN table \subseteq 1..MaxAsks
    BY <1>5, <1>6, <1>7, <2>1, <2>2
  <2> QED  BY <2>3 DEF Tables
<1>9. g = [gw EXCEPT !.next = @ + 1, !.map = table]
  OBVIOUS
<1> HIDE DEF table
<1>10. g \in Gateway /\ g.gen = gw.gen /\ g.phase = gw.phase /\ g.next = n + 1 /\ g.map = table
  <2>1. g = [gen |-> gw.gen, phase |-> gw.phase, next |-> n + 1, map |-> table]
    BY <1>1, <1>9 DEF Gateway
  <2>2. gw.gen \in 1..MaxGateways /\ gw.phase \in {"down", "booting", "ready"}
    BY <1>1 DEF Gateway
  <2> DEFINE new == [gen |-> gw.gen, phase |-> gw.phase, next |-> n + 1, map |-> table]
  <2>3. new \in Gateway
    BY <1>5, <1>8, <2>2 DEF Gateway
  <2>4. new.gen = gw.gen /\ new.phase = gw.phase /\ new.next = n + 1 /\ new.map = table
    OBVIOUS
  <2>5. g = new
    BY <2>1
  <2> HIDE DEF new
  <2> QED  BY <2>3, <2>4, <2>5
<1>11. /\ DOMAIN res = D \union {who} /\ res[who] = "waiting"
       /\ \A r \in D : res[r] = result[r]
       /\ res = [r \in DOMAIN res |-> res[r]]
  BY <1>3 DEF Bind
<1>12. Results(res)
  BY <1>1, <1>3, <1>11 DEF Results
<1>13. IsFiniteSet(DOMAIN res)
  BY <1>1, <1>11, FS_AddElement
<1>14. msg \in Message /\ msg.id = n /\ msg.who = who
  BY <1>3, <1>5 DEF Message
<1>15. ASSUME NEW m, m.id \in Nat, Right(m, gw, kid)
       PROVE  Right(m, g, kid)
  <2>1. m.who.gen = gw.gen => m.id < n + 1 /\ m.id # n
    BY <1>1, <1>15 DEF Right
  <2>2. m.who.gen = gw.gen /\ m.id \in DOMAIN table => table[m.id] = [kid |-> m.who.kid, local |-> m.who.id]
    BY <1>7, <1>15, <2>1 DEF Right
  <2> QED  BY <1>10, <1>15, <2>1, <2>2 DEF Right
<1>16. Right(msg, g, kid)
  <2>1. who.epoch \in Nat
    BY <1>3 DEF Request
  <2> QED  BY <1>1, <1>3, <1>7, <1>10, <1>14, <2>1 DEF Right
<1>17. HeldRight(Range(held) \union {msg}, g, kid)
  <2>1. \A m \in Range(held) : Right(m, gw, kid) /\ m.id \in Nat
    BY <1>1 DEF IInv, HeldRight, Message
  <2> QED  BY <1>15, <1>16, <2>1 DEF HeldRight
<1>18. AcceptedRight(Accepted, router, g, kid)
  <2> SUFFICES ASSUME NEW x \in Accepted
               PROVE  /\ x.id < router.next /\ x.who.gen <= gw.gen
                      /\ x.id \in DOMAIN router.inFlight /\ router.inFlight[x.id].generation = gw.gen
                           => Right([id |-> router.inFlight[x.id].backendId, who |-> x.who], g, kid)
    BY <1>10 DEF AcceptedRight
  <2>1. router.inFlight \in [DOMAIN router.inFlight -> Flight]
    <3>1. router.inFlight \in Flights
      BY DEF IInv, Types, Router
    <3> QED  BY <3>1, TableIs DEF Flights
  <2>2. x.id \in DOMAIN router.inFlight => router.inFlight[x.id].backendId \in Nat
    BY <2>1 DEF Flight
  <2> DEFINE m == [id |-> router.inFlight[x.id].backendId, who |-> x.who]
  <2>3. m.id = router.inFlight[x.id].backendId
    OBVIOUS
  <2>4. x.id \in DOMAIN router.inFlight /\ Right(m, gw, kid) => Right(m, g, kid)
    <3> HIDE DEF m
    <3> QED  BY <1>15, <2>2, <2>3
  <2> QED  BY <2>4 DEF IInv, AcceptedRight
<1>19. Numbered(DOMAIN res, g, kid)
  <2>1. \A r \in D : /\ r.gen <= gw.gen
                     /\ r.gen = gw.gen => r.epoch <= kid[r.kid].epoch
    BY <1>2 DEF IInv, Numbered
  <2>2. who.gen <= gw.gen /\ who.epoch <= kid[who.kid].epoch
    <3>1. who.epoch \in Nat
      BY <1>3 DEF Request
    <3> QED  BY <1>1, <1>3, <3>1
  <2>3. Cardinality(DOMAIN res) <= MaxAsks /\ n + 1 <= Cardinality(DOMAIN res) + 1
    BY <1>1, <1>3, <1>4, <1>11
  <2>4. \A x \in DOMAIN table : x < n + 1
    BY <1>1, <1>6, <1>7
  <2> QED  BY <1>3, <1>10, <1>11, <2>1, <2>2, <2>3, <2>4 DEF Numbered
<1>20. Waits(g, kid, res, router, Range(held) \union {msg}, Accepted, dropped)
  <2> SUFFICES ASSUME NEW r \in DOMAIN res, res[r] = "waiting"
               PROVE  /\ r.gen = gw.gen /\ kid[r.kid] = [epoch |-> r.epoch, up |-> TRUE]
                      /\ \/ r \in dropped
                         \/ \E x \in DOMAIN table :
                              /\ table[x] = [kid |-> r.kid, local |-> r.id]
                              /\ Carried(x, r, gw.gen, router, Range(held) \union {msg}, Accepted)
    BY <1>2, <1>10 DEF Waits
  <2>1. CASE r \in D
    <3>1. /\ r.gen = gw.gen /\ kid[r.kid] = [epoch |-> r.epoch, up |-> TRUE]
          /\ \/ r \in dropped
             \/ \E x \in DOMAIN gw.map :
                  /\ gw.map[x] = [kid |-> r.kid, local |-> r.id]
                  /\ Carried(x, r, gw.gen, router, Range(held), Accepted)
      BY <1>11, <2>1 DEF IInv, Waits
    <3>2. \A x : Carried(x, r, gw.gen, router, Range(held), Accepted)
                   => Carried(x, r, gw.gen, router, Range(held) \union {msg}, Accepted)
      BY DEF Carried
    <3> QED  BY <1>7, <3>1, <3>2
  <2>2. CASE r = who
    <3>1. kid[k] = [epoch |-> kid[k].epoch, up |-> TRUE]
      BY DEF IInv, Types
    <3>2. Carried(n, r, gw.gen, router, Range(held) \union {msg}, Accepted)
      BY <2>2 DEF Carried
    <3> QED  BY <1>3, <1>7, <2>2, <3>1, <3>2
  <2> QED  BY <1>11, <2>1, <2>2
<1> QED  BY <1>2, <1>10, <1>11, <1>12, <1>13, <1>14, <1>17, <1>18, <1>19, <1>20

LEMMA AskKeeps ==
  ASSUME IInv, NEW k \in Kid, Ask(k)
  PROVE  IInv'
<1> DEFINE who == Asker(k, NextLocal(k))
           msg == [id |-> gw.next, who |-> who]
           g == [gw EXCEPT !.next = @ + 1, !.map = Bind(@, gw.next, [kid |-> k, local |-> who.id])]
           res == Bind(result, who, "waiting")
           H == Range(held) \union {msg}
           waking == mode \in {"suspended", "waking", "reloading"}
<1>1. /\ kid[k].up /\ Cardinality(DOMAIN result) < MaxAsks /\ UNCHANGED <<kid, queue, faults>>
      /\ waking => /\ held' = Append(held, msg) /\ gw' = g /\ result' = res
                   /\ mode' = IF mode = "suspended" THEN "waking" ELSE mode
                   /\ IF mode = "suspended" THEN StartBuilder(1) ELSE UNCHANGED <<bh, attempt>>
                   /\ UNCHANGED <<router, work, built, dropped>>
      /\ ~waking => /\ SendToBuilder(bh.status, router, <<msg>>, held, g, res)
                    /\ UNCHANGED <<mode, attempt>>
  BY DEF Ask
<1>2. /\ g \in Gateway /\ g.gen = gw.gen /\ g.phase = gw.phase /\ gw.phase # "down"
      /\ Results(res) /\ IsFiniteSet(DOMAIN res) /\ DOMAIN result \subseteq DOMAIN res
      /\ msg \in Message
      /\ HeldRight(H, g, kid)
      /\ AcceptedRight(Accepted, router, g, kid)
      /\ Numbered(DOMAIN res, g, kid)
      /\ Waits(g, kid, res, router, H, Accepted, dropped)
  BY <1>1, AskIsRight
<1> HIDE DEF who, msg, g, res
<1>3. /\ router \in Router /\ router.generation = gw.gen /\ Flown(router) /\ work \in Seq(Accept)
      /\ queue \in Seq(Answer) /\ held \in Seq(Message) /\ bh \in Builder /\ dropped \subseteq DOMAIN result
      /\ bh.status \in {"starting", "ready", "recycling", "restarting", "stopped"} /\ mode \in Modes
  BY DEF IInv, Types, Builder, Counted
<1>4. CASE waking
  <2>1. /\ held' = Append(held, msg) /\ gw' = g /\ result' = res
        /\ UNCHANGED <<router, work, built, dropped>>
    BY <1>1, <1>4
  <2>2. held' \in Seq(Message) /\ Range(held') = H
    BY <1>2, <1>3, <2>1, AppendRange
  <2>3. bh' \in Builder /\ attempt' \in 0..StartAttempts
    <3>1. CASE mode = "suspended"
      BY <1>1, <1>4, <3>1, BuilderStates, Attempts DEF StartBuilder
    <3>2. CASE mode # "suspended"
      BY <1>1, <1>4, <3>2 DEF IInv, Types
    <3> QED  BY <3>1, <3>2
  <2>4. mode' \in Modes /\ (mode' \in {"recycling", "reloading"} => mode' = mode)
    BY <1>1, <1>3, <1>4 DEF Modes
  <2>5. Accepted' = Accepted
    BY <1>1, <2>1, AcceptedStays
  <2>6. Types'
    BY <1>1, <1>2, <1>3, <2>1, <2>2, <2>3, <2>4 DEF IInv, Types
  <2>7. Counted' /\ ForeignAnswersAreOlder' /\ Flown(router')
    BY <1>1, <1>2, <2>1 DEF IInv, Counted, ForeignAnswersAreOlder, Flown
  <2>8. Phases'
    BY <1>1, <1>2, <2>1, <2>4 DEF IInv, Phases
  <2> QED  BY <1>1, <1>2, <2>1, <2>2, <2>5, <2>6, <2>7, <2>8, NextState
<1>5. CASE ~waking
  <2>1. SendToBuilder(bh.status, router, <<msg>>, held, g, res) /\ UNCHANGED <<mode, attempt>>
    BY <1>1, <1>5
  <2>s. <<msg>> \in Seq(Message) /\ Range(held) \union Range(<<msg>>) = H
    <3>1. <<msg>> \in Seq(Message) /\ DOMAIN <<msg>> = {1} /\ <<msg>>[1] = msg
      BY <1>2
    <3> QED  BY <3>1 DEF Range
  <2>a. \A x \in Accepted : x.id < router.next
    BY DEF IInv, AcceptedRight
  <2>4. /\ router' \in Router /\ router'.generation = router.generation /\ Flown(router')
        /\ held' \in Seq(Message) /\ work' \in Seq(Accept) /\ bh' \in Builder /\ built' = built
        /\ \E R : /\ Settles(g, kid, res, R, dropped, gw', result', dropped')
                  /\ Moves(g, router, Range(held) \union Range(<<msg>>), Accepted, R, router', Range(held'), Accepted')
    BY <1>1, <1>2, <1>3, <2>1, <2>s, <2>a, SendMoves
  <2>5. PICK R : /\ Settles(g, kid, res, R, dropped, gw', result', dropped')
                 /\ Moves(g, router, H, Accepted, R, router', Range(held'), Accepted')
    BY <2>4, <2>s
  <2>6. Accepted \subseteq Accept /\ Accepted' \subseteq Accept /\ H \subseteq Message
    <3>1. Range(work') \subseteq Accept /\ Range(queue') \subseteq Answer
      BY <1>1, <1>3, <2>4, InSeq
    <3>2. Entries(work') \subseteq Accept /\ Entries(queue') \subseteq Accept
      BY <3>1 DEF Entries, Accept, Answer
    <3> QED  BY <1>2, <1>3, <3>2, AcceptedNext, AcceptedIsAccept, InSeq
  <2> HIDE DEF H
  <2>7. HeldRight(Range(held'), gw', kid)
    BY <1>2, <2>5, MovesHeld DEF Moves
  <2>8. AcceptedRight(Accepted', router', gw', kid)
    BY <1>2, <1>3, <2>4, <2>5, <2>6, MovesAccepted
  <2>9. Waits(gw', kid, result', router', Range(held'), Accepted', dropped')
    BY <1>2, <2>5, MovesWaits
  <2>10. /\ gw' \in Gateway /\ gw'.gen = g.gen /\ gw'.phase = g.phase /\ gw'.next = g.next
         /\ Results(result') /\ DOMAIN result' = DOMAIN res /\ dropped' \subseteq dropped \union DOMAIN res
         /\ \A n \in DOMAIN gw'.map : n \in DOMAIN g.map
    BY <2>5 DEF Settles
  <2>11. Numbered(DOMAIN result', gw', kid)
    BY <1>2, <2>10 DEF Numbered
  <2>12. Types'
    BY <1>1, <1>2, <1>3, <2>1, <2>4, <2>10 DEF IInv, Types
  <2>13. Counted' /\ Phases' /\ ForeignAnswersAreOlder'
    BY <1>1, <1>2, <1>3, <2>1, <2>4, <2>10 DEF IInv, Counted, Phases, ForeignAnswersAreOlder
  <2> QED  BY <1>1, <2>4, <2>7, <2>8, <2>9, <2>11, <2>12, <2>13, NextState
<1> QED  BY <1>4, <1>5

----------------------------------------------------------------------------
LEMMA InitInv == Init => IInv
<1> SUFFICES ASSUME Init  PROVE IInv
  OBVIOUS
<1>1. /\ gw = [gen |-> 1, phase |-> "booting", next |-> 1, map |-> << >>]
      /\ kid = [k \in Kid |-> [epoch |-> 0, up |-> FALSE]] /\ result = << >> /\ built = {}
      /\ router = [generation |-> 1, next |-> 1, inFlight |-> << >>]
      /\ held = << >> /\ queue = << >> /\ work = << >>
      /\ bh = [Stopped EXCEPT !.status = "ready", !.proc = TRUE, !.ready = TRUE]
      /\ mode = "awake" /\ attempt = 0 /\ dropped = {} /\ faults = [kid |-> 0, builder |-> 0]
  BY DEF Init
<1>2. /\ 1 \in 1..MaxGateways /\ 1 \in 1..MaxAsks + 1 /\ 0 \in 0..MaxDeaths /\ 0 \in 0..StartAttempts
      /\ MaxAsks \in Nat
  BY RelayAssumption DEF RelayAssumption
<1>3. gw \in Gateway /\ gw.gen = 1 /\ gw.phase = "booting" /\ gw.next = 1 /\ DOMAIN gw.map = {}
  BY <1>1, <1>2, EmptyIsTable, EmptyRange DEF Gateway
<1>4. router \in Router /\ router.generation = 1 /\ router.next = 1 /\ DOMAIN router.inFlight = {}
  BY <1>1, <1>2, EmptyIsTable, EmptyRange DEF Router
<1>5. Results(result) /\ DOMAIN result = {} /\ IsFiniteSet(DOMAIN result) /\ Cardinality(DOMAIN result) = 0
  BY <1>1, EmptyRange, FS_EmptySet DEF Results
<1>6. bh \in Builder
  BY <1>1 DEF Stopped, Builder
<1>7. kid \in [Kid -> [epoch : 0..MaxDeaths, up : BOOLEAN]]
  BY <1>1, <1>2
<1>8. Types
  BY <1>1, <1>2, <1>3, <1>4, <1>5, <1>6, <1>7 DEF Types, Modes
<1>9. Range(held) = {} /\ Accepted = {}
  BY <1>1, EmptyRange, AcceptedIs DEF Entries
<1>10. HeldRight(Range(held), gw, kid) /\ AcceptedRight(Accepted, router, gw, kid)
  BY <1>9 DEF HeldRight, AcceptedRight
<1>11. Numbered(DOMAIN result, gw, kid)
  BY <1>2, <1>3, <1>5 DEF Numbered
<1>12. Counted /\ Flown(router) /\ Phases /\ ForeignAnswersAreOlder
  BY <1>1, <1>3, <1>4 DEF Counted, Flown, Phases, ForeignAnswersAreOlder
<1>13. Waits(gw, kid, result, router, Range(held), Accepted, dropped)
  BY <1>5 DEF Waits
<1> QED  BY <1>8, <1>10, <1>11, <1>12, <1>13 DEF IInv

LEMMA NextInv ==
  ASSUME IInv, [Next]_vars
  PROVE  IInv'
<1>1. ASSUME NEW k \in Kid, KidReady(k) \/ KidDies(k) \/ Ask(k)  PROVE IInv'
  BY <1>1, KidReadyKeeps, KidDiesKeeps, AskKeeps
<1>2. ASSUME NEW r \in DOMAIN result, RpcTimeout(r)  PROVE IInv'
  BY <1>2, RpcTimeoutKeeps
<1>3. ASSUME NEW ok \in BOOLEAN, BuilderAnswers(ok)  PROVE IInv'
  BY <1>3, BuilderAnswersKeeps
<1>4. ASSUME NEW config \in BOOLEAN, WakeForEdit(config)  PROVE IInv'
  BY <1>4, WakeForEditKeeps
<1>5. CASE GatewayExits \/ StartGateway \/ HandleAnswer
  BY <1>5, GatewayExitsKeeps, StartGatewayKeeps, HandleAnswerKeeps
<1>6. CASE BuilderReady \/ ReadyBuilderExits \/ StartFails \/ Suspend
  BY <1>6, BuilderReadyKeeps, ReadyBuilderExitsKeeps, StartFailsKeeps, SuspendKeeps
<1>7. CASE RestartTimer \/ ReplacementFails \/ Recycle \/ RecoverBuilder
  BY <1>7, HostAloneKeeps
<1>8. CASE RecycleChildren \/ Awake \/ Recycled
  BY <1>8, RecycleChildrenKeeps, AwakeKeeps, RecycledKeeps
<1>9. CASE UNCHANGED vars
  <2>1. UNCHANGED <<gw, kid, result, built, router, held, queue, bh, work, mode, attempt, dropped, faults>>
    BY <1>9 DEF vars
  <2>2. Types' /\ Phases'
    BY <2>1 DEF IInv, Types, Phases, Results
  <2> QED  BY <2>1, <2>2, AcceptedStays, HostSteps
<1> QED  BY <1>1, <1>2, <1>3, <1>4, <1>5, <1>6, <1>7, <1>8, <1>9 DEF Next

----------------------------------------------------------------------------
(* The inductive invariant: every entry of the three tables names the      *)
(* request it was made for, numbers are used once, and who waits is under  *)
(* an entry.                                                               *)
THEOREM RelayInvariant == Spec => []IInv
<1>1. IInv /\ [Next]_vars => IInv'
  BY NextInv
<1> QED  BY InitInv, <1>1, PTL DEF Spec

(* The variables keep their types, and the bounds on gateways, deaths and  *)
(* numbers.                                                                *)
THEOREM TypeCorrect == Spec => []TypeOK
<1>1. ASSUME IInv  PROVE TypeOK
  <2>1. Types /\ Counted /\ Flown(router)
    BY <1>1 DEF IInv
  <2>2. gw \in [gen : 1..MaxGateways, phase : {"down", "booting", "ready"}, next : 1..MaxAsks + 1,
                map : UNION {[D -> [kid : Kid, local : 1..MaxAsks]] : D \in SUBSET (1..MaxAsks)}]
    BY <2>1 DEF Types, Gateway, Tables, Route
  <2>3. DOMAIN result \subseteq Request /\ \A r \in DOMAIN result : result[r] \in {"waiting", "ended"}
    BY <2>1 DEF Types, Results
  <2>4. router.generation = gw.gen /\ \A h \in DOMAIN router.inFlight : h < router.next
    BY <2>1 DEF Counted, Flown
  <2>5. \A i \in DOMAIN held : held[i] \in Message
    BY <2>1, InSeq DEF Types, Range
  <2>6. \A i \in DOMAIN queue : queue[i].who \in Request /\ queue[i].ok \in BOOLEAN
    <3>1. Range(queue) \subseteq Answer
      BY <2>1, InSeq DEF Types
    <3> QED  BY <3>1 DEF Range, Answer
  <2>7. bh.status \in {"starting", "ready", "recycling", "restarting", "stopped"}
    BY <2>1 DEF Types, Builder
  <2> QED  BY <2>1, <2>2, <2>3, <2>4, <2>5, <2>6, <2>7 DEF TypeOK, Types
<1> QED  BY <1>1, RelayInvariant, PTL

(* A build reaches another request than the one it was built for only      *)
(* where a process was replaced: within a gateway the request of the same  *)
(* number of a later process at the same index, across gateways one of a   *)
(* later gateway under which it was issued again.                          *)
THEOREM ForeignAnswersCorrect == Spec => []ForeignAnswersAreOlder
<1>1. IInv => ForeignAnswersAreOlder
  BY DEF IInv
<1> QED  BY <1>1, RelayInvariant, PTL

(* Whoever waits for a build is owed an answer by somebody, or was told    *)
(* too early, or waits where no builder is coming.                         *)
THEOREM WaitsCorrect == Spec => []EveryWaitIsOwed
<1>1. ASSUME IInv  PROVE EveryWaitIsOwed
  <2> SUFFICES ASSUME NEW r \in Pending
               PROVE  Owed(r) \/ r \in dropped \/ (Stranded /\ \E i \in DOMAIN held : held[i].who = r)
    BY DEF EveryWaitIsOwed
  <2>1. r \in DOMAIN result /\ result[r] = "waiting"
    BY DEF Pending
  <2>2. \/ r \in dropped
        \/ \E n \in DOMAIN gw.map :
             /\ gw.map[n] = [kid |-> r.kid, local |-> r.id]
             /\ Carried(n, r, gw.gen, router, Range(held), Accepted)
    BY <1>1, <2>1 DEF IInv, Waits
  <2>3. ASSUME NEW n \in DOMAIN gw.map, gw.map[n] = [kid |-> r.kid, local |-> r.id],
               [id |-> n, who |-> r] \in Range(held)
        PROVE  Owed(r) \/ (Stranded /\ \E i \in DOMAIN held : held[i].who = r)
    <3>1. PICK i \in DOMAIN held : held[i] = [id |-> n, who |-> r]
      BY <2>3 DEF Range
    <3>2. held[i].who = r
      BY <3>1
    <3> QED  BY <2>3, <3>1, <3>2 DEF Owed
  <2>4. ASSUME NEW n \in DOMAIN gw.map, gw.map[n] = [kid |-> r.kid, local |-> r.id],
               NEW h \in DOMAIN router.inFlight,
               router.inFlight[h] = [backendId |-> n, generation |-> gw.gen],
               NEW x \in Accepted, x.id = h
        PROVE  Owed(r)
    <3>1. router.generation = gw.gen
      BY <1>1 DEF IInv, Counted
    <3>2. h \in {work[i].id : i \in DOMAIN work} \union {queue[i].id : i \in DOMAIN queue}
      <4>1. PICK y \in Range(work) \union Range(queue) : x = [id |-> y.id, who |-> y.who]
        BY DEF Accepted
      <4>2. y.id = h
        BY <2>4, <4>1
      <4> QED  BY <4>1, <4>2 DEF Range
    <3> QED  BY <2>4, <3>1, <3>2 DEF Owed
  <2> QED  BY <2>2, <2>3, <2>4 DEF Carried
<1> QED  BY <1>1, RelayInvariant, PTL
=============================================================================
