----------------------- MODULE ChildSupervisorProofs -----------------------
(***************************************************************************)
(* Proofs about ChildSupervisor for every number of replicas and every     *)
(* bound.  IInv strengthens OneLiveProcessPerReplica: a chain reaches its  *)
(* timer and its socket removal only for a process whose exit has been     *)
(* seen, the removing chain's process is still the current one, and an     *)
(* armed restartTimer has a timer behind it.  The second part is about     *)
(* which children the gateway routes to: its candidate cache is never      *)
(* stale, and no child is routed to while a restart chain is about to stop *)
(* or replace it.  The third part is about crash loops: the attempts that  *)
(* the gateway counts agree with the starts that failed, so a replica is   *)
(* abandoned in a crash loop, only in one, and for good.  The fourth part  *)
(* is about the child at the other end of a stop (ServerLifecycle), for    *)
(* every number of stages, every place of the queue among them, and every  *)
(* number of requests and jobs: what its exit code 0 means.                *)
(***************************************************************************)
EXTENDS ChildSupervisor, ServerLifecycle, TLAPS

ArmedHasTimer == \A p \in Proc : state[p].timer => timers[p] > 0

ChainOnlyAfterExit ==
  \A p \in Proc : timers[p] > 0 \/ removing[p] => Reaped(p)

UnspawnedIsBlank == \A p \in Proc : os[p] = "none" <=> ~Spawned(p)

MapHoldsSpawned ==
  \A i \in Idx : LET p == children[i] IN
    p # NoProc => p \in Proc /\ Spawned(p) /\ state[p].idx = i

(* Until stop() clears the map nothing alive, and nothing being replaced,  *)
(* is missing from it.                                                     *)
NothingForgotten ==
  gw # "stopped" =>
    /\ \A i \in Idx : children[i] # NoProc
    /\ \A p \in Proc : Live(p) \/ removing[p] => Current(p)

IInv ==
  /\ TypeOK
  /\ ArmedHasTimer
  /\ ChainOnlyAfterExit
  /\ UnspawnedIsBlank
  /\ MapHoldsSpawned
  /\ NothingForgotten

----------------------------------------------------------------------------
(* What all steps have in common that neither spawn a process nor clear    *)
(* the children map.                                                       *)
KeepsMap ==
  /\ UNCHANGED <<children, next>>
  /\ gw' # "stopped" => gw # "stopped"
  /\ \A q \in Proc :
       /\ state'[q].idx = state[q].idx
       /\ state'[q].timer => timers'[q] > 0
       /\ os'[q] = "none" <=> os[q] = "none"
       /\ Reaped(q) => Reaped(q)'
       /\ timers'[q] > 0 \/ removing'[q] => Reaped(q)'
       /\ removing'[q] => removing[q] \/ Current(q)

LEMMA KeepsMapKeepsInv ==
  ASSUME IInv, TypeOK', KeepsMap
  PROVE  IInv'
<1> USE DEF IInv, KeepsMap
<1>1. ArmedHasTimer'
  BY DEF ArmedHasTimer
<1>2. ChainOnlyAfterExit'
  BY DEF ChainOnlyAfterExit
<1>3. UnspawnedIsBlank'
  BY DEF UnspawnedIsBlank, Spawned
<1>4. MapHoldsSpawned'
  BY DEF MapHoldsSpawned, Spawned, NoProc
<1>5. NothingForgotten'
  BY DEF NothingForgotten, Live, Current, Spawned, Reaped
<1> QED
  BY <1>1, <1>2, <1>3, <1>4, <1>5

----------------------------------------------------------------------------
(* The update of #scheduleChildRestart, with its new values named. *)
LEMMA RestartUpdateType ==
  ASSUME NEW c \in ChildState, NEW s \in Status, NEW n \in Nat
  PROVE  [c EXCEPT !.pending = TRUE, !.ready = FALSE, !.status = s,
                   !.attempts = n] \in ChildState
  BY DEF ChildState

LEMMA RestartPendingType ==
  ASSUME NEW c \in ChildState, NEW reason
  PROVE  /\ RestartPending(c, reason) \in ChildState
         /\ RestartPending(c, reason).idx = c.idx
         /\ RestartPending(c, reason).timer = c.timer
<1>1. c.attempts + 1 \in Nat
  BY DEF ChildState
<1>2. (IF reason \in {"health-timeout", "upstream-open-failed"}
       THEN "unhealthy" ELSE "exited") \in Status
  BY DEF Status
<1>3. RestartPending(c, reason) \in ChildState
  BY <1>1, <1>2, RestartUpdateType DEF RestartPending
<1>4. /\ RestartPending(c, reason).idx = c.idx
      /\ RestartPending(c, reason).timer = c.timer
  BY DEF RestartPending, ChildState
<1> QED
  BY <1>3, <1>4

(* #scheduleChildRestart keeps the index and the timer of a ChildState. *)
LEMMA AfterScheduleType ==
  ASSUME NEW c \in ChildState, NEW reason
  PROVE  /\ AfterSchedule(c, reason) \in ChildState
         /\ AfterSchedule(c, reason).idx = c.idx
         /\ AfterSchedule(c, reason).timer = c.timer
<1>1. /\ Crashed(c) \in ChildState
      /\ Crashed(c).idx = c.idx
      /\ Crashed(c).timer = c.timer
  BY DEF Crashed, ChildState, Status
<1> QED
  BY <1>1, RestartPendingType DEF AfterSchedule

LEMMA TimerUpdateType ==
  ASSUME NEW c \in ChildState, NEW b \in BOOLEAN
  PROVE  /\ [c EXCEPT !.timer = b] \in ChildState
         /\ [c EXCEPT !.timer = b].idx = c.idx
         /\ [c EXCEPT !.timer = b].timer = b
  BY DEF ChildState

(* A call of #scheduleChildRestart keeps the types, and arms a timer only  *)
(* for a process whose exit has been seen.                                 *)
LEMMA ScheduleEffect ==
  ASSUME IInv, NEW p \in Proc, NEW c \in ChildState, NEW reason,
         c.idx = state[p].idx, c.timer = state[p].timer,
         Schedule(p, c, reason)
  PROVE  /\ state' \in [Proc -> ChildState]
         /\ \A q \in Proc : /\ state'[q].idx = state[q].idx
                            /\ state'[q].timer => timers'[q] > 0
                            /\ timers'[q] > 0 => Reaped(q)
         /\ awaitExit' \in [Proc -> Nat]
         /\ timers' \in [Proc -> Nat]
         /\ removing' = removing
         /\ asked' \in [Proc -> {"no", "shutdown", "sigterm"}]
<1> USE DEF IInv, TypeOK, ArmedHasTimer, ChainOnlyAfterExit
<1> DEFINE c1 == AfterSchedule(c, reason)
           c2 == [c1 EXCEPT !.timer = TRUE]
           starts == StartsChain(c) /\ Current(p)
<1>0. /\ c1 \in ChildState /\ c1.idx = c.idx /\ c1.timer = c.timer
      /\ c2 \in ChildState /\ c2.idx = c.idx
  <2>1. c1 \in ChildState /\ c1.idx = c.idx /\ c1.timer = c.timer
    BY AfterScheduleType
  <2> HIDE DEF c1
  <2> QED
    BY <2>1, TimerUpdateType
<1>1. CASE gw # "running"
  BY <1>1 DEF Schedule, chains, ScheduleLive, ScheduleReaped
<1>2. CASE gw = "running" /\ ~Reaped(p)
  <2>1. ScheduleLive(p, c, reason)
    BY <1>2 DEF Schedule
  <2>2. /\ state' = [state EXCEPT ![p] = c1]
        /\ awaitExit' = IF starts THEN [awaitExit EXCEPT ![p] = @ + 1] ELSE awaitExit
        /\ asked' = asked \/ asked' = [asked EXCEPT ![p] = "shutdown"]
        /\ UNCHANGED <<timers, removing>>
    BY <2>1 DEF ScheduleLive
  <2> HIDE DEF c1, starts
  <2> QED
    BY <1>0, <2>2
<1>3. CASE gw = "running" /\ Reaped(p)
  <2>1. ScheduleReaped(p, c, reason)
    BY <1>3 DEF Schedule
  <2>2. /\ state' = [state EXCEPT ![p] = IF starts THEN c2 ELSE c1]
        /\ timers' = IF starts THEN [timers EXCEPT ![p] = @ + 1] ELSE timers
        /\ UNCHANGED <<awaitExit, asked, removing>>
    BY <2>1 DEF ScheduleReaped
  <2> HIDE DEF c1, c2, starts
  <2> QED
    BY <1>0, <1>3, <2>2
<1> QED
  BY <1>1, <1>2, <1>3

----------------------------------------------------------------------------
LEMMA InitIInv == ASSUME Init PROVE IInv
<1> USE ConstantsAssumption DEF Init
<1>1. ASSUME NEW p \in Proc
      PROVE  NewChild(IF p <= Replicas THEN p - 1 ELSE 0, 0) \in ChildState
  BY <1>1 DEF NewChild, ChildState, Status, Idx, Proc
<1>2. TypeOK
  <2>1. state \in [Proc -> ChildState]
    BY <1>1
  <2>2. children \in [Idx -> Proc \union {NoProc}]
    BY DEF Idx, Proc, NoProc
  <2>3. next \in 1 .. MaxProc + 1
    BY DEF Proc
  <2>4. inbox \in [Proc -> Seq({"ready", "error", "pong"})]
    OBVIOUS
  <2>5. failedBoots \in [Idx -> Nat] /\ faults \in Nat
    OBVIOUS
  <2> QED
    BY <2>1, <2>2, <2>3, <2>4, <2>5, Zenon DEF TypeOK
<1>3. ArmedHasTimer
  BY DEF ArmedHasTimer, NewChild
<1>4. ChainOnlyAfterExit
  BY DEF ChainOnlyAfterExit
<1>5. UnspawnedIsBlank
  BY DEF UnspawnedIsBlank, Spawned, Proc
<1>6. MapHoldsSpawned
  BY DEF MapHoldsSpawned, NewChild, Spawned, Idx, Proc, NoProc
<1>7. NothingForgotten
  BY DEF NothingForgotten, NewChild, Live, Current, Reaped, Spawned, Idx, Proc, NoProc
<1> QED
  BY <1>2, <1>3, <1>4, <1>5, <1>6, <1>7 DEF IInv

Message == {"ready", "error", "pong"}

LEMMA SendType ==
  ASSUME NEW f \in [Proc -> Seq(Message)], NEW p \in Proc, NEW m \in Message
  PROVE  [f EXCEPT ![p] = Append(@, m)] \in [Proc -> Seq(Message)]
<1>1. Append(f[p], m) \in Seq(Message)
  OBVIOUS
<1> QED
  BY <1>1

LEMMA ReceiveType ==
  ASSUME NEW f \in [Proc -> Seq(Message)], NEW p \in Proc, f[p] # <<>>
  PROVE  [f EXCEPT ![p] = Tail(@)] \in [Proc -> Seq(Message)]
<1>1. Tail(f[p]) \in Seq(Message)
  OBVIOUS
<1> QED
  BY <1>1

(* The process itself acts: only what it is and what it sent changes. *)
LEMMA ChildStepKeepsInv ==
  ASSUME IInv, NEW p \in Proc, ChildStep(p)
  PROVE  IInv'
<1> USE DEF IInv, TypeOK, Fault, Send, chains
<1>1. /\ os' \in [Proc -> {"none", "booting", "serving", "hung", "dead", "reaped"}]
      /\ \A q \in Proc : /\ os'[q] = "none" <=> os[q] = "none"
                         /\ os'[q] = "reaped" <=> os[q] = "reaped"
  BY DEF ChildStep, ChildReady, ChildStartFails, ChildDies, ChildHangs,
         ChildResumes, ChildExits, ChildPongs
<1>2. inbox' \in [Proc -> Seq({"ready", "error", "pong"})]
  <2>1. \/ inbox' = inbox
        \/ \E m \in Message : inbox' = [inbox EXCEPT ![p] = Append(@, m)]
    BY DEF ChildStep, ChildReady, ChildStartFails, ChildDies, ChildHangs,
           ChildResumes, ChildExits, ChildPongs, Message
  <2>2. CASE inbox' = inbox
    BY <2>2
  <2>3. CASE \E m \in Message : inbox' = [inbox EXCEPT ![p] = Append(@, m)]
    <3>1. inbox \in [Proc -> Seq(Message)]
      BY DEF Message
    <3>2. inbox' \in [Proc -> Seq(Message)]
      BY <2>3, <3>1, SendType
    <3> QED
      BY <3>2 DEF Message
  <2> QED
    BY <2>1, <2>2, <2>3
<1>3. UNCHANGED <<gw, children, state, asked, chains, cache, cached, inflight,
                  waitFor, next, failedBoots>> /\ faults' \in Nat
  BY DEF ChildStep, ChildReady, ChildStartFails, ChildDies, ChildHangs,
         ChildResumes, ChildExits, ChildPongs
<1>4. TypeOK'
  BY <1>1, <1>2, <1>3
<1>5. KeepsMap
  BY <1>1, <1>3 DEF KeepsMap, Reaped, ArmedHasTimer, ChainOnlyAfterExit
<1> QED
  BY <1>4, <1>5, KeepsMapKeepsInv

----------------------------------------------------------------------------
(* The gateway reads a message. *)
LEMMA ReceiveEffect ==
  ASSUME IInv, NEW p \in Proc, NEW m, Receive(p, m)
  PROVE  inbox' \in [Proc -> Seq({"ready", "error", "pong"})]
<1>1. inbox \in [Proc -> Seq(Message)] /\ inbox[p] # <<>>
  BY DEF IInv, TypeOK, Receive, Message
<1> QED
  BY <1>1, ReceiveType DEF Receive, Message

LEMMA StatusType ==
  ASSUME NEW c \in ChildState, NEW s \in Status
  PROVE  LET d == [c EXCEPT !.status = s]
         IN  /\ d \in ChildState /\ d.idx = c.idx /\ d.timer = c.timer
             /\ d.ready = c.ready /\ d.pong = c.pong
  BY DEF ChildState

LEMMA PendingType ==
  ASSUME NEW c \in ChildState
  PROVE  LET d == [c EXCEPT !.pending = FALSE]
         IN  /\ d \in ChildState /\ d.idx = c.idx /\ d.timer = c.timer
             /\ d.ready = c.ready /\ d.status = c.status /\ d.pong = c.pong
  BY DEF ChildState

LEMMA StaleType ==
  ASSUME NEW c \in ChildState
  PROVE  LET d == [c EXCEPT !.pong = "stale"]
         IN  d \in ChildState /\ d.idx = c.idx /\ d.timer = c.timer
  BY DEF ChildState

LEMMA PongType ==
  ASSUME NEW c \in ChildState, NEW s \in Status
  PROVE  [c EXCEPT !.status = s, !.pong = "fresh"] \in ChildState
  BY DEF ChildState

LEMMA ReadyType ==
  ASSUME NEW c \in ChildState
  PROVE  [c EXCEPT !.ready = TRUE, !.status = "ready", !.pong = "fresh",
                   !.attempts = 0, !.pending = FALSE] \in ChildState
  BY DEF ChildState, Status

LEMMA MarkReadyKeepsInv ==
  ASSUME IInv, NEW p \in Proc, MarkReady(p)
  PROVE  IInv'
<1> USE DEF IInv, TypeOK, chains, InvalidateCache
<1>1. inbox' \in [Proc -> Seq({"ready", "error", "pong"})]
  BY ReceiveEffect DEF MarkReady
<1> DEFINE c1 == [state[p] EXCEPT !.ready = TRUE, !.status = "ready",
                    !.pong = "fresh", !.attempts = 0, !.pending = FALSE]
<1>2. c1 \in ChildState /\ c1.idx = state[p].idx /\ c1.timer = state[p].timer
  <2>1. state[p] \in ChildState
    OBVIOUS
  <2>2. c1 \in ChildState
    BY <2>1, ReadyType
  <2> QED
    BY <2>1, <2>2 DEF ChildState
<1>3. state' = [state EXCEPT ![p] = c1]
  BY DEF MarkReady
<1>4. failedBoots' \in [Idx -> Nat]
  BY DEF MarkReady
<1>5. UNCHANGED <<gw, children, os, asked, awaitExit, timers, removing, inflight,
                  waitFor, next, faults>> /\ cache' = {} /\ cached' = FALSE
  BY DEF MarkReady
<1> HIDE DEF c1
<1>6. /\ state' \in [Proc -> ChildState]
      /\ \A q \in Proc : /\ state'[q].idx = state[q].idx
                         /\ state'[q].timer = state[q].timer
  BY <1>2, <1>3
<1>7. TypeOK'
  BY <1>1, <1>4, <1>5, <1>6
<1>8. KeepsMap
  BY <1>5, <1>6 DEF KeepsMap, Reaped, ArmedHasTimer, ChainOnlyAfterExit
<1> QED
  BY <1>7, <1>8, KeepsMapKeepsInv

LEMMA MarkHealthyKeepsInv ==
  ASSUME IInv, NEW p \in Proc, MarkHealthy(p)
  PROVE  IInv'
<1> USE DEF IInv, TypeOK, chains, InvalidateCache
<1>1. inbox' \in [Proc -> Seq({"ready", "error", "pong"})]
  BY ReceiveEffect DEF MarkHealthy
<1> DEFINE c1 == [state[p] EXCEPT !.status = "healthy", !.pong = "fresh"]
<1>2. c1 \in ChildState /\ c1.idx = state[p].idx /\ c1.timer = state[p].timer
  <2>1. state[p] \in ChildState /\ "healthy" \in Status
    BY DEF Status
  <2>2. c1 \in ChildState
    BY <2>1, PongType
  <2> QED
    BY <2>1, <2>2 DEF ChildState
<1>3. state' = [state EXCEPT ![p] = c1]
  BY DEF MarkHealthy
<1>5. UNCHANGED <<gw, children, os, asked, awaitExit, timers, removing, inflight,
                  waitFor, next, faults, failedBoots>> /\ cache' = {} /\ cached' = FALSE
  BY DEF MarkHealthy
<1> HIDE DEF c1
<1>6. /\ state' \in [Proc -> ChildState]
      /\ \A q \in Proc : /\ state'[q].idx = state[q].idx
                         /\ state'[q].timer = state[q].timer
  BY <1>2, <1>3
<1>7. TypeOK'
  BY <1>1, <1>5, <1>6
<1>8. KeepsMap
  BY <1>5, <1>6 DEF KeepsMap, Reaped, ArmedHasTimer, ChainOnlyAfterExit
<1> QED
  BY <1>7, <1>8, KeepsMapKeepsInv

LEMMA DropStaleKeepsInv ==
  ASSUME IInv, NEW p \in Proc, DropStaleMessage(p)
  PROVE  IInv'
<1> USE DEF IInv, TypeOK, chains
<1>1. inbox' \in [Proc -> Seq({"ready", "error", "pong"})]
  BY ReceiveEffect DEF DropStaleMessage
<1>2. UNCHANGED <<gw, children, state, os, asked, awaitExit, timers, removing, cache,
                  cached, inflight, waitFor, next, faults, failedBoots>>
  BY DEF DropStaleMessage
<1>3. TypeOK'
  BY <1>1, <1>2
<1>4. KeepsMap
  BY <1>2 DEF KeepsMap, Reaped, ArmedHasTimer, ChainOnlyAfterExit
<1> QED
  BY <1>3, <1>4, KeepsMapKeepsInv

(* A call of #scheduleChildRestart, whoever makes it. *)
LEMMA ScheduleKeepsInv ==
  ASSUME IInv, NEW p \in Proc, NEW c \in ChildState, NEW reason,
         c.idx = state[p].idx, c.timer = state[p].timer,
         Schedule(p, c, reason),
         InvalidateCache \/ UNCHANGED <<cache, cached>>,
         inbox' \in [Proc -> Seq({"ready", "error", "pong"})],
         inflight' \subseteq Proc,
         UNCHANGED <<gw, children, os, waitFor, next, faults, failedBoots>>
  PROVE  IInv'
<1>1. /\ state' \in [Proc -> ChildState]
      /\ \A q \in Proc : /\ state'[q].idx = state[q].idx
                         /\ state'[q].timer => timers'[q] > 0
                         /\ timers'[q] > 0 => Reaped(q)
      /\ awaitExit' \in [Proc -> Nat]
      /\ timers' \in [Proc -> Nat]
      /\ removing' = removing
      /\ asked' \in [Proc -> {"no", "shutdown", "sigterm"}]
  BY ScheduleEffect
<1>2. TypeOK'
  BY <1>1 DEF IInv, TypeOK, InvalidateCache
<1>3. KeepsMap
  BY <1>1 DEF KeepsMap, IInv, TypeOK, Reaped, ChainOnlyAfterExit
<1> QED
  BY <1>2, <1>3, KeepsMapKeepsInv

LEMMA ChildErrorKeepsInv ==
  ASSUME IInv, NEW p \in Proc, ChildError(p)
  PROVE  IInv'
<1>1. inbox' \in [Proc -> Seq({"ready", "error", "pong"})]
  BY ReceiveEffect DEF ChildError
<1>2. state[p] \in ChildState /\ inflight \subseteq Proc
  BY DEF IInv, TypeOK
<1>3. Schedule(p, state[p], "child-error")
  BY DEF ChildError
<1>4. InvalidateCache \/ UNCHANGED <<cache, cached>>
  BY DEF ChildError
<1>5. UNCHANGED <<gw, children, os, inflight, waitFor, next, faults, failedBoots>>
  BY DEF ChildError
<1>6. inflight' \subseteq Proc
  BY <1>2, <1>5
<1> QED
  BY <1>1, <1>2, <1>3, <1>4, <1>5, <1>6, ScheduleKeepsInv

LEMMA UpstreamOpenFailedKeepsInv ==
  ASSUME IInv, NEW p \in Proc, UpstreamOpenFailed(p)
  PROVE  IInv'
<1>1. /\ inbox' \in [Proc -> Seq({"ready", "error", "pong"})]
      /\ inflight' \subseteq Proc
      /\ state[p] \in ChildState
  BY DEF UpstreamOpenFailed, IInv, TypeOK
<1>2. Schedule(p, state[p], "upstream-open-failed")
  BY DEF UpstreamOpenFailed
<1>3. InvalidateCache \/ UNCHANGED <<cache, cached>>
  BY DEF UpstreamOpenFailed
<1>4. UNCHANGED <<gw, children, os, waitFor, next, faults, failedBoots>>
  BY DEF UpstreamOpenFailed
<1> QED
  BY <1>1, <1>2, <1>3, <1>4, ScheduleKeepsInv

LEMMA CheckHealthKeepsInv ==
  ASSUME IInv, NEW p \in Proc, NEW reason, CheckHealth(p, reason)
  PROVE  IInv'
<1> DEFINE c == [state[p] EXCEPT !.status = "unhealthy"]
<1>1. c \in ChildState /\ c.idx = state[p].idx /\ c.timer = state[p].timer
  BY StatusType DEF IInv, TypeOK, Status
<1>2. Schedule(p, c, reason)
  BY DEF CheckHealth
<1>3. /\ inbox' \in [Proc -> Seq({"ready", "error", "pong"})]
      /\ inflight' \subseteq Proc
  BY DEF CheckHealth, IInv, TypeOK
<1>4. InvalidateCache
  BY DEF CheckHealth
<1>5. UNCHANGED <<gw, children, os, waitFor, next, faults, failedBoots>>
  BY DEF CheckHealth
<1> HIDE DEF c
<1> QED
  BY <1>1, <1>2, <1>3, <1>4, <1>5, ScheduleKeepsInv

----------------------------------------------------------------------------
(* The exit event. *)
LEMMA ExitEffect ==
  ASSUME IInv, NEW p \in Proc, Exit(p)
  PROVE  /\ os' = [os EXCEPT ![p] = "reaped"]
         /\ os' \in [Proc -> {"none", "booting", "serving", "hung", "dead", "reaped"}]
         /\ \A q \in Proc : /\ os'[q] = "none" <=> os[q] = "none"
                            /\ Reaped(q) => Reaped(q)'
         /\ Reaped(p)'
         /\ awaitExit' \in [Proc -> Nat]
         /\ failedBoots' \in [Idx -> Nat]
<1>1. os' = [os EXCEPT ![p] = "reaped"] /\ os[p] = "dead"
  BY DEF Exit
<1>2. awaitExit' \in [Proc -> Nat]
  BY DEF Exit, IInv, TypeOK
<1>3. failedBoots' \in [Idx -> Nat]
  <2>1. state[p].idx \in Idx
    BY DEF IInv, TypeOK, ChildState
  <2>2. \A b \in [Idx -> Nat], i \in Idx : [b EXCEPT ![i] = @ + 1] \in [Idx -> Nat]
    OBVIOUS
  <2> QED
    BY <2>1, <2>2 DEF Exit, IInv, TypeOK
<1> QED
  BY <1>1, <1>2, <1>3 DEF IInv, TypeOK, Reaped

LEMMA ExitUnattendedKeepsInv ==
  ASSUME IInv, NEW p \in Proc, ExitUnattended(p)
  PROVE  IInv'
<1> DEFINE c1 == [state[p] EXCEPT !.status = "exited"]
<1>1. c1 \in ChildState /\ c1.idx = state[p].idx /\ c1.timer = state[p].timer
  BY StatusType DEF IInv, TypeOK, Status
<1>2. /\ state' = state \/ state' = [state EXCEPT ![p] = c1]
      /\ InvalidateCache \/ UNCHANGED <<cache, cached>>
      /\ Exit(p)
      /\ UNCHANGED <<gw, children, asked, inbox, timers, removing, inflight,
                     waitFor, next, faults>>
  BY DEF ExitUnattended
<1> HIDE DEF c1
<1>3. /\ state' \in [Proc -> ChildState]
      /\ \A q \in Proc : /\ state'[q].idx = state[q].idx
                         /\ state'[q].timer = state[q].timer
  BY <1>1, <1>2 DEF IInv, TypeOK
<1>4. TypeOK'
  BY <1>2, <1>3, ExitEffect DEF IInv, TypeOK, InvalidateCache
<1>5. KeepsMap
  BY <1>2, <1>3, ExitEffect
     DEF KeepsMap, IInv, TypeOK, ArmedHasTimer, ChainOnlyAfterExit
<1> QED
  BY <1>4, <1>5, KeepsMapKeepsInv

(* Every chain that awaited the exit, and the one it starts, is armed. *)
LEMMA ExitRestartsKeepsInv ==
  ASSUME IInv, NEW p \in Proc, ExitRestarts(p)
  PROVE  IInv'
<1> DEFINE c      == [state[p] EXCEPT !.status = "exited"]
           c1     == IF StaysAbandoned(p) THEN state[p] ELSE AfterSchedule(c, "exit")
           n      == IF ~StaysAbandoned(p) /\ StartsChain(c) THEN 1 ELSE 0
           armed  == awaitExit[p] + n
           b      == c1.timer \/ armed > 0
           c2     == [c1 EXCEPT !.timer = b]
<1>1. c1 \in ChildState /\ c1.idx = state[p].idx /\ c1.timer = state[p].timer
  <2>1. state[p] \in ChildState
    BY DEF IInv, TypeOK
  <2>2. c \in ChildState /\ c.idx = state[p].idx /\ c.timer = state[p].timer
    BY <2>1 DEF ChildState, Status
  <2> HIDE DEF c
  <2> QED
    BY <2>1, <2>2, AfterScheduleType
<1>2. /\ state' = [state EXCEPT ![p] = c2]
      /\ timers' = [timers EXCEPT ![p] = @ + armed]
      /\ InvalidateCache \/ UNCHANGED <<cache, cached>>
      /\ Exit(p)
      /\ UNCHANGED <<gw, children, asked, inbox, removing, inflight,
                     waitFor, next, faults>>
  BY DEF ExitRestarts
<1>3. n \in Nat /\ awaitExit[p] \in Nat
  BY DEF IInv, TypeOK
<1> HIDE DEF n
<1>4. armed \in Nat
  BY <1>3
<1> HIDE DEF armed
<1> HIDE DEF c1
<1>5. b \in BOOLEAN /\ (b => state[p].timer \/ armed > 0)
  BY <1>1 DEF ChildState
<1> HIDE DEF b
<1>6. c2 \in ChildState /\ c2.idx = state[p].idx /\ c2.timer = b
  BY <1>1, <1>5, TimerUpdateType
<1> HIDE DEF c2
<1>7. /\ state' \in [Proc -> ChildState] /\ timers' \in [Proc -> Nat]
      /\ \A q \in Proc : /\ state'[q].idx = state[q].idx
                         /\ state'[q].timer => timers'[q] > 0
                         /\ timers'[q] > 0 => timers[q] > 0 \/ q = p
  BY <1>2, <1>4, <1>5, <1>6 DEF IInv, TypeOK, ArmedHasTimer
<1>8. TypeOK'
  BY <1>2, <1>7, ExitEffect DEF IInv, TypeOK, InvalidateCache
<1>9. KeepsMap
  BY <1>2, <1>7, ExitEffect
     DEF KeepsMap, IInv, TypeOK, ArmedHasTimer, ChainOnlyAfterExit
<1> QED
  BY <1>8, <1>9, KeepsMapKeepsInv

LEMMA TimerFiresKeepsInv ==
  ASSUME IInv, NEW p \in Proc, TimerFires(p)
  PROVE  IInv'
<1> DEFINE c1 == [state[p] EXCEPT !.timer = FALSE]
<1>1. c1 \in ChildState /\ c1.idx = state[p].idx /\ ~c1.timer
  BY TimerUpdateType DEF IInv, TypeOK
<1>2. /\ state' = [state EXCEPT ![p] = c1]
      /\ timers' = [timers EXCEPT ![p] = @ - 1]
      /\ removing' = [removing EXCEPT ![p] = gw = "running" /\ Current(p)]
      /\ timers[p] > 0
      /\ UNCHANGED <<gw, children, os, asked, inbox, awaitExit, cache, cached,
                     inflight, waitFor, next, faults, failedBoots>>
  BY DEF TimerFires
<1> HIDE DEF c1
<1>3. timers[p] - 1 \in Nat
  BY <1>2 DEF IInv, TypeOK
<1>4. TypeOK'
  BY <1>1, <1>2, <1>3 DEF IInv, TypeOK
<1>5. KeepsMap
  BY <1>1, <1>2, <1>3
     DEF KeepsMap, IInv, TypeOK, Reaped, ArmedHasTimer, ChainOnlyAfterExit
<1> QED
  BY <1>4, <1>5, KeepsMapKeepsInv

LEMMA RespawnFailsKeepsInv ==
  ASSUME IInv, NEW p \in Proc, RespawnFails(p)
  PROVE  IInv'
<1> DEFINE c  == [state[p] EXCEPT !.pending = FALSE]
           c2 == RestartPending(c, "respawn-failed")
           c3 == [c2 EXCEPT !.timer = TRUE]
           c4 == AfterSchedule(c, "respawn-failed")
<1>1. c \in ChildState /\ c.idx = state[p].idx /\ c.timer = state[p].timer
  BY PendingType DEF IInv, TypeOK
<1>2. /\ removing[p]
      /\ \/ /\ state' = [state EXCEPT ![p] = c3]
            /\ timers' = [timers EXCEPT ![p] = @ + 1]
         \/ /\ state' = [state EXCEPT ![p] = c4]
            /\ timers' = [timers EXCEPT ![p] = @ + 0]
         \/ state' = [state EXCEPT ![p] = c] /\ UNCHANGED timers
      /\ removing' = [removing EXCEPT ![p] = FALSE]
      /\ InvalidateCache \/ UNCHANGED <<cache, cached>>
      /\ failedBoots' = [failedBoots EXCEPT ![state[p].idx] = @ + 1]
      /\ faults' = faults + 1
      /\ UNCHANGED <<gw, children, os, asked, inbox, awaitExit, inflight, waitFor,
                     next>>
  BY DEF RespawnFails, Fault
<1> HIDE DEF c
<1>3. c2 \in ChildState /\ c2.idx = state[p].idx /\ c2.timer = state[p].timer
  BY <1>1, RestartPendingType
<1>4. c4 \in ChildState /\ c4.idx = state[p].idx /\ c4.timer = state[p].timer
  BY <1>1, AfterScheduleType
<1> HIDE DEF c2, c4
<1>5. c3 \in ChildState /\ c3.idx = state[p].idx
  BY <1>3, TimerUpdateType
<1> HIDE DEF c3
<1>6. /\ state' \in [Proc -> ChildState] /\ timers' \in [Proc -> Nat]
      /\ \A q \in Proc : /\ state'[q].idx = state[q].idx
                         /\ state'[q].timer => timers'[q] > 0
                         /\ timers'[q] > 0 => timers[q] > 0 \/ q = p
  <2> USE DEF IInv, TypeOK, ArmedHasTimer
  <2>1. CASE /\ state' = [state EXCEPT ![p] = c3]
             /\ timers' = [timers EXCEPT ![p] = @ + 1]
    BY <1>5, <2>1
  <2>2. CASE /\ state' = [state EXCEPT ![p] = c4]
             /\ timers' = [timers EXCEPT ![p] = @ + 0]
    <3>1. timers' = timers
      BY <2>2
    <3> QED
      BY <1>4, <2>2, <3>1
  <2>3. CASE state' = [state EXCEPT ![p] = c] /\ UNCHANGED timers
    BY <1>1, <2>3
  <2> QED
    BY <1>2, <2>1, <2>2, <2>3
<1>7. failedBoots' \in [Idx -> Nat] /\ faults' \in Nat
  <2>1. state[p].idx \in Idx
    BY DEF IInv, TypeOK, ChildState
  <2> QED
    BY <1>2, <2>1 DEF IInv, TypeOK
<1>8. TypeOK'
  BY <1>2, <1>6, <1>7 DEF IInv, TypeOK, InvalidateCache
<1>9. KeepsMap
  BY <1>2, <1>6 DEF KeepsMap, IInv, TypeOK, Reaped, ChainOnlyAfterExit
<1> QED
  BY <1>8, <1>9, KeepsMapKeepsInv

LEMMA PongAgesKeepsInv ==
  ASSUME IInv, NEW p \in Proc, PongAges(p)
  PROVE  IInv'
<1> DEFINE c1 == [state[p] EXCEPT !.pong = "stale"]
<1>1. c1 \in ChildState /\ c1.idx = state[p].idx /\ c1.timer = state[p].timer
  BY StaleType DEF IInv, TypeOK
<1>2. /\ state' = [state EXCEPT ![p] = c1]
      /\ UNCHANGED <<gw, children, os, asked, inbox, chains, cache, cached, inflight,
                     waitFor, next, faults, failedBoots>>
  BY DEF PongAges
<1> HIDE DEF c1
<1>3. TypeOK'
  BY <1>1, <1>2 DEF IInv, TypeOK, chains
<1>4. KeepsMap
  BY <1>1, <1>2
     DEF KeepsMap, chains, IInv, TypeOK, Reaped, ArmedHasTimer, ChainOnlyAfterExit
<1> QED
  BY <1>3, <1>4, KeepsMapKeepsInv

----------------------------------------------------------------------------
(* The one step that spawns a process. *)
LEMMA NewChildType ==
  ASSUME NEW i \in Idx, NEW n \in Nat
  PROVE  /\ NewChild(i, n) \in ChildState
         /\ NewChild(i, n).idx = i
         /\ ~NewChild(i, n).timer
  BY DEF NewChild, ChildState, Status

LEMMA RespawnKeepsInv ==
  ASSUME IInv, NEW p \in Proc, Respawn(p)
  PROVE  IInv'
<1> DEFINE i  == state[p].idx
           n  == IF children[i] = NoProc THEN 0 ELSE state[children[i]].attempts
           c1 == [state[p] EXCEPT !.pending = FALSE]
           c2 == NewChild(i, n)
<1>1. state[p] \in ChildState /\ i \in Idx /\ children[i] \in Proc \union {NoProc}
  BY DEF IInv, TypeOK, ChildState
<1>2. c1 \in ChildState /\ c1.idx = i /\ c1.timer = state[p].timer
  BY <1>1 DEF ChildState
<1>3. n \in Nat
  BY <1>1 DEF IInv, TypeOK, ChildState
<1>4. /\ removing[p] /\ next \in Proc
      /\ removing' = [removing EXCEPT ![p] = FALSE]
      /\ state' = [state EXCEPT ![p] = c1, ![next] = c2]
      /\ children' = [children EXCEPT ![i] = next]
      /\ os' = [os EXCEPT ![next] = "booting"]
      /\ next' = next + 1
      /\ cached' = FALSE /\ cache' = {}
      /\ UNCHANGED <<gw, asked, inbox, awaitExit, timers, inflight, waitFor, faults,
                     failedBoots>>
  BY DEF Respawn, InvalidateCache
<1> HIDE DEF c1, n
<1>5. c2 \in ChildState /\ c2.idx = i /\ ~c2.timer
  BY <1>1, <1>3, NewChildType
<1> HIDE DEF c2
<1>6. Reaped(p) /\ os[next] = "none" /\ p # next
  BY <1>4 DEF IInv, ChainOnlyAfterExit, UnspawnedIsBlank, Spawned, Reaped, Proc
<1> HIDE DEF i
<1>7. /\ state' \in [Proc -> ChildState]
      /\ state'[next] = c2
      /\ \A q \in Proc \ {next} : /\ state'[q].idx = state[q].idx
                                  /\ state'[q].timer = state[q].timer
  BY <1>2, <1>4, <1>5, <1>6 DEF IInv, TypeOK, i
<1>8. TypeOK'
  <2>1. next' \in 1 .. MaxProc + 1
    BY <1>4, ConstantsAssumption DEF Proc
  <2>2. children' \in [Idx -> Proc \union {NoProc}]
    BY <1>1, <1>4 DEF IInv, TypeOK
  <2>3. os' \in [Proc -> {"none", "booting", "serving", "hung", "dead", "reaped"}]
    BY <1>4 DEF IInv, TypeOK
  <2>4. removing' \in [Proc -> BOOLEAN] /\ cache' \subseteq Proc /\ cached' \in BOOLEAN
    BY <1>4 DEF IInv, TypeOK
  <2> QED
    BY <1>4, <1>7, <2>1, <2>2, <2>3, <2>4 DEF IInv, TypeOK
<1>9. ArmedHasTimer'
  BY <1>4, <1>5, <1>7 DEF IInv, ArmedHasTimer
<1>10. ChainOnlyAfterExit'
  BY <1>4, <1>6 DEF IInv, TypeOK, ChainOnlyAfterExit, Reaped
<1>11. UnspawnedIsBlank'
  BY <1>4 DEF IInv, TypeOK, UnspawnedIsBlank, Spawned, Proc
<1>12. MapHoldsSpawned'
  <2> SUFFICES ASSUME NEW j \in Idx, children'[j] # NoProc
               PROVE  /\ children'[j] \in Proc
                      /\ children'[j] < next'
                      /\ state'[children'[j]].idx = j
    BY DEF MapHoldsSpawned, Spawned
  <2>1. CASE j = i
    BY <1>1, <1>4, <1>5, <1>7, <2>1 DEF IInv, TypeOK, Proc
  <2>2. CASE j # i
    BY <1>4, <1>7, <2>2 DEF IInv, TypeOK, MapHoldsSpawned, Spawned, Proc
  <2> QED
    BY <2>1, <2>2
<1>13. NothingForgotten'
  <2> SUFFICES ASSUME gw # "stopped"
               PROVE  /\ \A j \in Idx : children'[j] # NoProc
                      /\ \A q \in Proc : Live(q)' \/ removing'[q] => Current(q)'
    BY <1>4 DEF NothingForgotten
  <2>1. \A j \in Idx : children'[j] # NoProc
    BY <1>4 DEF IInv, TypeOK, NothingForgotten, Proc, NoProc
  <2>2. ASSUME NEW q \in Proc, Live(q)' \/ removing'[q]
        PROVE  Current(q)'
    <3>1. CASE q = next
      BY <1>1, <1>4, <1>5, <1>7, <3>1 DEF Current, Spawned, IInv, TypeOK, Proc
    <3>2. CASE q # next
      <4>1. q # p /\ (Live(q) \/ removing[q])
        BY <1>4, <1>6, <2>2, <3>2
           DEF Live, Reaped, Spawned, IInv, TypeOK, UnspawnedIsBlank, Proc
      <4>2. Current(q) /\ Current(p)
        BY <1>4, <4>1 DEF IInv, NothingForgotten
      <4>3. state[q].idx # i
        BY <4>1, <4>2 DEF Current, i
      <4>4. state[q].idx \in Idx
        BY DEF IInv, TypeOK, ChildState
      <4> QED
        BY <1>1, <1>4, <1>7, <3>2, <4>2, <4>3, <4>4
           DEF Current, Spawned, IInv, TypeOK, Proc
    <3> QED
      BY <3>1, <3>2
  <2> QED
    BY <2>1, <2>2
<1> QED
  BY <1>8, <1>9, <1>10, <1>11, <1>12, <1>13 DEF IInv

----------------------------------------------------------------------------
(* stop().  An armed timer has a pending timer to take back. *)
LEMMA StopBeginKeepsInv ==
  ASSUME IInv, StopBegin
  PROVE  IInv'
<1> DEFINE c(q) == [state[q] EXCEPT !.timer = state[q].timer /\ q \notin Armed]
<1>1. /\ gw = "running" /\ gw' = "stopping"
      /\ waitFor' = {children[i] : i \in Idx}
      /\ timers' = [q \in Proc |-> IF q \in Armed THEN timers[q] - 1 ELSE timers[q]]
      /\ state' = [q \in Proc |-> c(q)]
      /\ UNCHANGED <<children, os, inbox, awaitExit, removing, cache, cached,
                     inflight, next, faults, failedBoots>>
  BY DEF StopBegin
<1>2. asked' \in [Proc -> {"no", "shutdown", "sigterm"}]
  BY DEF StopBegin, IInv, TypeOK
<1>3. ASSUME NEW q \in Proc
      PROVE  /\ c(q) \in ChildState /\ c(q).idx = state[q].idx
             /\ c(q).timer => q \notin Armed /\ state[q].timer
             /\ (IF q \in Armed THEN timers[q] - 1 ELSE timers[q]) \in Nat
  <2> DEFINE b == state[q].timer /\ q \notin Armed
  <2>1. b \in BOOLEAN /\ state[q] \in ChildState
    BY DEF IInv, TypeOK, ChildState
  <2>2. q \in Armed => timers[q] > 0
    BY DEF Armed, IInv, ArmedHasTimer
  <2>3. (IF q \in Armed THEN timers[q] - 1 ELSE timers[q]) \in Nat
    BY <2>2 DEF IInv, TypeOK
  <2>4. c(q) = [state[q] EXCEPT !.timer = b]
    OBVIOUS
  <2>5. b => q \notin Armed /\ state[q].timer
    OBVIOUS
  <2> HIDE DEF b, c
  <2>6. c(q) \in ChildState /\ c(q).idx = state[q].idx /\ c(q).timer = b
    BY <2>1, <2>4, TimerUpdateType
  <2> QED
    BY <2>3, <2>5, <2>6
<1> HIDE DEF c
<1>4. waitFor' \subseteq Proc
  BY <1>1 DEF IInv, TypeOK, NothingForgotten
<1>5. state' \in [Proc -> ChildState] /\ timers' \in [Proc -> Nat]
  BY <1>1, <1>3
<1>6. TypeOK'
  BY <1>1, <1>2, <1>4, <1>5 DEF IInv, TypeOK
<1>7. KeepsMap
  BY <1>1, <1>3
     DEF KeepsMap, IInv, TypeOK, Reaped, ArmedHasTimer, ChainOnlyAfterExit
<1> QED
  BY <1>6, <1>7, KeepsMapKeepsInv

LEMMA StopKillsKeepsInv ==
  ASSUME IInv, StopKills
  PROVE  IInv'
<1>1. /\ gw = "stopping" /\ gw' = "killing"
      /\ waitFor' \subseteq Proc
      /\ UNCHANGED <<children, state, asked, inbox, chains, cache, cached, inflight,
                     next, faults, failedBoots>>
  BY DEF StopKills
<1>2. \A q \in Proc : os'[q] = os[q] \/ (os'[q] = "dead" /\ ~Reaped(q) /\ Spawned(q))
  BY DEF StopKills, Current
<1>3. os' \in [Proc -> {"none", "booting", "serving", "hung", "dead", "reaped"}]
  BY DEF StopKills, IInv, TypeOK
<1>4. TypeOK'
  BY <1>1, <1>3 DEF IInv, TypeOK, chains
<1>5. KeepsMap
  BY <1>1, <1>2
     DEF KeepsMap, chains, IInv, TypeOK, Reaped, ArmedHasTimer, ChainOnlyAfterExit,
         UnspawnedIsBlank
<1> QED
  BY <1>4, <1>5, KeepsMapKeepsInv

LEMMA StopDoneKeepsInv ==
  ASSUME IInv, StopDone
  PROVE  IInv'
<1>1. /\ gw' = "stopped" /\ children' = [i \in Idx |-> NoProc]
      /\ UNCHANGED <<state, os, asked, inbox, awaitExit, timers, removing, cache,
                     cached, inflight, waitFor, next, faults, failedBoots>>
  BY DEF StopDone, chains
<1> QED
  BY <1>1 DEF IInv, TypeOK, ArmedHasTimer, ChainOnlyAfterExit, UnspawnedIsBlank,
              MapHoldsSpawned, NothingForgotten, Reaped, Spawned

(* Steps that leave every ChildState, process and chain alone. *)
LEMMA ProxyKeepsInv ==
  ASSUME IInv, ProxyRequest \/ \E p \in Proc : ProxyAnswered(p) \/ GraceTimeout(p)
  PROVE  IInv'
<1>1. UNCHANGED <<gw, children, state, os, inbox, chains, waitFor, next, faults,
                  failedBoots>>
  BY DEF ProxyRequest, ProxyAnswered, GraceTimeout
<1>2. Candidates \subseteq Proc
  BY DEF Candidates, IInv, TypeOK
<1>3. /\ cache' \subseteq Proc /\ cached' \in BOOLEAN /\ inflight' \subseteq Proc
      /\ asked' \in [Proc -> {"no", "shutdown", "sigterm"}]
  BY <1>2 DEF ProxyRequest, ProxyAnswered, GraceTimeout, IInv, TypeOK
<1>4. TypeOK'
  BY <1>1, <1>3 DEF IInv, TypeOK, chains
<1>5. KeepsMap
  BY <1>1
     DEF KeepsMap, chains, IInv, TypeOK, Reaped, ArmedHasTimer, ChainOnlyAfterExit
<1> QED
  BY <1>4, <1>5, KeepsMapKeepsInv

----------------------------------------------------------------------------
LEMMA NextKeepsIInv ==
  ASSUME IInv, [Next]_vars
  PROVE  IInv'
<1>1. ASSUME NEW p \in Proc, GatewayStep(p)
      PROVE  IInv'
  BY <1>1, DropStaleKeepsInv, MarkReadyKeepsInv, MarkHealthyKeepsInv,
     ChildErrorKeepsInv, ExitUnattendedKeepsInv, ExitRestartsKeepsInv,
     TimerFiresKeepsInv, RespawnKeepsInv, RespawnFailsKeepsInv, PongAgesKeepsInv,
     CheckHealthKeepsInv, UpstreamOpenFailedKeepsInv, ProxyKeepsInv
     DEF GatewayStep, HealthTimeout, HealthSendFailed
<1>2. CASE UNCHANGED vars
  BY <1>2 DEF vars, chains, IInv, TypeOK, ArmedHasTimer, ChainOnlyAfterExit,
              UnspawnedIsBlank, MapHoldsSpawned, NothingForgotten, Reaped, Spawned,
              Live, Current
<1> QED
  BY <1>1, <1>2, ChildStepKeepsInv, ProxyKeepsInv, StopBeginKeepsInv,
     StopKillsKeepsInv, StopDoneKeepsInv DEF Next

(* The strengthened invariant of the supervision loop is inductive. *)
THEOREM SupervisorInvariant == Spec => []IInv
<1>1. Init => IInv
  BY InitIInv
<1>2. IInv /\ [Next]_vars => IInv'
  BY NextKeepsIInv
<1> QED
  BY <1>1, <1>2, PTL DEF Spec

(* Every variable of the gateway keeps its type, for any number of         *)
(* replicas, roles, faults and hosting mode.                               *)
THEOREM TypeCorrect == Spec => []TypeOK
<1>1. IInv => TypeOK
  BY DEF IInv
<1> QED
  BY <1>1, SupervisorInvariant, PTL

(* #respawnChild never starts a second process for an index whose process  *)
(* is still running, and the gateway never loses track of a running one,   *)
(* whatever faults, late messages, overlapping restart chains or stop()    *)
(* occur.                                                                  *)
THEOREM OneLiveProcess == Spec => []OneLiveProcessPerReplica
<1>1. IInv => OneLiveProcessPerReplica
  BY DEF IInv, NothingForgotten, OneLiveProcessPerReplica
<1> QED
  BY <1>1, SupervisorInvariant, PTL

----------------------------------------------------------------------------
(* The cache of routing candidates.  A step either resets it, or leaves    *)
(* every process as routable as it was.                                    *)
RoutingKept == \A q \in Proc : Routable(q)' <=> Routable(q)

CacheKept == \/ gw' # "running"
             \/ InvalidateCache
             \/ UNCHANGED <<gw, cache, cached>> /\ RoutingKept

LEMMA CacheKeptSuffices ==
  ASSUME CacheCoherent, CacheKept
  PROVE  CacheCoherent'
  BY DEF CacheCoherent, CacheKept, RoutingKept, InvalidateCache

(* What Routable reads of a ChildState. *)
SameRouting(c, d) == c.idx = d.idx /\ c.ready = d.ready /\ c.status = d.status

(* A step that changes neither the map nor what Routable reads of a child, *)
(* unless that child was out of routing and stays so.                      *)
LEMMA RoutingKeptIf ==
  ASSUME UNCHANGED <<children, next>>,
         \A q \in Proc :
           \/ SameRouting(state'[q], state[q]) /\ (Reaped(q)' <=> Reaped(q))
           \/ ~Routable(q) /\ ~Routable(q)'
  PROVE  RoutingKept
<1> SUFFICES ASSUME NEW q \in Proc
             PROVE  Routable(q)' <=> Routable(q)
  BY DEF RoutingKept
<1>1. CASE SameRouting(state'[q], state[q]) /\ (Reaped(q)' <=> Reaped(q))
  BY <1>1 DEF SameRouting, Routable, Unavailable, Current, Spawned
<1>2. CASE ~Routable(q) /\ ~Routable(q)'
  BY <1>2
<1> QED
  BY <1>1, <1>2

(* An abandoned child is not routed to. *)
LEMMA CrashedNotRoutable ==
  ASSUME NEW p \in Proc
  PROVE  /\ state[p].status = "crashed" => ~Routable(p)
         /\ state'[p].status = "crashed" => ~Routable(p)'
  BY DEF Routable, Unavailable

(* #scheduleChildRestart leaves routing alone when it does not reset the   *)
(* cache: a restart is scheduled already, or the child is abandoned.       *)
LEMMA ScheduleKeepsRouting ==
  ASSUME IInv, NEW p \in Proc, NEW reason, gw = "running",
         Schedule(p, state[p], reason), ~ScheduleInvalidates(state[p]),
         UNCHANGED <<children, next, os>>
  PROVE  RoutingKept
<1> DEFINE c  == state[p]
           c1 == AfterSchedule(c, reason)
<1>1. state \in [Proc -> ChildState] /\ c \in ChildState
  BY DEF IInv, TypeOK
<1>2. Scheduled(c) \/ (GivesUp(c) /\ c.status = "crashed")
  BY DEF ScheduleInvalidates
<1>3. ~StartsChain(c)
  BY <1>2 DEF StartsChain
<1>4. state' = [state EXCEPT ![p] = c1]
  BY <1>3 DEF Schedule, ScheduleLive, ScheduleReaped
<1>5. c1 = c \/ (c.status = "crashed" /\ c1.status = "crashed")
  BY <1>1, <1>2 DEF AfterSchedule, Crashed, ChildState
<1> HIDE DEF c1
<1>6. SameRouting(state'[p], state[p]) \/ (~Routable(p) /\ ~Routable(p)')
  BY <1>1, <1>4, <1>5, CrashedNotRoutable DEF SameRouting
<1>7. \A q \in Proc \ {p} : SameRouting(state'[q], state[q])
  BY <1>1, <1>4 DEF SameRouting
<1> QED
  BY <1>6, <1>7, RoutingKeptIf DEF Reaped

LEMMA ScheduleCacheKept ==
  ASSUME IInv, NEW p \in Proc, NEW reason,
         Schedule(p, state[p], reason),
         IF ScheduleInvalidates(state[p]) THEN InvalidateCache
         ELSE UNCHANGED <<cache, cached>>,
         UNCHANGED <<gw, children, next, os>>
  PROVE  CacheKept
<1>1. CASE gw # "running" \/ ScheduleInvalidates(state[p])
  BY <1>1 DEF CacheKept
<1>2. CASE gw = "running" /\ ~ScheduleInvalidates(state[p])
  BY <1>2, ScheduleKeepsRouting DEF CacheKept
<1> QED
  BY <1>1, <1>2

(* Steps of the child, and gateway steps that leave the ChildStates alone  *)
(* or touch no more than their timers and pongs.                           *)
LEMMA QuietCacheKept ==
  ASSUME IInv, NEW p \in Proc,
         \/ ChildStep(p) \/ DropStaleMessage(p) \/ GraceTimeout(p)
         \/ TimerFires(p) \/ PongAges(p) \/ ProxyAnswered(p)
  PROVE  CacheKept
<1>1. state \in [Proc -> ChildState]
  BY DEF IInv, TypeOK
<1>2. /\ UNCHANGED <<gw, cache, cached, children, next>>
      /\ \A q \in Proc : Reaped(q)' <=> Reaped(q)
  BY DEF IInv, TypeOK, ChildStep, ChildReady, ChildStartFails, ChildDies, ChildHangs,
         ChildResumes, ChildExits, ChildPongs, DropStaleMessage, GraceTimeout,
         TimerFires, PongAges, ProxyAnswered, Reaped
<1>3. \/ state' = state
      \/ state' = [state EXCEPT ![p].timer = FALSE]
      \/ state' = [state EXCEPT ![p].pong = "stale"]
  BY DEF ChildStep, ChildReady, ChildStartFails, ChildDies, ChildHangs,
         ChildResumes, ChildExits, ChildPongs, DropStaleMessage, GraceTimeout,
         TimerFires, PongAges, ProxyAnswered
<1>4. \A q \in Proc : SameRouting(state'[q], state[q])
  BY <1>1, <1>3 DEF SameRouting, ChildState
<1>5. RoutingKept
  BY <1>2, <1>4, RoutingKeptIf
<1> QED
  BY <1>2, <1>5 DEF CacheKept

(* The exit of a process that is not current, or that has been abandoned,  *)
(* concerns a child that was out of routing before.                        *)
LEMMA ExitCacheKept ==
  ASSUME IInv, NEW p \in Proc, ExitUnattended(p) \/ ExitRestarts(p)
  PROVE  CacheKept
<1>1. state \in [Proc -> ChildState] /\ os \in [Proc -> {"none", "booting",
        "serving", "hung", "dead", "reaped"}]
  BY DEF IInv, TypeOK
<1>2. CASE gw # "running" \/ InvalidateCache
  BY <1>2 DEF CacheKept, ExitUnattended, ExitRestarts
<1>3. CASE gw = "running" /\ ~InvalidateCache
  <2>1. os' = [os EXCEPT ![p] = "reaped"]
    BY DEF ExitUnattended, ExitRestarts, Exit
  <2>2. UNCHANGED <<gw, cache, cached, children, next>>
    BY <1>3 DEF ExitUnattended, ExitRestarts
  <2>3. Routable(p)' = FALSE
    BY <1>1, <2>1 DEF Routable, Unavailable, Reaped
  <2>4. CASE ExitUnattended(p)
    <3>1. state' = state /\ ~Current(p)
      BY <1>3, <2>4 DEF ExitUnattended
    <3>2. ~Routable(p)
      BY <3>1 DEF Routable
    <3>3. \A q \in Proc \ {p} : SameRouting(state'[q], state[q])
                                /\ (Reaped(q)' <=> Reaped(q))
      BY <1>1, <2>1, <3>1 DEF SameRouting, Reaped
    <3>4. RoutingKept
      BY <2>2, <2>3, <3>2, <3>3, RoutingKeptIf
    <3> QED
      BY <2>2, <3>4 DEF CacheKept
  <2>5. CASE ExitRestarts(p)
    <3>1. StaysAbandoned(p)
      BY <1>3, <2>5 DEF ExitRestarts
    <3>2. ~Routable(p)
      BY <3>1, CrashedNotRoutable DEF StaysAbandoned
    <3>3. \A q \in Proc \ {p} : state'[q] = state[q]
      BY <1>1, <2>5 DEF ExitRestarts
    <3>4. \A q \in Proc \ {p} : SameRouting(state'[q], state[q])
                                /\ (Reaped(q)' <=> Reaped(q))
      BY <1>1, <2>1, <3>3 DEF SameRouting, Reaped
    <3>5. RoutingKept
      BY <2>2, <2>3, <3>2, <3>4, RoutingKeptIf
    <3> QED
      BY <2>2, <3>5 DEF CacheKept
  <2> QED
    BY <2>4, <2>5
<1> QED
  BY <1>2, <1>3

LEMMA RespawnFailsCacheKept ==
  ASSUME IInv, NEW p \in Proc, RespawnFails(p)
  PROVE  CacheKept
<1> DEFINE c == [state[p] EXCEPT !.pending = FALSE]
<1>1. /\ state \in [Proc -> ChildState]
      /\ c \in ChildState
      /\ SameRouting(c, state[p])
  BY PendingType DEF IInv, TypeOK, SameRouting
<1>2. UNCHANGED <<gw, children, next, os>>
  BY DEF RespawnFails
<1>3. CASE gw # "running" \/ InvalidateCache
  BY <1>2, <1>3 DEF CacheKept
<1>4. CASE gw = "running" /\ ~InvalidateCache
  <2>1. UNCHANGED <<cache, cached>>
    BY <1>4 DEF RespawnFails
  <2>2. \/ state' = [state EXCEPT ![p] = c]
        \/ /\ ~ScheduleInvalidates(c)
           /\ state' = [state EXCEPT ![p] =
                          IF StartsChain(c)
                          THEN [RestartPending(c, "respawn-failed") EXCEPT !.timer = TRUE]
                          ELSE AfterSchedule(c, "respawn-failed")]
    BY <1>4 DEF RespawnFails
  <2> HIDE DEF c
  <2>3. \A q \in Proc \ {p} : SameRouting(state'[q], state[q])
    BY <1>1, <2>2 DEF SameRouting
  <2>4. SameRouting(state'[p], state[p]) \/ (~Routable(p) /\ ~Routable(p)')
    <3>1. CASE state' = [state EXCEPT ![p] = c]
      BY <1>1, <3>1
    <3>2. CASE /\ ~ScheduleInvalidates(c)
               /\ state' = [state EXCEPT ![p] =
                          IF StartsChain(c)
                          THEN [RestartPending(c, "respawn-failed") EXCEPT !.timer = TRUE]
                          ELSE AfterSchedule(c, "respawn-failed")]
      <4>1. Scheduled(c) \/ (GivesUp(c) /\ c.status = "crashed")
        BY <1>4, <3>2 DEF ScheduleInvalidates
      <4>2. state' = [state EXCEPT ![p] = AfterSchedule(c, "respawn-failed")]
        BY <3>2, <4>1 DEF StartsChain
      <4>3. \/ AfterSchedule(c, "respawn-failed") = c
            \/ /\ c.status = "crashed"
               /\ AfterSchedule(c, "respawn-failed").status = "crashed"
        BY <1>1, <4>1 DEF AfterSchedule, Crashed, ChildState
      <4> QED
        BY <1>1, <4>2, <4>3, CrashedNotRoutable DEF SameRouting
    <3> QED
      BY <2>2, <3>1, <3>2
  <2>5. RoutingKept
    BY <1>2, <2>3, <2>4, RoutingKeptIf DEF Reaped
  <2> QED
    BY <1>2, <2>1, <2>5 DEF CacheKept
<1> QED
  BY <1>3, <1>4

LEMMA GatewayStepCacheKept ==
  ASSUME IInv, NEW p \in Proc, ChildStep(p) \/ GatewayStep(p)
  PROVE  CacheKept
<1>1. CASE \/ ChildStep(p) \/ DropStaleMessage(p) \/ GraceTimeout(p)
           \/ TimerFires(p) \/ PongAges(p) \/ ProxyAnswered(p)
  BY <1>1, QuietCacheKept
<1>2. CASE \/ MarkReady(p) \/ MarkHealthy(p) \/ Respawn(p)
           \/ HealthTimeout(p) \/ HealthSendFailed(p)
  BY <1>2 DEF MarkReady, MarkHealthy, Respawn, HealthTimeout, HealthSendFailed,
              CheckHealth, CacheKept
<1>3. CASE ChildError(p)
  <2>1. /\ Schedule(p, state[p], "child-error")
        /\ IF ScheduleInvalidates(state[p]) THEN InvalidateCache
           ELSE UNCHANGED <<cache, cached>>
        /\ UNCHANGED <<gw, children, next, os>>
    BY <1>3 DEF ChildError
  <2> QED
    BY <2>1, ScheduleCacheKept
<1>4. CASE UpstreamOpenFailed(p)
  <2>1. /\ Schedule(p, state[p], "upstream-open-failed")
        /\ IF ScheduleInvalidates(state[p]) THEN InvalidateCache
           ELSE UNCHANGED <<cache, cached>>
        /\ UNCHANGED <<gw, children, next, os>>
    BY <1>4 DEF UpstreamOpenFailed
  <2> QED
    BY <2>1, ScheduleCacheKept
<1>5. CASE ExitUnattended(p) \/ ExitRestarts(p)
  BY <1>5, ExitCacheKept
<1>6. CASE RespawnFails(p)
  BY <1>6, RespawnFailsCacheKept
<1> QED
  BY <1>1, <1>2, <1>3, <1>4, <1>5, <1>6 DEF GatewayStep

LEMMA NextKeepsCache ==
  ASSUME IInv, CacheCoherent, [Next]_vars
  PROVE  CacheCoherent'
<1>1. CASE \E p \in Proc : ChildStep(p) \/ GatewayStep(p)
  BY <1>1, GatewayStepCacheKept, CacheKeptSuffices
<1>2. CASE ProxyRequest
  <2>1. /\ cache' = Candidates
        /\ UNCHANGED <<gw, children, state, os, next>>
    BY <1>2 DEF ProxyRequest
  <2>2. \A q \in Proc : Routable(q)' <=> Routable(q)
    BY <2>1 DEF Routable, Unavailable, Reaped, Current, Spawned
  <2> QED
    BY <2>1, <2>2 DEF CacheCoherent, Candidates
<1>3. CASE StopBegin \/ StopKills \/ StopDone
  BY <1>3 DEF StopBegin, StopKills, StopDone, CacheCoherent
<1>4. CASE UNCHANGED vars
  <2>1. UNCHANGED <<gw, children, state, os, next, cache, cached>>
    BY <1>4 DEF vars
  <2> QED
    BY <2>1 DEF CacheCoherent, Routable, Unavailable, Reaped, Current, Spawned
<1> QED
  BY <1>1, <1>2, <1>3, <1>4 DEF Next

(* No change of state that affects routing forgets to reset                *)
(* #federationChildCache: whenever it is not null it holds what the filter *)
(* of #pickFederationChild would find.                                     *)
THEOREM CacheCorrect == Spec => []CacheCoherent
<1>1. Init => CacheCoherent
  BY DEF Init, CacheCoherent
<1>2. IInv /\ CacheCoherent /\ [Next]_vars => CacheCoherent'
  BY NextKeepsCache
<1> QED
  BY <1>1, <1>2, SupervisorInvariant, PTL DEF Spec

----------------------------------------------------------------------------
(* NotRoutedWhileRestarting.  A chain that has reached its timer or its    *)
(* socket removal belongs to a process that has exited; what must be shown *)
(* is that a child which is being stopped cannot be marked ready again.    *)
(* "ready" is the first message of a process and is sent once, and only a  *)
(* process whose "ready" is not under way any more is known well enough to *)
(* be restarted while it still runs.                                       *)
OnlyFirst(s) == \A k \in DOMAIN s : s[k] = "ready" => k = 1
NoReady(s)   == \A k \in DOMAIN s : s[k] # "ready"

ReadyComesFirst == \A p \in Proc : OnlyFirst(inbox[p])

BootingIsSilent == \A p \in Proc : os[p] \in {"none", "booting"} => inbox[p] = <<>>

HasBooted(p) == os[p] \notin {"none", "booting"} /\ NoReady(inbox[p])

Known(p) == \/ state[p].pong # "none"
            \/ state[p].ready
            \/ p \in inflight
            \/ awaitExit[p] > 0

KnownHasBooted == \A p \in Proc : Known(p) => HasBooted(p)

StoppedIsOut == \A p \in Proc : awaitExit[p] > 0 => ~state[p].ready

RInv ==
  /\ ReadyComesFirst
  /\ BootingIsSilent
  /\ KnownHasBooted
  /\ StoppedIsOut

LEMMA TailHasNoReady ==
  ASSUME NEW s \in Seq(Message), s # <<>>, OnlyFirst(s)
  PROVE  NoReady(Tail(s))
<1> SUFFICES ASSUME NEW k \in DOMAIN Tail(s)
             PROVE  Tail(s)[k] # "ready"
  BY DEF NoReady
<1>1. k \in Nat \ {0} /\ k + 1 \in DOMAIN s /\ Tail(s)[k] = s[k + 1]
  OBVIOUS
<1>2. k + 1 # 1
  BY <1>1
<1> QED
  BY <1>1, <1>2 DEF OnlyFirst

LEMMA AppendKeepsReady ==
  ASSUME NEW s \in Seq(Message), NEW m \in {"error", "pong"}
  PROVE  /\ OnlyFirst(s) => OnlyFirst(Append(s, m))
         /\ NoReady(s) => NoReady(Append(s, m))
<1>1. \A k \in DOMAIN Append(s, m) :
        (k \in DOMAIN s /\ Append(s, m)[k] = s[k]) \/ Append(s, m)[k] = m
  OBVIOUS
<1> QED
  BY <1>1 DEF OnlyFirst, NoReady

LEMMA NoReadyIsOnlyFirst ==
  ASSUME NEW s, NoReady(s)
  PROVE  OnlyFirst(s)
  BY DEF NoReady, OnlyFirst

(* What a step does to the messages of one process. *)
Mute(q)  == os[q] \in {"none", "booting"}

MessageEffect(q) ==
  \/ inbox'[q] = inbox[q] /\ (Mute(q)' => Mute(q)) /\ (Mute(q) \/ ~Mute(q)')
  \/ inbox[q] # <<>> /\ inbox'[q] = Tail(inbox[q]) /\ os'[q] = os[q]
  \/ os[q] = "booting" /\ ~Mute(q)' /\ inbox'[q] = Append(inbox[q], "ready")
  \/ ~Mute(q)' /\ \E m \in {"error", "pong"} : inbox'[q] = Append(inbox[q], m)

LEMMA MessageEffectKeeps ==
  ASSUME IInv, RInv, NEW q \in Proc, MessageEffect(q)
  PROVE  /\ OnlyFirst(inbox'[q])
         /\ Mute(q)' => inbox'[q] = <<>>
         /\ HasBooted(q) => HasBooted(q)'
<1>1. inbox[q] \in Seq(Message) /\ OnlyFirst(inbox[q]) /\ (Mute(q) => inbox[q] = <<>>)
  BY DEF IInv, TypeOK, Message, RInv, ReadyComesFirst, BootingIsSilent, Mute
<1>2. HasBooted(q) <=> ~Mute(q) /\ NoReady(inbox[q])
  BY DEF HasBooted, Mute
<1>3. HasBooted(q)' <=> ~Mute(q)' /\ NoReady(inbox'[q])
  BY DEF HasBooted, Mute
<1>4. CASE inbox'[q] = inbox[q] /\ (Mute(q)' => Mute(q)) /\ (Mute(q) \/ ~Mute(q)')
  BY <1>1, <1>2, <1>3, <1>4
<1>5. CASE inbox[q] # <<>> /\ inbox'[q] = Tail(inbox[q]) /\ os'[q] = os[q]
  <2>1. NoReady(inbox'[q])
    BY <1>1, <1>5, TailHasNoReady
  <2>2. ~Mute(q) /\ ~Mute(q)'
    BY <1>1, <1>5 DEF Mute
  <2> QED
    BY <1>3, <2>1, <2>2, NoReadyIsOnlyFirst
<1>6. CASE os[q] = "booting" /\ ~Mute(q)' /\ inbox'[q] = Append(inbox[q], "ready")
  <2>1. inbox'[q] = Append(<<>>, "ready") /\ Mute(q)
    BY <1>1, <1>6 DEF Mute
  <2>2. OnlyFirst(inbox'[q])
    BY <2>1 DEF OnlyFirst
  <2> QED
    BY <1>2, <1>6, <2>1, <2>2
<1>7. CASE ~Mute(q)' /\ \E m \in {"error", "pong"} : inbox'[q] = Append(inbox[q], m)
  BY <1>1, <1>2, <1>3, <1>7, AppendKeepsReady
<1> QED
  BY <1>4, <1>5, <1>6, <1>7 DEF MessageEffect

(* All steps: messages move as above, a process newly known has booted,    *)
(* and a child being stopped is not made ready.                            *)
BootStep ==
  \A q \in Proc :
    /\ MessageEffect(q)
    /\ Known(q)' => Known(q) \/ HasBooted(q)'
    /\ awaitExit'[q] > 0 /\ state'[q].ready => awaitExit[q] > 0 /\ state[q].ready

LEMMA BootStepKeepsRInv ==
  ASSUME IInv, RInv, BootStep
  PROVE  RInv'
<1>1. ASSUME NEW q \in Proc
      PROVE  /\ OnlyFirst(inbox'[q])
             /\ Mute(q)' => inbox'[q] = <<>>
             /\ Known(q)' => HasBooted(q)'
             /\ awaitExit'[q] > 0 => ~state'[q].ready
  <2>1. /\ OnlyFirst(inbox'[q])
        /\ Mute(q)' => inbox'[q] = <<>>
        /\ HasBooted(q) => HasBooted(q)'
    BY MessageEffectKeeps DEF BootStep
  <2> QED
    BY <2>1 DEF BootStep, RInv, KnownHasBooted, StoppedIsOut
<1>2. ReadyComesFirst' /\ BootingIsSilent' /\ KnownHasBooted' /\ StoppedIsOut'
  BY <1>1 DEF ReadyComesFirst, BootingIsSilent, KnownHasBooted, StoppedIsOut, Mute
<1> QED
  BY <1>2 DEF RInv

(* A process one of whose messages has been read. *)
LEMMA ReceiveBoots ==
  ASSUME IInv, RInv, NEW p \in Proc, NEW m, Receive(p, m), UNCHANGED os
  PROVE  HasBooted(p)' /\ \A q \in Proc : MessageEffect(q)
<1>1. /\ inbox[p] # <<>> /\ inbox' = [inbox EXCEPT ![p] = Tail(@)]
      /\ inbox \in [Proc -> Seq(Message)]
  BY DEF Receive, IInv, TypeOK, Message
<1>2. inbox'[p] = Tail(inbox[p]) /\ \A q \in Proc \ {p} : inbox'[q] = inbox[q]
  BY <1>1
<1>3. NoReady(inbox'[p])
  BY <1>1, <1>2, TailHasNoReady DEF RInv, ReadyComesFirst
<1>4. os[p] \notin {"none", "booting"}
  BY <1>1 DEF RInv, BootingIsSilent
<1> QED
  BY <1>1, <1>2, <1>3, <1>4 DEF HasBooted, MessageEffect, Mute

LEMMA ScheduleBootEffect ==
  ASSUME IInv, NEW p \in Proc, NEW c \in ChildState, NEW reason,
         c.ready = state[p].ready, c.pong = state[p].pong,
         Schedule(p, c, reason)
  PROVE  \A q \in Proc :
           /\ state'[q].ready => state[q].ready
           /\ state'[q].pong = state[q].pong
           /\ awaitExit'[q] > 0 => awaitExit[q] > 0 \/ q = p
           /\ awaitExit'[q] > 0 /\ state'[q].ready => awaitExit[q] > 0
<1> DEFINE c1 == AfterSchedule(c, reason)
           c2 == [c1 EXCEPT !.timer = TRUE]
           starts == StartsChain(c) /\ Current(p)
<1>1. /\ state \in [Proc -> ChildState] /\ awaitExit \in [Proc -> Nat]
      /\ c1 \in ChildState
  BY AfterScheduleType DEF IInv, TypeOK
<1>2. /\ c1.ready => c.ready
      /\ c1.pong = c.pong
      /\ starts => ~c1.ready
  BY DEF AfterSchedule, StartsChain, Crashed, RestartPending, ChildState
<1> HIDE DEF c1
<1>3. c2.ready = c1.ready /\ c2.pong = c1.pong
  BY <1>1 DEF ChildState
<1> HIDE DEF c2
<1>4. \/ state' = [state EXCEPT ![p] = c] /\ awaitExit' = awaitExit
      \/ /\ state' = [state EXCEPT ![p] = c1]
         /\ awaitExit' = IF starts THEN [awaitExit EXCEPT ![p] = @ + 1] ELSE awaitExit
      \/ /\ state' = [state EXCEPT ![p] = IF starts THEN c2 ELSE c1]
         /\ awaitExit' = awaitExit
  BY DEF Schedule, ScheduleLive, ScheduleReaped, chains, c1, c2
<1> HIDE DEF starts
<1> QED
  BY <1>1, <1>2, <1>3, <1>4

(* #scheduleChildRestart for a process that has booted. *)
LEMMA ScheduleBoots ==
  ASSUME IInv, RInv, NEW p \in Proc, NEW c \in ChildState, NEW reason,
         c.ready = state[p].ready, c.pong = state[p].pong,
         Schedule(p, c, reason),
         HasBooted(p)', inflight' \subseteq inflight,
         \A q \in Proc : MessageEffect(q)
  PROVE  BootStep
<1>1. \A q \in Proc :
        /\ state'[q].ready => state[q].ready
        /\ state'[q].pong = state[q].pong
        /\ awaitExit'[q] > 0 => awaitExit[q] > 0 \/ q = p
        /\ awaitExit'[q] > 0 /\ state'[q].ready => awaitExit[q] > 0
  BY ScheduleBootEffect
<1> QED
  BY <1>1 DEF BootStep, Known

LEMMA QuietMessages ==
  ASSUME UNCHANGED <<inbox, os>>
  PROVE  \A q \in Proc : MessageEffect(q)
  BY DEF MessageEffect, Mute

(* The process acts: only what it is and what it sent changes. *)
LEMMA ChildBootStep ==
  ASSUME IInv, RInv, NEW p \in Proc, ChildStep(p)
  PROVE  BootStep
<1>1. UNCHANGED <<state, inflight, awaitExit>>
  BY DEF ChildStep, ChildReady, ChildStartFails, ChildDies, ChildHangs,
         ChildResumes, ChildExits, ChildPongs, chains
<1>2. /\ os \in [Proc -> {"none", "booting", "serving", "hung", "dead", "reaped"}]
      /\ inbox \in [Proc -> Seq(Message)]
  BY DEF IInv, TypeOK, Message
<1>3. \/ ChildReady(p)
      \/ /\ os' = os \/ \E o \in {"serving", "hung", "dead"} : os' = [os EXCEPT ![p] = o]
         /\ inbox' = inbox
      \/ /\ (os' = os /\ os[p] = "serving") \/ os' = [os EXCEPT ![p] = "dead"]
         /\ \E m \in {"error", "pong"} : inbox' = [inbox EXCEPT ![p] = Append(@, m)]
  BY DEF ChildStep, ChildStartFails, ChildDies, ChildHangs, ChildResumes,
         ChildExits, ChildPongs, Send
<1>4. \A q \in Proc : MessageEffect(q)
  <2>1. CASE ChildReady(p)
    BY <1>2, <2>1 DEF ChildReady, Send, MessageEffect, Mute
  <2>2. CASE /\ os' = os \/ \E o \in {"serving", "hung", "dead"} :
                              os' = [os EXCEPT ![p] = o]
             /\ inbox' = inbox
    BY <1>2, <2>2 DEF MessageEffect, Mute
  <2>3. CASE /\ (os' = os /\ os[p] = "serving") \/ os' = [os EXCEPT ![p] = "dead"]
             /\ \E m \in {"error", "pong"} : inbox' = [inbox EXCEPT ![p] = Append(@, m)]
    <3>1. PICK m \in {"error", "pong"} : inbox' = [inbox EXCEPT ![p] = Append(@, m)]
      BY <2>3
    <3>2. inbox'[p] = Append(inbox[p], m) /\ ~Mute(p)'
      BY <1>2, <2>3, <3>1 DEF Mute
    <3>3. \A q \in Proc \ {p} : inbox'[q] = inbox[q] /\ os'[q] = os[q]
      BY <1>2, <2>3, <3>1
    <3> QED
      BY <3>2, <3>3 DEF MessageEffect, Mute
  <2> QED
    BY <1>3, <2>1, <2>2, <2>3
<1> QED
  BY <1>1, <1>4 DEF BootStep, Known

LEMMA MarkReadyBootStep ==
  ASSUME IInv, RInv, NEW p \in Proc, MarkReady(p)
  PROVE  BootStep
<1>1. /\ state \in [Proc -> ChildState]
      /\ UNCHANGED <<os, inflight, awaitExit>>
      /\ Receive(p, "ready")
  BY DEF MarkReady, IInv, TypeOK, chains
<1>2. HasBooted(p)' /\ \A q \in Proc : MessageEffect(q)
  BY <1>1, ReceiveBoots
<1>3. \A q \in Proc \ {p} : state'[q] = state[q]
  BY <1>1 DEF MarkReady
<1>4. ~(awaitExit[p] > 0)
  <2>1. inbox[p] \in Seq(Message) /\ inbox[p] # <<>> /\ Head(inbox[p]) = "ready"
    BY <1>1 DEF Receive, IInv, TypeOK, Message
  <2>2. 1 \in DOMAIN inbox[p] /\ inbox[p][1] = "ready"
    BY <2>1
  <2>3. ~HasBooted(p)
    BY <2>2 DEF HasBooted, NoReady
  <2> QED
    BY <2>3 DEF RInv, KnownHasBooted, Known
<1> QED
  BY <1>1, <1>2, <1>3, <1>4 DEF BootStep, Known

LEMMA MarkHealthyBootStep ==
  ASSUME IInv, RInv, NEW p \in Proc, MarkHealthy(p)
  PROVE  BootStep
<1>1. /\ state \in [Proc -> ChildState]
      /\ UNCHANGED <<os, inflight, awaitExit>>
      /\ Receive(p, "pong")
  BY DEF MarkHealthy, IInv, TypeOK, chains
<1>2. HasBooted(p)' /\ \A q \in Proc : MessageEffect(q)
  BY <1>1, ReceiveBoots
<1>3. state' = [state EXCEPT ![p].status = "healthy", ![p].pong = "fresh"]
  BY DEF MarkHealthy
<1>4. /\ \A q \in Proc : state'[q].ready = state[q].ready
      /\ \A q \in Proc \ {p} : state'[q] = state[q]
  BY <1>1, <1>3 DEF ChildState
<1> QED
  BY <1>1, <1>2, <1>4 DEF BootStep, Known

LEMMA DropStaleBootStep ==
  ASSUME IInv, RInv, NEW p \in Proc, DropStaleMessage(p)
  PROVE  BootStep
<1>1. UNCHANGED <<os, state, inflight, awaitExit>>
  BY DEF DropStaleMessage, chains
<1>2. \A q \in Proc : MessageEffect(q)
  BY <1>1, ReceiveBoots DEF DropStaleMessage
<1> QED
  BY <1>1, <1>2 DEF BootStep, Known

LEMMA ChildErrorBootStep ==
  ASSUME IInv, RInv, NEW p \in Proc, ChildError(p)
  PROVE  BootStep
<1>1. state[p] \in ChildState
  BY DEF IInv, TypeOK
<1>2. Receive(p, "error") /\ Schedule(p, state[p], "child-error")
      /\ UNCHANGED <<os, inflight>>
  BY DEF ChildError
<1>3. HasBooted(p)' /\ \A q \in Proc : MessageEffect(q)
  BY <1>2, ReceiveBoots
<1> QED
  BY <1>1, <1>2, <1>3, ScheduleBoots

(* A request is open only to a child that was ready when it was picked. *)
LEMMA UpstreamOpenFailedBootStep ==
  ASSUME IInv, RInv, NEW p \in Proc, UpstreamOpenFailed(p)
  PROVE  BootStep
<1>1. state[p] \in ChildState /\ p \in inflight
  BY DEF IInv, TypeOK, UpstreamOpenFailed
<1>2. /\ Schedule(p, state[p], "upstream-open-failed")
      /\ UNCHANGED <<os, inbox>> /\ inflight' \subseteq inflight
  BY DEF UpstreamOpenFailed
<1>3. HasBooted(p)' /\ \A q \in Proc : MessageEffect(q)
  BY <1>1, <1>2, QuietMessages DEF RInv, KnownHasBooted, Known, HasBooted
<1> QED
  BY <1>1, <1>2, <1>3, ScheduleBoots

(* A health timeout needs an earlier answer, and the channel of a process  *)
(* that may still be booting is open.                                      *)
LEMMA CheckHealthBootStep ==
  ASSUME IInv, RInv, NEW p \in Proc, HealthTimeout(p) \/ HealthSendFailed(p)
  PROVE  BootStep
<1> DEFINE c == [state[p] EXCEPT !.status = "unhealthy"]
<1>1. c \in ChildState /\ c.ready = state[p].ready /\ c.pong = state[p].pong
  BY StatusType DEF IInv, TypeOK, Status
<1>2. UNCHANGED <<os, inbox, inflight>>
  BY DEF HealthTimeout, HealthSendFailed, CheckHealth
<1>3. \E reason \in {"health-timeout", "health-send-failed"} : Schedule(p, c, reason)
  BY DEF HealthTimeout, HealthSendFailed, CheckHealth
<1> HIDE DEF c
<1>4. HasBooted(p)
  <2>1. CASE HealthTimeout(p)
    BY <2>1 DEF HealthTimeout, RInv, KnownHasBooted, Known
  <2>2. CASE HealthSendFailed(p)
    BY <2>2 DEF HealthSendFailed, HasBooted, NoReady
  <2> QED
    BY <2>1, <2>2
<1>5. HasBooted(p)' /\ \A q \in Proc : MessageEffect(q)
  BY <1>2, <1>4, QuietMessages DEF HasBooted
<1>6. PICK reason \in {"health-timeout", "health-send-failed"} : Schedule(p, c, reason)
  BY <1>3
<1> QED
  BY <1>1, <1>2, <1>5, <1>6, ScheduleBoots

LEMMA ExitBootStep ==
  ASSUME IInv, RInv, NEW p \in Proc, ExitUnattended(p) \/ ExitRestarts(p)
  PROVE  BootStep
<1>1. /\ state \in [Proc -> ChildState]
      /\ os \in [Proc -> {"none", "booting", "serving", "hung", "dead", "reaped"}]
      /\ awaitExit \in [Proc -> Nat]
  BY DEF IInv, TypeOK
<1>2. /\ os[p] = "dead" /\ os' = [os EXCEPT ![p] = "reaped"]
      /\ awaitExit' = [awaitExit EXCEPT ![p] = 0]
      /\ UNCHANGED <<inbox, inflight>>
  BY DEF ExitUnattended, ExitRestarts, Exit
<1>3. \A q \in Proc : MessageEffect(q)
  BY <1>1, <1>2 DEF MessageEffect, Mute
<1>4. \A q \in Proc : awaitExit'[q] > 0 => awaitExit[q] > 0 /\ q # p
  BY <1>1, <1>2
<1>5. /\ \A q \in Proc \ {p} : state'[q] = state[q]
      /\ state'[p].ready => state[p].ready
      /\ state'[p].pong = state[p].pong
  <2>1. CASE ExitUnattended(p)
    BY <1>1, <2>1 DEF ExitUnattended, ChildState
  <2>2. CASE ExitRestarts(p)
    <3> DEFINE c  == [state[p] EXCEPT !.status = "exited"]
               c1 == IF StaysAbandoned(p) THEN state[p] ELSE AfterSchedule(c, "exit")
    <3>1. state[p] \in ChildState /\ c \in ChildState
          /\ c.ready = state[p].ready /\ c.pong = state[p].pong
      BY <1>1 DEF ChildState, Status
    <3> HIDE DEF c
    <3>2. /\ c1 \in ChildState
          /\ c1.ready => state[p].ready
          /\ c1.pong = state[p].pong
      BY <3>1, AfterScheduleType DEF AfterSchedule, Crashed, RestartPending, ChildState
    <3>3. \E b : state' = [state EXCEPT ![p] = [c1 EXCEPT !.timer = b]]
      BY <2>2 DEF ExitRestarts, c
    <3> HIDE DEF c1
    <3>4. PICK b : state' = [state EXCEPT ![p] = [c1 EXCEPT !.timer = b]]
      BY <3>3
    <3>5. [c1 EXCEPT !.timer = b].ready = c1.ready
          /\ [c1 EXCEPT !.timer = b].pong = c1.pong
      BY <3>2 DEF ChildState
    <3> QED
      BY <1>1, <3>2, <3>4, <3>5
  <2> QED
    BY <2>1, <2>2
<1> QED
  BY <1>2, <1>3, <1>4, <1>5 DEF BootStep, Known

LEMMA RespawnBootStep ==
  ASSUME IInv, RInv, NEW p \in Proc, Respawn(p)
  PROVE  BootStep
<1> DEFINE i == state[p].idx
           n == IF children[i] = NoProc THEN 0 ELSE state[children[i]].attempts
<1>1. /\ state \in [Proc -> ChildState]
      /\ os \in [Proc -> {"none", "booting", "serving", "hung", "dead", "reaped"}]
  BY DEF IInv, TypeOK
<1>2. /\ next \in Proc
      /\ state' = [state EXCEPT ![p].pending = FALSE, ![next] = NewChild(i, n)]
      /\ os' = [os EXCEPT ![next] = "booting"]
      /\ UNCHANGED <<inbox, inflight, awaitExit>>
  BY DEF Respawn
<1>3. os[next] = "none"
  BY <1>2 DEF IInv, UnspawnedIsBlank, Spawned, Proc
<1>4. ~Known(next)
  BY <1>2, <1>3 DEF RInv, KnownHasBooted, HasBooted
<1>5. \A q \in Proc : MessageEffect(q)
  BY <1>1, <1>2, <1>3 DEF MessageEffect, Mute
<1>6. state'[next].pong = "none" /\ ~state'[next].ready
  BY <1>1, <1>2 DEF NewChild
<1>7. \A q \in Proc \ {next} : /\ state'[q].pong = state[q].pong
                               /\ state'[q].ready = state[q].ready
  BY <1>1, <1>2 DEF ChildState
<1> QED
  BY <1>2, <1>4, <1>5, <1>6, <1>7 DEF BootStep, Known

LEMMA RespawnFailsBootStep ==
  ASSUME IInv, RInv, NEW p \in Proc, RespawnFails(p)
  PROVE  BootStep
<1> DEFINE c  == [state[p] EXCEPT !.pending = FALSE]
           c2 == RestartPending(c, "respawn-failed")
           c3 == [c2 EXCEPT !.timer = TRUE]
           c4 == AfterSchedule(c, "respawn-failed")
<1>1. /\ state \in [Proc -> ChildState] /\ state[p] \in ChildState
      /\ c \in ChildState /\ c.ready = state[p].ready /\ c.pong = state[p].pong
  BY PendingType DEF IInv, TypeOK
<1>2. /\ \/ state' = [state EXCEPT ![p] = c]
         \/ state' = [state EXCEPT ![p] = c3]
         \/ state' = [state EXCEPT ![p] = c4]
      /\ UNCHANGED <<os, inbox, inflight, awaitExit>>
  BY DEF RespawnFails
<1> HIDE DEF c
<1>3. c2 \in ChildState /\ ~c2.ready /\ c2.pong = c.pong
  BY <1>1, RestartPendingType DEF RestartPending, ChildState
<1>4. (c4.ready => c.ready) /\ c4.pong = c.pong
  BY <1>1 DEF AfterSchedule, Crashed, RestartPending, ChildState
<1> HIDE DEF c2, c4
<1>5. ~c3.ready /\ c3.pong = c.pong
  BY <1>3 DEF ChildState
<1> HIDE DEF c3
<1>6. \A q \in Proc : /\ state'[q].ready => state[q].ready
                      /\ state'[q].pong = state[q].pong
  BY <1>1, <1>2, <1>4, <1>5
<1> QED
  BY <1>2, <1>6, QuietMessages DEF BootStep, Known

(* The remaining steps touch timers and pongs, and open requests. *)
LEMMA QuietBootStep ==
  ASSUME IInv, RInv, CacheCoherent,
         \/ \E p \in Proc : GraceTimeout(p) \/ TimerFires(p) \/ PongAges(p)
                            \/ ProxyAnswered(p)
         \/ ProxyRequest
         \/ StopBegin \/ StopKills \/ StopDone
         \/ UNCHANGED vars
  PROVE  BootStep
<1>1. /\ state \in [Proc -> ChildState]
      /\ os \in [Proc -> {"none", "booting", "serving", "hung", "dead", "reaped"}]
  BY DEF IInv, TypeOK
<1>2. UNCHANGED <<inbox, awaitExit>>
  BY DEF GraceTimeout, TimerFires, PongAges, ProxyAnswered, ProxyRequest, StopBegin,
         StopKills, StopDone, vars, chains
<1>3. \A q \in Proc : MessageEffect(q)
  <2>1. CASE StopKills
    <3>1. \A q \in Proc : os'[q] = os[q] \/ os'[q] = "dead"
      BY <2>1 DEF StopKills
    <3> QED
      BY <1>2, <3>1 DEF MessageEffect, Mute
  <2>2. CASE ~StopKills
    <3>1. UNCHANGED os
      BY <2>2 DEF GraceTimeout, TimerFires, PongAges, ProxyAnswered, ProxyRequest,
                  StopBegin, StopDone, vars
    <3> QED
      BY <1>2, <3>1, QuietMessages
  <2> QED
    BY <2>1, <2>2
<1>4. \A q \in Proc : /\ state'[q].ready = state[q].ready
                      /\ state'[q].pong # "none" => state[q].pong # "none"
  <2>1. CASE \E p \in Proc : TimerFires(p)
    <3>1. PICK p \in Proc : state' = [state EXCEPT ![p].timer = FALSE]
      BY <2>1 DEF TimerFires
    <3> QED
      BY <1>1, <3>1 DEF ChildState
  <2>2. CASE \E p \in Proc : PongAges(p)
    <3>1. PICK p \in Proc : /\ state' = [state EXCEPT ![p].pong = "stale"]
                            /\ state[p].pong = "fresh"
      BY <2>2 DEF PongAges
    <3> QED
      BY <1>1, <3>1 DEF ChildState
  <2>3. CASE StopBegin
    <3>1. \A q \in Proc : \E b : state'[q] = [state[q] EXCEPT !.timer = b]
      BY <2>3 DEF StopBegin
    <3>2. ASSUME NEW c \in ChildState, NEW b
          PROVE  /\ [c EXCEPT !.timer = b].ready = c.ready
                 /\ [c EXCEPT !.timer = b].pong = c.pong
      BY DEF ChildState
    <3>3. ASSUME NEW q \in Proc
          PROVE  state'[q].ready = state[q].ready /\ state'[q].pong = state[q].pong
      <4>1. PICK b : state'[q] = [state[q] EXCEPT !.timer = b]
        BY <3>1
      <4> QED
        BY <1>1, <3>2, <4>1
    <3> QED
      BY <3>3
  <2>4. CASE UNCHANGED state
    BY <2>4
  <2> QED
    BY <2>1, <2>2, <2>3, <2>4
       DEF GraceTimeout, ProxyAnswered, ProxyRequest, StopKills, StopDone, vars
<1>5. \A q \in Proc : q \in inflight' => Known(q)
  <2>1. CASE ProxyRequest
    <3>1. inflight' \subseteq inflight \union Candidates
      BY <2>1 DEF ProxyRequest
    <3>2. \A q \in Candidates : state[q].ready
      BY <2>1 DEF ProxyRequest, Candidates, CacheCoherent, Routable
    <3> QED
      BY <3>1, <3>2 DEF Known
  <2>2. CASE inflight' \subseteq inflight
    BY <2>2 DEF Known
  <2> QED
    BY <2>1, <2>2 DEF GraceTimeout, TimerFires, PongAges, ProxyAnswered, StopBegin,
                      StopKills, StopDone, vars
<1> QED
  BY <1>2, <1>3, <1>4, <1>5 DEF BootStep, Known

LEMMA NextKeepsRInv ==
  ASSUME IInv, CacheCoherent, RInv, [Next]_vars
  PROVE  RInv'
<1>1. BootStep
  <2>1. ASSUME NEW p \in Proc, GatewayStep(p)
        PROVE  BootStep
    BY <2>1, DropStaleBootStep, MarkReadyBootStep, MarkHealthyBootStep,
       ChildErrorBootStep, ExitBootStep, RespawnBootStep, RespawnFailsBootStep,
       CheckHealthBootStep, UpstreamOpenFailedBootStep, QuietBootStep DEF GatewayStep
  <2> QED
    BY <2>1, ChildBootStep, QuietBootStep DEF Next
<1> QED
  BY <1>1, BootStepKeepsRInv

LEMMA InitRInv == ASSUME Init PROVE RInv
<1> USE DEF Init
<1>1. ReadyComesFirst /\ BootingIsSilent
  BY DEF ReadyComesFirst, BootingIsSilent, OnlyFirst
<1>2. KnownHasBooted /\ StoppedIsOut
  BY DEF KnownHasBooted, Known, StoppedIsOut, NewChild
<1> QED
  BY <1>1, <1>2 DEF RInv

(* The messages of each process: its "ready" is the first and is read      *)
(* before anything is known of the process.                                *)
LEMMA MessagesInOrder == Spec => []RInv
<1>1. Init => RInv
  BY InitRInv
<1>2. IInv /\ CacheCoherent /\ RInv /\ [Next]_vars => RInv'
  BY NextKeepsRInv
<1> QED
  BY <1>1, <1>2, SupervisorInvariant, CacheCorrect, PTL DEF Spec

(* No child is routed to while a restart chain is about to stop or replace *)
(* it: neither its "ready", nor a pong, nor an earlier request, arriving   *)
(* late, brings it back.                                                   *)
THEOREM NotRoutedCorrect == Spec => []NotRoutedWhileRestarting
<1>1. IInv /\ RInv => NotRoutedWhileRestarting
  <2> SUFFICES ASSUME IInv, RInv, NEW p \in Proc, Routable(p)
               PROVE  awaitExit[p] = 0 /\ timers[p] = 0 /\ ~removing[p]
    BY DEF NotRoutedWhileRestarting
  <2>1. ~Reaped(p) /\ state[p].ready
    BY DEF Routable, Unavailable
  <2>2. awaitExit[p] \in Nat /\ timers[p] \in Nat
    BY DEF IInv, TypeOK
  <2>3. ~(timers[p] > 0) /\ ~removing[p]
    BY <2>1 DEF IInv, ChainOnlyAfterExit
  <2>4. ~(awaitExit[p] > 0)
    BY <2>1 DEF RInv, StoppedIsOut
  <2> QED
    BY <2>2, <2>3, <2>4
<1> QED
  BY <1>1, SupervisorInvariant, MessagesInOrder, PTL
----------------------------------------------------------------------------
(* AbandonedForALoop and RevivedOnlyLate.  What the gateway counts, the    *)
(* attempts of a ChildState, is compared with what happened: the starts in *)
(* a row that ended before "ready" was heard.  From above, the attempts    *)
(* exceed the failed starts by the start that may yet fail and, once the   *)
(* index has served, by the end of the child that served.  From below, no  *)
(* chain goes on to a start that the attempts do not pay for, although a   *)
(* message read after the exit may clear the pending flag of a chain that  *)
(* goes on, so that a second one is armed beside it.                       *)
Starts(p) == failedBoots[state[p].idx]

HadServed(p) == HasServed(state[p].idx)

FirstIsReady(p) == inbox[p] # <<>> /\ inbox[p][1] = "ready"

HasPong(s) == \E k \in DOMAIN s : s[k] = "pong"

(* An error is a process's last message, and who serves has been heard or  *)
(* its "ready" is unread.                                                  *)
Heard(p) ==
  /\ \A k \in DOMAIN inbox[p] :
       inbox[p][k] = "error" => k = Len(inbox[p]) /\ os[p] \in {"dead", "reaped"}
  /\ p \in inflight \/ state[p].ready => state[p].pong # "none"
  /\ Current(p) /\ (os[p] \in {"serving", "hung"} \/ HasPong(inbox[p])) =>
       state[p].pong # "none" \/ FirstIsReady(p)

(* Who has been heard stays ready until a restart is pending. *)
Kept(p) == Live(p) /\ state[p].pong # "none" => state[p].ready \/ state[p].pending

(* One chain in each of its phases; a chain that is no longer pending has  *)
(* lost the flag to the process's only "ready".                            *)
Chained(p) ==
  /\ Reaped(p) => awaitExit[p] = 0
  /\ gw = "running" /\ Current(p) =>
       /\ awaitExit[p] <= 1 /\ timers[p] <= 1
       /\ timers[p] > 0 => state[p].timer
       /\ awaitExit[p] > 0 => state[p].pending
       /\ timers[p] > 0 \/ removing[p] => state[p].pending \/ NoReady(inbox[p])
       /\ timers[p] > 0 /\ removing[p] => NoReady(inbox[p])

AtMost(p) ==
  gw # "stopped" /\ Current(p) =>
    state[p].attempts + (IF state[p].pending THEN 0 ELSE 1)
      <= Starts(p) + (IF HadServed(p) THEN 1 ELSE 0)
                   + (IF Live(p) /\ state[p].pong = "none" THEN 1 ELSE 0)

AtLeast(p) ==
  gw = "running" /\ Current(p) =>
    /\ state[p].ready => state[p].attempts = 0
    /\ DevHosted => state[p].attempts <= BootFailureLimit - 1
    /\ Starts(p) <= state[p].attempts + 1
    /\ Live(p) \/ timers[p] > 0 \/ removing[p] => Starts(p) <= state[p].attempts
    /\ awaitExit[p] > 0 \/ (timers[p] > 0 /\ removing[p]) =>
         Starts(p) + 1 <= state[p].attempts

(* A process that has been given up has used up its attempts, and while    *)
(* its exit is outstanding it is dead and has nothing more to say.         *)
Abandoned(p) ==
  state[p].status = "crashed" =>
    /\ DevHosted
    /\ state[p].attempts >= BootFailureLimit - 1
    /\ ~state[p].ready /\ ~state[p].pending
    /\ Current(p) => gw # "stopped"
    /\ Live(p) => os[p] = "dead" /\ inbox[p] = <<>>

Counts(p) == Kept(p) /\ Chained(p) /\ AtMost(p) /\ AtLeast(p) /\ Abandoned(p)

Fits(p) == Heard(p) /\ Counts(p)

Active(p) == Live(p) \/ removing[p]

(* Each index has one process that may yet fail to start, and a start left *)
(* for it.                                                                 *)
Alone ==
  \A p, q \in Proc : Active(p) /\ Active(q) /\ state[p].idx = state[q].idx => p = q

Few ==
  DevHosted => /\ \A i \in Idx : failedBoots[i] <= BootFailureLimit
               /\ \A p \in Proc : Active(p) => Starts(p) <= BootFailureLimit - 1

LoopInv == (\A p \in Proc : Fits(p)) /\ Alone /\ Few

(* The numbers and flags of one process. *)
LEMMA Numbers ==
  ASSUME IInv, NEW p \in Proc
  PROVE  /\ state[p] \in ChildState
         /\ state[p].idx \in Idx
         /\ state[p].attempts \in Nat
         /\ awaitExit[p] \in Nat /\ timers[p] \in Nat
         /\ Starts(p) \in Nat
         /\ BootFailureLimit \in Nat /\ BootFailureLimit >= 2
         /\ inbox[p] \in Seq(Message)
<1>1. state[p] \in ChildState
  BY DEF IInv, TypeOK
<1>2. state[p].idx \in Idx /\ state[p].attempts \in Nat
  BY <1>1 DEF ChildState
<1> QED
  BY <1>1, <1>2, ConstantsAssumption DEF IInv, TypeOK, Starts, Message, ConstantsAssumption

LEMMA LoopSuffices ==
  ASSUME IInv, LoopInv
  PROVE  AbandonedForALoop
<1>1. BootRetriesBounded
  BY DEF LoopInv, Few, BootRetriesBounded
<1>2. ASSUME NEW p \in Proc, Current(p), state[p].status = "crashed"
      PROVE  /\ DevHosted
             /\ FailedStarts(p) + (IF HasServed(state[p].idx) THEN 1 ELSE 0) >= BootFailureLimit
  <2> DEFINE s == IF HadServed(p) THEN 1 ELSE 0
  <2>1. /\ DevHosted /\ gw # "stopped"
        /\ state[p].attempts >= BootFailureLimit - 1 /\ ~state[p].pending
    BY <1>2 DEF LoopInv, Fits, Counts, Abandoned
  <2>2. Live(p) <=> ~Reaped(p)
    BY <1>2 DEF Current, Live
  <2>3. state[p].attempts + 1 <= Starts(p) + s + (IF Reaped(p) THEN 0 ELSE 1)
    <3>1. AtMost(p) /\ s \in Nat
      BY DEF LoopInv, Fits, Counts
    <3>2. state[p].attempts + 1 <=
            Starts(p) + s + (IF Live(p) /\ state[p].pong = "none" THEN 1 ELSE 0)
      BY <1>2, <2>1, <3>1 DEF AtMost
    <3> HIDE DEF s
    <3> QED
      BY <2>2, <3>1, <3>2, Numbers
  <2>4. FailedStarts(p) = Starts(p) + (IF Reaped(p) THEN 0 ELSE 1)
    BY DEF FailedStarts, Starts
  <2>5. s = IF HasServed(state[p].idx) THEN 1 ELSE 0
    BY DEF HadServed
  <2>6. s \in Nat
    OBVIOUS
  <2> HIDE DEF s
  <2>7. FailedStarts(p) + s >= BootFailureLimit
    BY <2>1, <2>3, <2>4, <2>6, Numbers
  <2> QED
    BY <2>1, <2>5, <2>7
<1> QED
  BY <1>1, <1>2 DEF AbandonedForALoop, CrashLoopIsALoop

----------------------------------------------------------------------------
(* The other processes, while one of them takes a step. *)
Untouched(q) ==
  /\ state'[q] = state[q] /\ os'[q] = os[q] /\ inbox'[q] = inbox[q]
  /\ awaitExit'[q] = awaitExit[q] /\ timers'[q] = timers[q]
  /\ removing'[q] = removing[q]
  /\ q \in inflight' => q \in inflight
  /\ Current(q)' => Current(q)
  /\ Spawned(q)' => Spawned(q)
  /\ Current(q) /\ gw # "stopped" => Starts(q)' = Starts(q)
  /\ HadServed(q) => HadServed(q)'

LEMMA UntouchedFits ==
  ASSUME IInv, NEW q \in Proc, Fits(q), Untouched(q), gw' = gw
  PROVE  Fits(q)'
<1> USE DEF Untouched
<1>1. Heard(q)' /\ Kept(q)'
  BY DEF Fits, Counts, Heard, Kept, Live, Reaped, FirstIsReady, HasPong
<1>2. Chained(q)' /\ Abandoned(q)'
  BY DEF Fits, Counts, Chained, Abandoned, Live, Reaped, NoReady
<1>3. AtLeast(q)'
  BY DEF Fits, Counts, AtLeast, Live, Reaped
<1>4. AtMost(q)'
  <2> SUFFICES ASSUME gw # "stopped", Current(q)'
               PROVE  AtMost(q)'
    BY DEF AtMost
  <2>1. /\ Current(q) /\ Starts(q)' = Starts(q) /\ (HadServed(q) => HadServed(q)')
        /\ Live(q)' <=> Live(q)
    BY DEF Current, Live, Reaped
  <2>2. AtMost(q) /\ Starts(q) \in Nat /\ state[q].attempts \in Nat
    BY Numbers DEF Fits, Counts
  <2> QED
    BY <2>1, <2>2 DEF AtMost
<1> QED
  BY <1>1, <1>2, <1>3, <1>4 DEF Fits, Counts

(* What a step of process p that spawns none leaves alone.  The starts of  *)
(* its index are counted by a process that is current.                     *)
Local(p) ==
  /\ UNCHANGED <<gw, children, next>>
  /\ state'[p].idx = state[p].idx
  /\ state'[p].pong = "none" => state[p].pong = "none"
  /\ \A q \in Proc \ {p} :
       /\ state'[q] = state[q] /\ os'[q] = os[q] /\ inbox'[q] = inbox[q]
       /\ awaitExit'[q] = awaitExit[q] /\ timers'[q] = timers[q]
       /\ removing'[q] = removing[q]
       /\ q \in inflight' => q \in inflight
  /\ \/ failedBoots' = failedBoots
     \/ /\ Active(p) \/ Current(p)
        /\ \E n \in Nat : failedBoots' = [failedBoots EXCEPT ![state[p].idx] = n]

(* An index that has served has served. *)
LEMMA LocalServed ==
  ASSUME NEW p \in Proc, NEW q \in Proc,
         UNCHANGED next, state'[q].idx = state[q].idx,
         \A r \in Proc : state'[r].idx = state[r].idx
                         /\ (state'[r].pong = "none" => state[r].pong = "none")
  PROVE  HadServed(q) => HadServed(q)'
  BY DEF HadServed, HasServed, Spawned

LEMMA LocalUntouched ==
  ASSUME IInv, NEW p \in Proc, Local(p), NEW q \in Proc, q # p
  PROVE  Untouched(q)
<1>1. /\ Current(q)' <=> Current(q)
      /\ Spawned(q)' <=> Spawned(q)
  BY DEF Local, Current, Spawned
<1>2. ASSUME Current(q), gw # "stopped", failedBoots' # failedBoots
      PROVE  Starts(q)' = Starts(q)
  <2>1. /\ Active(p) \/ Current(p)
        /\ \E n \in Nat : failedBoots' = [failedBoots EXCEPT ![state[p].idx] = n]
    BY <1>2 DEF Local
  <2>2. Current(p)
    BY <1>2, <2>1 DEF IInv, NothingForgotten, Active
  <2>3. state[p].idx # state[q].idx
    BY <1>2, <2>2 DEF Current
  <2>4. failedBoots \in [Idx -> Nat] /\ state[q].idx \in Idx /\ state'[q] = state[q]
    BY Numbers DEF IInv, TypeOK, Local
  <2> QED
    BY <2>1, <2>3, <2>4 DEF Starts
<1>3. failedBoots' = failedBoots => Starts(q)' = Starts(q)
  BY DEF Starts, Local
<1>4. HadServed(q) => HadServed(q)'
  <2>1. \A r \in Proc : state'[r].idx = state[r].idx
                        /\ (state'[r].pong = "none" => state[r].pong = "none")
    BY DEF Local
  <2> QED
    BY <2>1, LocalServed DEF Local
<1> QED
  BY <1>1, <1>2, <1>3, <1>4 DEF Untouched, Local

LEMMA LocalFits ==
  ASSUME IInv, NEW p \in Proc, Local(p), \A q \in Proc : Fits(q), Fits(p)'
  PROVE  \A q \in Proc : Fits(q)'
<1>1. ASSUME NEW q \in Proc, q # p
      PROVE  Fits(q)'
  <2>1. Untouched(q)
    BY <1>1, LocalUntouched
  <2> QED
    BY <2>1, UntouchedFits DEF Local
<1> QED
  BY <1>1
----------------------------------------------------------------------------
(* What a call of #scheduleChildRestart makes of a ChildState. *)
LEMMA AfterScheduleIs ==
  ASSUME NEW c \in ChildState, NEW reason, NEW d, d = AfterSchedule(c, reason)
  PROVE  /\ d \in ChildState /\ d.idx = c.idx /\ d.pong = c.pong /\ d.timer = c.timer
         /\ Scheduled(c) => d = c
         /\ ~Scheduled(c) /\ GivesUp(c) =>
              d.attempts = c.attempts /\ ~d.pending /\ ~d.ready /\ d.status = "crashed"
         /\ StartsChain(c) =>
              d.attempts = c.attempts + 1 /\ d.pending /\ ~d.ready /\ d.status # "crashed"
<1>1. d \in ChildState /\ d.idx = c.idx /\ d.timer = c.timer
  BY AfterScheduleType
<1>2. CASE Scheduled(c)
  BY <1>1, <1>2 DEF AfterSchedule, StartsChain
<1>3. CASE ~Scheduled(c) /\ GivesUp(c)
  <2>1. d = Crashed(c)
    BY <1>3 DEF AfterSchedule
  <2> QED
    BY <1>1, <1>3, <2>1 DEF Crashed, ChildState, StartsChain
<1>4. CASE StartsChain(c)
  <2>1. d = RestartPending(c, reason)
    BY <1>4 DEF AfterSchedule, StartsChain
  <2> QED
    BY <1>1, <1>4, <2>1 DEF RestartPending, ChildState, StartsChain
<1> QED
  BY <1>2, <1>3, <1>4 DEF StartsChain

(* The ChildState c that a closure schedules for is the one of p, but for  *)
(* a status set just before.                                               *)
SameCounts(c, d) ==
  /\ c.idx = d.idx /\ c.ready = d.ready /\ c.pong = d.pong
  /\ c.attempts = d.attempts /\ c.timer = d.timer /\ c.pending = d.pending
  /\ c.status = "crashed" <=> d.status = "crashed"

(* What p's own counts can be after it: as before, given up, or one more   *)
(* attempt with a chain that waits for the exit, or for the backoff if the *)
(* exit is over.                                                           *)
ScheduleOutcome(p, d) ==
  \/ /\ SameCounts(d, state[p])
     /\ awaitExit'[p] = awaitExit[p] /\ timers'[p] = timers[p]
  \/ /\ gw = "running"
     /\ ~state[p].pending /\ ~state[p].timer /\ GivesUp(state[p])
     /\ d.attempts = state[p].attempts /\ d.pong = state[p].pong
     /\ d.timer = state[p].timer
     /\ ~d.pending /\ ~d.ready /\ d.status = "crashed"
     /\ awaitExit'[p] = awaitExit[p] /\ timers'[p] = timers[p]
  \/ /\ gw = "running"
     /\ ~state[p].pending /\ ~state[p].timer /\ ~GivesUp(state[p])
     /\ d.attempts = state[p].attempts + 1 /\ d.pong = state[p].pong
     /\ d.pending /\ ~d.ready /\ d.status # "crashed"
     /\ \/ /\ ~Current(p)
           /\ awaitExit'[p] = awaitExit[p] /\ timers'[p] = timers[p]
        \/ /\ Current(p) /\ ~Reaped(p) /\ d.timer = state[p].timer
           /\ awaitExit'[p] = awaitExit[p] + 1 /\ timers'[p] = timers[p]
        \/ /\ Current(p) /\ Reaped(p) /\ d.timer
           /\ awaitExit'[p] = awaitExit[p] /\ timers'[p] = timers[p] + 1

LEMMA ScheduleIs ==
  ASSUME IInv, NEW p \in Proc, NEW c \in ChildState, NEW reason,
         SameCounts(c, state[p]), Schedule(p, c, reason)
  PROVE  /\ ScheduleOutcome(p, state'[p]) /\ state'[p].idx = state[p].idx
         /\ removing' = removing
         /\ \A q \in Proc \ {p} : /\ state'[q] = state[q] /\ awaitExit'[q] = awaitExit[q]
                                  /\ timers'[q] = timers[q]
<1> DEFINE d == AfterSchedule(c, reason)
           e == [d EXCEPT !.timer = TRUE]
           starts == StartsChain(c) /\ Current(p)
<1>0. /\ state \in [Proc -> ChildState] /\ awaitExit \in [Proc -> Nat]
      /\ timers \in [Proc -> Nat]
  BY DEF IInv, TypeOK
<1>1. /\ d \in ChildState /\ d.idx = c.idx /\ d.pong = c.pong /\ d.timer = c.timer
      /\ Scheduled(c) => d = c
      /\ ~Scheduled(c) /\ GivesUp(c) =>
           d.attempts = c.attempts /\ ~d.pending /\ ~d.ready /\ d.status = "crashed"
      /\ StartsChain(c) =>
           d.attempts = c.attempts + 1 /\ d.pending /\ ~d.ready /\ d.status # "crashed"
  BY AfterScheduleIs
<1>2. GivesUp(c) <=> GivesUp(state[p])
  BY DEF GivesUp, SameCounts
<1>3. ~Scheduled(c) => ~state[p].pending /\ ~state[p].timer
  BY DEF Scheduled, SameCounts
<1>4. Scheduled(c) \/ (~Scheduled(c) /\ GivesUp(c)) \/ (StartsChain(c) /\ ~Scheduled(c) /\ ~GivesUp(c))
  BY DEF StartsChain
<1>5. StartsChain(c) => ~Scheduled(c) /\ ~GivesUp(c)
  BY DEF StartsChain
<1> HIDE DEF d
<1>6. CASE gw # "running"
  <2>1. state' = [state EXCEPT ![p] = c] /\ UNCHANGED <<awaitExit, timers, removing>>
    BY <1>6 DEF Schedule, chains
  <2> QED
    BY <1>0, <2>1 DEF ScheduleOutcome, SameCounts
<1>7. CASE gw = "running" /\ ~Reaped(p)
  <2>1. /\ state' = [state EXCEPT ![p] = d] /\ UNCHANGED <<timers, removing>>
        /\ awaitExit' = IF starts THEN [awaitExit EXCEPT ![p] = @ + 1] ELSE awaitExit
    BY <1>7 DEF Schedule, ScheduleLive, d
  <2>2. /\ state'[p] = d
        /\ awaitExit'[p] = awaitExit[p] + (IF starts THEN 1 ELSE 0)
        /\ \A q \in Proc \ {p} : state'[q] = state[q] /\ awaitExit'[q] = awaitExit[q]
    BY <1>0, <2>1
  <2>3. ScheduleOutcome(p, d)
    <3>1. CASE Scheduled(c)
      BY <1>0, <1>1, <1>5, <2>1, <2>2, <3>1 DEF ScheduleOutcome
    <3>2. CASE ~Scheduled(c) /\ GivesUp(c)
      BY <1>0, <1>1, <1>2, <1>3, <1>5, <1>7, <2>1, <2>2, <3>2 DEF ScheduleOutcome, SameCounts
    <3>3. CASE StartsChain(c) /\ ~Scheduled(c) /\ ~GivesUp(c)
      BY <1>0, <1>1, <1>2, <1>3, <1>7, <2>1, <2>2, <3>3 DEF ScheduleOutcome, SameCounts
    <3> QED
      BY <1>4, <3>1, <3>2, <3>3
  <2> QED
    BY <1>1, <2>1, <2>2, <2>3 DEF SameCounts
<1>8. CASE gw = "running" /\ Reaped(p)
  <2>1. /\ state' = [state EXCEPT ![p] = IF starts THEN e ELSE d]
        /\ UNCHANGED <<awaitExit, removing>>
        /\ timers' = IF starts THEN [timers EXCEPT ![p] = @ + 1] ELSE timers
    BY <1>8 DEF Schedule, ScheduleReaped, d
  <2>2. /\ state'[p] = IF starts THEN e ELSE d
        /\ timers'[p] = timers[p] + (IF starts THEN 1 ELSE 0)
        /\ \A q \in Proc \ {p} : state'[q] = state[q] /\ timers'[q] = timers[q]
    BY <1>0, <2>1
  <2>3. /\ e.idx = d.idx /\ e.pong = d.pong /\ e.attempts = d.attempts /\ e.timer
        /\ e.pending = d.pending /\ e.ready = d.ready /\ e.status = d.status
    BY <1>1 DEF ChildState
  <2> HIDE DEF e
  <2>4. ScheduleOutcome(p, state'[p])
    <3>1. CASE Scheduled(c)
      BY <1>0, <1>1, <1>5, <2>1, <2>2, <3>1 DEF ScheduleOutcome
    <3>2. CASE ~Scheduled(c) /\ GivesUp(c)
      BY <1>0, <1>1, <1>2, <1>3, <1>5, <1>8, <2>1, <2>2, <3>2 DEF ScheduleOutcome, SameCounts
    <3>3. CASE StartsChain(c) /\ ~Scheduled(c) /\ ~GivesUp(c)
      BY <1>0, <1>1, <1>2, <1>3, <1>8, <2>1, <2>2, <2>3, <3>3 DEF ScheduleOutcome, SameCounts
    <3> QED
      BY <1>4, <3>1, <3>2, <3>3
  <2> QED
    BY <1>1, <2>1, <2>2, <2>3, <2>4 DEF SameCounts
<1> QED
  BY <1>6, <1>7, <1>8

(* What revives an abandoned replica is a message that comes late. *)
Terminal(p) ==
  Current(p) /\ state[p].status = "crashed" =>
    state'[p].status = "crashed" \/ (Reaped(p) /\ (MarkReady(p) \/ MarkHealthy(p)))

(* Nothing is added to what is unread, and whoever is given up while its   *)
(* exit is outstanding is dead and silent.                                 *)
GivesUpTheDead(p) ==
  /\ inbox[p] = <<>> => inbox'[p] = <<>>
  /\ NoReady(inbox[p]) => NoReady(inbox'[p])
  /\ gw = "running" /\ Live(p) /\ ~state[p].pending /\ GivesUp(state[p]) =>
       os[p] = "dead" /\ inbox'[p] = <<>>

LEMMA OutcomeFits ==
  ASSUME IInv, NEW p \in Proc, Fits(p), ScheduleOutcome(p, state'[p]),
         state'[p].idx = state[p].idx,
         UNCHANGED <<gw, children, next, os, removing, failedBoots>>,
         HadServed(p) => HadServed(p)',
         GivesUpTheDead(p)
  PROVE  Counts(p)' /\ Terminal(p)
<1> DEFINE c == state[p]
           d == state'[p]
           f == Starts(p)
           a == awaitExit[p]
           t == timers[p]
           s == IF HadServed(p) THEN 1 ELSE 0
           ss == IF HadServed(p)' THEN 1 ELSE 0
           u == IF Live(p) /\ c.pong = "none" THEN 1 ELSE 0
           L == BootFailureLimit
<1>0. /\ c.attempts \in Nat /\ a \in Nat /\ t \in Nat /\ f \in Nat
      /\ L \in Nat /\ L >= 2 /\ s \in {0, 1} /\ ss \in {0, 1} /\ u \in {0, 1}
  BY Numbers
<1>1. /\ Current(p)' <=> Current(p)
      /\ Live(p)' <=> Live(p)
      /\ Reaped(p)' <=> Reaped(p)
      /\ Starts(p)' = f /\ removing'[p] = removing[p] /\ gw' = gw
      /\ Current(p) => (Live(p) <=> ~Reaped(p))
      /\ os'[p] = os[p]
  BY DEF Current, Live, Reaped, Spawned, Starts
<1>2. Kept(p) /\ Chained(p) /\ AtMost(p) /\ AtLeast(p) /\ Abandoned(p)
  BY DEF Fits, Counts
<1>3. gw # "stopped" /\ Current(p) =>
        c.attempts + (IF c.pending THEN 0 ELSE 1) <= f + s + u
  BY <1>2 DEF AtMost
<1>4. s <= ss /\ (AtMost(p)' <=>
        (gw # "stopped" /\ Current(p) =>
           d.attempts + (IF d.pending THEN 0 ELSE 1)
             <= f + ss + (IF Live(p) /\ d.pong = "none" THEN 1 ELSE 0)))
  BY <1>1 DEF AtMost
<1>5. d.pong = c.pong
  BY DEF ScheduleOutcome, SameCounts
<1> HIDE DEF s, ss, u
<1>6. CASE SameCounts(d, c) /\ awaitExit'[p] = a /\ timers'[p] = t
  <2>1. Chained(p)' /\ Terminal(p)
    BY <1>1, <1>2, <1>6 DEF Chained, Terminal, SameCounts, GivesUpTheDead
  <2>2. AtLeast(p)' /\ Kept(p)'
    BY <1>1, <1>2, <1>6 DEF AtLeast, Kept, SameCounts
  <2>3. AtMost(p)'
    BY <1>0, <1>3, <1>4, <1>6 DEF SameCounts, u
  <2>4. Abandoned(p)'
    BY <1>1, <1>2, <1>6 DEF Abandoned, SameCounts, GivesUpTheDead
  <2> QED
    BY <2>1, <2>2, <2>3, <2>4 DEF Counts
<1>7. CASE /\ gw = "running" /\ ~c.pending /\ ~c.timer /\ GivesUp(c)
           /\ d.attempts = c.attempts /\ d.pong = c.pong
           /\ d.timer = c.timer
           /\ ~d.pending /\ ~d.ready /\ d.status = "crashed"
           /\ awaitExit'[p] = a /\ timers'[p] = t
  <2>0. DevHosted /\ c.attempts >= L - 1 /\ ~c.ready
    BY <1>7 DEF GivesUp
  <2>1. Chained(p)' /\ Terminal(p)
    BY <1>1, <1>2, <1>7 DEF Chained, Terminal, GivesUpTheDead
  <2>2. AtLeast(p)'
    BY <1>1, <1>2, <1>7 DEF AtLeast
  <2>3. Kept(p)'
    BY <1>1, <1>2, <1>7, <2>0 DEF Kept
  <2>4. AtMost(p)'
    BY <1>0, <1>3, <1>4, <1>7 DEF u
  <2>5. Abandoned(p)'
    BY <1>1, <1>7, <2>0 DEF Abandoned, GivesUpTheDead
  <2> QED
    BY <2>1, <2>2, <2>3, <2>4, <2>5 DEF Counts
<1>8. CASE /\ gw = "running" /\ ~c.pending /\ ~c.timer /\ ~GivesUp(c)
           /\ d.attempts = c.attempts + 1 /\ d.pong = c.pong
           /\ d.pending /\ ~d.ready /\ d.status # "crashed"
           /\ \/ ~Current(p) /\ awaitExit'[p] = a /\ timers'[p] = t
              \/ /\ Current(p) /\ ~Reaped(p) /\ d.timer = c.timer
                 /\ awaitExit'[p] = a + 1 /\ timers'[p] = t
              \/ /\ Current(p) /\ Reaped(p) /\ d.timer
                 /\ awaitExit'[p] = a /\ timers'[p] = t + 1
  <2>0. Current(p) =>
          /\ a = 0 /\ t = 0
          /\ removing[p] => NoReady(inbox[p])
    BY <1>0, <1>2, <1>8 DEF Chained
  <2>1. Chained(p)'
    <3>1. Reaped(p) => awaitExit'[p] = 0
      BY <1>2, <1>8 DEF Chained
    <3>2. Current(p) => /\ awaitExit'[p] <= 1 /\ timers'[p] <= 1
                        /\ timers'[p] > 0 => d.timer
                        /\ removing'[p] => NoReady(inbox'[p])
      BY <1>0, <1>1, <1>8, <2>0 DEF GivesUpTheDead
    <3> QED
      BY <1>1, <1>8, <3>1, <3>2 DEF Chained
  <2>2. AtLeast(p)'
    <3> SUFFICES ASSUME Current(p)
                 PROVE  AtLeast(p)'
      BY <1>1 DEF AtLeast
    <3>1. DevHosted => c.attempts + 1 <= L - 1
      <4>1. DevHosted => c.attempts < L - 1 \/ c.ready
        BY <1>0, <1>8 DEF GivesUp
      <4> QED
        BY <1>0, <1>2, <1>8, <4>1 DEF AtLeast
    <3>2. /\ f <= c.attempts + 1
          /\ Live(p) \/ removing[p] => f <= c.attempts
      BY <1>2, <1>8 DEF AtLeast
    <3>3. awaitExit'[p] > 0 => Live(p)
      BY <1>0, <1>1, <1>8, <2>0
    <3>4. /\ Starts(p)' <= d.attempts
          /\ awaitExit'[p] > 0 \/ (timers'[p] > 0 /\ removing'[p]) => Starts(p)' + 1 <= d.attempts
          /\ Starts(p)' <= d.attempts + 1
      BY <1>0, <1>1, <1>8, <3>2, <3>3
    <3> QED
      BY <1>1, <1>8, <3>1, <3>4 DEF AtLeast
  <2>3. AtMost(p)' /\ Kept(p)'
    BY <1>0, <1>3, <1>4, <1>8 DEF u, Kept
  <2>4. Terminal(p) /\ Abandoned(p)'
    <3>1. c.status # "crashed"
      BY <1>2, <1>8 DEF Abandoned, GivesUp
    <3> QED
      BY <1>8, <3>1 DEF Terminal, Abandoned
  <2> QED
    BY <2>1, <2>2, <2>3, <2>4 DEF Counts
<1> QED
  BY <1>6, <1>7, <1>8 DEF ScheduleOutcome
----------------------------------------------------------------------------
(* What has been heard of a process. *)
LEMMA QuietHeard ==
  ASSUME NEW p \in Proc, Heard(p),
         inbox'[p] = inbox[p], Current(p)' => Current(p),
         os'[p] = os[p] \/ os'[p] \in {"dead", "reaped"},
         state'[p].pong = "none" => state[p].pong = "none",
         p \in inflight' \/ state'[p].ready => p \in inflight \/ state[p].ready
  PROVE  Heard(p)'
<1>1. /\ os'[p] \in {"serving", "hung"} => os[p] \in {"serving", "hung"}
      /\ os[p] \in {"dead", "reaped"} => os'[p] \in {"dead", "reaped"}
  OBVIOUS
<1> QED
  BY <1>1 DEF Heard, HasPong, FirstIsReady

(* A message is read. *)
LEMMA ReadError ==
  ASSUME IInv, NEW p \in Proc, Heard(p), Receive(p, "error")
  PROVE  inbox'[p] = <<>> /\ os[p] \in {"dead", "reaped"} /\ inbox[p] # <<>>
<1>1. /\ inbox[p] \in Seq(Message) /\ inbox[p] # <<>> /\ inbox[p][1] = "error"
      /\ inbox' = [inbox EXCEPT ![p] = Tail(@)] /\ inbox \in [Proc -> Seq(Message)]
  BY Numbers DEF Receive, IInv, TypeOK, Message
<1>2. 1 = Len(inbox[p]) /\ os[p] \in {"dead", "reaped"}
  <2>1. 1 \in DOMAIN inbox[p]
    BY <1>1
  <2> QED
    BY <1>1, <2>1 DEF Heard
<1>3. Tail(inbox[p]) = <<>>
  BY <1>1, <1>2
<1> QED
  BY <1>1, <1>2, <1>3 DEF Receive

LEMMA ReadPong ==
  ASSUME IInv, NEW p \in Proc, Heard(p), Receive(p, "pong"), Current(p)
  PROVE  state[p].pong # "none"
<1>1. inbox[p] \in Seq(Message) /\ inbox[p] # <<>> /\ inbox[p][1] = "pong" /\ 1 \in DOMAIN inbox[p]
  BY Numbers DEF Receive
<1> QED
  BY <1>1 DEF Heard, HasPong, FirstIsReady

LEMMA ReadHeard ==
  ASSUME IInv, NEW p \in Proc, Heard(p),
         NEW m \in Message, Receive(p, m), UNCHANGED <<os, children, next>>,
         state'[p].idx = state[p].idx,
         m = "error" \/ ~Current(p) \/ state'[p].pong # "none",
         p \in inflight' \/ state'[p].ready => state'[p].pong # "none"
  PROVE  Heard(p)' /\ inbox[p] # <<>> /\ (NoReady(inbox[p]) => NoReady(inbox'[p]))
<1> DEFINE s == inbox[p]
<1>1. /\ s \in Seq(Message) /\ s # <<>> /\ inbox'[p] = Tail(s)
      /\ inbox \in [Proc -> Seq(Message)]
  BY Numbers DEF Receive, IInv, TypeOK, Message
<1>2. Current(p)' <=> Current(p)
  BY DEF Current, Spawned
<1>3. \A k \in DOMAIN Tail(s) :
        k + 1 \in DOMAIN s /\ Tail(s)[k] = s[k + 1] /\ (k + 1 = Len(s) => k = Len(Tail(s)))
  BY <1>1
<1>4. \A k \in DOMAIN Tail(s) :
        Tail(s)[k] = "error" => k = Len(Tail(s)) /\ os[p] \in {"dead", "reaped"}
  BY <1>3 DEF Heard
<1>5. NoReady(s) => NoReady(Tail(s))
  BY <1>3 DEF NoReady
<1> HIDE DEF s
<1>6. m = "error" => Tail(s) = <<>> /\ os[p] \in {"dead", "reaped"}
  BY <1>1, ReadError
<1>7. m = "error" => ~HasPong(Tail(s))
  BY <1>6 DEF HasPong
<1>8. Heard(p)'
  BY <1>1, <1>2, <1>4, <1>6, <1>7 DEF Heard
<1> QED
  BY <1>1, <1>5, <1>8 DEF s

(* A message is sent. *)
LEMMA SendHeard ==
  ASSUME IInv, RInv, NEW p \in Proc, Heard(p),
         UNCHANGED <<state, children, next, inflight>>,
         NEW m \in Message, inbox'[p] = Append(inbox[p], m),
         \/ m = "ready" /\ os[p] = "booting"
         \/ m = "error" /\ os[p] \in {"booting", "serving"} /\ os'[p] = "dead"
         \/ m = "pong" /\ os[p] = "serving"
  PROVE  Heard(p)'
<1> DEFINE s == inbox[p]
           t == Append(s, m)
<1>1. s \in Seq(Message) /\ (os[p] = "booting" => s = <<>>)
  BY Numbers DEF RInv, BootingIsSilent
<1>2. Current(p)' <=> Current(p)
  BY DEF Current, Spawned
<1>3. \A k \in DOMAIN s : s[k] # "error"
  BY <1>1 DEF Heard
<1>4. /\ Len(t) = Len(s) + 1 /\ t # <<>>
      /\ \A k \in DOMAIN t : (k \in DOMAIN s /\ t[k] = s[k]) \/ (k = Len(t) /\ t[k] = m)
      /\ s # <<>> => t[1] = s[1]
      /\ s = <<>> => t[1] = m
  <2>1. /\ t \in Seq(Message) /\ Len(t) = Len(s) + 1 /\ t[Len(s) + 1] = m
        /\ \A k \in 1 .. Len(s) : t[k] = s[k]
    BY <1>1
  <2>2. DOMAIN t = 1 .. Len(s) + 1 /\ DOMAIN s = 1 .. Len(s) /\ Len(s) \in Nat
    BY <1>1, <2>1
  <2>3. s # <<>> => 1 \in 1 .. Len(s)
    BY <1>1
  <2>4. s = <<>> => Len(s) = 0
    BY <1>1
  <2> HIDE DEF s, t
  <2> QED
    BY <2>1, <2>2, <2>3, <2>4
<1>5. m = "ready" => t[1] = "ready"
  BY <1>1, <1>4
<1>6. \A k \in DOMAIN t : t[k] = "error" => k = Len(t) /\ os'[p] \in {"dead", "reaped"}
  BY <1>3, <1>4
<1> HIDE DEF s, t
<1>7. HasPong(t) => m = "pong" \/ HasPong(s)
  BY <1>4 DEF HasPong
<1>8. FirstIsReady(p) => t # <<>> /\ t[1] = "ready"
  BY <1>4 DEF FirstIsReady, s
<1>9. inbox'[p] = t
  BY DEF s, t
<1>10. Current(p) /\ (os'[p] \in {"serving", "hung"} \/ HasPong(t)) =>
         state[p].pong # "none" \/ (t # <<>> /\ t[1] = "ready")
  <2>1. CASE m = "ready"
    BY <1>4, <1>5, <2>1
  <2>2. CASE m = "pong"
    BY <1>8, <2>2 DEF Heard
  <2>3. CASE m = "error"
    BY <1>7, <1>8, <2>3 DEF Heard, s
  <2> QED
    BY <2>1, <2>2, <2>3
<1> QED
  BY <1>2, <1>6, <1>9, <1>10 DEF Heard, FirstIsReady
----------------------------------------------------------------------------
(* Each step of a process p, for p. *)

(* A failed start is counted when it is over, and "ready" clears the count. *)
StartsKept(p) ==
  \/ failedBoots' = failedBoots /\ (Active(p)' => Active(p))
  \/ /\ failedBoots' = failedBoots /\ gw = "running" /\ Current(p)
     /\ DevHosted => Starts(p) <= BootFailureLimit - 1
  \/ failedBoots' = [failedBoots EXCEPT ![state[p].idx] = 0] /\ (Active(p)' => Active(p))
  \/ /\ failedBoots' = [failedBoots EXCEPT ![state[p].idx] = Starts(p) + 1]
     /\ Active(p) /\ ~Active(p)'

Step(p) == Local(p) /\ StartsKept(p) /\ Fits(p)' /\ Terminal(p)

(* A step that changes none of p's counts. *)
LEMMA CountsUnchanged ==
  ASSUME IInv, NEW p \in Proc, Fits(p), Reaped(p)' <=> Reaped(p),
         state'[p].idx = state[p].idx, state'[p].ready = state[p].ready,
         state'[p].status = state[p].status, state'[p].attempts = state[p].attempts,
         state'[p].pending = state[p].pending, state'[p].timer = state[p].timer,
         state'[p].pong = "none" <=> state[p].pong = "none",
         UNCHANGED <<gw, children, next, awaitExit, timers, removing, failedBoots>>,
         HadServed(p) => HadServed(p)',
         NoReady(inbox[p]) => NoReady(inbox'[p]) \/ (timers[p] = 0 /\ ~removing[p])
                                                 \/ ~Current(p),
         Live(p) /\ state[p].status = "crashed" => os'[p] = os[p] /\ inbox'[p] = inbox[p]
  PROVE  Counts(p)' /\ Terminal(p)
<1>1. /\ Current(p)' <=> Current(p)
      /\ Live(p)' <=> Live(p)
      /\ Starts(p)' = Starts(p)
  BY DEF Current, Live, Spawned, Starts
<1>2. Kept(p)' /\ AtLeast(p)'
  BY <1>1 DEF Fits, Counts, Kept, AtLeast
<1>3. Chained(p)'
  <2>1. timers[p] \in Nat
    BY Numbers
  <2> QED
    BY <1>1, <2>1 DEF Fits, Counts, Chained
<1>4. AtMost(p)'
  <2>1. AtMost(p) /\ Starts(p) \in Nat /\ state[p].attempts \in Nat
    BY Numbers DEF Fits, Counts
  <2> QED
    BY <1>1, <2>1 DEF AtMost
<1>5. Abandoned(p)' /\ Terminal(p)
  BY <1>1 DEF Fits, Counts, Abandoned, Terminal
<1> QED
  BY <1>2, <1>3, <1>4, <1>5 DEF Counts

LEMMA ChildStepFits ==
  ASSUME IInv, RInv, NEW p \in Proc, Fits(p), ChildStep(p)
  PROVE  Step(p)
<1>0. /\ os \in [Proc -> {"none", "booting", "serving", "hung", "dead", "reaped"}]
      /\ inbox \in [Proc -> Seq(Message)]
  BY DEF IInv, TypeOK, Message
<1>1. /\ UNCHANGED <<gw, children, state, awaitExit, timers, removing, inflight, next, failedBoots>>
      /\ os[p] \in {"booting", "serving", "hung"}
  BY DEF ChildStep, ChildReady, ChildStartFails, ChildDies, ChildHangs,
         ChildResumes, ChildExits, ChildPongs, chains
<1>2. /\ os' = os \/ \E o \in {"serving", "hung", "dead"} : os' = [os EXCEPT ![p] = o]
      /\ inbox' = inbox \/ \E m \in Message : inbox' = [inbox EXCEPT ![p] = Append(@, m)]
  BY DEF ChildStep, ChildReady, ChildStartFails, ChildDies, ChildHangs,
         ChildResumes, ChildExits, ChildPongs, Send, Message
<1>3. /\ os'[p] \in {"booting", "serving", "hung", "dead"}
      /\ \A q \in Proc \ {p} : os'[q] = os[q] /\ inbox'[q] = inbox[q]
  BY <1>0, <1>1, <1>2
<1>4. /\ ~Reaped(p)' /\ ~Reaped(p)
      /\ Active(p)' <=> Active(p)
      /\ Current(p)' <=> Current(p)
  BY <1>1, <1>3 DEF Reaped, Active, Live, Spawned, Current
<1>5. Local(p)
  BY <1>1, <1>3 DEF Local
<1>6. ~(Live(p) /\ state[p].status = "crashed")
  BY <1>1 DEF Fits, Counts, Abandoned
<1>7. timers[p] = 0 /\ ~removing[p]
  BY <1>4, Numbers DEF IInv, ChainOnlyAfterExit
<1>8. HadServed(p) => HadServed(p)'
  BY <1>1, LocalServed
<1>9. Counts(p)' /\ Terminal(p)
  BY <1>1, <1>4, <1>6, <1>7, <1>8, CountsUnchanged
<1>10. Heard(p)'
  <2>1. CASE ChildReady(p) \/ ChildStartFails(p) \/ ChildPongs(p)
    <3>1. \E m \in Message :
            /\ inbox'[p] = Append(inbox[p], m)
            /\ \/ m = "ready" /\ os[p] = "booting"
               \/ m = "error" /\ os[p] \in {"booting", "serving"} /\ os'[p] = "dead"
               \/ m = "pong" /\ os[p] = "serving"
      BY <1>0, <2>1 DEF ChildReady, ChildStartFails, ChildPongs, Send, Message
    <3> QED
      BY <1>1, <3>1, SendHeard DEF Fits
  <2>2. CASE ChildDies(p) \/ ChildHangs(p) \/ ChildResumes(p) \/ ChildExits(p)
    <3>1. inbox' = inbox /\ (os[p] = "booting" => os'[p] = "dead")
      BY <1>0, <2>2 DEF ChildDies, ChildHangs, ChildResumes, ChildExits
    <3>2. \A k \in DOMAIN inbox[p] : inbox[p][k] # "error"
      BY <1>1 DEF Fits, Heard
    <3> QED
      BY <1>1, <1>3, <1>4, <3>1, <3>2 DEF Fits, Heard, HasPong, FirstIsReady
  <2> QED
    BY <2>1, <2>2 DEF ChildStep
<1> QED
  BY <1>1, <1>4, <1>5, <1>9, <1>10 DEF Step, StartsKept, Fits

(* A message that no longer concerns anyone. *)
LEMMA DropStaleFits ==
  ASSUME IInv, NEW p \in Proc, Fits(p), DropStaleMessage(p)
  PROVE  Step(p)
<1>1. /\ UNCHANGED <<gw, children, state, os, awaitExit, timers, removing, inflight, next, failedBoots>>
      /\ ~Current(p)
      /\ \E m \in Message : Receive(p, m)
  BY DEF DropStaleMessage, chains, Message
<1>2. \A q \in Proc \ {p} : inbox'[q] = inbox[q]
  BY <1>1 DEF Receive, IInv, TypeOK
<1>3. Reaped(p)' <=> Reaped(p)
  BY <1>1 DEF Reaped
<1>4. Heard(p)' /\ inbox[p] # <<>>
  BY <1>1, ReadHeard DEF Fits, Heard
<1>5. ~(Live(p) /\ state[p].status = "crashed")
  BY <1>4 DEF Fits, Counts, Abandoned
<1>6. HadServed(p) => HadServed(p)'
  BY <1>1, LocalServed
<1>7. Counts(p)' /\ Terminal(p)
  BY <1>1, <1>3, <1>5, <1>6, CountsUnchanged
<1>8. Local(p) /\ (Active(p)' => Active(p))
  BY <1>1, <1>2, <1>3 DEF Local, Active, Live, Spawned
<1> QED
  BY <1>1, <1>4, <1>7, <1>8 DEF Step, StartsKept, Fits

(* "ready" clears the attempts and the count of failed starts, even when   *)
(* it comes after the exit and chains are under way.                       *)
LEMMA MarkReadyFits ==
  ASSUME IInv, RInv, NEW p \in Proc, Fits(p), MarkReady(p)
  PROVE  Step(p)
<1> DEFINE c == state[p]
           d == [c EXCEPT !.ready = TRUE, !.status = "ready", !.pong = "fresh",
                          !.attempts = 0, !.pending = FALSE]
<1>0. /\ c \in ChildState /\ state \in [Proc -> ChildState] /\ c.idx \in Idx
      /\ failedBoots \in [Idx -> Nat] /\ inbox \in [Proc -> Seq(Message)]
      /\ BootFailureLimit \in Nat /\ BootFailureLimit >= 2
      /\ awaitExit[p] \in Nat /\ timers[p] \in Nat
  BY Numbers DEF IInv, TypeOK, Message
<1>1. /\ Receive(p, "ready") /\ Current(p)
      /\ state' = [state EXCEPT ![p] = d]
      /\ failedBoots' = [failedBoots EXCEPT ![c.idx] = 0]
      /\ UNCHANGED <<gw, children, os, awaitExit, timers, removing, inflight, next>>
  BY DEF MarkReady, chains
<1>2. /\ d.idx = c.idx /\ d.ready /\ d.status = "ready" /\ d.pong = "fresh"
      /\ d.attempts = 0 /\ ~d.pending /\ d.timer = c.timer
  BY <1>0 DEF ChildState
<1> HIDE DEF d
<1>3. /\ state'[p] = d /\ failedBoots'[c.idx] = 0
      /\ \A q \in Proc \ {p} : state'[q] = state[q] /\ inbox'[q] = inbox[q]
  BY <1>0, <1>1 DEF Receive
<1>4. inbox[p] # <<>> /\ inbox[p][1] = "ready" /\ 1 \in DOMAIN inbox[p] /\ inbox'[p] = Tail(inbox[p])
  BY <1>0, <1>1 DEF Receive
<1>5. awaitExit[p] = 0 /\ ~NoReady(inbox[p])
  <2>1. ~Known(p) /\ ~NoReady(inbox[p])
    BY <1>4 DEF RInv, KnownHasBooted, HasBooted, NoReady
  <2> QED
    BY <1>0, <2>1 DEF Known
<1>6. NoReady(inbox'[p])
  BY <1>0, <1>4, TailHasNoReady, Numbers DEF RInv, ReadyComesFirst
<1>7. /\ Current(p)' /\ Starts(p)' = 0 /\ (Live(p)' <=> Live(p))
      /\ Reaped(p)' <=> Reaped(p)
      /\ Active(p)' <=> Active(p)
  BY <1>1, <1>2, <1>3 DEF Current, Live, Spawned, Reaped, Starts, Active
<1>8. HadServed(p)'
  BY <1>1, <1>2, <1>3, <1>7 DEF HadServed, HasServed, Current
<1>9. Chained(p)' /\ Kept(p)'
  BY <1>0, <1>1, <1>2, <1>3, <1>5, <1>6, <1>7 DEF Chained, Kept, Fits, Counts
<1>10. AtMost(p)'
  BY <1>2, <1>3, <1>7, <1>8 DEF AtMost
<1>11. AtLeast(p)' /\ Abandoned(p)'
  <2>1. gw = "running" => ~(timers[p] > 0 /\ removing[p])
    BY <1>1, <1>5 DEF Fits, Counts, Chained
  <2> QED
    BY <1>0, <1>1, <1>2, <1>3, <1>5, <1>7, <2>1 DEF AtLeast, Abandoned
<1>12. Heard(p)'
  <2>1. "ready" \in Message
    BY DEF Message
  <2> QED
    BY <1>1, <1>2, <1>3, <2>1, ReadHeard DEF Fits
<1>13. Terminal(p)
  <2>1. c.status = "crashed" => Reaped(p)
    BY <1>1, <1>4 DEF Fits, Counts, Abandoned, Live, Current
  <2> QED
    BY <2>1 DEF Terminal
<1>14. Local(p) /\ StartsKept(p)
  BY <1>1, <1>2, <1>3, <1>7 DEF Local, StartsKept
<1> QED
  BY <1>9, <1>10, <1>11, <1>12, <1>13, <1>14 DEF Step, Fits, Counts

(* A pong, read after "ready", changes no count. *)
LEMMA MarkHealthyFits ==
  ASSUME IInv, NEW p \in Proc, Fits(p), MarkHealthy(p)
  PROVE  Step(p)
<1> DEFINE c == state[p]
           d == [c EXCEPT !.status = "healthy", !.pong = "fresh"]
<1>0. /\ c \in ChildState /\ state \in [Proc -> ChildState]
      /\ inbox \in [Proc -> Seq(Message)] /\ Starts(p) \in Nat /\ c.attempts \in Nat
  BY Numbers DEF IInv, TypeOK, Message
<1>1. /\ Receive(p, "pong") /\ Current(p)
      /\ state' = [state EXCEPT ![p] = d]
      /\ UNCHANGED <<gw, children, os, awaitExit, timers, removing, inflight, next, failedBoots>>
  BY DEF MarkHealthy, chains
<1>2. /\ d.idx = c.idx /\ d.ready = c.ready /\ d.status = "healthy" /\ d.pong = "fresh"
      /\ d.attempts = c.attempts /\ d.pending = c.pending /\ d.timer = c.timer
  BY <1>0 DEF ChildState
<1> HIDE DEF d
<1>3. /\ state'[p] = d
      /\ \A q \in Proc \ {p} : state'[q] = state[q] /\ inbox'[q] = inbox[q]
  BY <1>0, <1>1 DEF Receive
<1>4. c.pong # "none"
  BY <1>1, ReadPong DEF Fits
<1>5. /\ Current(p)' /\ (Live(p)' <=> Live(p)) /\ Starts(p)' = Starts(p)
      /\ Reaped(p)' <=> Reaped(p)
      /\ Active(p)' <=> Active(p)
  BY <1>1, <1>2, <1>3 DEF Current, Live, Spawned, Reaped, Starts, Active
<1>6. Heard(p)' /\ inbox[p] # <<>> /\ (NoReady(inbox[p]) => NoReady(inbox'[p]))
  <2>1. "pong" \in Message
    BY DEF Message
  <2> QED
    BY <1>1, <1>2, <1>3, <2>1, ReadHeard DEF Fits
<1>7. Local(p) /\ StartsKept(p)
  BY <1>1, <1>2, <1>3, <1>5 DEF Local, StartsKept
<1>8. HadServed(p) => HadServed(p)'
  BY <1>7, LocalServed DEF Local
<1>9. Chained(p)' /\ Kept(p)' /\ AtLeast(p)'
  BY <1>1, <1>2, <1>3, <1>4, <1>5, <1>6 DEF Fits, Counts, Chained, Kept, AtLeast
<1>10. AtMost(p)'
  BY <1>0, <1>1, <1>2, <1>3, <1>4, <1>5, <1>8 DEF Fits, Counts, AtMost
<1>11. Abandoned(p)' /\ Terminal(p)
  <2>1. c.status = "crashed" => Reaped(p)
    BY <1>1, <1>6 DEF Fits, Counts, Abandoned, Live, Current
  <2> QED
    BY <1>2, <1>3, <2>1 DEF Terminal, Abandoned
<1> QED
  BY <1>6, <1>7, <1>9, <1>10, <1>11 DEF Step, Fits, Counts
(* The calls of #scheduleChildRestart. *)
LEMMA ScheduleFits ==
  ASSUME IInv, NEW p \in Proc, Fits(p), NEW c \in ChildState, NEW reason,
         SameCounts(c, state[p]), Schedule(p, c, reason),
         UNCHANGED <<gw, children, next, os, failedBoots>>,
         \A q \in Proc \ {p} : inbox'[q] = inbox[q] /\ (q \in inflight' => q \in inflight),
         GivesUpTheDead(p)
  PROVE  /\ Local(p) /\ StartsKept(p) /\ Counts(p)' /\ Terminal(p)
         /\ state'[p].pong = state[p].pong /\ (state'[p].ready => state[p].ready)
         /\ state'[p].idx = state[p].idx
<1>1. /\ ScheduleOutcome(p, state'[p]) /\ state'[p].idx = state[p].idx
      /\ removing' = removing
      /\ \A q \in Proc \ {p} : /\ state'[q] = state[q] /\ awaitExit'[q] = awaitExit[q]
                               /\ timers'[q] = timers[q]
  BY ScheduleIs
<1>2. state'[p].pong = state[p].pong /\ (state'[p].ready => state[p].ready)
  BY <1>1 DEF ScheduleOutcome, SameCounts
<1>3. Active(p)' <=> Active(p)
  BY <1>1 DEF Active, Live, Spawned, Reaped
<1>4. Local(p) /\ StartsKept(p)
  BY <1>1, <1>2, <1>3 DEF Local, StartsKept
<1>5. HadServed(p) => HadServed(p)'
  BY <1>4, LocalServed DEF Local
<1>6. Counts(p)' /\ Terminal(p)
  BY <1>1, <1>5, OutcomeFits
<1> QED
  BY <1>1, <1>2, <1>4, <1>6

(* Who was heard and lives is not given up. *)
LEMMA HeardIsKept ==
  ASSUME NEW p \in Proc, Fits(p), state[p].pong # "none"
  PROVE  ~(Live(p) /\ ~state[p].pending /\ GivesUp(state[p]))
  BY DEF Fits, Counts, Kept, GivesUp

LEMMA ChildErrorFits ==
  ASSUME IInv, NEW p \in Proc, Fits(p), ChildError(p)
  PROVE  Step(p)
<1>1. /\ Receive(p, "error") /\ Current(p) /\ Schedule(p, state[p], "child-error")
      /\ UNCHANGED <<gw, children, os, inflight, next, failedBoots>>
  BY DEF ChildError
<1>2. inbox'[p] = <<>> /\ os[p] \in {"dead", "reaped"}
  BY <1>1, ReadError DEF Fits
<1>3. /\ \A q \in Proc \ {p} : inbox'[q] = inbox[q]
      /\ state[p] \in ChildState
  BY <1>1 DEF Receive, IInv, TypeOK
<1>4. GivesUpTheDead(p) /\ SameCounts(state[p], state[p])
  <2>1. DOMAIN inbox'[p] = {}
    BY <1>2
  <2> QED
    BY <1>2, <2>1 DEF GivesUpTheDead, SameCounts, NoReady, Live, Reaped
<1>5. /\ Local(p) /\ StartsKept(p) /\ Counts(p)' /\ Terminal(p)
      /\ state'[p].pong = state[p].pong /\ (state'[p].ready => state[p].ready)
      /\ state'[p].idx = state[p].idx
  BY <1>1, <1>3, <1>4, ScheduleFits
<1>6. p \in inflight' \/ state'[p].ready => state'[p].pong # "none"
  BY <1>1, <1>5 DEF Fits, Heard
<1>7. Heard(p)'
  <2>1. "error" \in Message
    BY DEF Message
  <2> QED
    BY <1>1, <1>5, <1>6, <2>1, ReadHeard DEF Fits
<1> QED
  BY <1>5, <1>7 DEF Step, Fits

LEMMA UpstreamOpenFailedFits ==
  ASSUME IInv, NEW p \in Proc, Fits(p), UpstreamOpenFailed(p)
  PROVE  Step(p)
<1>1. /\ p \in inflight /\ Schedule(p, state[p], "upstream-open-failed")
      /\ UNCHANGED <<gw, children, os, inbox, next, failedBoots>>
      /\ inflight' \subseteq inflight
      /\ state[p] \in ChildState
  BY DEF UpstreamOpenFailed, IInv, TypeOK
<1>2. state[p].pong # "none"
  BY <1>1 DEF Fits, Heard
<1>3. GivesUpTheDead(p) /\ SameCounts(state[p], state[p])
  BY <1>1, <1>2, HeardIsKept DEF GivesUpTheDead, SameCounts
<1>4. /\ Local(p) /\ StartsKept(p) /\ Counts(p)' /\ Terminal(p)
      /\ state'[p].pong = state[p].pong /\ (state'[p].ready => state[p].ready)
      /\ state'[p].idx = state[p].idx
  BY <1>1, <1>3, ScheduleFits
<1>5. Current(p)' <=> Current(p)
  BY <1>1, <1>4 DEF Current, Spawned
<1>6. Heard(p)'
  <2>1. /\ Heard(p) /\ inbox'[p] = inbox[p] /\ os'[p] = os[p] /\ (Current(p)' => Current(p))
        /\ state'[p].pong = "none" => state[p].pong = "none"
        /\ p \in inflight' \/ state'[p].ready => p \in inflight \/ state[p].ready
    BY <1>1, <1>4, <1>5 DEF Fits
  <2> QED
    BY <2>1, QuietHeard
<1> QED
  BY <1>4, <1>6 DEF Step, Fits

(* #checkHealth passes over those that were given up. *)
LEMMA CheckHealthFits ==
  ASSUME IInv, NEW p \in Proc, Fits(p), HealthTimeout(p) \/ HealthSendFailed(p)
  PROVE  Step(p)
<1> DEFINE c == [state[p] EXCEPT !.status = "unhealthy"]
<1>1. PICK reason : CheckHealth(p, reason)
  BY DEF HealthTimeout, HealthSendFailed
<1>2. state[p].pong # "none" \/ (os[p] = "dead" /\ inbox[p] = <<>>)
  BY DEF HealthTimeout, HealthSendFailed
<1>3. /\ Schedule(p, c, reason) /\ ~Unavailable(p)
      /\ UNCHANGED <<gw, children, os, inbox, inflight, next, failedBoots>>
      /\ state[p] \in ChildState
  BY <1>1 DEF CheckHealth, IInv, TypeOK
<1>4. c \in ChildState /\ SameCounts(c, state[p])
  <2>1. state[p].status # "crashed"
    BY <1>3 DEF Unavailable
  <2> QED
    BY <1>3, <2>1 DEF ChildState, Status, SameCounts
<1> HIDE DEF c
<1>5. GivesUpTheDead(p)
  BY <1>2, <1>3, HeardIsKept DEF GivesUpTheDead
<1>6. /\ Local(p) /\ StartsKept(p) /\ Counts(p)' /\ Terminal(p)
      /\ state'[p].pong = state[p].pong /\ (state'[p].ready => state[p].ready)
      /\ state'[p].idx = state[p].idx
  BY <1>3, <1>4, <1>5, ScheduleFits
<1>7. Current(p)' <=> Current(p)
  BY <1>3, <1>6 DEF Current, Spawned
<1>8. Heard(p)'
  <2>1. /\ Heard(p) /\ inbox'[p] = inbox[p] /\ os'[p] = os[p] /\ (Current(p)' => Current(p))
        /\ state'[p].pong = "none" => state[p].pong = "none"
        /\ p \in inflight' \/ state'[p].ready => p \in inflight \/ state[p].ready
    BY <1>3, <1>6, <1>7 DEF Fits
  <2> QED
    BY <2>1, QuietHeard
<1> QED
  BY <1>6, <1>8 DEF Step, Fits

(* The grace period, answered requests and the age of a pong. *)
LEMMA QuietStepFits ==
  ASSUME IInv, NEW p \in Proc, Fits(p), GraceTimeout(p) \/ ProxyAnswered(p) \/ PongAges(p)
  PROVE  Step(p)
<1>0. state \in [Proc -> ChildState] /\ state[p] \in ChildState
  BY DEF IInv, TypeOK
<1> DEFINE d == [state[p] EXCEPT !.pong = "stale"]
<1>1. /\ UNCHANGED <<gw, children, os, inbox, awaitExit, timers, removing, next, failedBoots>>
      /\ inflight' \subseteq inflight
      /\ state' = state \/ (state' = [state EXCEPT ![p] = d] /\ state[p].pong = "fresh")
  BY DEF GraceTimeout, ProxyAnswered, PongAges, chains
<1>2. /\ d.idx = state[p].idx /\ d.ready = state[p].ready /\ d.status = state[p].status
      /\ d.attempts = state[p].attempts /\ d.pending = state[p].pending
      /\ d.pong = "stale" /\ d.timer = state[p].timer
  BY <1>0 DEF ChildState
<1> HIDE DEF d
<1>3. /\ state'[p].idx = state[p].idx /\ state'[p].ready = state[p].ready
      /\ state'[p].status = state[p].status /\ state'[p].timer = state[p].timer
      /\ state'[p].attempts = state[p].attempts /\ state'[p].pending = state[p].pending
      /\ state'[p].pong = "none" <=> state[p].pong = "none"
      /\ \A q \in Proc \ {p} : state'[q] = state[q]
  BY <1>0, <1>1, <1>2
<1>4. /\ Current(p)' <=> Current(p)
      /\ Live(p)' <=> Live(p)
      /\ Reaped(p)' <=> Reaped(p)
      /\ Active(p)' <=> Active(p)
  BY <1>1, <1>3 DEF Current, Live, Spawned, Reaped, Active
<1>5. Local(p) /\ StartsKept(p)
  BY <1>1, <1>3, <1>4 DEF Local, StartsKept
<1>6. HadServed(p) => HadServed(p)'
  BY <1>5, LocalServed DEF Local
<1>7. Counts(p)' /\ Terminal(p)
  BY <1>1, <1>3, <1>4, <1>6, CountsUnchanged
<1>8. Heard(p)'
  <2>1. /\ Heard(p) /\ inbox'[p] = inbox[p] /\ os'[p] = os[p] /\ (Current(p)' => Current(p))
        /\ state'[p].pong = "none" => state[p].pong = "none"
        /\ p \in inflight' \/ state'[p].ready => p \in inflight \/ state[p].ready
    BY <1>1, <1>3, <1>4 DEF Fits
  <2> QED
    BY <2>1, QuietHeard
<1> QED
  BY <1>5, <1>7, <1>8 DEF Step, Fits

(* The backoff is over: the start it leads to is paid for. *)
LEMMA TimerFiresFits ==
  ASSUME IInv, NEW p \in Proc, Fits(p), TimerFires(p)
  PROVE  Step(p)
<1> DEFINE d == [state[p] EXCEPT !.timer = FALSE]
           b == gw = "running" /\ Current(p)
<1>0. /\ state \in [Proc -> ChildState] /\ state[p] \in ChildState
      /\ timers \in [Proc -> Nat] /\ removing \in [Proc -> BOOLEAN]
      /\ awaitExit[p] \in Nat /\ timers[p] \in Nat /\ Starts(p) \in Nat
      /\ state[p].attempts \in Nat /\ BootFailureLimit \in Nat
  BY Numbers DEF IInv, TypeOK
<1>1. /\ UNCHANGED <<gw, children, os, inbox, awaitExit, inflight, next, failedBoots>>
      /\ state' = [state EXCEPT ![p] = d]
      /\ timers' = [timers EXCEPT ![p] = @ - 1] /\ timers[p] > 0 /\ ~removing[p]
      /\ removing' = [removing EXCEPT ![p] = b]
  BY DEF TimerFires
<1>2. /\ d.idx = state[p].idx /\ d.ready = state[p].ready /\ d.status = state[p].status
      /\ d.attempts = state[p].attempts /\ d.pending = state[p].pending
      /\ d.pong = state[p].pong
  BY <1>0 DEF ChildState
<1> HIDE DEF d
<1>3. /\ state'[p] = d /\ timers'[p] = timers[p] - 1 /\ (removing'[p] <=> b)
      /\ \A q \in Proc \ {p} : /\ state'[q] = state[q] /\ timers'[q] = timers[q]
                               /\ removing'[q] = removing[q]
  BY <1>0, <1>1
<1> HIDE DEF b
<1>4. /\ Current(p)' <=> Current(p)
      /\ Live(p)' <=> Live(p)
      /\ Reaped(p)' <=> Reaped(p)
      /\ Starts(p)' = Starts(p)
  BY <1>1, <1>2, <1>3 DEF Current, Live, Spawned, Reaped, Starts
<1>5. b => /\ timers[p] = 1 /\ Starts(p) <= state[p].attempts
           /\ DevHosted => state[p].attempts <= BootFailureLimit - 1
           /\ state[p].pending \/ NoReady(inbox[p])
  BY <1>0, <1>1 DEF Fits, Counts, Chained, AtLeast, b
<1>6. Chained(p)' /\ Kept(p)'
  <2>1. b => timers'[p] = 0
    BY <1>0, <1>3, <1>5
  <2> QED
    BY <1>1, <1>2, <1>3, <1>4, <1>5, <2>1 DEF Fits, Counts, Chained, Kept, b
<1>7. AtLeast(p)'
  <2>1. b => timers'[p] = 0
    BY <1>0, <1>3, <1>5
  <2> QED
    BY <1>1, <1>2, <1>3, <1>4, <1>5, <2>1 DEF Fits, Counts, AtLeast, b
<1>8. Local(p)
  BY <1>1, <1>2, <1>3 DEF Local
<1>9. HadServed(p) => HadServed(p)'
  BY <1>8, LocalServed DEF Local
<1>10. AtMost(p)'
  BY <1>0, <1>1, <1>2, <1>3, <1>4, <1>9 DEF Fits, Counts, AtMost
<1>11. Abandoned(p)' /\ Terminal(p)
  BY <1>1, <1>2, <1>3, <1>4 DEF Fits, Counts, Abandoned, Terminal
<1>12. Heard(p)'
  <2>1. /\ Heard(p) /\ inbox'[p] = inbox[p] /\ os'[p] = os[p] /\ (Current(p)' => Current(p))
        /\ state'[p].pong = "none" => state[p].pong = "none"
        /\ p \in inflight' \/ state'[p].ready => p \in inflight \/ state[p].ready
    BY <1>1, <1>2, <1>3, <1>4 DEF Fits
  <2> QED
    BY <2>1, QuietHeard
<1>13. StartsKept(p)
  <2>1. CASE b
    <3>1. DevHosted => Starts(p) <= BootFailureLimit - 1
      BY <1>0, <1>5, <2>1
    <3> QED
      BY <1>1, <2>1, <3>1 DEF StartsKept, b
  <2>2. CASE ~b
    BY <1>1, <1>3, <1>4, <2>2 DEF StartsKept, Active
  <2> QED
    BY <2>1, <2>2
<1> QED
  BY <1>6, <1>7, <1>8, <1>10, <1>11, <1>12, <1>13 DEF Step, Fits, Counts
----------------------------------------------------------------------------
(* The exit of a process ends a start if it has not been heard: what the   *)
(* start might still have cost is now counted as failed.                   *)
LEMMA ExitIs ==
  ASSUME IInv, NEW p \in Proc, Exit(p),
         UNCHANGED <<gw, children, inbox, removing, inflight, next>>,
         state'[p].idx = state[p].idx, state'[p].pong = state[p].pong,
         \A q \in Proc \ {p} : state'[q] = state[q] /\ timers'[q] = timers[q]
  PROVE  /\ os[p] = "dead" /\ os'[p] = "reaped" /\ awaitExit'[p] = 0
         /\ Live(p) /\ Reaped(p)' /\ ~Live(p)'
         /\ timers[p] = 0 /\ ~state[p].timer /\ ~removing[p] /\ ~removing'[p]
         /\ Local(p) /\ StartsKept(p) /\ (HadServed(p) => HadServed(p)')
         /\ Starts(p)' = Starts(p) + (IF state[p].pong = "none" THEN 1 ELSE 0)
         /\ Current(p)' <=> Current(p)
<1>0. /\ os \in [Proc -> {"none", "booting", "serving", "hung", "dead", "reaped"}]
      /\ awaitExit \in [Proc -> Nat] /\ timers[p] \in Nat
      /\ Starts(p) \in Nat /\ state[p].idx \in Idx /\ failedBoots \in [Idx -> Nat]
  BY Numbers DEF IInv, TypeOK
<1>1. /\ os[p] = "dead" /\ os'[p] = "reaped" /\ awaitExit'[p] = 0
      /\ \A q \in Proc \ {p} : os'[q] = os[q] /\ awaitExit'[q] = awaitExit[q]
      /\ failedBoots' = IF state[p].pong = "none"
                        THEN [failedBoots EXCEPT ![state[p].idx] = Starts(p) + 1]
                        ELSE failedBoots
  BY <1>0 DEF Exit, Starts
<1>2. Live(p) /\ ~Reaped(p)
  BY <1>1 DEF Live, Reaped, IInv, UnspawnedIsBlank
<1>3. timers[p] = 0 /\ ~removing[p] /\ ~state[p].timer
  BY <1>0, <1>2 DEF IInv, ChainOnlyAfterExit, ArmedHasTimer
<1>4. /\ Current(p)' <=> Current(p)
      /\ Reaped(p)' /\ ~Live(p)' /\ Active(p) /\ ~Active(p)' /\ ~removing'[p]
  BY <1>1, <1>2, <1>3 DEF Current, Reaped, Active, Live, Spawned
<1>5. Starts(p)' = Starts(p) + (IF state[p].pong = "none" THEN 1 ELSE 0)
  <2>1. CASE state[p].pong = "none"
    <3>1. failedBoots'[state[p].idx] = Starts(p) + 1
      BY <1>0, <1>1, <2>1
    <3> QED
      BY <2>1, <3>1 DEF Starts
  <2>2. CASE state[p].pong # "none"
    <3>1. Starts(p)' = Starts(p)
      BY <1>1, <2>2 DEF Starts
    <3> QED
      BY <1>0, <2>2, <3>1
  <2> QED
    BY <2>1, <2>2
<1>6. StartsKept(p)
  BY <1>1, <1>4 DEF StartsKept
<1>7. Local(p)
  <2>1. Starts(p) + 1 \in Nat
    BY <1>0
  <2> QED
    BY <1>1, <1>4, <2>1 DEF Local
<1>8. HadServed(p) => HadServed(p)'
  BY <1>7, LocalServed DEF Local
<1> QED
  BY <1>1, <1>2, <1>3, <1>4, <1>5, <1>6, <1>7, <1>8

(* The attempts after it, given what handleChildExit makes of them. *)
LEMMA ExitAtMost ==
  ASSUME IInv, NEW p \in Proc, AtMost(p), gw' = gw, Live(p), ~Live(p)',
         HadServed(p) => HadServed(p)', Current(p)' => Current(p),
         Starts(p)' = Starts(p) + (IF state[p].pong = "none" THEN 1 ELSE 0),
         state'[p].attempts + (IF state'[p].pending THEN 0 ELSE 1)
           = state[p].attempts + (IF state[p].pending THEN 0 ELSE 1)
  PROVE  AtMost(p)'
<1>1. Starts(p) \in Nat /\ state[p].attempts \in Nat
  BY Numbers
<1> QED
  BY <1>1 DEF AtMost
LEMMA ExitUnattendedFits ==
  ASSUME IInv, NEW p \in Proc, Fits(p), ExitUnattended(p)
  PROVE  Step(p)
<1> DEFINE c == state[p]
           d == [c EXCEPT !.status = "exited"]
           e == state'[p]
<1>0. state \in [Proc -> ChildState] /\ c \in ChildState
  BY DEF IInv, TypeOK
<1>1. /\ Exit(p) /\ ~(Current(p) /\ gw = "running")
      /\ UNCHANGED <<gw, children, inbox, timers, removing, inflight, next>>
      /\ \/ state' = state
         \/ state' = [state EXCEPT ![p] = d] /\ ~(Current(p) /\ c.status = "crashed")
  BY DEF ExitUnattended, StaysAbandoned
<1>2. /\ d.idx = c.idx /\ d.ready = c.ready /\ d.status = "exited"
      /\ d.attempts = c.attempts /\ d.pending = c.pending /\ d.pong = c.pong
  BY <1>0 DEF ChildState
<1> HIDE DEF d
<1>3. /\ e.idx = c.idx /\ e.ready = c.ready /\ e.attempts = c.attempts
      /\ e.pending = c.pending /\ e.pong = c.pong
      /\ e.status = "crashed" => c.status = "crashed"
      /\ Current(p) /\ c.status = "crashed" => e.status = "crashed"
      /\ \A q \in Proc \ {p} : state'[q] = state[q]
  BY <1>0, <1>1, <1>2
<1>4. /\ os[p] = "dead" /\ os'[p] = "reaped" /\ awaitExit'[p] = 0
      /\ Live(p) /\ ~Live(p)'
      /\ Local(p) /\ StartsKept(p) /\ (HadServed(p) => HadServed(p)')
      /\ Starts(p)' = Starts(p) + (IF c.pong = "none" THEN 1 ELSE 0)
      /\ Current(p)' <=> Current(p)
  BY <1>1, <1>3, ExitIs
<1>5. Chained(p)' /\ AtLeast(p)' /\ Kept(p)'
  BY <1>1, <1>4 DEF Chained, AtLeast, Kept
<1>6. AtMost(p)'
  BY <1>1, <1>3, <1>4, ExitAtMost DEF Fits, Counts
<1>7. Abandoned(p)' /\ Terminal(p)
  BY <1>1, <1>3, <1>4 DEF Fits, Counts, Abandoned, Terminal
<1>8. Heard(p)'
  <2>1. /\ Heard(p) /\ inbox'[p] = inbox[p] /\ (Current(p)' => Current(p))
        /\ os'[p] \in {"dead", "reaped"}
        /\ state'[p].pong = "none" => state[p].pong = "none"
        /\ p \in inflight' \/ state'[p].ready => p \in inflight \/ state[p].ready
    BY <1>1, <1>3, <1>4 DEF Fits
  <2> QED
    BY <2>1, QuietHeard
<1> QED
  BY <1>4, <1>5, <1>6, <1>7, <1>8 DEF Step, Fits, Counts

(* With the gateway running: the exit is what a chain was waiting for, or  *)
(* starts one, or is one failed start too many.                            *)
LEMMA ExitRestartsFits ==
  ASSUME IInv, NEW p \in Proc, Fits(p), ExitRestarts(p)
  PROVE  Step(p)
<1> DEFINE c == state[p]
           x == [c EXCEPT !.status = "exited"]
           y == AfterSchedule(x, "exit")
           s == ~StaysAbandoned(p) /\ StartsChain(x)
           d == IF StaysAbandoned(p) THEN c ELSE y
           armed == awaitExit[p] + (IF s THEN 1 ELSE 0)
           e == [d EXCEPT !.timer = @ \/ armed > 0]
           L == BootFailureLimit
<1>0. /\ state \in [Proc -> ChildState] /\ c \in ChildState /\ timers \in [Proc -> Nat]
      /\ c.attempts \in Nat /\ awaitExit[p] \in Nat /\ Starts(p) \in Nat
      /\ L \in Nat /\ L >= 2
  BY Numbers DEF IInv, TypeOK
<1>1. /\ Exit(p) /\ Current(p) /\ gw = "running"
      /\ state' = [state EXCEPT ![p] = e]
      /\ timers' = [timers EXCEPT ![p] = @ + armed]
      /\ UNCHANGED <<gw, children, inbox, removing, inflight, next>>
  BY DEF ExitRestarts
<1>2. /\ x \in ChildState /\ x.idx = c.idx /\ x.ready = c.ready /\ x.status = "exited"
      /\ x.attempts = c.attempts /\ x.pending = c.pending /\ x.pong = c.pong
      /\ x.timer = c.timer
  BY <1>0 DEF ChildState, Status
<1> HIDE DEF x
<1>3. /\ y \in ChildState /\ y.idx = x.idx /\ y.pong = x.pong /\ y.timer = x.timer
      /\ Scheduled(x) => y = x
      /\ ~Scheduled(x) /\ GivesUp(x) =>
           y.attempts = x.attempts /\ ~y.pending /\ ~y.ready /\ y.status = "crashed"
      /\ StartsChain(x) =>
           y.attempts = x.attempts + 1 /\ y.pending /\ ~y.ready /\ y.status # "crashed"
  BY <1>2, AfterScheduleIs
<1> HIDE DEF y
<1>4. d \in ChildState /\ d.idx = c.idx /\ d.pong = c.pong /\ (d.ready => c.ready)
  <2>1. StartsChain(x) <=> ~Scheduled(x) /\ ~GivesUp(x)
    BY DEF StartsChain
  <2> QED
    BY <1>0, <1>2, <1>3, <2>1
<1> HIDE DEF d, armed
<1>5. /\ e.idx = d.idx /\ e.ready = d.ready /\ e.attempts = d.attempts
      /\ e.pending = d.pending /\ e.pong = d.pong /\ e.status = d.status
      /\ e.timer <=> d.timer \/ armed > 0
  BY <1>4 DEF ChildState
<1> HIDE DEF e
<1>6. /\ state'[p] = e /\ timers'[p] = timers[p] + armed
      /\ \A q \in Proc \ {p} : state'[q] = state[q] /\ timers'[q] = timers[q]
  BY <1>0, <1>1
<1>7. /\ os[p] = "dead" /\ os'[p] = "reaped" /\ awaitExit'[p] = 0
      /\ Live(p) /\ Reaped(p)' /\ ~Live(p)'
      /\ timers[p] = 0 /\ ~c.timer /\ ~removing[p] /\ ~removing'[p]
      /\ Local(p) /\ StartsKept(p) /\ (HadServed(p) => HadServed(p)')
      /\ Starts(p)' = Starts(p) + (IF c.pong = "none" THEN 1 ELSE 0)
      /\ Current(p)' <=> Current(p)
  BY <1>1, <1>4, <1>5, <1>6, ExitIs
<1>8. armed \in Nat /\ timers'[p] = armed
  BY <1>0, <1>6, <1>7 DEF armed
<1>9. /\ awaitExit[p] <= 1 /\ (awaitExit[p] > 0 => c.pending)
      /\ c.ready => c.attempts = 0
      /\ DevHosted => c.attempts <= L - 1
      /\ Starts(p) <= c.attempts
      /\ awaitExit[p] > 0 => Starts(p) + 1 <= c.attempts
  BY <1>1, <1>7 DEF Fits, Counts, Chained, AtLeast
<1>10. Starts(p)' \in Nat /\ Starts(p)' <= Starts(p) + 1
  BY <1>0, <1>7
<1>11. Scheduled(x) <=> c.pending
  BY <1>2, <1>7 DEF Scheduled
<1>12. Heard(p)'
  <2>1. /\ Heard(p) /\ inbox'[p] = inbox[p] /\ (Current(p)' => Current(p))
        /\ os'[p] \in {"dead", "reaped"}
        /\ state'[p].pong = "none" => state[p].pong = "none"
        /\ p \in inflight' \/ state'[p].ready => p \in inflight \/ state[p].ready
    BY <1>1, <1>4, <1>5, <1>6, <1>7 DEF Fits
  <2> QED
    BY <2>1, QuietHeard
<1>13. Kept(p)'
  BY <1>7 DEF Kept
<1>14. SUFFICES /\ d.status = "crashed" => Abandoned(p)'
                /\ c.status = "crashed" => d.status = "crashed"
                /\ d.attempts + (IF d.pending THEN 0 ELSE 1)
                     = c.attempts + (IF c.pending THEN 0 ELSE 1)
                /\ armed <= 1 /\ (armed > 0 => d.pending /\ Starts(p)' <= d.attempts)
                /\ d.ready => d.attempts = 0
                /\ DevHosted => d.attempts <= L - 1
                /\ Starts(p)' <= d.attempts + 1
  <2> SUFFICES Chained(p)' /\ AtMost(p)' /\ AtLeast(p)' /\ Abandoned(p)' /\ Terminal(p)
    BY <1>7, <1>12, <1>13 DEF Step, Fits, Counts
  <2>1. AtMost(p)'
    BY <1>1, <1>5, <1>6, <1>7, <1>14, ExitAtMost DEF Fits, Counts
  <2>2. Chained(p)' /\ AtLeast(p)'
    BY <1>5, <1>6, <1>7, <1>8, <1>14 DEF Chained, AtLeast
  <2>3. Abandoned(p)' /\ Terminal(p)
    BY <1>5, <1>6, <1>14 DEF Abandoned, Terminal
  <2> QED
    BY <2>1, <2>2, <2>3
<1>15. CASE c.status = "crashed"
  <2>1. ~c.pending /\ awaitExit[p] = 0
    BY <1>0, <1>9, <1>15 DEF Fits, Counts, Abandoned
  <2>2. d = c /\ armed = 0
    BY <1>0, <1>15, <2>1 DEF d, armed, StaysAbandoned
  <2>3. Abandoned(p)'
    BY <1>1, <1>5, <1>6, <1>7, <1>15, <2>2 DEF Fits, Counts, Abandoned
  <2> QED
    BY <1>0, <1>9, <1>10, <2>2, <2>3
<1>16. CASE c.status # "crashed" /\ c.pending
  <2>1. d = x /\ armed = awaitExit[p]
    BY <1>0, <1>3, <1>11, <1>16 DEF d, armed, StaysAbandoned, StartsChain
  <2>2. /\ d.ready = c.ready /\ d.status # "crashed" /\ d.pending
        /\ d.attempts = c.attempts
    BY <1>2, <1>16, <2>1
  <2>3. armed <= 1 /\ (armed > 0 => Starts(p)' <= c.attempts)
    BY <1>0, <1>9, <1>10, <2>1
  <2> QED
    BY <1>0, <1>9, <1>10, <1>16, <2>2, <2>3
<1>17. CASE c.status # "crashed" /\ ~c.pending /\ GivesUp(x)
  <2>1. /\ d = y /\ armed = 0
        /\ d.attempts = c.attempts /\ ~d.pending /\ ~d.ready /\ d.status = "crashed"
    BY <1>0, <1>2, <1>3, <1>9, <1>11, <1>17 DEF d, armed, StaysAbandoned, StartsChain
  <2>2. DevHosted /\ c.attempts >= L - 1
    BY <1>2, <1>17 DEF GivesUp
  <2>3. Abandoned(p)'
    BY <1>1, <1>5, <1>6, <1>7, <2>1, <2>2 DEF Abandoned
  <2> QED
    BY <1>0, <1>9, <1>10, <1>17, <2>1, <2>3
<1>18. CASE c.status # "crashed" /\ ~c.pending /\ ~GivesUp(x)
  <2>1. /\ d = y /\ armed = 1
        /\ d.attempts = c.attempts + 1 /\ d.pending /\ ~d.ready /\ d.status # "crashed"
    <3>1. s /\ ~StaysAbandoned(p)
      BY <1>11, <1>18 DEF StaysAbandoned, StartsChain
    <3>2. awaitExit[p] = 0
      BY <1>0, <1>9, <1>18
    <3>3. d = y
      BY <3>1 DEF d
    <3>4. armed = 1
      BY <3>1, <3>2 DEF armed
    <3> QED
      BY <1>2, <1>3, <3>1, <3>3, <3>4
  <2>2. DevHosted => c.attempts + 1 <= L - 1
    BY <1>0, <1>2, <1>9, <1>18 DEF GivesUp
  <2> QED
    BY <1>0, <1>9, <1>10, <1>18, <2>1, <2>2
<1> QED
  BY <1>15, <1>16, <1>17, <1>18
(* A chain whose spawn fails: one more failed start, and one more attempt  *)
(* unless they are used up or a second chain is already armed.             *)
LEMMA RespawnFailsFits ==
  ASSUME IInv, NEW p \in Proc, Fits(p), RespawnFails(p)
  PROVE  Step(p)
<1> DEFINE c == state[p]
           x == [c EXCEPT !.pending = FALSE]
           r == RestartPending(x, "respawn-failed")
           y == AfterSchedule(x, "respawn-failed")
           z == [r EXCEPT !.timer = TRUE]
           e == state'[p]
           L == BootFailureLimit
<1>0. /\ state \in [Proc -> ChildState] /\ c \in ChildState /\ timers \in [Proc -> Nat]
      /\ c.attempts \in Nat /\ awaitExit[p] \in Nat /\ Starts(p) \in Nat /\ c.idx \in Idx
      /\ timers[p] \in Nat /\ removing \in [Proc -> BOOLEAN] /\ failedBoots \in [Idx -> Nat]
      /\ L \in Nat /\ L >= 2
  BY Numbers DEF IInv, TypeOK
<1>1. /\ removing[p] /\ removing' = [removing EXCEPT ![p] = FALSE]
      /\ failedBoots' = [failedBoots EXCEPT ![c.idx] = @ + 1]
      /\ UNCHANGED <<gw, children, os, inbox, awaitExit, inflight, next>>
  BY DEF RespawnFails
<1>2. /\ Reaped(p) /\ awaitExit[p] = 0 /\ (c.timer => timers[p] > 0)
  BY <1>0, <1>1 DEF Fits, Counts, Chained, IInv, ArmedHasTimer, ChainOnlyAfterExit
<1>3. /\ x \in ChildState /\ x.idx = c.idx /\ x.ready = c.ready /\ x.status = c.status
      /\ x.attempts = c.attempts /\ ~x.pending /\ x.pong = c.pong /\ x.timer = c.timer
  BY <1>0 DEF ChildState
<1> HIDE DEF x
<1>4. /\ StartsChain(x) <=> ~c.timer /\ ~GivesUp(x)
      /\ Scheduled(x) <=> c.timer
  BY <1>2, <1>3 DEF Scheduled, StartsChain
<1>5. /\ y \in ChildState /\ y.idx = x.idx /\ y.pong = x.pong /\ y.timer = x.timer
      /\ Scheduled(x) => y = x
      /\ ~Scheduled(x) /\ GivesUp(x) =>
           y.attempts = x.attempts /\ ~y.pending /\ ~y.ready /\ y.status = "crashed"
      /\ StartsChain(x) =>
           y.attempts = x.attempts + 1 /\ y.pending /\ ~y.ready /\ y.status # "crashed"
  BY <1>3, AfterScheduleIs
<1>6. StartsChain(x) => r = y
  BY DEF AfterSchedule, StartsChain
<1> HIDE DEF y, r
<1>7. StartsChain(x) =>
        /\ z.idx = y.idx /\ z.pong = y.pong /\ z.attempts = y.attempts
        /\ z.pending = y.pending /\ z.ready = y.ready /\ z.status = y.status
        /\ z.timer
  BY <1>5, <1>6 DEF ChildState
<1> HIDE DEF z
<1>8. /\ ~removing'[p] /\ awaitExit'[p] = 0
      /\ \A q \in Proc \ {p} : removing'[q] = removing[q]
  BY <1>0, <1>1, <1>2
<1>9. \/ /\ Current(p) /\ gw = "running" /\ StartsChain(x)
         /\ e = z /\ timers'[p] = timers[p] + 1
         /\ \A q \in Proc \ {p} : state'[q] = state[q] /\ timers'[q] = timers[q]
      \/ /\ Current(p) /\ gw = "running" /\ ~StartsChain(x)
         /\ e = y /\ timers'[p] = timers[p]
         /\ \A q \in Proc \ {p} : state'[q] = state[q] /\ timers'[q] = timers[q]
      \/ /\ ~(Current(p) /\ gw = "running")
         /\ e = x /\ timers'[p] = timers[p]
         /\ \A q \in Proc \ {p} : state'[q] = state[q] /\ timers'[q] = timers[q]
  <2>1. CASE Current(p) /\ gw = "running"
    <3>1. /\ state' = [state EXCEPT ![p] = IF StartsChain(x) THEN z ELSE y]
          /\ timers' = [timers EXCEPT ![p] = @ + (IF StartsChain(x) THEN 1 ELSE 0)]
      BY <2>1 DEF RespawnFails, x, y, z, r
    <3> QED
      BY <1>0, <1>2, <1>4, <2>1, <3>1
  <2>2. CASE ~(Current(p) /\ gw = "running")
    <3>1. state' = [state EXCEPT ![p] = x] /\ timers' = timers
      BY <2>2 DEF RespawnFails, x
    <3> QED
      BY <1>0, <1>2, <2>2, <3>1
  <2> QED
    BY <2>1, <2>2
<1>10. e.idx = c.idx /\ e.pong = c.pong /\ (e.ready => c.ready)
  BY <1>3, <1>4, <1>5, <1>7, <1>9
<1>11. /\ Current(p)' <=> Current(p)
       /\ Reaped(p)' /\ ~Live(p)' /\ ~Active(p)' /\ Active(p) /\ ~Live(p)
  BY <1>1, <1>2, <1>8, <1>10 DEF Current, Reaped, Live, Active, Spawned
<1>12. Starts(p)' = Starts(p) + 1
  BY <1>0, <1>1, <1>10 DEF Starts
<1>13. Heard(p)'
  <2>1. /\ Heard(p) /\ inbox'[p] = inbox[p] /\ os'[p] = os[p] /\ (Current(p)' => Current(p))
        /\ state'[p].pong = "none" => state[p].pong = "none"
        /\ p \in inflight' \/ state'[p].ready => p \in inflight \/ state[p].ready
    BY <1>1, <1>10, <1>11 DEF Fits
  <2> QED
    BY <2>1, QuietHeard
<1>14. failedBoots' = [failedBoots EXCEPT ![c.idx] = Starts(p) + 1]
  BY <1>1 DEF Starts
<1>15. StartsKept(p)
  BY <1>11, <1>14 DEF StartsKept
<1>16. Local(p)
  <2>1. Starts(p) + 1 \in Nat
    BY <1>0
  <2>2. \A q \in Proc \ {p} : state'[q] = state[q] /\ timers'[q] = timers[q]
    BY <1>9
  <2> QED
    BY <1>1, <1>8, <1>10, <1>11, <1>14, <2>1, <2>2 DEF Local
<1>17. HadServed(p) => HadServed(p)'
  BY <1>16, LocalServed DEF Local
<1>18. gw = "running" /\ Current(p) =>
         /\ c.ready => c.attempts = 0
         /\ DevHosted => c.attempts <= L - 1
         /\ Starts(p) <= c.attempts
         /\ timers[p] > 0 => /\ Starts(p) + 1 <= c.attempts /\ c.timer
                             /\ timers[p] <= 1 /\ NoReady(inbox[p])
  BY <1>1 DEF Fits, Counts, Chained, AtLeast
<1>19. gw # "stopped" /\ Current(p) =>
         c.attempts <= Starts(p) + (IF HadServed(p) THEN 1 ELSE 0)
  BY <1>0, <1>11 DEF Fits, Counts, AtMost
<1>20. c.status = "crashed" => /\ DevHosted /\ c.attempts >= L - 1 /\ ~c.ready
                               /\ Current(p) => gw # "stopped"
  BY DEF Fits, Counts, Abandoned
<1>21. Kept(p)'
  BY <1>11 DEF Kept
<1>22. gw # "stopped" /\ Current(p) =>
         e.attempts + (IF e.pending THEN 0 ELSE 1) <= c.attempts + 1
  <2>1. e.attempts = c.attempts \/ (e.attempts = c.attempts + 1 /\ e.pending)
    BY <1>3, <1>4, <1>5, <1>7, <1>9
  <2> QED
    BY <1>0, <2>1
<1>23. AtMost(p)'
  <2> SUFFICES ASSUME gw # "stopped", Current(p)
               PROVE  AtMost(p)'
    BY <1>1, <1>11 DEF AtMost
  <2> DEFINE h == IF HadServed(p) THEN 1 ELSE 0
             k == IF HadServed(p)' THEN 1 ELSE 0
             v == e.attempts + (IF e.pending THEN 0 ELSE 1)
  <2>1. h <= k /\ h \in Nat /\ k \in Nat
    BY <1>17
  <2>2. e.attempts \in Nat /\ v \in Nat
    BY <1>0, <1>3, <1>4, <1>5, <1>7, <1>9
  <2>3. v <= c.attempts + 1 /\ c.attempts <= Starts(p) + h
    BY <1>19, <1>22
  <2>4. AtMost(p)' <=> v <= Starts(p)' + k + 0
    BY <1>1, <1>11 DEF AtMost
  <2> HIDE DEF h, k, v
  <2> QED
    BY <1>0, <1>12, <2>1, <2>2, <2>3, <2>4
<1>24. CASE ~(Current(p) /\ gw = "running")
  <2>1. e = x
    BY <1>9, <1>24
  <2>2. Chained(p)' /\ AtLeast(p)'
    BY <1>1, <1>8, <1>11, <1>24 DEF Chained, AtLeast
  <2>3. Abandoned(p)' /\ Terminal(p)
    BY <1>1, <1>3, <1>11, <1>20, <2>1 DEF Abandoned, Terminal
  <2> QED
    BY <1>13, <1>15, <1>16, <1>21, <1>23, <2>2, <2>3 DEF Step, Fits, Counts
<1>25. CASE Current(p) /\ gw = "running" /\ StartsChain(x)
  <2>1. e = z /\ timers'[p] = 1
    BY <1>0, <1>4, <1>9, <1>18, <1>25
  <2>2. e.attempts = c.attempts + 1 /\ e.pending /\ ~e.ready /\ e.status # "crashed" /\ e.timer
    BY <1>3, <1>5, <1>7, <1>25, <2>1
  <2>3. Chained(p)'
    BY <1>8, <2>1, <2>2 DEF Chained
  <2>4. DevHosted => c.attempts + 1 <= L - 1
    BY <1>0, <1>3, <1>4, <1>18, <1>25 DEF GivesUp
  <2>5. AtLeast(p)'
    <3>1. Starts(p)' <= e.attempts
      BY <1>0, <1>12, <1>18, <1>25, <2>2
    <3> QED
      BY <1>0, <1>8, <1>12, <2>2, <2>4, <3>1 DEF AtLeast
  <2>6. Abandoned(p)' /\ Terminal(p)
    <3>1. c.status # "crashed"
      BY <1>3, <1>4, <1>20, <1>25 DEF GivesUp
    <3> QED
      BY <2>2, <3>1 DEF Abandoned, Terminal
  <2> QED
    BY <1>13, <1>15, <1>16, <1>21, <1>23, <2>3, <2>5, <2>6 DEF Step, Fits, Counts
<1>26. CASE Current(p) /\ gw = "running" /\ ~StartsChain(x) /\ c.timer
  <2>1. e = x /\ timers'[p] = timers[p] /\ timers[p] = 1
    BY <1>0, <1>2, <1>4, <1>5, <1>9, <1>18, <1>26
  <2>2. Chained(p)'
    <3>1. NoReady(inbox[p])'
      <4>1. NoReady(inbox[p])
        BY <1>18, <1>26, <2>1
      <4>2. inbox' = inbox
        BY <1>1
      <4> QED
        BY <4>1, <4>2 DEF NoReady
    <3>2. e.timer /\ timers'[p] <= 1 /\ awaitExit'[p] = 0
      <4>1. e.timer = c.timer /\ c.timer
        BY <1>3, <1>26, <2>1
      <4>2. timers'[p] <= 1
        BY <2>1
      <4> QED
        BY <1>8, <4>1, <4>2
    <3> QED
      BY <3>1, <3>2 DEF Chained
  <2>3. AtLeast(p)'
    <3>1. Starts(p)' <= e.attempts /\ e.attempts = c.attempts
      BY <1>0, <1>3, <1>12, <1>18, <1>26, <2>1
    <3>2. e.ready = c.ready /\ (e.ready => e.attempts = 0)
      BY <1>3, <1>18, <1>26, <2>1, <3>1
    <3>3. DevHosted => e.attempts <= L - 1
      BY <1>18, <1>26, <3>1
    <3>4. Starts(p)' \in Nat /\ e.attempts \in Nat
      BY <1>0, <1>12, <3>1
    <3>5. Starts(p)' <= e.attempts + 1
      BY <3>1, <3>4
    <3>6. awaitExit'[p] = 0 /\ ~removing'[p]
      BY <1>8, <1>11
    <3> QED
      BY <3>1, <3>2, <3>3, <3>5, <3>6 DEF AtLeast
  <2>4. Abandoned(p)' /\ Terminal(p)
    BY <1>1, <1>3, <1>11, <1>20, <2>1 DEF Abandoned, Terminal
  <2> QED
    BY <1>13, <1>15, <1>16, <1>21, <1>23, <2>2, <2>3, <2>4 DEF Step, Fits, Counts
<1>27. CASE Current(p) /\ gw = "running" /\ ~StartsChain(x) /\ ~c.timer
  <2>1. e = y /\ timers'[p] = 0
    BY <1>0, <1>4, <1>9, <1>18, <1>27
  <2>2. e.attempts = c.attempts /\ ~e.pending /\ ~e.ready /\ e.status = "crashed"
    BY <1>3, <1>4, <1>5, <1>27, <2>1
  <2>3. DevHosted /\ c.attempts >= L - 1
    BY <1>3, <1>4, <1>27 DEF GivesUp
  <2>4. Chained(p)'
    BY <1>8, <2>1 DEF Chained
  <2>5. AtLeast(p)'
    <3>1. Starts(p)' <= e.attempts + 1
      BY <1>0, <1>12, <1>18, <1>27, <2>2
    <3> QED
      BY <1>8, <1>11, <1>18, <1>27, <2>1, <2>2, <3>1 DEF AtLeast
  <2>6. Abandoned(p)' /\ Terminal(p)
    BY <1>1, <1>11, <1>27, <2>2, <2>3 DEF Abandoned, Terminal
  <2> QED
    BY <1>13, <1>15, <1>16, <1>21, <1>23, <2>4, <2>5, <2>6 DEF Step, Fits, Counts
<1> QED
  BY <1>24, <1>25, <1>26, <1>27
----------------------------------------------------------------------------
(* The next process is blank, and starts with the attempts of the last.    *)
LEMMA RespawnIs ==
  ASSUME IInv, RInv, NEW p \in Proc, Respawn(p)
  PROVE  /\ UNCHANGED <<gw, inbox, awaitExit, timers, inflight, failedBoots>>
         /\ removing[p] /\ Reaped(p) /\ Spawned(p)
         /\ next \in Proc /\ next # p /\ ~Spawned(next) /\ next' = next + 1
         /\ next \in Nat /\ state[p].idx \in Idx
         /\ children' = [children EXCEPT ![state[p].idx] = next]
         /\ children'[state[p].idx] = next
         /\ \A q \in Proc \ {p, next} : /\ state'[q] = state[q] /\ os'[q] = os[q]
                                        /\ removing'[q] = removing[q]
         /\ os'[p] = os[p] /\ ~removing'[p]
         /\ state'[p].idx = state[p].idx /\ state'[p].ready = state[p].ready
         /\ state'[p].pong = state[p].pong /\ state'[p].attempts = state[p].attempts
         /\ state'[p].status = state[p].status /\ ~state'[p].pending
         /\ os'[next] = "booting" /\ inbox[next] = <<>> /\ ~removing'[next]
         /\ awaitExit[next] = 0 /\ timers[next] = 0 /\ next \notin inflight
         /\ \E n : /\ state'[next] = NewChild(state[p].idx, n)
                   /\ gw # "stopped" => n = state[p].attempts
<1> DEFINE i  == state[p].idx
           n  == IF children[i] = NoProc THEN 0 ELSE state[children[i]].attempts
           c1 == [state[p] EXCEPT !.pending = FALSE]
           c2 == NewChild(i, n)
<1>1. /\ removing[p] /\ next \in Proc
      /\ removing' = [removing EXCEPT ![p] = FALSE]
      /\ state' = [state EXCEPT ![p] = c1, ![next] = c2]
      /\ children' = [children EXCEPT ![i] = next]
      /\ os' = [os EXCEPT ![next] = "booting"]
      /\ next' = next + 1
      /\ UNCHANGED <<gw, inbox, awaitExit, timers, inflight, failedBoots>>
  BY DEF Respawn
<1>2. /\ state \in [Proc -> ChildState] /\ state[p] \in ChildState /\ i \in Idx
      /\ os \in [Proc -> {"none", "booting", "serving", "hung", "dead", "reaped"}]
      /\ removing \in [Proc -> BOOLEAN] /\ children \in [Idx -> Proc \union {NoProc}]
      /\ awaitExit \in [Proc -> Nat] /\ timers \in [Proc -> Nat]
  BY Numbers DEF IInv, TypeOK
<1>3. /\ c1.idx = i /\ c1.ready = state[p].ready /\ c1.pong = state[p].pong
      /\ c1.attempts = state[p].attempts /\ c1.status = state[p].status /\ ~c1.pending
  BY <1>2 DEF ChildState
<1>4. Reaped(p) /\ Spawned(p) /\ ~Spawned(next)
  <2>1. Reaped(p)
    BY <1>1 DEF IInv, ChainOnlyAfterExit
  <2>2. Spawned(p)
    BY <2>1 DEF IInv, UnspawnedIsBlank, Reaped
  <2>3. ~(next < next)
    BY <1>1 DEF Proc
  <2> QED
    BY <2>1, <2>2, <2>3 DEF Spawned
<1>5. next # p
  BY <1>4
<1>6. os[next] = "none"
  BY <1>1, <1>4 DEF IInv, UnspawnedIsBlank
<1>7. /\ inbox[next] = <<>> /\ ~Known(next)
  BY <1>1, <1>6 DEF RInv, BootingIsSilent, KnownHasBooted, HasBooted
<1>8. awaitExit[next] = 0 /\ timers[next] = 0 /\ ~removing[next] /\ next \notin inflight
  <2>1. awaitExit[next] \in Nat /\ timers[next] \in Nat
    BY <1>1, <1>2
  <2>2. awaitExit[next] = 0 /\ next \notin inflight
    BY <1>7, <2>1 DEF Known
  <2>3. ~(timers[next] > 0) /\ ~removing[next]
    BY <1>1, <1>6 DEF IInv, ChainOnlyAfterExit, Reaped
  <2> QED
    BY <2>1, <2>2, <2>3
<1>9. gw # "stopped" => n = state[p].attempts
  <2>1. gw # "stopped" => children[i] = p
    BY <1>1 DEF IInv, NothingForgotten, Current
  <2> QED
    BY <2>1 DEF NoProc, Proc
<1> HIDE DEF c1, c2, n
<1>10. /\ state'[p] = c1 /\ state'[next] = c2
       /\ \A q \in Proc \ {p, next} : state'[q] = state[q]
  BY <1>1, <1>2, <1>5
<1>11. /\ \A q \in Proc \ {p, next} : os'[q] = os[q] /\ removing'[q] = removing[q]
       /\ os'[p] = os[p] /\ ~removing'[p] /\ os'[next] = "booting" /\ ~removing'[next]
       /\ children'[i] = next
  BY <1>1, <1>2, <1>5, <1>8
<1>12. \E k : state'[next] = NewChild(i, k) /\ (gw # "stopped" => k = state[p].attempts)
  BY <1>9, <1>10 DEF c2
<1> HIDE DEF i
<1>13. /\ UNCHANGED <<gw, inbox, awaitExit, timers, inflight, failedBoots>>
       /\ removing[p] /\ Reaped(p) /\ Spawned(p)
       /\ next \in Proc /\ next # p /\ ~Spawned(next) /\ next' = next + 1
       /\ next \in Nat /\ i \in Idx
       /\ children' = [children EXCEPT ![state[p].idx] = next]
  <2>1. next \in Nat
    BY <1>1 DEF Proc
  <2> QED
    BY <1>1, <1>2, <1>4, <1>5, <2>1 DEF i
<1> QED
  BY <1>3, <1>7, <1>8, <1>10, <1>11, <1>12, <1>13 DEF i

(* What an index has served it has served, and the next process serves it. *)
LEMMA RespawnServed ==
  ASSUME IInv, RInv, NEW p \in Proc, Respawn(p), NEW i \in Idx
  PROVE  HasServed(i) => HasServed(i)'
<1> SUFFICES ASSUME HasServed(i)
             PROVE  HasServed(i)'
  OBVIOUS
<1>1. PICK q \in Proc : Spawned(q) /\ state[q].idx = i /\ state[q].pong # "none"
  BY DEF HasServed
<1>2. /\ next \in Nat /\ next' = next + 1 /\ ~Spawned(next)
      /\ \A r \in Proc \ {p, next} : state'[r] = state[r]
      /\ state'[p].idx = state[p].idx /\ state'[p].pong = state[p].pong
  BY RespawnIs
<1>3. q # next /\ q \in Nat
  BY <1>1, <1>2 DEF Proc
<1>4. state'[q].idx = i /\ state'[q].pong # "none" /\ q < next'
  BY <1>1, <1>2, <1>3 DEF Spawned
<1> QED
  BY <1>4 DEF HasServed, Spawned

LEMMA RespawnOther ==
  ASSUME IInv, RInv, NEW p \in Proc, Respawn(p),
         NEW q \in Proc, Fits(q), q # p, q # next
  PROVE  Fits(q)' /\ (Active(q)' <=> Active(q)) /\ state'[q] = state[q]
<1>1. /\ UNCHANGED <<gw, inbox, awaitExit, timers, inflight, failedBoots>>
      /\ next' = next + 1 /\ next \in Nat
      /\ children' = [children EXCEPT ![state[p].idx] = next]
      /\ children'[state[p].idx] = next
      /\ state'[q] = state[q] /\ os'[q] = os[q] /\ removing'[q] = removing[q]
  BY RespawnIs
<1>2. Spawned(q)' <=> Spawned(q)
  <2>1. q \in Nat
    BY DEF Proc
  <2> QED
    BY <1>1, <2>1 DEF Spawned
<1>3. Current(q)' => Current(q)
  <2>1. CASE state[q].idx = state[p].idx
    BY <1>1, <2>1 DEF Current
  <2>2. CASE state[q].idx # state[p].idx
    <3>1. children'[state[q].idx] = children[state[q].idx]
      <4>1. children \in [Idx -> Proc \union {NoProc}] /\ state[q].idx \in Idx
        BY Numbers DEF IInv, TypeOK
      <4> QED
        BY <1>1, <2>2, <4>1
    <3> QED
      BY <1>1, <1>2, <3>1 DEF Current
  <2> QED
    BY <2>1, <2>2
<1>4. Starts(q)' = Starts(q)
  BY <1>1 DEF Starts
<1>5. HadServed(q) => HadServed(q)'
  <2>1. state[q].idx \in Idx
    BY Numbers
  <2>2. HasServed(state[q].idx) => HasServed(state[q].idx)'
    <3>1. \A i \in Idx : HasServed(i) => HasServed(i)'
      BY RespawnServed
    <3>2. HasServed(state[q].idx) =>
            \E r \in Proc : Spawned(r)' /\ state'[r].idx = state[q].idx /\ state'[r].pong # "none"
      BY <2>1, <3>1 DEF HasServed
    <3> QED
      BY <1>1, <3>2 DEF HasServed
  <2> QED
    BY <2>2 DEF HadServed
<1>6. Untouched(q)
  BY <1>1, <1>2, <1>3, <1>4, <1>5 DEF Untouched
<1>7. Fits(q)'
  BY <1>1, <1>6, UntouchedFits
<1>8. Active(q)' <=> Active(q)
  BY <1>1, <1>2 DEF Active, Live, Reaped
<1> QED
  BY <1>1, <1>7, <1>8

LEMMA RespawnReplaced ==
  ASSUME IInv, RInv, NEW p \in Proc, Fits(p), Respawn(p)
  PROVE  Fits(p)' /\ ~Active(p)'
<1>1. /\ UNCHANGED <<gw, inbox, awaitExit, timers, inflight, failedBoots>>
      /\ removing[p] /\ Reaped(p) /\ next # p
      /\ children'[state[p].idx] = next
      /\ os'[p] = os[p] /\ ~removing'[p]
      /\ state'[p].idx = state[p].idx /\ state'[p].ready = state[p].ready
      /\ state'[p].pong = state[p].pong /\ state'[p].attempts = state[p].attempts
      /\ state'[p].status = state[p].status /\ ~state'[p].pending
  BY RespawnIs
<1>2. ~Current(p)' /\ Reaped(p)' /\ ~Live(p)' /\ ~Active(p)'
  BY <1>1 DEF Current, Reaped, Active, Live
<1>3. Kept(p)' /\ Chained(p)' /\ AtMost(p)' /\ AtLeast(p)'
  BY <1>1, <1>2 DEF Fits, Counts, Kept, Chained, AtMost, AtLeast
<1>4. Abandoned(p)'
  BY <1>1, <1>2 DEF Fits, Counts, Abandoned
<1>5. Heard(p)'
  BY <1>1, <1>2 DEF Fits, Heard
<1> QED
  BY <1>2, <1>3, <1>4, <1>5 DEF Fits, Counts

LEMMA RespawnNext ==
  ASSUME IInv, RInv, NEW p \in Proc, Fits(p), Respawn(p),
         NEW m \in Proc, m = next
  PROVE  Fits(m)' /\ state'[m].idx = state[p].idx /\ ~Spawned(m)
<1> DEFINE L == BootFailureLimit
<1>1. /\ UNCHANGED <<gw, inbox, awaitExit, timers, inflight, failedBoots>>
      /\ removing[p] /\ Reaped(p) /\ Spawned(p) /\ ~Spawned(m)
      /\ state[p].idx \in Idx /\ next' = next + 1 /\ next \in Nat
      /\ os'[m] = "booting" /\ inbox[m] = <<>> /\ ~removing'[m]
      /\ awaitExit[m] = 0 /\ timers[m] = 0 /\ m \notin inflight
  BY RespawnIs
<1>2. PICK n : /\ state'[m] = NewChild(state[p].idx, n)
               /\ gw # "stopped" => n = state[p].attempts
  BY RespawnIs
<1> DEFINE e == state'[m]
<1>3. /\ e.idx = state[p].idx /\ ~e.ready /\ e.status = "starting" /\ e.pong = "none"
      /\ e.attempts = n /\ ~e.pending
  BY <1>2 DEF NewChild
<1> HIDE DEF e
<1>4. Starts(m)' = Starts(p) /\ Starts(p) \in Nat /\ state[p].attempts \in Nat
  BY <1>1, <1>3, Numbers DEF Starts, e
<1>5. ~Reaped(m)' /\ Live(m)' /\ ~Live(p)
  BY <1>1 DEF Reaped, Live, Spawned
<1>6. Heard(m)'
  <2>1. DOMAIN inbox'[m] = {}
    BY <1>1
  <2> QED
    BY <1>1, <1>3, <1>5, <2>1 DEF Heard, HasPong, e
<1>7. Chained(m)' /\ Kept(m)' /\ Abandoned(m)'
  BY <1>1, <1>3, <1>5 DEF Chained, Kept, Abandoned, e
<1>8. gw # "stopped" => Current(p) /\ n = state[p].attempts
  BY <1>1, <1>2 DEF IInv, NothingForgotten
<1>9. AtLeast(m)'
  <2>1. gw = "running" => /\ Starts(p) <= n
                          /\ DevHosted => n <= L - 1
    BY <1>1, <1>8 DEF Fits, Counts, AtLeast
  <2>2. gw = "running" => n \in Nat
    BY <1>4, <1>8
  <2> QED
    BY <1>1, <1>3, <1>4, <2>1, <2>2 DEF AtLeast, e
<1>10. AtMost(m)'
  <2>1. HadServed(p) => HadServed(m)'
    <3>1. \A i \in Idx : HasServed(i) => HasServed(i)'
      BY RespawnServed
    <3>2. HasServed(state[p].idx) =>
            \E r \in Proc : Spawned(r)' /\ state'[r].idx = state[p].idx /\ state'[r].pong # "none"
      BY <1>1, <3>1 DEF HasServed
    <3> QED
      BY <1>3, <3>2 DEF HadServed, HasServed, e
  <2>2. gw # "stopped" => n <= Starts(p) + (IF HadServed(p) THEN 1 ELSE 0)
    BY <1>4, <1>5, <1>8 DEF Fits, Counts, AtMost
  <2>3. gw # "stopped" => n \in Nat
    BY <1>4, <1>8
  <2>4. AtMost(m)' <=> (gw # "stopped" /\ Current(m)' =>
                          n + 1 <= Starts(p) + (IF HadServed(m)' THEN 1 ELSE 0) + 1)
    BY <1>1, <1>3, <1>4, <1>5 DEF AtMost, e
  <2> QED
    BY <1>4, <2>1, <2>2, <2>3, <2>4
<1> QED
  BY <1>1, <1>3, <1>6, <1>7, <1>9, <1>10 DEF Fits, Counts, e
(* What a step may do to an abandoned replica. *)
StaysTerminal(q) ==
  Current(q) /\ state[q].status = "crashed" =>
    \/ Reaped(q) /\ (MarkReady(q) \/ MarkHealthy(q))
    \/ Reaped(q) /\ removing[q] /\ Respawn(q)
    \/ /\ state'[q].status = "crashed"
       /\ children'[state[q].idx] \in {q, NoProc}

LEMMA RespawnFits ==
  ASSUME IInv, RInv, LoopInv, NEW p \in Proc, Respawn(p)
  PROVE  LoopInv' /\ \A q \in Proc : StaysTerminal(q)
<1>0. \A q \in Proc : Fits(q)
  BY DEF LoopInv
<1>1. /\ UNCHANGED <<gw, failedBoots>>
      /\ removing[p] /\ Reaped(p) /\ Spawned(p)
      /\ next \in Proc /\ next # p /\ ~Spawned(next)
      /\ children' = [children EXCEPT ![state[p].idx] = next]
      /\ state'[p].idx = state[p].idx
  BY RespawnIs
<1>2. PICK m \in Proc : m = next
  BY <1>1
<1>3. Fits(m)' /\ state'[m].idx = state[p].idx /\ ~Spawned(m)
  BY <1>0, <1>2, RespawnNext
<1>4. Fits(p)' /\ ~Active(p)'
  BY <1>0, RespawnReplaced
<1>5. ASSUME NEW q \in Proc, q # p, q # m
      PROVE  Fits(q)' /\ (Active(q)' <=> Active(q)) /\ state'[q] = state[q]
  BY <1>0, <1>2, <1>5, RespawnOther
<1>6. Active(p)
  BY <1>1 DEF Active
<1>7. \A q \in Proc : Fits(q)'
  BY <1>3, <1>4, <1>5
<1>8. Alone'
  <2> SUFFICES ASSUME NEW q \in Proc, NEW r \in Proc, Active(q)', Active(r)',
                      state'[q].idx = state'[r].idx
               PROVE  q = r
    BY DEF Alone
  <2>1. q # p /\ r # p
    BY <1>4
  <2>2. ASSUME NEW k \in Proc, Active(k), k # p, k # m
        PROVE  state'[k].idx # state[p].idx
    BY <1>5, <1>6, <2>2 DEF LoopInv, Alone
  <2>3. CASE q # m /\ r # m
    BY <1>5, <2>1, <2>3 DEF LoopInv, Alone
  <2>4. CASE q = m \/ r = m
    BY <1>3, <1>5, <2>1, <2>2, <2>4
  <2> QED
    BY <2>3, <2>4
<1>9. Few'
  <2> SUFFICES ASSUME DevHosted
               PROVE  /\ \A i \in Idx : failedBoots'[i] <= BootFailureLimit
                      /\ \A q \in Proc : Active(q)' => Starts(q)' <= BootFailureLimit - 1
    BY DEF Few
  <2>1. \A i \in Idx : failedBoots'[i] <= BootFailureLimit
    BY <1>1 DEF LoopInv, Few
  <2>2. ASSUME NEW q \in Proc, Active(q)'
        PROVE  Starts(q)' <= BootFailureLimit - 1
    <3>1. CASE q = m
      <4>1. Starts(q)' = Starts(p)
        BY <1>1, <1>3, <3>1 DEF Starts
      <4> QED
        BY <1>6, <4>1 DEF LoopInv, Few
    <3>2. CASE q # m
      <4>1. Active(q) /\ state'[q] = state[q]
        BY <1>4, <1>5, <2>2, <3>2
      <4>2. Starts(q)' = Starts(q)
        BY <1>1, <4>1 DEF Starts
      <4> QED
        BY <4>1, <4>2 DEF LoopInv, Few
    <3> QED
      BY <3>1, <3>2
  <2> QED
    BY <2>1, <2>2
<1>10. ASSUME NEW q \in Proc
       PROVE  StaysTerminal(q)
  <2> SUFFICES ASSUME Current(q), state[q].status = "crashed"
               PROVE  StaysTerminal(q)
    BY DEF StaysTerminal
  <2>1. CASE q = p
    BY <1>1, <2>1 DEF StaysTerminal
  <2>2. CASE q # p
    <3>1. gw # "stopped"
      BY <1>0 DEF Fits, Counts, Abandoned
    <3>2. Current(p) /\ Current(q)
      BY <1>1, <3>1 DEF IInv, NothingForgotten
    <3>3. state[q].idx # state[p].idx /\ q # m
      BY <1>3, <2>2, <3>2 DEF Current
    <3>4. children \in [Idx -> Proc \union {NoProc}] /\ state[q].idx \in Idx
      BY Numbers DEF IInv, TypeOK
    <3>5. children'[state[q].idx] = children[state[q].idx]
      BY <1>1, <3>3, <3>4
    <3>6. state'[q] = state[q]
      BY <1>5, <2>2, <3>3
    <3> QED
      BY <3>2, <3>5, <3>6 DEF Current, StaysTerminal
  <2> QED
    BY <2>1, <2>2
<1> QED
  BY <1>7, <1>8, <1>9, <1>10 DEF LoopInv
----------------------------------------------------------------------------
(* A step of one process keeps the count of its index for all of them.     *)
LEMMA StepKeepsLoop ==
  ASSUME IInv, LoopInv, NEW p \in Proc, Step(p)
  PROVE  LoopInv' /\ \A q \in Proc : StaysTerminal(q)
<1> DEFINE L == BootFailureLimit
           i == state[p].idx
<1>0. /\ \A q \in Proc : Fits(q)
      /\ failedBoots \in [Idx -> Nat] /\ i \in Idx /\ Starts(p) \in Nat
      /\ L \in Nat /\ L >= 2
  BY Numbers DEF IInv, TypeOK, LoopInv
<1>1. \A q \in Proc : Fits(q)'
  BY <1>0, LocalFits DEF Step
<1>2. /\ UNCHANGED <<gw, children, next>> /\ state'[p].idx = i
      /\ \A q \in Proc \ {p} : /\ state'[q] = state[q] /\ os'[q] = os[q]
                               /\ removing'[q] = removing[q]
  BY DEF Step, Local
<1>3. \A q \in Proc : q # p => (Active(q)' <=> Active(q))
  BY <1>2 DEF Active, Live, Reaped, Spawned
<1>4. \A q \in Proc : state'[q].idx = state[q].idx
  BY <1>2
<1>5. Active(p)' => Active(p) \/ (gw = "running" /\ Current(p))
  BY DEF Step, StartsKept
<1>6. ASSUME NEW q \in Proc, Active(p)', Active(q), state[q].idx = i
      PROVE  q = p
  <2>1. CASE Active(p)
    BY <1>6, <2>1 DEF LoopInv, Alone
  <2>2. CASE gw = "running" /\ Current(p)
    BY <1>6, <2>2 DEF IInv, NothingForgotten, Active, Current
  <2> QED
    BY <1>5, <1>6, <2>1, <2>2
<1>7. Alone'
  <2> SUFFICES ASSUME NEW q \in Proc, NEW r \in Proc, Active(q)', Active(r)',
                      state'[q].idx = state'[r].idx
               PROVE  q = r
    BY DEF Alone
  <2>1. CASE q # p /\ r # p
    BY <1>3, <1>4, <2>1 DEF LoopInv, Alone
  <2>2. CASE q = p /\ r # p
    BY <1>3, <1>4, <1>6, <2>2
  <2>3. CASE q # p /\ r = p
    BY <1>3, <1>4, <1>6, <2>3
  <2> QED
    BY <2>1, <2>2, <2>3
<1>8. Few'
  <2> SUFFICES ASSUME DevHosted
               PROVE  /\ \A j \in Idx : failedBoots'[j] <= L
                      /\ \A q \in Proc : Active(q)' => failedBoots'[state[q].idx] <= L - 1
    BY <1>4 DEF Few, Starts
  <2>1. /\ \A j \in Idx : failedBoots[j] <= L
        /\ \A q \in Proc : Active(q) => failedBoots[state[q].idx] <= L - 1
    BY DEF LoopInv, Few, Starts
  <2>2. CASE failedBoots' = failedBoots /\ (Active(p)' => Active(p))
    BY <1>3, <2>1, <2>2
  <2>3. CASE failedBoots' = failedBoots /\ Starts(p) <= L - 1
    BY <1>3, <2>1, <2>3 DEF Starts
  <2>4. CASE failedBoots' = [failedBoots EXCEPT ![i] = 0] /\ (Active(p)' => Active(p))
    <3>1. \A j \in Idx : failedBoots'[j] = 0 \/ failedBoots'[j] = failedBoots[j]
      BY <1>0, <2>4
    <3>2. \A q \in Proc : state[q].idx \in Idx
      BY Numbers
    <3>3. \A q \in Proc : Active(q)' => Active(q)
      BY <1>3, <2>4
    <3> QED
      BY <1>0, <2>1, <3>1, <3>2, <3>3
  <2>5. CASE failedBoots' = [failedBoots EXCEPT ![i] = Starts(p) + 1] /\ Active(p) /\ ~Active(p)'
    <3>1. \A j \in Idx : failedBoots'[j] = IF j = i THEN Starts(p) + 1 ELSE failedBoots[j]
      BY <1>0, <2>5
    <3>2. Starts(p) <= L - 1
      BY <2>1, <2>5 DEF Starts
    <3>3. \A j \in Idx : failedBoots'[j] <= L
      BY <1>0, <2>1, <3>1, <3>2
    <3>4. ASSUME NEW q \in Proc, Active(q)'
          PROVE  failedBoots'[state[q].idx] <= L - 1
      <4>1. q # p /\ Active(q)
        BY <1>3, <2>5, <3>4
      <4>2. state[q].idx # i /\ state[q].idx \in Idx
        BY <2>5, <4>1, Numbers DEF LoopInv, Alone
      <4> QED
        BY <2>1, <3>1, <4>1, <4>2
    <3> QED
      BY <3>3, <3>4
  <2> QED
    BY <2>2, <2>3, <2>4, <2>5 DEF Step, StartsKept
<1>9. ASSUME NEW q \in Proc
      PROVE  StaysTerminal(q)
  BY <1>2 DEF StaysTerminal, Step, Terminal, Current
<1> QED
  BY <1>1, <1>7, <1>8, <1>9 DEF LoopInv

(* Steps of no process: a request is routed, stop() goes on. *)
Bystander(q) ==
  /\ state'[q].idx = state[q].idx /\ state'[q].ready = state[q].ready
  /\ state'[q].status = state[q].status /\ state'[q].pong = state[q].pong
  /\ state'[q].attempts = state[q].attempts /\ state'[q].pending = state[q].pending
  /\ gw' = "running" => state'[q].timer = state[q].timer
  /\ timers'[q] \in Nat /\ timers'[q] <= timers[q]
  /\ inbox'[q] = inbox[q] /\ awaitExit'[q] = awaitExit[q] /\ removing'[q] = removing[q]
  /\ os'[q] = os[q] \/ (os[q] \notin {"none", "reaped"} /\ os'[q] = "dead")
  /\ q \in inflight' => state[q].pong # "none"

LEMMA BystanderFits ==
  ASSUME IInv, LoopInv, \A q \in Proc : Bystander(q),
         UNCHANGED <<next, failedBoots>>,
         gw' = "running" => gw = "running", gw' # "stopped" => gw # "stopped",
         \/ children' = children /\ (gw' = "stopped" => gw = "stopped")
         \/ children' = [i \in Idx |-> NoProc]
  PROVE  LoopInv' /\ \A q \in Proc : StaysTerminal(q)
<1>1. ASSUME NEW q \in Proc
      PROVE  /\ Current(q)' => Current(q) /\ (gw' = "stopped" => gw = "stopped")
             /\ Live(q)' <=> Live(q)
             /\ Reaped(q)' <=> Reaped(q)
             /\ Active(q)' <=> Active(q)
             /\ Starts(q)' = Starts(q)
             /\ HadServed(q) => HadServed(q)'
  <2>1. state[q].idx \in Idx /\ q # NoProc
    BY Numbers DEF Proc, NoProc
  <2>2. Current(q)' => Current(q) /\ (gw' = "stopped" => gw = "stopped")
    BY <2>1 DEF Current, Spawned, Bystander
  <2>3. (Reaped(q)' <=> Reaped(q)) /\ Starts(q)' = Starts(q)
    BY DEF Bystander, Reaped, Starts
  <2>4. HadServed(q) => HadServed(q)'
    <3>1. \A r \in Proc : state'[r].idx = state[r].idx
                          /\ (state'[r].pong = "none" => state[r].pong = "none")
      BY DEF Bystander
    <3> QED
      BY <3>1, LocalServed
  <2> QED
    BY <2>2, <2>3, <2>4 DEF Bystander, Live, Spawned, Active
<1>2. ASSUME NEW q \in Proc
      PROVE  Fits(q)'
  <2>0. Fits(q) /\ Bystander(q) /\ timers[q] \in Nat /\ awaitExit[q] \in Nat
    BY Numbers DEF LoopInv
  <2>1. Heard(q)'
    BY <1>1, <2>0 DEF Bystander, Fits, Heard, Reaped, FirstIsReady, HasPong
  <2>2. timers'[q] > 0 => timers[q] > 0
    BY <2>0 DEF Bystander
  <2>3. Kept(q)'
    BY <1>1, <2>0 DEF Bystander, Fits, Counts, Kept
  <2>4. Chained(q)'
    <3>1. Reaped(q)' => awaitExit'[q] = 0
      BY <1>1, <2>0 DEF Bystander, Fits, Counts, Chained
    <3>2. ASSUME gw' = "running", Current(q)'
          PROVE  /\ awaitExit'[q] <= 1 /\ timers'[q] <= 1
                 /\ timers'[q] > 0 => state'[q].timer
                 /\ awaitExit'[q] > 0 => state'[q].pending
                 /\ timers'[q] > 0 \/ removing'[q] => state'[q].pending \/ NoReady(inbox'[q])
                 /\ timers'[q] > 0 /\ removing'[q] => NoReady(inbox'[q])
      <4>1. gw = "running" /\ Current(q)
        BY <1>1, <3>2
      <4>2. /\ awaitExit[q] <= 1 /\ timers[q] <= 1
            /\ timers[q] > 0 => state[q].timer
            /\ awaitExit[q] > 0 => state[q].pending
            /\ timers[q] > 0 \/ removing[q] => state[q].pending \/ NoReady(inbox[q])
            /\ timers[q] > 0 /\ removing[q] => NoReady(inbox[q])
        BY <2>0, <4>1 DEF Fits, Counts, Chained
      <4>3. timers'[q] <= 1
        BY <2>0, <4>2 DEF Bystander
      <4> QED
        BY <2>0, <2>2, <3>2, <4>2, <4>3 DEF Bystander
    <3> QED
      BY <3>1, <3>2 DEF Chained, NoReady
  <2>5. AtMost(q)'
    <3> SUFFICES ASSUME gw' # "stopped", Current(q)'
                 PROVE  AtMost(q)'
      BY DEF AtMost
    <3>1. /\ AtMost(q) /\ gw # "stopped" /\ Current(q) /\ Starts(q) \in Nat
          /\ state[q].attempts \in Nat
      BY <1>1, <2>0, Numbers DEF Fits, Counts
    <3> QED
      BY <1>1, <2>0, <3>1 DEF Bystander, AtMost
  <2>6. AtLeast(q)'
    <3> SUFFICES ASSUME gw' = "running", Current(q)'
                 PROVE  AtLeast(q)'
      BY DEF AtLeast
    <3> QED
      BY <1>1, <2>0, <2>2 DEF Bystander, Fits, Counts, AtLeast
  <2>7. Abandoned(q)'
    BY <1>1, <2>0 DEF Bystander, Fits, Counts, Abandoned
  <2> QED
    BY <2>1, <2>3, <2>4, <2>5, <2>6, <2>7 DEF Fits, Counts
<1>3. Alone'
  BY <1>1 DEF LoopInv, Alone, Bystander
<1>4. Few'
  BY <1>1 DEF LoopInv, Few
<1>5. ASSUME NEW q \in Proc
      PROVE  StaysTerminal(q)
  <2>1. state[q].idx \in Idx
    BY Numbers
  <2> QED
    BY <2>1 DEF StaysTerminal, Bystander, Current
<1> QED
  BY <1>2, <1>3, <1>4, <1>5 DEF LoopInv
LEMMA GlobalFits ==
  ASSUME IInv, CacheCoherent, LoopInv,
         ProxyRequest \/ StopBegin \/ StopKills \/ StopDone \/ UNCHANGED vars
  PROVE  LoopInv' /\ \A q \in Proc : StaysTerminal(q)
<1>0. /\ state \in [Proc -> ChildState] /\ timers \in [Proc -> Nat]
      /\ os \in [Proc -> {"none", "booting", "serving", "hung", "dead", "reaped"}]
      /\ \A q \in Proc : state[q] \in ChildState /\ timers[q] \in Nat
  BY DEF IInv, TypeOK
<1>1. /\ UNCHANGED <<inbox, awaitExit, removing, next, failedBoots>>
      /\ gw' = "running" => gw = "running"
      /\ gw' # "stopped" => gw # "stopped"
      /\ \/ children' = children /\ (gw' = "stopped" => gw = "stopped")
         \/ children' = [i \in Idx |-> NoProc]
  BY DEF ProxyRequest, StopBegin, StopKills, StopDone, vars, chains
<1>2. ASSUME NEW q \in Proc
      PROVE  /\ state'[q].idx = state[q].idx /\ state'[q].ready = state[q].ready
             /\ state'[q].status = state[q].status /\ state'[q].pong = state[q].pong
             /\ state'[q].attempts = state[q].attempts
             /\ state'[q].pending = state[q].pending
             /\ gw' = "running" => state'[q].timer = state[q].timer
  <2>1. CASE StopBegin
    <3>1. ASSUME NEW c \in ChildState, NEW b
          PROVE  LET d == [c EXCEPT !.timer = b]
                 IN  /\ d.idx = c.idx /\ d.ready = c.ready /\ d.status = c.status
                     /\ d.pong = c.pong /\ d.attempts = c.attempts
                     /\ d.pending = c.pending
      BY DEF ChildState
    <3>2. state'[q] = [state[q] EXCEPT !.timer = @ /\ q \notin Armed]
      BY <2>1 DEF StopBegin
    <3>3. gw' # "running"
      BY <2>1 DEF StopBegin
    <3> QED
      BY <1>0, <3>1, <3>2, <3>3
  <2>2. CASE state' = state
    BY <2>2
  <2> QED
    BY <2>1, <2>2 DEF ProxyRequest, StopKills, StopDone, vars
<1>3. ASSUME NEW q \in Proc
      PROVE  timers'[q] \in Nat /\ timers'[q] <= timers[q]
  <2>1. CASE StopBegin
    <3>1. timers'[q] = IF q \in Armed THEN timers[q] - 1 ELSE timers[q]
      BY <2>1 DEF StopBegin
    <3>2. q \in Armed => timers[q] > 0
      BY DEF Armed, IInv, ArmedHasTimer
    <3> QED
      BY <1>0, <3>1, <3>2
  <2>2. CASE timers' = timers
    BY <1>0, <2>2
  <2> QED
    BY <2>1, <2>2 DEF ProxyRequest, StopKills, StopDone, vars, chains
<1>4. ASSUME NEW q \in Proc
      PROVE  os'[q] = os[q] \/ (os[q] \notin {"none", "reaped"} /\ os'[q] = "dead")
  <2>1. CASE StopKills
    <3>1. os'[q] = IF Current(q) /\ ~Reaped(q) /\ KilledBySigkill(q) THEN "dead" ELSE os[q]
      BY <2>1 DEF StopKills
    <3>2. Current(q) => os[q] # "none"
      BY DEF Current, IInv, UnspawnedIsBlank
    <3> QED
      BY <3>1, <3>2 DEF Reaped
  <2>2. CASE os' = os
    BY <2>2
  <2> QED
    BY <2>1, <2>2 DEF ProxyRequest, StopBegin, StopDone, vars
<1>5. ASSUME NEW q \in Proc, q \in inflight'
      PROVE  state[q].pong # "none"
  <2>1. q \in inflight \/ state[q].ready
    <3>1. CASE ProxyRequest
      <4>1. inflight' \subseteq inflight \union Candidates
        BY <3>1 DEF ProxyRequest
      <4>2. \A r \in Candidates : state[r].ready
        BY <3>1 DEF ProxyRequest, Candidates, CacheCoherent, Routable
      <4> QED
        BY <1>5, <4>1, <4>2
    <3>2. CASE inflight' = inflight
      BY <1>5, <3>2
    <3> QED
      BY <3>1, <3>2 DEF StopBegin, StopKills, StopDone, vars
  <2> QED
    BY <2>1 DEF LoopInv, Fits, Heard
<1>6. \A q \in Proc : Bystander(q)
  BY <1>1, <1>2, <1>3, <1>4, <1>5 DEF Bystander
<1> QED
  BY <1>1, <1>6, BystanderFits

LEMMA NextKeepsLoop ==
  ASSUME IInv, CacheCoherent, RInv, LoopInv, [Next]_vars
  PROVE  LoopInv' /\ \A q \in Proc : StaysTerminal(q)
<1>1. ASSUME NEW p \in Proc, ChildStep(p)
      PROVE  LoopInv' /\ \A q \in Proc : StaysTerminal(q)
  BY <1>1, ChildStepFits, StepKeepsLoop DEF LoopInv
<1>2. ASSUME NEW p \in Proc, GatewayStep(p)
      PROVE  LoopInv' /\ \A q \in Proc : StaysTerminal(q)
  <2>0. Fits(p)
    BY DEF LoopInv
  <2>1. CASE Respawn(p)
    BY <2>1, RespawnFits
  <2>2. CASE DropStaleMessage(p) \/ MarkReady(p) \/ MarkHealthy(p) \/ ChildError(p)
    <3>1. Step(p)
      BY <2>0, <2>2, DropStaleFits, MarkReadyFits, MarkHealthyFits, ChildErrorFits
    <3> QED
      BY <3>1, StepKeepsLoop
  <2>3. CASE ExitUnattended(p) \/ ExitRestarts(p) \/ RespawnFails(p)
    <3>1. Step(p)
      BY <2>0, <2>3, ExitUnattendedFits, ExitRestartsFits, RespawnFailsFits
    <3> QED
      BY <3>1, StepKeepsLoop
  <2>4. CASE GraceTimeout(p) \/ TimerFires(p) \/ PongAges(p) \/ ProxyAnswered(p)
    <3>1. Step(p)
      BY <2>0, <2>4, QuietStepFits, TimerFiresFits
    <3> QED
      BY <3>1, StepKeepsLoop
  <2>5. CASE HealthTimeout(p) \/ HealthSendFailed(p) \/ UpstreamOpenFailed(p)
    <3>1. Step(p)
      BY <2>0, <2>5, CheckHealthFits, UpstreamOpenFailedFits
    <3> QED
      BY <3>1, StepKeepsLoop
  <2> QED
    BY <1>2, <2>1, <2>2, <2>3, <2>4, <2>5 DEF GatewayStep
<1> QED
  BY <1>1, <1>2, GlobalFits DEF Next

LEMMA InitLoop == ASSUME Init PROVE LoopInv
<1>0. BootFailureLimit \in Nat /\ BootFailureLimit >= 2 /\ Replicas \in Nat
  BY ConstantsAssumption DEF ConstantsAssumption
<1>1. ASSUME NEW p \in Proc
      PROVE  /\ ~state[p].ready /\ state[p].status = "starting" /\ state[p].pong = "none"
             /\ state[p].attempts = 0 /\ ~state[p].pending
             /\ state[p].idx \in Idx /\ Starts(p) = 0
             /\ os[p] \in {"none", "booting"} /\ inbox[p] = <<>> /\ DOMAIN inbox[p] = {}
             /\ awaitExit[p] = 0 /\ timers[p] = 0 /\ ~removing[p] /\ p \notin inflight
  <2>1. (IF p <= Replicas THEN p - 1 ELSE 0) \in Idx
    BY ConstantsAssumption DEF ConstantsAssumption, Idx, Proc
  <2>2. state[p] = NewChild(IF p <= Replicas THEN p - 1 ELSE 0, 0)
    BY DEF Init
  <2>3. state[p].idx \in Idx
    BY <2>1, <2>2 DEF NewChild
  <2>4. Starts(p) = 0
    BY <2>3 DEF Init, Starts
  <2> QED
    BY <2>2, <2>3, <2>4 DEF Init, NewChild
<1>2. ASSUME NEW p \in Proc
      PROVE  Fits(p)
  <2>1. ~Reaped(p)
    BY <1>1 DEF Reaped
  <2>2. Heard(p)
    BY <1>1, <2>1 DEF Heard, HasPong
  <2>3. Kept(p) /\ Chained(p) /\ Abandoned(p)
    BY <1>1, <2>1 DEF Kept, Chained, Abandoned
  <2>4. AtLeast(p)
    BY <1>0, <1>1 DEF AtLeast
  <2>5. AtMost(p)
    <3>1. ASSUME Current(p)
          PROVE  Live(p) /\ state[p].pong = "none"
      BY <1>1, <2>1, <3>1 DEF Current, Live
    <3> QED
      BY <1>1, <3>1 DEF AtMost
  <2> QED
    BY <2>2, <2>3, <2>4, <2>5 DEF Fits, Counts
<1>3. Alone
  <2>1. ASSUME NEW p \in Proc, Active(p)
        PROVE  p \in Nat /\ state[p].idx = p - 1
    <3>1. p < Replicas + 1 /\ p \in Nat
      BY <1>1, <2>1 DEF Active, Live, Spawned, Init, Proc
    <3>2. p <= Replicas
      BY <1>0, <3>1
    <3> QED
      BY <3>1, <3>2 DEF Init, NewChild
  <2> QED
    BY <2>1 DEF Alone
<1>4. Few
  <2>1. \A i \in Idx : failedBoots[i] = 0
    BY DEF Init
  <2> QED
    BY <1>0, <1>1, <2>1 DEF Few
<1> QED
  BY <1>2, <1>3, <1>4 DEF LoopInv

(* The attempts of every ChildState and the chains under way agree with    *)
(* the failed starts of its index, whatever is read after an exit event.   *)
THEOREM LoopInvariant == Spec => []LoopInv
<1>1. Init => LoopInv
  BY InitLoop
<1>2. IInv /\ CacheCoherent /\ RInv /\ LoopInv /\ [Next]_vars => LoopInv'
  BY NextKeepsLoop
<1> QED
  BY <1>1, <1>2, SupervisorInvariant, CacheCorrect, MessagesInOrder, PTL DEF Spec

(* A crash loop ends by abandoning the replica, after no more than         *)
(* #devMaxChildBootFailures failed starts, and nothing else ends so: the   *)
(* starts of the index that failed in a row and the end of a child that    *)
(* served make up the limit.                                               *)
THEOREM AbandonedCorrect == Spec => []AbandonedForALoop
<1>1. IInv /\ LoopInv => AbandonedForALoop
  BY LoopSuffices
<1> QED
  BY <1>1, LoopInvariant, SupervisorInvariant, PTL

(* An abandoned replica is revived by a message that is read after the     *)
(* exit event of its process, and by nothing else.                         *)
THEOREM RevivedCorrect == Spec => RevivedOnlyLate
<1>1. IInv /\ CacheCoherent /\ RInv /\ LoopInv /\ [Next]_vars =>
        \A q \in Proc : StaysTerminal(q)
  BY NextKeepsLoop
<1>2. (\A q \in Proc : StaysTerminal(q)) =>
        [\A p \in Proc : Current(p) /\ state[p].status = "crashed" =>
           \/ Reaped(p) /\ (MarkReady(p) \/ MarkHealthy(p))
           \/ Reaped(p) /\ removing[p] /\ Respawn(p)
           \/ /\ state'[p].status = "crashed"
              /\ children'[state[p].idx] \in {p, NoProc}]_vars
  BY DEF StaysTerminal
<1> QED
  BY <1>1, <1>2, LoopInvariant, SupervisorInvariant, CacheCorrect, MessagesInOrder, PTL
     DEF Spec, RevivedOnlyLate

----------------------------------------------------------------------------
(* A child process.                                                        *)

(* The parent is listened to from the moment the server runs, and the      *)
(* signals after that.                                                     *)
BootOrder ==
  /\ ipc => status # "initializing"
  /\ managed => ipc

(* A request that is heard has reached the process, and the first that     *)
(* starts a stop leaves the exit code that the stop is to end with.        *)
RequestsHeard ==
  /\ heard <= requests
  /\ status = "stopping" => code \in {"0", "1"}

(* A process that has heard no request to stop does not stop.              *)
Unasked ==
  heard = 0 =>
    /\ status \in {"initializing", "running"}
    /\ code = "none"
    /\ ~watchdog
    /\ exit \in {"no", "1"}
    /\ ~crashed

(* Stages end only in a stop, and no job outlives the queue's.             *)
QueueClosed ==
  /\ stage > 0 => status \in {"stopping", "stopped"}
  /\ stage >= QueueStage => ~job

(* A stop that was asked for by an exception only will exit with a failure. *)
CrashCode == crashed /\ heard = 1 => code # "0"

LifeInv ==
  /\ LifeTypeOK
  /\ BootOrder
  /\ RequestsHeard
  /\ Unasked
  /\ QueueClosed
  /\ CrashCode
  /\ SuccessIsComplete
  /\ CrashIsReported

----------------------------------------------------------------------------
LEMMA LifeInitInv ==
  ASSUME LifeInit
  PROVE  LifeInv
<1> USE LifecycleAssumption DEF LifecycleAssumption, LifeInit
<1>1. LifeTypeOK
  <2>1. 0 \in 0 .. Stages /\ 0 \in 0 .. MaxRequests /\ 0 \in 0 .. MaxJobs
    OBVIOUS
  <2> QED  BY <2>1 DEF LifeTypeOK
<1>2. BootOrder /\ RequestsHeard /\ Unasked /\ CrashCode
  BY DEF BootOrder, RequestsHeard, Unasked, CrashCode
<1>3. QueueClosed /\ SuccessIsComplete /\ CrashIsReported
  BY DEF QueueClosed, SuccessIsComplete, CrashIsReported
<1> QED  BY <1>1, <1>2, <1>3, Zenon DEF LifeInv

LEMMA LifeNextInv ==
  ASSUME LifeInv, [LifeNext]_lifeVars
  PROVE  LifeInv'
<1> USE LifecycleAssumption DEF LifecycleAssumption, LifeInv, LifeTypeOK, BootOrder, RequestsHeard,
        Unasked, QueueClosed, CrashCode, SuccessIsComplete, CrashIsReported, Alive, history
<1>1. CASE Listen
  BY <1>1 DEF Listen
<1>2. CASE SchedulerReady
  BY <1>2 DEF SchedulerReady
<1>3. CASE BootFails
  BY <1>3 DEF BootFails
<1>4. CASE ShutdownMessage
  <2>1. CASE ipc
    BY <1>4, <2>1 DEF ShutdownMessage, Request, Stop
  <2>2. CASE ~ipc
    BY <1>4, <2>2 DEF ShutdownMessage, Request
  <2> QED  BY <2>1, <2>2
<1>5. CASE ParentDisconnects
  <2> USE <1>5 DEF ParentDisconnects
  <2>1. watchdog' \in BOOLEAN /\ connected' \in BOOLEAN
    OBVIOUS
  <2>2. /\ Request
        /\ UNCHANGED <<ipc, managed, job, crashed, jobs>>
    OBVIOUS
  <2>3. CASE ipc
    <3>1. heard' = heard + 1 /\ Stop("0")
      BY <2>3
    <3> HIDE <1>5 DEF ParentDisconnects
    <3> QED  BY <2>1, <2>2, <2>3, <3>1 DEF Request, Stop
  <2>4. CASE ~ipc
    <3>1. ~watchdog' /\ heard' = heard /\ UNCHANGED <<status, code, stage, exit>>
      BY <2>4
    <3> HIDE <1>5 DEF ParentDisconnects
    <3> QED  BY <2>1, <2>2, <2>4, <3>1 DEF Request
  <2> QED  BY <2>3, <2>4
<1>6. CASE Signal
  <2>1. CASE managed
    BY <1>6, <2>1 DEF Signal, Request, Stop
  <2>2. CASE ~managed
    BY <1>6, <2>2 DEF Signal, Request, Ends
  <2> QED  BY <2>1, <2>2
<1>7. CASE Exception
  BY <1>7 DEF Exception, Request, Stop, Ends
<1>8. CASE ClaimsJob
  BY <1>8 DEF ClaimsJob
<1>9. CASE JobEnds
  BY <1>9 DEF JobEnds
<1>10. CASE DestroyStage
  BY <1>10 DEF DestroyStage, StageOver
<1>11. CASE Destroyed
  BY <1>11 DEF Destroyed
<1>12. CASE ShutdownTimeout
  BY <1>12 DEF ShutdownTimeout
<1>13. CASE Watchdog
  BY <1>13 DEF Watchdog
<1>14. CASE UNCHANGED lifeVars
  BY <1>14 DEF lifeVars
<1> QED
  BY <1>1, <1>2, <1>3, <1>4, <1>5, <1>6, <1>7, <1>8, <1>9, <1>10, <1>11,
     <1>12, <1>13, <1>14 DEF LifeNext

----------------------------------------------------------------------------
(* The inductive invariant: the types, the order of the boot, what a       *)
(* process that nobody asked to stop does not do, the queue that is closed *)
(* behind its stage, and the two invariants about the exit code.           *)
THEOREM LifecycleInvariant == LifeSpec => []LifeInv
<1>1. LifeInv /\ [LifeNext]_lifeVars => LifeInv'
  BY LifeNextInv
<1>2. LifeInit => LifeInv
  BY LifeInitInv
<1> QED  BY <1>1, <1>2, PTL DEF LifeSpec

(* The variables of a child process keep their types. *)
THEOREM LifeTypeCorrect == LifeSpec => []LifeTypeOK
<1>1. LifeInv => LifeTypeOK
  BY DEF LifeInv
<1> QED  BY <1>1, LifecycleInvariant, PTL

(* A process that was asked to stop once and exits with 0 has destroyed    *)
(* its whole container and cut no job short.                               *)
THEOREM SuccessCorrect == LifeSpec => []SuccessIsComplete
<1>1. LifeInv => SuccessIsComplete
  BY DEF LifeInv
<1> QED  BY <1>1, LifecycleInvariant, PTL

(* An uncaught exception that nothing else accompanies ends in a failure   *)
(* code.                                                                   *)
THEOREM CrashCorrect == LifeSpec => []CrashIsReported
<1>1. LifeInv => CrashIsReported
  BY DEF LifeInv
<1> QED  BY <1>1, LifecycleInvariant, PTL

(* When one request alone was heard, the exit code tells what became of it. *)
THEOREM ExitCodeCorrect == LifeSpec => []ExitCodeIsTrue
<1>1. SuccessIsComplete /\ CrashIsReported => ExitCodeIsTrue
  BY DEF ExitCodeIsTrue
<1> QED  BY <1>1, SuccessCorrect, CrashCorrect, PTL
=============================================================================
