-------------------------- MODULE ChildSupervisor --------------------------
(***************************************************************************)
(* How the gateway (class AkanApp) keeps its replicas alive: it spawns one *)
(* child process per replica index, learns over IPC that a child is ready  *)
(* or has failed, pings it, and replaces a failed child through a restart  *)
(* chain of asynchronous steps: wait for the process to exit, wait for the *)
(* backoff timer, remove the stale unix socket, spawn.  Every step of a    *)
(* chain runs on its own turn of the event loop, so messages, exits, other *)
(* chains and stop() interleave with it.                                   *)
(*                                                                         *)
(* A process is an element of Proc and is used for one incarnation only;   *)
(* state[p] is the ChildState object created for it, which closures keep   *)
(* mutating after the children map has moved on.                           *)
(***************************************************************************)
EXTENDS Integers, Sequences, FiniteSets

CONSTANTS
  Replicas,         \* number of replica indexes
  Batch,            \* the indexes whose role is "batch": they take no traffic
  MaxProc,          \* bound: processes spawned in a behaviour
  MaxFaults,        \* bound: crashes, failed boots and stalls in a behaviour
  MaxInflight,      \* bound: proxied requests open at once
  DevHosted,        \* hosted by `akan start`: crash loops are abandoned
  BootFailureLimit, \* #devMaxChildBootFailures
  LateIpc           \* IPC queued by a process may be read after its exit event

Idx    == 0 .. Replicas - 1
Proc   == 1 .. MaxProc
NoProc == 0

ASSUME ConstantsAssumption ==
  /\ Replicas \in Nat \ {0}
  /\ MaxProc \in Nat /\ MaxProc >= Replicas
  /\ MaxFaults \in Nat /\ MaxInflight \in Nat
  /\ BootFailureLimit \in Nat /\ BootFailureLimit >= 2
  /\ Batch \subseteq Idx
  /\ DevHosted \in BOOLEAN
  /\ LateIpc \in BOOLEAN

VARIABLES
  gw,         \* progress of the gateway: start() ... stop()
  children,   \* the children map: the current process of each index
  state,      \* ChildState of every process ever spawned
  os,         \* what the process really is; "reaped" once its exit event ran
  asked,      \* strongest request to exit that has reached the process
  inbox,      \* IPC from the process to the gateway, in order
  awaitExit,  \* restart chains of the process waiting for it to exit
  timers,     \* restart chains of the process waiting for the backoff timer
  removing,   \* a restart chain of the process is removing the unix socket
  cache,      \* #federationChildCache, and whether it is non-null
  cached,
  inflight,   \* children picked for a proxied request that is still open
  waitFor,    \* the processes whose exit stop() is waiting for
  next,       \* the next unused process
  faults,     \* failures so far
  failedBoots \* history: consecutive starts that ended before "ready" was heard

chains == <<awaitExit, timers, removing>>
vars == <<gw, children, state, os, asked, inbox, awaitExit, timers, removing,
          cache, cached, inflight, waitFor, next, faults, failedBoots>>

Status == {"starting", "ready", "healthy", "unhealthy", "exited", "crashed"}

ChildState ==
  [idx : Idx, ready : BOOLEAN, status : Status,
   pong : {"none", "fresh", "stale"}, attempts : Nat,
   timer : BOOLEAN, pending : BOOLEAN]

NewChild(i, attempts) ==
  [idx |-> i, ready |-> FALSE, status |-> "starting",
   pong |-> "none", attempts |-> attempts, timer |-> FALSE, pending |-> FALSE]

Spawned(p) == p < next
Reaped(p)  == os[p] = "reaped"        \* proc.killed: Bun has seen the exit
Live(p)    == Spawned(p) /\ ~Reaped(p)
Current(p) == Spawned(p) /\ children[state[p].idx] = p

(* #isChildUnavailable *)
Unavailable(p) == Reaped(p) \/ state[p].status \in {"exited", "crashed"}

(* The filter of #pickFederationChild. *)
Routable(p) ==
  /\ Current(p)
  /\ state[p].idx \notin Batch
  /\ state[p].ready
  /\ state[p].status # "unhealthy"
  /\ ~Unavailable(p)

Candidates == IF cached THEN cache ELSE {p \in Proc : Routable(p)}

InvalidateCache == cached' = FALSE /\ cache' = {}

----------------------------------------------------------------------------
(* start(): one #spawn per index. *)
Init ==
  /\ gw = "running"
  /\ children = [i \in Idx |-> i + 1]
  /\ state = [p \in Proc |-> NewChild(IF p <= Replicas THEN p - 1 ELSE 0, 0)]
  /\ os = [p \in Proc |-> IF p <= Replicas THEN "booting" ELSE "none"]
  /\ asked = [p \in Proc |-> "no"]
  /\ inbox = [p \in Proc |-> <<>>]
  /\ awaitExit = [p \in Proc |-> 0]
  /\ timers = [p \in Proc |-> 0]
  /\ removing = [p \in Proc |-> FALSE]
  /\ cache = {} /\ cached = FALSE
  /\ inflight = {}
  /\ waitFor = {}
  /\ next = Replicas + 1
  /\ faults = 0
  /\ failedBoots = [i \in Idx |-> 0]

----------------------------------------------------------------------------
(* #scheduleChildRestart, applied to the ChildState c. *)

Scheduled(c) == c.pending \/ c.timer

(* A dev-hosted child that is not ready has used up its boots. *)
GivesUp(c) == DevHosted /\ c.attempts >= BootFailureLimit - 1 /\ ~c.ready

(* #markChildCrashed *)
Crashed(c) ==
  [c EXCEPT !.ready = FALSE, !.status = "crashed", !.pending = FALSE]

\* A mistake to detect: readiness survives until the replacement is spawned.
RestartPendingStillReady(c, reason) ==
  [c EXCEPT !.pending = TRUE, !.attempts = @ + 1,
            !.status = IF reason \in {"health-timeout", "upstream-open-failed"}
                       THEN "unhealthy" ELSE "exited"]

RestartPending(c, reason) ==
  [c EXCEPT !.pending = TRUE, !.ready = FALSE,
            !.status = IF reason \in {"health-timeout", "upstream-open-failed"}
                       THEN "unhealthy" ELSE "exited",
            !.attempts = @ + 1]

AfterSchedule(c, reason) ==
  IF Scheduled(c) THEN c
  ELSE IF GivesUp(c) THEN Crashed(c)
  ELSE RestartPending(c, reason)

StartsChain(c) == ~Scheduled(c) /\ ~GivesUp(c)

(* Schedule a restart of p while its process has not been seen to exit:    *)
(* #restartChildAfterDelay returns unless p is current, and otherwise      *)
(* #stopChildForRestart asks it to shut down and waits.  A child whose     *)
(* status was set to "exited" is unavailable, so nothing is sent to it.    *)
ScheduleLive(p, c, reason) ==
  LET c1 == AfterSchedule(c, reason)
      starts == StartsChain(c) /\ Current(p) IN
  /\ state' = [state EXCEPT ![p] = c1]
  /\ awaitExit' = IF starts THEN [awaitExit EXCEPT ![p] = @ + 1] ELSE awaitExit
  /\ asked' = IF starts /\ c1.status = "unhealthy" /\ asked[p] = "no"
              THEN [asked EXCEPT ![p] = "shutdown"] ELSE asked
  /\ UNCHANGED <<timers, removing>>

(* The same once proc.killed holds: the chain goes straight to the timer.  *)
ScheduleReaped(p, c, reason) ==
  LET c1 == AfterSchedule(c, reason)
      starts == StartsChain(c) /\ Current(p) IN
  /\ state' = [state EXCEPT ![p] = IF starts THEN [c1 EXCEPT !.timer = TRUE] ELSE c1]
  /\ timers' = IF starts THEN [timers EXCEPT ![p] = @ + 1] ELSE timers
  /\ UNCHANGED <<awaitExit, asked, removing>>

Schedule(p, c, reason) ==
  \/ /\ gw # "running"
     /\ state' = [state EXCEPT ![p] = c]
     /\ UNCHANGED <<chains, asked>>
  \/ gw = "running" /\ ~Reaped(p) /\ ScheduleLive(p, c, reason)
  \/ gw = "running" /\ Reaped(p) /\ ScheduleReaped(p, c, reason)

(* The branches of #scheduleChildRestart that reset the cache. *)
ScheduleInvalidates(c) ==
  /\ gw = "running"
  /\ ~Scheduled(c)
  /\ ~(GivesUp(c) /\ c.status = "crashed")

----------------------------------------------------------------------------
(* What a child process does (AkanServer as the gateway sees it).  It      *)
(* handles IPC only once it is up, and while its event loop is blocked     *)
(* ("hung") it handles nothing, its own SIGTERM handler included.          *)

Send(p, m) == inbox' = [inbox EXCEPT ![p] = Append(@, m)]

Fault == faults < MaxFaults /\ faults' = faults + 1

ChildReady(p) ==
  /\ os[p] = "booting"
  /\ os' = [os EXCEPT ![p] = "serving"]
  /\ Send(p, "ready")
  /\ UNCHANGED <<gw, children, state, asked, chains, cache, cached, inflight,
                 waitFor, next, faults, failedBoots>>

(* start() rejects, before or after "ready" was sent: report and exit(1). *)
ChildStartFails(p) ==
  /\ os[p] \in {"booting", "serving"}
  /\ Fault
  /\ os' = [os EXCEPT ![p] = "dead"]
  /\ Send(p, "error")
  /\ UNCHANGED <<gw, children, state, asked, chains, cache, cached, inflight,
                 waitFor, next, failedBoots>>

ChildDies(p) ==
  /\ os[p] \in {"booting", "serving", "hung"}
  /\ Fault
  /\ os' = [os EXCEPT ![p] = "dead"]
  /\ UNCHANGED <<gw, children, state, asked, inbox, chains, cache, cached,
                 inflight, waitFor, next, failedBoots>>

ChildHangs(p) ==
  /\ os[p] = "serving"
  /\ Fault
  /\ os' = [os EXCEPT ![p] = "hung"]
  /\ UNCHANGED <<gw, children, state, asked, inbox, chains, cache, cached,
                 inflight, waitFor, next, failedBoots>>

ChildResumes(p) ==
  /\ os[p] = "hung"
  /\ os' = [os EXCEPT ![p] = "serving"]
  /\ UNCHANGED <<gw, children, state, asked, inbox, chains, cache, cached,
                 inflight, waitFor, next, faults, failedBoots>>

(* "shutdown" is handled only by a child that is up; SIGTERM ends a        *)
(* booting one too.                                                        *)
ChildExits(p) ==
  /\ \/ os[p] = "serving" /\ asked[p] # "no"
     \/ os[p] = "booting" /\ asked[p] = "sigterm"
  /\ os' = [os EXCEPT ![p] = "dead"]
  /\ UNCHANGED <<gw, children, state, asked, inbox, chains, cache, cached,
                 inflight, waitFor, next, faults, failedBoots>>

(* Answering a ping; one unread answer that changes something is enough. *)
ChildPongs(p) ==
  /\ os[p] = "serving"
  /\ gw = "running"
  /\ state[p].status # "healthy" \/ state[p].pong # "fresh"
  /\ "pong" \notin {inbox[p][k] : k \in DOMAIN inbox[p]}
  /\ Send(p, "pong")
  /\ UNCHANGED <<gw, children, state, os, asked, chains, cache, cached,
                 inflight, waitFor, next, faults, failedBoots>>

----------------------------------------------------------------------------
(* #handleMessage: messages of a process that is no longer current are     *)
(* dropped.                                                                *)

Receive(p, m) ==
  /\ inbox[p] # <<>>
  /\ Head(inbox[p]) = m
  /\ LateIpc \/ ~Reaped(p)
  /\ inbox' = [inbox EXCEPT ![p] = Tail(@)]

DropStaleMessage(p) ==
  /\ \E m \in {"ready", "error", "pong"} : Receive(p, m)
  /\ ~Current(p)
  /\ UNCHANGED <<gw, children, state, os, asked, chains, cache, cached,
                 inflight, waitFor, next, faults, failedBoots>>

\* A mistake to detect: the attempts of earlier boots are kept.
MarkReadyKeepsAttempts(p) ==
  /\ Receive(p, "ready")
  /\ Current(p)
  /\ state' = [state EXCEPT ![p].ready = TRUE, ![p].status = "ready",
                            ![p].pong = "fresh", ![p].pending = FALSE]
  /\ failedBoots' = [failedBoots EXCEPT ![state[p].idx] = 0]
  /\ InvalidateCache
  /\ UNCHANGED <<gw, children, os, asked, chains, inflight, waitFor, next,
                 faults>>

\* A mistake to detect: a child turns ready behind the cache.
MarkReadyKeepsCache(p) ==
  /\ Receive(p, "ready")
  /\ Current(p)
  /\ state' = [state EXCEPT ![p].ready = TRUE, ![p].status = "ready",
                            ![p].pong = "fresh", ![p].attempts = 0,
                            ![p].pending = FALSE]
  /\ failedBoots' = [failedBoots EXCEPT ![state[p].idx] = 0]
  /\ UNCHANGED <<gw, children, os, asked, chains, cache, cached, inflight,
                 waitFor, next, faults>>

(* #markReady *)
MarkReady(p) ==
  /\ Receive(p, "ready")
  /\ Current(p)
  /\ state' = [state EXCEPT ![p].ready = TRUE, ![p].status = "ready",
                            ![p].pong = "fresh", ![p].attempts = 0,
                            ![p].pending = FALSE]
  /\ failedBoots' = [failedBoots EXCEPT ![state[p].idx] = 0]
  /\ InvalidateCache
  /\ UNCHANGED <<gw, children, os, asked, chains, inflight, waitFor, next,
                 faults>>

(* #markHealthy *)
MarkHealthy(p) ==
  /\ Receive(p, "pong")
  /\ Current(p)
  /\ state' = [state EXCEPT ![p].status = "healthy", ![p].pong = "fresh"]
  /\ InvalidateCache
  /\ UNCHANGED <<gw, children, os, asked, chains, inflight, waitFor, next,
                 faults, failedBoots>>

ChildError(p) ==
  /\ Receive(p, "error")
  /\ Current(p)
  /\ Schedule(p, state[p], "child-error")
  /\ IF ScheduleInvalidates(state[p]) THEN InvalidateCache
     ELSE UNCHANGED <<cache, cached>>
  /\ UNCHANGED <<gw, children, os, inflight, waitFor, next, faults, failedBoots>>

----------------------------------------------------------------------------
(* The exit event: handleChildExit runs first (its promise callback was    *)
(* registered at spawn), then every chain that awaited the exit arms its   *)
(* timer, all within the same turn of the event loop.                      *)

Exit(p) ==
  /\ os[p] = "dead"
  /\ LateIpc \/ inbox[p] = <<>>
  /\ os' = [os EXCEPT ![p] = "reaped"]
  /\ awaitExit' = [awaitExit EXCEPT ![p] = 0]
  /\ failedBoots' = IF state[p].pong = "none"
                    THEN [failedBoots EXCEPT ![state[p].idx] = @ + 1]
                    ELSE failedBoots

\* A mistake to detect: handleChildExit forgets that the child was abandoned.
StaysAbandonedNever(p) == FALSE
\* A mistake to detect: the exit of a child that has booted restarts nothing.
StaysAbandonedAlways(p) == state[p].status # "starting"

(* handleChildExit returns early for an abandoned child. *)
StaysAbandoned(p) == state[p].status = "crashed"

(* No timer is armed once stop() has begun, and none for a stale process.  *)
ExitUnattended(p) ==
  /\ Exit(p)
  /\ ~Current(p) \/ gw # "running"
  /\ IF Current(p) /\ ~StaysAbandoned(p)
     THEN /\ state' = [state EXCEPT ![p].status = "exited"]
          /\ InvalidateCache
     ELSE UNCHANGED <<state, cache, cached>>
  /\ UNCHANGED <<gw, children, asked, inbox, timers, removing, inflight, waitFor,
                 next, faults>>

ExitRestarts(p) ==
  /\ Exit(p)
  /\ Current(p) /\ gw = "running"
  /\ LET c      == [state[p] EXCEPT !.status = "exited"]
         c1     == IF StaysAbandoned(p) THEN state[p] ELSE AfterSchedule(c, "exit")
         starts == ~StaysAbandoned(p) /\ StartsChain(c)
         armed  == awaitExit[p] + (IF starts THEN 1 ELSE 0) IN
     /\ state' = [state EXCEPT ![p] = [c1 EXCEPT !.timer = @ \/ armed > 0]]
     /\ timers' = [timers EXCEPT ![p] = @ + armed]
  /\ IF StaysAbandoned(p) THEN UNCHANGED <<cache, cached>> ELSE InvalidateCache
  /\ UNCHANGED <<gw, children, asked, inbox, removing, inflight, waitFor, next,
                 faults>>

\* A mistake to detect: the backoff starts without awaiting the killed process.
GraceTimeoutWithoutExit(p) ==
  /\ awaitExit[p] > 0
  /\ ~Reaped(p)
  /\ asked' = [asked EXCEPT ![p] = "sigterm"]
  /\ awaitExit' = [awaitExit EXCEPT ![p] = @ - 1]
  /\ timers' = [timers EXCEPT ![p] = @ + 1]
  /\ UNCHANGED <<gw, children, state, os, inbox, removing, cache, cached, inflight,
                 waitFor, next, faults, failedBoots>>

(* #stopChildForRestart gives up waiting: proc.kill() is a SIGTERM. *)
GraceTimeout(p) ==
  /\ awaitExit[p] > 0
  /\ ~Reaped(p)
  /\ asked[p] # "sigterm"
  /\ asked' = [asked EXCEPT ![p] = "sigterm"]
  /\ UNCHANGED <<gw, children, state, os, inbox, chains, cache, cached, inflight,
                 waitFor, next, faults, failedBoots>>

(* The backoff timer and the head of #respawnChild.  The shortest backoff  *)
(* is a second, far longer than unlinking a socket, so no timer of p fires *)
(* while a removal for p is in progress.                                   *)
TimerFires(p) ==
  /\ timers[p] > 0
  /\ ~removing[p]
  /\ timers' = [timers EXCEPT ![p] = @ - 1]
  /\ state' = [state EXCEPT ![p].timer = FALSE]
  /\ removing' = [removing EXCEPT ![p] = gw = "running" /\ Current(p)]
  /\ UNCHANGED <<gw, children, os, asked, inbox, awaitExit, cache, cached, inflight,
                 waitFor, next, faults, failedBoots>>

(* The rest of #respawnChild, after its await: neither #stopping nor the   *)
(* current process is looked at again.  #spawn carries the attempts over.  *)
Respawn(p) ==
  LET i == state[p].idx
      previous == children[i]
      attempts == IF previous = NoProc THEN 0 ELSE state[previous].attempts IN
  /\ removing[p]
  /\ next \in Proc
  /\ removing' = [removing EXCEPT ![p] = FALSE]
  /\ state' = [state EXCEPT ![p].pending = FALSE, ![next] = NewChild(i, attempts)]
  /\ children' = [children EXCEPT ![i] = next]
  /\ os' = [os EXCEPT ![next] = "booting"]
  /\ next' = next + 1
  /\ InvalidateCache
  /\ UNCHANGED <<gw, asked, inbox, awaitExit, timers, inflight, waitFor, faults,
                 failedBoots>>

(* Bun.spawn throws: the catch handler of the timer schedules again. *)
RespawnFails(p) ==
  LET c == [state[p] EXCEPT !.pending = FALSE] IN
  /\ removing[p]
  /\ Fault
  /\ IF Current(p) /\ gw = "running"
     THEN /\ state' = [state EXCEPT ![p] =
                         IF StartsChain(c)
                         THEN [RestartPending(c, "respawn-failed") EXCEPT !.timer = TRUE]
                         ELSE AfterSchedule(c, "respawn-failed")]
          /\ timers' = [timers EXCEPT ![p] = @ + (IF StartsChain(c) THEN 1 ELSE 0)]
          /\ IF ScheduleInvalidates(c) THEN InvalidateCache
             ELSE UNCHANGED <<cache, cached>>
     ELSE /\ state' = [state EXCEPT ![p] = c]
          /\ UNCHANGED <<timers, cache, cached>>
  /\ removing' = [removing EXCEPT ![p] = FALSE]
  /\ failedBoots' = [failedBoots EXCEPT ![state[p].idx] = @ + 1]
  /\ UNCHANGED <<gw, children, os, asked, inbox, awaitExit, inflight, waitFor, next>>

----------------------------------------------------------------------------
(* #checkHealth, one child at a time.  Its interval is cleared by stop().  *)

(* No pong for #healthTimeoutMs: the child has been blocked for that long. *)
PongAges(p) ==
  /\ Current(p)
  /\ os[p] = "hung"
  /\ state[p].pong = "fresh"
  /\ state' = [state EXCEPT ![p].pong = "stale"]
  /\ UNCHANGED <<gw, children, os, asked, inbox, chains, cache, cached, inflight,
                 waitFor, next, faults, failedBoots>>

CheckHealth(p, reason) ==
  /\ gw = "running"
  /\ Current(p)
  /\ ~Unavailable(p)
  /\ InvalidateCache
  /\ Schedule(p, [state[p] EXCEPT !.status = "unhealthy"], reason)
  /\ UNCHANGED <<gw, children, os, inbox, inflight, waitFor, next, faults,
                 failedBoots>>

HealthTimeout(p) ==
  /\ state[p].pong = "stale"
  /\ CheckHealth(p, "health-timeout")

(* The IPC channel is closed: the process has died and all it sent is read. *)
HealthSendFailed(p) ==
  /\ state[p].pong # "stale"
  /\ os[p] = "dead"
  /\ inbox[p] = <<>>
  /\ CheckHealth(p, "health-send-failed")

----------------------------------------------------------------------------
(* #proxyHttp: pick a child, then await its answer. *)

ProxyRequest ==
  /\ gw = "running"
  /\ cache' = Candidates /\ cached' = TRUE
  /\ \/ Candidates = {} /\ UNCHANGED inflight
     \/ /\ Cardinality(inflight) < MaxInflight
        /\ \E p \in Candidates : inflight' = inflight \union {p}
  /\ UNCHANGED <<gw, children, state, os, asked, inbox, chains, waitFor, next,
                 faults, failedBoots>>

ProxyAnswered(p) ==
  /\ p \in inflight
  /\ inflight' = inflight \ {p}
  /\ UNCHANGED <<gw, children, state, os, asked, inbox, chains, cache, cached,
                 waitFor, next, faults, failedBoots>>

(* FailedToOpenSocket.  The socket path belongs to the index, so it fails  *)
(* while whatever process now runs there is not accepting connections; the *)
(* restart is scheduled on the ChildState picked before the await.         *)
UpstreamOpenFailed(p) ==
  /\ p \in inflight
  /\ ~ \E q \in Proc : /\ children[state[p].idx] = q
                       /\ os[q] \in {"serving", "hung"}
  /\ inflight' = inflight \ {p}
  /\ Schedule(p, state[p], "upstream-open-failed")
  /\ IF ScheduleInvalidates(state[p]) THEN InvalidateCache
     ELSE UNCHANGED <<cache, cached>>
  /\ UNCHANGED <<gw, children, os, inbox, waitFor, next, faults, failedBoots>>

----------------------------------------------------------------------------
(* stop(): ask every available child to shut down, wait for all of them or *)
(* for the shutdown budget, SIGKILL the rest, wait for those, forget all.  *)

\* A mistake to detect: a timer is taken back from children that have none.
ArmedEverywhere == {p \in Proc : Current(p)}

(* The children whose restartTimer stop() clears. *)
Armed == {p \in Proc : Current(p) /\ state[p].timer}

(* A child that is not up yet may have no handler for the message. *)
StopBegin ==
  LET told == {p \in Proc : Current(p) /\ ~Unavailable(p) /\ asked[p] = "no"} IN
  /\ gw = "running"
  /\ gw' = "stopping"
  /\ waitFor' = {children[i] : i \in Idx}
  /\ \E lost \in SUBSET {p \in told : os[p] = "booting"} :
       asked' = [p \in Proc |-> IF p \in told \ lost THEN "shutdown" ELSE asked[p]]
  /\ timers' = [p \in Proc |-> IF p \in Armed THEN timers[p] - 1 ELSE timers[p]]
  /\ state' = [p \in Proc |-> [state[p] EXCEPT !.timer = @ /\ p \notin Armed]]
  /\ UNCHANGED <<children, os, inbox, awaitExit, removing, cache, cached, inflight,
                 next, faults, failedBoots>>

\* A mistake to detect: the stragglers get one more SIGTERM instead.
KilledByTerm(p) == os[p] \in {"booting", "serving"}

(* What SIGKILL ends. *)
KilledBySigkill(p) == os[p] # "dead"

StopKills ==
  LET stragglers == {p \in Proc : Current(p) /\ ~Reaped(p)} IN
  /\ gw = "stopping"
  /\ gw' = "killing"
  /\ waitFor' = stragglers
  /\ os' = [p \in Proc |-> IF p \in stragglers /\ KilledBySigkill(p)
                        THEN "dead" ELSE os[p]]
  /\ UNCHANGED <<children, state, asked, inbox, chains, cache, cached, inflight,
                 next, faults, failedBoots>>

StopDone ==
  /\ gw = "killing"
  /\ \A p \in waitFor : Reaped(p)
  /\ gw' = "stopped"
  /\ children' = [i \in Idx |-> NoProc]
  /\ UNCHANGED <<state, os, asked, inbox, chains, cache, cached, inflight, waitFor,
                 next, faults, failedBoots>>

----------------------------------------------------------------------------
ChildStep(p) ==
  \/ ChildReady(p) \/ ChildStartFails(p) \/ ChildDies(p) \/ ChildHangs(p)
  \/ ChildResumes(p) \/ ChildExits(p) \/ ChildPongs(p)

GatewayStep(p) ==
  \/ DropStaleMessage(p) \/ MarkReady(p) \/ MarkHealthy(p) \/ ChildError(p)
  \/ ExitUnattended(p) \/ ExitRestarts(p) \/ GraceTimeout(p) \/ TimerFires(p)
  \/ Respawn(p) \/ RespawnFails(p)
  \/ PongAges(p) \/ HealthTimeout(p) \/ HealthSendFailed(p)
  \/ ProxyAnswered(p) \/ UpstreamOpenFailed(p)

Next ==
  \/ \E p \in Proc : ChildStep(p) \/ GatewayStep(p)
  \/ ProxyRequest
  \/ StopBegin \/ StopKills \/ StopDone

Spec == Init /\ [][Next]_vars

(* The event loop runs what is due: queued messages, exit events, timers,  *)
(* resolved awaits and the health interval.  A boot that does not fail     *)
(* completes, and a child asked to exit exits once its loop is free.       *)
(* Nothing obliges a blocked child to resume, or anyone to call stop().    *)
Fairness ==
  /\ \A p \in Proc :
       /\ WF_vars(ChildReady(p)) /\ WF_vars(ChildExits(p))
       /\ WF_vars(DropStaleMessage(p) \/ MarkReady(p) \/ MarkHealthy(p)
                                       \/ ChildError(p))
       /\ WF_vars(ExitUnattended(p) \/ ExitRestarts(p))
       /\ WF_vars(GraceTimeout(p)) /\ WF_vars(TimerFires(p)) /\ WF_vars(Respawn(p))
       /\ WF_vars(PongAges(p)) /\ WF_vars(HealthTimeout(p))
       /\ WF_vars(HealthSendFailed(p))
  /\ WF_vars(StopKills) /\ WF_vars(StopDone)

FairSpec == Spec /\ Fairness

(* In addition no child stays blocked for ever. *)
StallsEnd == \A p \in Proc : WF_vars(ChildResumes(p))

----------------------------------------------------------------------------
(* Every variable has its type; a process not yet spawned is blank. *)
TypeOK ==
  /\ gw \in {"running", "stopping", "killing", "stopped"}
  /\ children \in [Idx -> Proc \union {NoProc}]
  /\ state \in [Proc -> ChildState]
  /\ os \in [Proc -> {"none", "booting", "serving", "hung", "dead", "reaped"}]
  /\ asked \in [Proc -> {"no", "shutdown", "sigterm"}]
  /\ inbox \in [Proc -> Seq({"ready", "error", "pong"})]
  /\ awaitExit \in [Proc -> Nat]
  /\ timers \in [Proc -> Nat]
  /\ removing \in [Proc -> BOOLEAN]
  /\ cache \subseteq Proc /\ cached \in BOOLEAN
  /\ inflight \subseteq Proc
  /\ waitFor \subseteq Proc
  /\ next \in 1 .. MaxProc + 1
  /\ faults \in Nat
  /\ failedBoots \in [Idx -> Nat]

(* A replica index never has two processes running, and a running process  *)
(* is never forgotten by the gateway: every process whose exit has not     *)
(* been seen is the one the children map holds for its index, until stop() *)
(* clears the map.  Two restart chains for one process, or a chain that    *)
(* spawned before the old process was gone, would break it.                *)
OneLiveProcessPerReplica ==
  gw # "stopped" => \A p \in Proc : Live(p) => Current(p)

(* No request is routed to a child that a restart chain is about to stop   *)
(* or replace, whatever messages were still under way from it.             *)
NotRoutedWhileRestarting ==
  \A p \in Proc : Routable(p) /\ gw = "running" =>
    awaitExit[p] = 0 /\ timers[p] = 0 /\ ~removing[p]

(* #federationChildCache, when it is not null, is what the filter of       *)
(* #pickFederationChild would compute now: no state change that affects    *)
(* routing forgets to invalidate it.                                       *)
CacheCoherent ==
  gw = "running" /\ cached => cache = {p \in Proc : Routable(p)}

(* A dev-hosted replica that never boots is not started more than          *)
(* #devMaxChildBootFailures times in a row.                                *)
BootRetriesBounded ==
  DevHosted => \A i \in Idx : failedBoots[i] <= BootFailureLimit

FailedStarts(p) == failedBoots[state[p].idx] + (IF Reaped(p) THEN 0 ELSE 1)

(* A child of the index has been heard: from then on the attempts that the *)
(* gateway counts may include the end of a child that had been serving.    *)
HasServed(i) ==
  \E q \in Proc : Spawned(q) /\ state[q].idx = i /\ state[q].pong # "none"

(* A replica is abandoned only after as many failed starts in a row as the *)
(* limit says, or one less once the index has served: #markReady resets    *)
(* the attempts, and the crash or timeout that ends a child that served is *)
(* the first attempt of the row.  The message of #markChildCrashed counts  *)
(* it as a failed boot.                                                    *)
CrashLoopIsALoop ==
  \A p \in Proc : Current(p) /\ state[p].status = "crashed" =>
    /\ DevHosted
    /\ FailedStarts(p) + (IF HasServed(state[p].idx) THEN 1 ELSE 0) >= BootFailureLimit

(* Both ways: a crash loop is ended by abandoning the replica, and nothing *)
(* else is.                                                                *)
AbandonedForALoop == BootRetriesBounded /\ CrashLoopIsALoop

(* The doc of #markChildCrashed calls an abandoned replica terminal.  What  *)
(* revives one nevertheless is a "ready" or a pong that is read after the  *)
(* exit event of its process, at that moment or by the restart chain it    *)
(* let start; no error, exit, failed request, timer or stop() does, and    *)
(* nothing does while the exit has not been seen.                          *)
RevivedOnlyLate ==
  [][\A p \in Proc : Current(p) /\ state[p].status = "crashed" =>
       \/ Reaped(p) /\ (MarkReady(p) \/ MarkHealthy(p))
       \/ Reaped(p) /\ removing[p] /\ Respawn(p)
       \/ /\ state'[p].status = "crashed"
          /\ children'[state[p].idx] \in {p, NoProc}]_vars

(* However often replicas crash, fail to boot or stall, each index is      *)
(* again and again served by a ready child, or has been abandoned, as long *)
(* as the gateway runs.                                                    *)
Served(i) ==
  \E p \in Proc :
    /\ children[i] = p
    /\ \/ state[p].status = "crashed"
       \/ os[p] = "serving" /\ state[p].ready /\ ~Scheduled(state[p])

ReplicasRecover == \A i \in Idx : []<>(gw = "running" => Served(i))

(* stop() finishes even when children ignore the request to shut down. *)
StopFinishes == gw = "stopping" ~> gw = "stopped"

LiveSpec == FairSpec /\ StallsEnd

(* #stopChildForRestart logs that a child which outlives the grace period  *)
(* is being killed; then the process should be gone eventually.            *)
GraceTimeoutKills ==
  \A p \in Proc : asked[p] = "sigterm" ~> os[p] \in {"dead", "reaped"}
=============================================================================
