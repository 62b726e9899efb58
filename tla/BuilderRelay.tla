---------------------------- MODULE BuilderRelay ----------------------------
(***************************************************************************)
(* A route build asked for while `akan start` runs crosses three processes *)
(* and is renumbered at each hop.  The BuilderRpc of a server process      *)
(* numbers its requests from 1, the gateway gives them numbers of its own  *)
(* (#builderReqMap), the development host renumbers them again             *)
(* (BuilderRequestRouter) and hands them to a builder that outlives both.  *)
(* The answer finds its way back through the three tables.                 *)
(*                                                                         *)
(* Every party may be replaced meanwhile: a server process by its gateway, *)
(* the gateway by the host, the builder by IncrementalBuilderHost (crash,  *)
(* memory recycle) or by the host (idle suspend and wake, changes of the   *)
(* configuration).  Requests that find no builder are held for the next.   *)
(*                                                                         *)
(* Pipes between two processes keep their order and lose their contents    *)
(* with their reader, so a message is delivered in the step that sends it; *)
(* the host's own queue of builder messages is kept, it is handled later.  *)
(***************************************************************************)
EXTENDS Naturals, Sequences, FiniteSets, Functions

CONSTANTS
  Kid,            \* indices of the server processes of a gateway
  HeldLimit,      \* HELD_BUILDER_REQUEST_LIMIT
  StartAttempts,  \* BUILDER_START_MAX_ATTEMPTS
  MaxAsks,        \* bound: requests made
  MaxGateways,    \* bound: gateway processes started
  MaxDeaths,      \* bound: server processes lost within a gateway
  MaxAway         \* bound: times the builder is lost, recycled, suspended or given up

ASSUME RelayAssumption ==
  /\ HeldLimit \in Nat
  /\ StartAttempts \in Nat \ {0}
  /\ MaxAsks \in Nat /\ MaxGateways \in Nat \ {0} /\ MaxDeaths \in Nat /\ MaxAway \in Nat

VARIABLES
  gw,       \* the gateway: generation, phase as the host sees it, #nextBuilderReqId, #builderReqMap
  kid,      \* its server processes: how many ran at this index before, and whether one is up
  result,   \* whether a request waits for its answer, by the request's identity
  built,    \* builds that came to a request: which, built for which, issued under which generation
  router,   \* BuilderRequestRouter: #generation, #nextId, #inFlight
  held,     \* AkanAppHost.#pendingBuilderMessages
  queue,    \* AkanAppHost.#builderMessageQueue: answers not handled yet
  bh,       \* IncrementalBuilderHost: #status, a process, ready
  work,     \* requests the builder process has accepted, oldest first: #inFlight
  mode,     \* what the host is doing about its builder
  attempt,  \* attempt of #startBuilder under way
  dropped,  \* requests whose answer found the gateway not ready
  faults    \* deaths of server processes and absences of the builder so far

vars == <<gw, kid, result, built, router, held, queue, bh, work, mode, attempt, dropped, faults>>
builderVars == <<router, held, queue, bh, work, mode, attempt>>

\* A request's identity stands for the route it asks for.
Request == [gen : 1..MaxGateways, kid : Kid, epoch : 0..MaxDeaths, id : 1..MaxAsks]
Modes == {"awake", "suspended", "waking", "reloading", "recycling", "down", "recovering"}

-----------------------------------------------------------------------------
(* The server processes and their gateway *)

\* The requests of the processes that run now that are still in BuilderRpc.#pending.
Pending == {r \in DOMAIN result : result[r] = "waiting"}

\* The process now at index k, asking with number i.
Asker(k, i) == [gen |-> gw.gen, kid |-> k, epoch |-> kid[k].epoch, id |-> i]

\* BuilderRpc.#nextId of the process at index k.
NextLocal(k) == 1 + Cardinality({r \in DOMAIN result : r = Asker(k, r.id)})

\* Nobody waits for the given requests any more.
Abandon(lost) ==
  /\ result' = [r \in DOMAIN result |->
               IF r \in lost THEN "ended" ELSE result[r]]
  /\ UNCHANGED built

\* #sendToBackend, #forwardBuilderRes and the listener of BuilderRpc, for a
\* set of answers that carry the numbers of gateway g.  The host drops them
\* when the gateway is not ready, the gateway those it has no entry for, the
\* server process those it does not wait for.
Deliver(g, res, answers) ==
  LET known == {a \in answers : a.id \in DOMAIN g.map}
      asker(a) == Asker(g.map[a.id].kid, g.map[a.id].local)
      awaited == {a \in known : asker(a) \in DOMAIN res /\ res[asker(a)] = "waiting"}
  IN IF g.phase # "ready"
     THEN /\ dropped' = dropped \union ({asker(a) : a \in known} \intersect DOMAIN res)
          /\ gw' = g /\ result' = res /\ UNCHANGED built
     ELSE /\ gw' = [g EXCEPT !.map = Restrict(@, DOMAIN @ \ {a.id : a \in known})]
          /\ result' = [r \in DOMAIN res |->
               IF \E a \in awaited : asker(a) = r THEN "ended" ELSE res[r]]
          /\ built' = built \union {[to |-> asker(a), by |-> a.who, issued |-> a.issued] :
                                    a \in {b \in awaited : b.ok}}
          /\ UNCHANGED dropped

\* A server process is up; the gateway reports itself once all of them are.
KidReady(k) ==
  /\ gw.phase # "down" /\ ~kid[k].up
  /\ kid' = [kid EXCEPT ![k].up = TRUE]
  /\ gw' = [gw EXCEPT !.phase = IF \A j \in Kid \ {k} : kid[j].up THEN "ready" ELSE @]
  /\ UNCHANGED <<result, built, dropped, faults, builderVars>>

\* The gateway loses a server process and will start another at its index;
\* nothing is said to the host, and #builderReqMap keeps its entries.
KidDies(k) ==
  /\ kid[k].up /\ faults.kid < MaxDeaths
  /\ kid' = [kid EXCEPT ![k] = [epoch |-> @.epoch + 1, up |-> FALSE]]
  /\ faults' = [faults EXCEPT !.kid = @ + 1]
  /\ Abandon({r \in DOMAIN result : r.gen = gw.gen /\ r.kid = k})
  /\ UNCHANGED <<gw, dropped, builderVars>>

\* #stopBackend has ended, or the gateway crashed.  An answer that comes while the
\* stop is under way is not sent on, and its request ends with the process.
GatewayGone ==
  /\ gw' = [gw EXCEPT !.phase = "down", !.map = << >>]
  /\ kid' = [k \in Kid |-> [epoch |-> 0, up |-> FALSE]]
  /\ Abandon(DOMAIN result)

GatewayExits ==
  /\ gw.phase # "down"
  /\ GatewayGone
  /\ UNCHANGED <<dropped, faults, builderVars>>

\* #startBackend: a new generation, which owns none of the requests in flight.
FreshGateway == [gen |-> gw.gen + 1, phase |-> "booting", next |-> 1, map |-> << >>]
\* A mistake to detect: the requests of the last gateway are carried forward.
StartGenerationCarriesOn == router

StartGeneration == [router EXCEPT !.generation = @ + 1, !.inFlight = << >>]

\* #restartBackend, backend recovery, #resurrectDevChildren.
StartGateway ==
  /\ gw.phase = "down" /\ mode \notin {"recycling", "reloading"}
  /\ gw.gen < MaxGateways
  /\ gw' = FreshGateway /\ router' = StartGeneration
  /\ UNCHANGED <<kid, result, built, held, queue, bh, work, mode, attempt, dropped, faults>>

-----------------------------------------------------------------------------
(* BuilderRequestRouter and IncrementalBuilderHost *)

Returning == bh.status \in {"starting", "recycling", "restarting"}

\* #sendToBuilder for each of the messages, when `kept` are held already and
\* the host is awake: issued and sent to a ready builder, held for one that
\* comes back as far as there is room, and failed otherwise.
SendToBuilder(status, rt, msgs, kept, g, res) ==
  LET n == Len(msgs)
      given == rt.next .. rt.next + n - 1
      message(h) == msgs[h - rt.next + 1]
      room == IF Returning /\ Len(kept) < HeldLimit THEN HeldLimit - Len(kept) ELSE 0
      taken == SubSeq(msgs, 1, IF room < n THEN room ELSE n)
      refused == {[id |-> msgs[i].id, ok |-> FALSE] : i \in Len(taken) + 1 .. n}
  IN IF status = "ready"
     THEN /\ router' = [rt EXCEPT !.next = @ + n, !.inFlight = [h \in DOMAIN @ \union given |->
                IF h \in given THEN [backendId |-> message(h).id, generation |-> rt.generation] ELSE @[h]]]
          /\ bh' = [bh EXCEPT !.status = status, !.ready = TRUE]
          /\ work' = work \o [i \in 1..n |-> [id |-> rt.next + i - 1, who |-> msgs[i].who]]
          /\ held' = kept /\ gw' = g /\ result' = res /\ UNCHANGED <<built, dropped>>
     ELSE /\ router' = [rt EXCEPT !.next = @ + n]
          /\ held' = kept \o taken
          /\ Deliver(g, res, refused)
          /\ UNCHANGED <<bh, work>>

\* #failInFlight: the departing builder's answers are given for it.
FailInFlight ==
  queue' = queue \o [i \in DOMAIN work |-> [id |-> work[i].id, ok |-> FALSE, who |-> work[i].who]]

Stopped == [status |-> "stopped", proc |-> FALSE, ready |-> FALSE]
Spawned(status) == [status |-> status, proc |-> TRUE, ready |-> FALSE]

\* Attempt n of #startBuilder: a builder host of its own, and its first process.
StartBuilder(n) == attempt' = n /\ bh' = Spawned("starting")

\* A builder answers the oldest request it accepted; the host takes the
\* answer off #inFlight and queues it.
BuilderAnswers(ok) ==
  /\ bh.proc /\ work # << >>
  /\ work' = Tail(work)
  /\ queue' = Append(queue, [id |-> Head(work).id, ok |-> ok, who |-> Head(work).who])
  /\ UNCHANGED <<gw, kid, result, built, router, held, bh, mode, attempt, dropped, faults>>

\* settle, and the answer goes to the gateway with the gateway's own number;
\* the queue stands still while a message before it recycles the children.
HandleAnswer ==
  LET a == Head(queue)
      sent == router.inFlight[a.id]
  IN /\ queue # << >> /\ mode # "recycling"
     /\ queue' = Tail(queue)
     /\ router' = [router EXCEPT !.inFlight = Restrict(@, DOMAIN @ \ {a.id})]
     /\ IF a.id \in DOMAIN router.inFlight /\ sent.generation = router.generation
        THEN Deliver(gw, result, {[id |-> sent.backendId, ok |-> a.ok, who |-> a.who, issued |-> sent.generation]})
        ELSE UNCHANGED <<gw, result, built, dropped>>
     /\ UNCHANGED <<kid, held, bh, work, mode, attempt, faults>>

-----------------------------------------------------------------------------
(* Requests *)

\* Map.set: the table f with an entry for a.
Bind(f, a, b) == [x \in DOMAIN f \union {a} |-> IF x = a THEN b ELSE f[x]]

\* buildRoute, the gateway's number for it, and #sendToBuilder: a request that
\* finds the host suspended wakes it and is held, whatever the limit.
Ask(k) ==
  LET who == Asker(k, NextLocal(k))
      msg == [id |-> gw.next, who |-> who]
      g == [gw EXCEPT !.next = @ + 1, !.map = Bind(@, gw.next, [kid |-> k, local |-> who.id])]
      res == Bind(result, who, "waiting")
  IN /\ kid[k].up /\ Cardinality(DOMAIN result) < MaxAsks
     /\ IF mode \in {"suspended", "waking", "reloading"}
        THEN /\ held' = Append(held, msg)
             /\ gw' = g /\ result' = res
             /\ mode' = IF mode = "suspended" THEN "waking" ELSE mode
             /\ IF mode = "suspended" THEN StartBuilder(1) ELSE UNCHANGED <<bh, attempt>>
             /\ UNCHANGED <<router, work, built, dropped>>
        ELSE /\ SendToBuilder(bh.status, router, <<msg>>, held, g, res)
             /\ UNCHANGED <<mode, attempt>>
     /\ UNCHANGED <<kid, queue, faults>>

\* The timer of #request: the request is forgotten and fails.
RpcTimeout(r) ==
  /\ r \in Pending
  /\ Abandon({r})
  /\ UNCHANGED <<gw, kid, dropped, faults, builderVars>>

-----------------------------------------------------------------------------
(* The builder comes and goes *)

\* A mistake to detect: what was held stays held.
ReadyWithoutFlush ==
  /\ bh.proc /\ ~bh.ready
  /\ attempt' = 0
  /\ mode' = IF mode = "recovering" THEN "awake" ELSE mode
  /\ bh' = [bh EXCEPT !.status = "ready", !.ready = TRUE]
  /\ UNCHANGED <<gw, kid, result, built, router, held, queue, work, dropped, faults>>

\* builder-ready: a restarted builder, or the one #startBuilder waits for.
\* What was held is sent, unless the host is waking: then it is held again.
BuilderReady ==
  /\ bh.proc /\ ~bh.ready
  /\ attempt' = 0
  /\ mode' = IF mode = "recovering" THEN "awake" ELSE mode
  /\ IF mode \in {"waking", "reloading"}
     THEN /\ bh' = [bh EXCEPT !.status = "ready", !.ready = TRUE]
          /\ UNCHANGED <<router, held, work, gw, result, built, dropped>>
     ELSE SendToBuilder("ready", router, held, << >>, gw, result)
  /\ UNCHANGED <<kid, queue, faults>>

\* A mistake to detect: nothing answers what a departing builder had accepted.
ExitsUnanswered ==
  /\ bh.proc /\ bh.ready
  /\ bh.status = "ready" => faults.builder < MaxAway
  /\ faults' = [faults EXCEPT !.builder = IF bh.status = "ready" THEN @ + 1 ELSE @]
  /\ work' = << >>
  /\ bh' = IF bh.status = "recycling" THEN Spawned("restarting")
           ELSE [Stopped EXCEPT !.status = "restarting"]
  /\ UNCHANGED <<gw, kid, result, built, router, held, queue, mode, attempt, dropped>>

\* A ready builder exits: what it accepted is failed in its name.  After a
\* recycle its replacement is spawned at once, after a crash a timer does it.
ReadyBuilderExits ==
  /\ bh.proc /\ bh.ready
  /\ bh.status = "ready" => faults.builder < MaxAway
  /\ faults' = [faults EXCEPT !.builder = IF bh.status = "ready" THEN @ + 1 ELSE @]
  /\ FailInFlight
  /\ work' = << >>
  /\ bh' = IF bh.status = "recycling" THEN Spawned("restarting")
           ELSE [Stopped EXCEPT !.status = "restarting"]
  /\ UNCHANGED <<gw, kid, result, built, router, held, mode, attempt, dropped>>

\* The timer of #scheduleRestart.
RestartTimer ==
  /\ bh.status = "restarting" /\ ~bh.proc
  /\ bh' = Spawned("restarting")
  /\ UNCHANGED <<gw, kid, result, built, router, held, queue, work, mode, attempt, dropped, faults>>

\* A replacement exits before it is ready: it is stopped, and onExit settles a
\* promise of #startBuilder that was settled when the first one got ready.
ReplacementFails ==
  /\ bh.status = "restarting" /\ bh.proc /\ faults.builder < MaxAway
  /\ faults' = [faults EXCEPT !.builder = @ + 1]
  /\ bh' = Stopped
  /\ UNCHANGED <<gw, kid, result, built, router, held, queue, work, mode, attempt, dropped>>

\* The builder #startBuilder waits for exits or is too late: the next attempt,
\* or no builder is coming, and what was held for one is failed.
StartFails ==
  /\ attempt > 0
  /\ attempt = StartAttempts => faults.builder < MaxAway
  /\ faults' = [faults EXCEPT !.builder = IF attempt = StartAttempts THEN @ + 1 ELSE @]
  /\ IF attempt < StartAttempts
     THEN StartBuilder(attempt + 1) /\ UNCHANGED <<mode, held, gw, result, built, dropped>>
     ELSE /\ bh' = Stopped /\ attempt' = 0 /\ mode' = "down"
          /\ held' = << >>
          /\ Deliver(gw, result, {[id |-> held[i].id, ok |-> FALSE] : i \in DOMAIN held})
  /\ UNCHANGED <<kid, router, queue, work>>

\* recycle(): the builder drains for a replacement and is sent nothing more.
Recycle ==
  /\ bh.status = "ready" /\ mode = "awake" /\ faults.builder < MaxAway
  /\ faults' = [faults EXCEPT !.builder = @ + 1]
  /\ bh' = [bh EXCEPT !.status = "recycling"]
  /\ UNCHANGED <<gw, kid, result, built, router, held, queue, work, mode, attempt, dropped>>

\* #suspendWhenIdle: what decideIdleSuspend looked at may have changed while
\* the watcher was installed, and is not looked at again.
Suspend ==
  /\ mode = "awake" /\ bh.status # "stopped" /\ faults.builder < MaxAway
  /\ faults' = [faults EXCEPT !.builder = @ + 1]
  /\ mode' = "suspended"
  /\ FailInFlight /\ work' = << >> /\ bh' = Stopped
  /\ UNCHANGED <<gw, kid, result, built, router, held, attempt, dropped>>

\* An edit wakes the host; one of the configuration replaces the gateway too.
WakeForEdit(config) ==
  /\ mode = "suspended" /\ (config => gw.gen < MaxGateways)
  /\ mode' = IF config THEN "reloading" ELSE "waking"
  /\ IF config THEN GatewayGone ELSE UNCHANGED <<gw, kid, result, built>>
  /\ StartBuilder(1)
  /\ UNCHANGED <<router, held, queue, work, dropped, faults>>

\* #recycleDevChildren for a message of the queue, which waits for it.
RecycleChildren ==
  /\ mode = "awake" /\ queue = << >> /\ bh.ready
  /\ faults.builder < MaxAway /\ gw.gen < MaxGateways
  /\ faults' = [faults EXCEPT !.builder = @ + 1]
  /\ mode' = "recycling"
  /\ GatewayGone
  /\ FailInFlight /\ work' = << >> /\ StartBuilder(1)
  /\ UNCHANGED <<router, held, dropped>>

\* The timer of #scheduleBuilderRecovery.
RecoverBuilder ==
  /\ mode = "down"
  /\ mode' = "recovering" /\ StartBuilder(1)
  /\ UNCHANGED <<gw, kid, result, built, router, held, queue, work, dropped, faults>>

\* The wake is over: what was held meanwhile is sent to the builder.
Awake ==
  /\ mode = "waking" /\ attempt = 0
  /\ mode' = "awake"
  /\ SendToBuilder(bh.status, router, held, << >>, gw, result)
  /\ UNCHANGED <<kid, queue, attempt, faults>>

\* The children were recycled: a new gateway, and after a wake what was held.
Recycled ==
  /\ mode \in {"recycling", "reloading"} /\ attempt = 0
  /\ mode' = "awake"
  /\ IF mode = "reloading"
     THEN SendToBuilder(bh.status, StartGeneration, held, << >>, FreshGateway, result)
     ELSE /\ gw' = FreshGateway /\ router' = StartGeneration
          /\ UNCHANGED <<result, built, held, bh, work, dropped>>
  /\ UNCHANGED <<kid, queue, attempt, faults>>

-----------------------------------------------------------------------------
Init ==
  /\ gw = [gen |-> 1, phase |-> "booting", next |-> 1, map |-> << >>]
  /\ kid = [k \in Kid |-> [epoch |-> 0, up |-> FALSE]]
  /\ result = << >> /\ built = {}
  /\ router = [generation |-> 1, next |-> 1, inFlight |-> << >>]
  /\ held = << >> /\ queue = << >> /\ work = << >>
  /\ bh = [Stopped EXCEPT !.status = "ready", !.proc = TRUE, !.ready = TRUE]
  /\ mode = "awake" /\ attempt = 0
  /\ dropped = {}
  /\ faults = [kid |-> 0, builder |-> 0]

Next ==
  \/ \E k \in Kid : KidReady(k) \/ KidDies(k) \/ Ask(k)
  \/ \E r \in DOMAIN result : RpcTimeout(r)
  \/ GatewayExits \/ StartGateway
  \/ \E ok \in BOOLEAN : BuilderAnswers(ok)
  \/ HandleAnswer
  \/ BuilderReady \/ ReadyBuilderExits \/ RestartTimer \/ ReplacementFails \/ StartFails
  \/ Recycle \/ Suspend \/ RecycleChildren \/ RecoverBuilder \/ Awake \/ Recycled
  \/ \E config \in BOOLEAN : WakeForEdit(config)

Spec == Init /\ [][Next]_vars

\* What the host and a healthy builder do by themselves.  Nothing is assumed of
\* the RPC timeout: an answer is expected without it.
Fairness ==
  /\ WF_vars(\E ok \in BOOLEAN : BuilderAnswers(ok))
  /\ WF_vars(HandleAnswer)
  /\ WF_vars(BuilderReady \/ RestartTimer \/ RecoverBuilder)
  /\ WF_vars(bh.status = "recycling" /\ ReadyBuilderExits)
  /\ WF_vars(Awake \/ Recycled)

FairSpec == Spec /\ Fairness

-----------------------------------------------------------------------------
(* Properties *)

Message == [id : 1..MaxAsks, who : Request]
Ids == 1 .. (MaxAsks * (MaxAway + 2))

TypeOK ==
  /\ gw \in [gen : 1..MaxGateways, phase : {"down", "booting", "ready"}, next : 1..MaxAsks + 1,
             map : UNION {[D -> [kid : Kid, local : 1..MaxAsks]] : D \in SUBSET (1..MaxAsks)}]
  /\ kid \in [Kid -> [epoch : 0..MaxDeaths, up : BOOLEAN]]
  /\ DOMAIN result \subseteq Request /\ \A r \in DOMAIN result : result[r] \in {"waiting", "ended"}
  /\ router.generation = gw.gen
  /\ \A h \in DOMAIN router.inFlight : h < router.next
  /\ \A i \in DOMAIN held : held[i] \in Message
  /\ \A i \in DOMAIN queue : queue[i].who \in Request /\ queue[i].ok \in BOOLEAN
  /\ bh.status \in {"starting", "ready", "recycling", "restarting", "stopped"}
  /\ mode \in Modes /\ attempt \in 0..StartAttempts
  /\ dropped \subseteq DOMAIN result

\* The builds that requests are given are their own but for what renumbering
\* does not see (builderRequestRouter.ts:16-18 claims more): a build reaches
\* another request only where a process was replaced.  Within a gateway it is
\* the request of the same number of a later process at the same index
\* (#forwardBuilderRes looks up the index); across gateways it was held
\* meanwhile and issued again under the later one's generation.  A build issued
\* for an earlier gateway never reaches a later one, and no process gets the
\* build of another index.
ForeignAnswersAreOlder ==
  \A b \in built :
    \/ b.to = b.by
    \/ b.by.gen < b.to.gen /\ b.issued = b.to.gen
    \/ /\ <<b.by.gen, b.by.kid, b.by.id>> = <<b.to.gen, b.to.kid, b.to.id>>
       /\ b.by.epoch < b.to.epoch

\* The builder is gone and nothing brings it back but an edit or a request.
Stranded == bh.status = "stopped" /\ mode \in {"awake", "suspended"}

\* Somebody still owes request r its answer: it is held for a builder that
\* comes, or in the host's table and either with the builder or in the queue.
Owed(r) ==
  \E g \in DOMAIN gw.map :
    /\ gw.map[g] = [kid |-> r.kid, local |-> r.id]
    /\ \/ ~Stranded /\ \E i \in DOMAIN held : held[i] = [id |-> g, who |-> r]
       \/ \E h \in DOMAIN router.inFlight :
            /\ router.inFlight[h] = [backendId |-> g, generation |-> router.generation]
            /\ h \in {work[i].id : i \in DOMAIN work} \union {queue[i].id : i \in DOMAIN queue}

\* A request that waits is owed an answer, whatever was replaced under it, or it
\* waits for its timeout only: its answer came before the gateway was ready, or
\* it is held where no builder is coming.
EveryWaitIsOwed ==
  \A r \in Pending : Owed(r) \/ r \in dropped
                     \/ (Stranded /\ \E i \in DOMAIN held : held[i].who = r)

\* Without any timeout, every request is answered in the end, those excepted.
RelaySettles ==
  []<>(\A r \in Pending : r \in dropped \/ Stranded)
=============================================================================
