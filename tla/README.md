# Verification of the Akan server runtime

TLA+ specifications of the runtime that serves an Akan application
(`pkgs/akanjs` of the repository), TLC configurations that check them on small
instances, and TLAPS proofs of what matters most.  Paths below are relative to
`pkgs/akanjs/` unless they start with another top-level directory.

## The system

`akan start` (or a production container) runs one **gateway** process
(`server/akanApp.ts`), which spawns one **child** process per replica index
(`server/akanServer.ts`).  The gateway terminates HTTP and websockets, proxies
requests over a unix socket to a `federation` (or `all`) child, relays
websockets, and supervises the children over Bun IPC.  A child resolves signals
(endpoints, pubsub rooms, queued processes, schedules), renders pages through an
RSC worker, and keeps its durable state in SQLite files that all replicas of the
host share.  In development a **host** process
(`pkgs/@akanjs/devkit/akanApp/akanApp.host.ts`) runs the gateway as its backend
beside a **builder**, which watches the files and builds routes on request.

### Inventory

Each component with its state, its operations, what it talks to, what is hard
about it, and what makes it correct.

| Component | State | Operations | Talks to | Hard behaviour | Correct when |
|---|---|---|---|---|---|
| Gateway supervision (`server/akanApp.ts`) | children map, `ChildState` objects, restart timers, candidate cache | spawn, ready, pong, error, exit, health check, restart chain, stop | children by IPC and signals; the proxy reads it | closures over replaced `ChildState`s, chains of awaits, exit events racing IPC, stop racing restarts | one live process per index, no process forgotten, no routing into a restart, replicas recover, stop ends |
| Pubsub routing (`server/akanApp.ts`, `service/predefinedAdaptor/solidPubsub.adaptor.ts`) | two inverse room maps, socket rooms on both sides | subscribe, unsubscribe, publish, deliver, snapshot, wipe | IPC queues both ways | membership known late, snapshots, wipes by late failures, two listeners | an event reaches each member once; maps converge |
| Job queue (`service/predefinedAdaptor/solidQueue.adaptor.ts`) | `_akan_solid_jobs` rows, worker flags | enqueue, claim, run, retry, close | SQLite shared by replicas, wake messages | leases, crashes between claim and outcome, late workers | one run at a time, budget kept, settled stays settled, all jobs settle |
| Child lifecycle (`server/akanServer.ts`, `server/lifecycle/shutdownManager.ts`) | server status | init, listen, start, stop, signals, IPC, parent disconnect | gateway, DI lifecycle | several stop requests at once | nothing exits in the middle of a graceful stop |
| Websocket rooms of a child (`server/resolver/signal.resolver.ts`) | live room contexts per socket | subscribe, unsubscribe, revalidate, close | the pubsub adaptor | handlers of one socket interleave at awaits | a closed or signed-out socket keeps no room |
| RSC worker host (`server/rscWorkerHost.ts`) | pending and queued renders, worker generation, status, reload | render, cancel, reload, recycle, restart, kill | a worker process | results of a replaced worker, rolling recycles, reloads racing a start | no worker is forgotten, each wait is answered, the latest build is served |
| Builder request relay (`server/artifact/builderRpc.ts`, `server/akanApp.ts`, `akanApp/builderRequestRouter.ts`, `incrementalBuilder/incrementalBuilder.host.ts`) | three tables of numbered requests, held and in-flight requests | ask, answer, hold, fail, renumber | four processes in a row | each of the four is replaced while a request is on its way | no answer reaches a stranger, every request is owed one |
| Development host (`akanApp/akanApp.host.ts` and its helpers) | backend and builder, timers, builder-gap stamp | start, restart, recover, recycle, suspend, wake | the two children, the file system | edits while nobody watches, restarts overlapping recycles | what runs becomes what is on disk |
| Websocket client (`fetch/client/wsClient.ts`) | socket, rooms, token, timer | connect, subscribe, set token, reconnect, destroy | a child, through the gateway | callbacks of forgotten sockets, timers racing `connect()`, late acknowledgements | one live socket, rooms and token agreed with the server |
| Redis websocket adaptor (`service/predefinedAdaptor/websocket.adaptor.ts`) | publish buffer | publish, flush, reconnect | Redis | disconnect during a flush | buffered messages are not lost |

Everything else in the repository - what the builder builds and how browsers are
told, routing and rendering, the browser's store and UI, schemas and
dictionaries, the shared application libraries, the command line - is listed
with the reason it is left out in `PROJECT.json` and, in short, under
[Not modelled](#not-modelled).

## Files

| Module | Models or proves | Used by |
|---|---|---|
| `ChildSupervisor` | gateway supervision, candidate cache, `stop()` | 3 configurations |
| `ChildSupervisorProofs` | the supervision loop's invariant, one process per index, the candidate cache, no routing into a restart, crash loops; what exit code 0 means of a child | tlapm |
| `JobLedger` | abstract: what a job queue promises about each job | `SolidQueue` |
| `SolidQueue` | the SQLite queue and its workers; implements `JobLedger` | `MCSolidQueue` |
| `SolidQueueProofs` | the queue's invariants and the refinement | tlapm |
| `PubSubRouting` | room membership and events between gateway and children | `MCPubSubRouting` |
| `PubSubRoutingProofs` | the room maps mirror each other, no echo, an event misses only children that were cut off | tlapm |
| `ServerLifecycle` | boot and stop of one child process | 1 configuration |
| `SocketRooms` | the rooms of one websocket in a child | `MCSocketRooms` |
| `SocketRoomsProofs` | routing, ghosts and credentials of a socket's rooms | tlapm |
| `WsClient` | the websocket client, with the server as its frames show it | 1 configuration |
| `WsClientProofs` | one session, credentials in order, rooms agreed upon | tlapm |
| `RscWorkerHost` | renders, reloads and replacements of the RSC worker | `MCRscWorkerHost` |
| `RscWorkerHostProofs` | no worker is forgotten, the latest build is served, every wait is owed | tlapm |
| `BuilderRelay` | route builds asked for across four processes | `MCBuilderRelay` |
| `BuilderRelayProofs` | whose build a request gets, who owes each wait its answer | tlapm |
| `DevHost` | the backend and the builder of `akan start`, and edits | 1 configuration |
| `DevHostProofs` | two backends only after an overlap, no stale backend unnoticed | tlapm |

`MC*` modules only name model values and give operators as values to constants.
Definitions that begin with the comment "A mistake to detect" are not part of a
specification: each is the wrong form of the definition that follows it and
shows that a property can fail.

The modules share no variables.  Where one component is another's environment,
its module keeps what matters of it: `ChildSupervisor` has the child as a
process that boots, serves, hangs and dies; `PubSubRouting` has restarts as
steps that wipe an index; `SocketRooms` stops at `joinRoom`/`leaveRoom`, where
`PubSubRouting` begins (`JoinRoom`, `LeaveRoom`, `CloseSocket`);
`ServerLifecycle` has the queue's worker as one job that a stage waits for, and
`SolidQueue` the other side of it (`CloseBegin`, `CloseEnd`); `WsClient` has the
handlers of `SocketRooms` once more, without the adaptor behind them and with
the client at the other end; `BuilderRelay` and `DevHost` both have the modes of
the development host, one for the requests that meet them, one for the edits.

## ChildSupervisor

**State.**  `children` is the map of `AkanApp`; `state[p]` the `ChildState`
object made for process `p`, which closures keep changing after the map has
moved on; `os[p]` what the process is, `"reaped"` once Bun has run its exit
event (`proc.killed`); `inbox[p]` the IPC it sent.  A restart chain
(`#scheduleChildRestart`, `#restartChildAfterDelay`, `#stopChildForRestart`,
`#respawnChild`) is nothing but the point it is suspended at, so `awaitExit`,
`timers` and `removing` count the chains of a process at each await.

**Actions.**  One per handler or per piece of a handler between two awaits.
`ScheduleLive`/`ScheduleReaped` are the call of `#scheduleChildRestart`, part of
`ChildError`, `ExitRestarts`, `HealthTimeout`, `HealthSendFailed`,
`UpstreamOpenFailed` and `RespawnFails`, each with the `ChildState` its closure
holds.  `Exit*` runs `#handleChildExit` and then all chains that awaited the
exit, in the order Bun's promise callbacks run.  The child's own actions are what
`AkanServer` does as the gateway sees it.

| Configuration | Question | Bounds |
|---|---|---|
| `SupervisorDev` | is a replica hosted by `akan start` abandoned in a crash loop, and only in one; what may revive it? | one replica, 4 processes, 3 faults, limit 3: a whole crash loop, before or after it has served |
| `SupervisorReplacement` | one process per index, no routing into a restart, a coherent cache, each index served again, `stop()` finishing, with messages read after the exit event and requests open across a restart | 2 replicas, 3 processes, 1 fault: a replacement beside a healthy replica |
| `SupervisorGrace` | does the log line "killing" come true? | violated, see [Findings](#findings) |

`MaxFaults` counts crashes, failed boots, failed spawns and stalls; `MaxProc`
bounds `Respawn`, and a run needs at most one process more than it has faults
per index, so the bound on processes never hides a replacement.  With one fault
`SupervisorReplacement` has no failed spawn that follows another failure; what a
chain of failures leads to is the question of `SupervisorDev`.

**Fairness** (`FairSpec`): the event loop delivers queued messages, exit events,
timers and the health interval; a boot that does not fail completes; a child
asked to exit exits when its loop is free; the two waits of `stop()` end.
Nothing obliges a blocked child to resume.  `LiveSpec` adds that it does
(`StallsEnd`), because `SupervisorGrace` shows what happens otherwise.  No
fairness is assumed of requests, faults or `stop()` being called.  A child that
hangs before it is ready has no pong to age (`akanApp.ts:1139`): no code bounds
a boot, and the liveness properties assume that boots end.

**Proved**, for every number of replicas, roles, faults, processes and both
hosting modes, from `ConstantsAssumption`:

- `OneLiveProcess`.  The property is not inductive: nothing in it says that the
  process a chain is about to replace is gone.  `IInv` adds that chains reach
  their timer and their socket removal only after the exit was seen
  (`ChainOnlyAfterExit`), that the process of a removal under way is current
  (`NothingForgotten`) and that an armed `restartTimer` has a timer behind it,
  which `stop()` can take back (`ArmedHasTimer`).  Every action but `Respawn`
  and `StopDone` leaves the map alone (`KeepsMap`), so one lemma covers them.
- `CacheCorrect`.  Each step resets the cache or leaves every process as
  routable as it was (`CacheKept`); the delicate calls are those of
  `#scheduleChildRestart` that return early.
- `NotRoutedCorrect`.  A child that is being stopped has `ready = FALSE`; it
  stays so because `"ready"` is a process's first message, sent once, and a
  process known well enough to be restarted alive (it answered, was ready, had a
  request open or is being stopped) has had its `"ready"` read (`KnownHasBooted`).

- `AbandonedCorrect` and `RevivedCorrect`, whether messages are read before the exit
  event or after it.  `AbandonedForALoop` is `BootRetriesBounded` (no more starts in
  a row without a ready than the limit allows) and `CrashLoopIsALoop` (a replica is
  given up when the starts that failed in a row make up the limit, or all but one
  and the index has served).  The gateway never counts such a row: it counts
  attempts, which go up when a restart is scheduled, before anyone knows whether
  the start fails, which the end of a child that served raises as well, and which
  are carried from one `ChildState` to the next.  `LoopInv` bounds the attempts by
  the failed starts from above (`AtMost`) and from below (`AtLeast`) at each point a
  chain can be suspended at, with what is known of the chains of a process
  (`Chained`: a late `"ready"` clears the pending flag of a chain that goes on, so
  that a second one can be armed beside it), one process per index that may still
  fail (`Alone`) and what is known of a process that was given up (`Abandoned`): it
  is dead and silent while its exit is outstanding.  That is why `RevivedOnlyLate`
  holds: nothing revives a replica but a message read after the exit event, at that
  moment or by the chain that it let start.

`ReplicasRecover` and `StopFinishes` are only model-checked.

A respawn that awaits its socket removal while `stop()` begins (`akanApp.ts:416`)
goes on and spawns a process that `stop()` did not count.  The model has the race
(`Respawn` after `StopBegin`); no property of a run is about the process it
leaves behind.

## SolidQueue and JobLedger

**State.**  `row` is the jobs table: status, attempts, creation time, whether
`runAt` has passed, and the lease (`lockedUntil`) as held or expired.  `running`
and `active` are a worker's flag and the handlers it is awaiting.  Priorities
and attempt budgets are constants.

**Actions.**  `ClaimJob` is the immediate transaction of `claimJob`, in the
order of its `ORDER BY`; `Pump`, `PumpAgain` and `PumpReturns` are
`SolidWorker.pump` cut at its await; `JobCompletes`, `JobFails` and
`CompletionWriteFails` write the outcome by the row's id, as the code does,
without looking at who holds the row now.  `Crash` loses the handlers and leaves
the row leased.  Time is abstract: a delay or lease may run out at any step, and
a lease that runs out under a working handler counts as a fault and is
remembered in `overran`.

`JobLedger` is what users of a queue rely on: one run at a time, repeated until
it succeeds or the budget is spent, a lost run put back, settled for good.  A run
that outlives its lease voids the promise for its job - the code gives none
either, and `OnlyLateWorkersReopen` says exactly what can go wrong then.  The
refinement mapping (`LedgerPhase`, `LedgerRuns`) reads the phase off the row; a
row left `running` by a dead process is still running to the ledger until its
lease ends, which is when the ledger hears of the loss.

`QueueJobs`: two replicas, two jobs (one with two attempts, the other with one
and urgent), two faults of any kind (crash, stop, failed write, overrun).  Two
faults let a late worker meet a second claim, and a crash meet a retry.

**Fairness**: the poll timer fires, delays and leases run out, handlers settle,
`close` and the restart of a process finish.  Each is a timer or a settled
promise in the code; that handlers settle is assumed of the application.

**Proved** for every set of jobs and replicas, all budgets and priorities, any
number of faults, from `QueueAssumption`: all invariants of the run
(`WorkersInOrder` is `OneHandlerPerWorker` and `StopDrainsHandlers`, `BudgetsKept`
is `AttemptsWithinBudget` and `SettledForAReason`), the action property `OnlyLateWorkersReopen`, and `LedgerKept`, that the queue
implements `JobLedger`.  `IInv` adds the relation of a lease to a run
(`Leased`: a job that kept within its leases has one run, which holds the lease)
and strict inequalities where one more attempt may follow (`Budgets`).  Steps are
classified by what they do to a row (claim, end, crash, ...), so that each
property is proved once per effect.  `EveryJobSettles` stays with TLC.

## PubSubRouting

**State.**  `joined` is `SolidPubSub.#socketRooms` on the children;
`roomChildren`, `childRooms`, `socketRooms` are the gateway's maps; `toGateway`
and `toChild` are the two directions of each IPC channel.  History variables say
whom an event is meant for (`audience`) and what was received.

**Actions.**  One per message handled on either side, `CloseSocket` sends one
`unsubscribe` per room in any order (a `Set`'s order is its history), and
`ScheduleRestart`, `LateFailureOfOldProcess`, `Dies`, `ExitSeen` and `Respawn`
are what `ChildSupervisor` shows of restarts to the maps - a wipe caused by a
request sent to a process that has already been replaced included.
`ChildDelivers` hands an event out twice: two listeners handle the message.

`RoomsDelivery`: two children, two sockets on one of them, one room, one event
that either child may publish, three joins or leaves, one failure.  Three changes
are what it takes for one of two sockets to leave a room, and for a join or leave
on either side of a snapshot; the failure is a restart, a crash or a late wipe of
either child.  `RoomsMissed` adds a socket on the other child and checks
`EveryoneInRoom`, which the leave breaks.  `OnlyCutOffMiss` says exactly how far
the damage goes: an event misses a socket only if its child was *cut off* when
`#deliverPubsub` read the event - the gateway had taken the child out of the room
with a socket of it in the room (`#removeRoomMembership` for another socket,
`#removeChildRooms`) and had not listed it again (history variable `cut`) - or was
being replaced, or the publisher was replaced before its message was read
(`missed`).  A stale snapshot, a late message of a dead process, or any order of
the queues loses nothing by itself, which is what the mutant of the run (a
snapshot without the rooms) breaks.  An event is "meant for" a remote socket only
once the gateway has read everything the socket's child sent about it and the
room; before that no code could deliver it.

**Fairness**: IPC is read, the snapshot interval fires, exits are seen and
respawns happen.  `RoomsConverge` needs nothing else, and holds although wipes
are not repaired by anything but snapshots.

**Proved** for every finite set of rooms and any children, sockets, events, joins
and failures, from `RoutingAssumption`: `MapsMirror` (the two maps are inverse,
which `#replaceRoomSnapshot` and `#removeChildRooms` rely on), `TypeOK` and
`NoEchoToOrigin`, which no run needs to repeat.  The latter needs what is in the
queues: a publish message comes from the event's origin and a deliver message
never goes there (`Queues`), and an event not yet published has not been received
(`Unpublished`).

`OnlyCutOffMiss` is proved too, for any number of sockets on a child and any
failures.  Its invariant (`Reach`) speaks of a socket and a room about which
nothing is under way (`Silent`): if the socket is in the room, the gateway lists
its child or has cut it off (`ListedOrCut`).  For `#replaceRoomSnapshot` that
needs a fact about the queue: a snapshot with no subscription of the socket
behind it lists the room (`SnapshotsAreTrue`), which is why replacing the rooms by
an old snapshot loses nothing.  Whoever an event is meant for has received it,
missed it for one of the reasons above, finds it in the child's queue, or is at a
child the gateway will look up when it reads the event (`Meant`, `Coming`;
`MapsMirror` gives the list that is used).  The sockets of a dead process are in
no room (`DeadLeft`), so clearing its queues at the respawn loses only what it had
published itself.
`RoomsConverge` is liveness and stays with TLC.

## ServerLifecycle

**State and actions.**  `status`, whether the parent's messages and the signals
are listened to yet (`ipc`, `managed`), the stages of `destroyAll` that are
over, the exit code the winning caller will use, the parent-loss watchdog, the
worker's job.  `Stop(c)` is a call of `stop()` by a caller that exits with `c`:
it starts the stop, or returns at once because one is under way, and its caller
exits in the same turn.

`Lifecycle`: four stages as in `diLifecycle.ts`, the queue in the third, three
requests, two jobs: two requests make the race, the third can come after it.
**Fairness** is on the two timers alone: hooks and handlers may hang for ever.
`RequestsEnd` therefore assumes only that the event loop is not blocked, without
which no code of the process runs.

**Proved** for every number of stages, requests and jobs, from
`LifecycleAssumption`, in the last part of `ChildSupervisorProofs` (for whose sake
the names here begin with `Life`: `LifeInit`, `LifeNext`, `LifeSpec`):
`LifeTypeOK` and `ExitCodeIsTrue`, which is `SuccessIsComplete` and
`CrashIsReported`.  The invariant tracks that stages end only in a stop, that
nothing is claimed once the queue's stage is over (`QueueClosed`), and the exit
code a single caller left (`CrashCode`).  Both parts are stated for one heard
request; with two, the process may exit with 0 half way (see
[Findings](#findings)).

Two behaviours are in the model without a property, because the code promises
nothing about them: a parent that disconnects before `#registerParentIpc` is
never heard of (`ParentDisconnects` with `ipc` false) and the orphan goes on, and
the worker claims jobs during the stages before the queue's own
(`di/diLifecycle.ts:206`), when the services their handlers use are destroyed
already (`ClaimsJob`).

## SocketRooms

**State.**  A room of a socket is held in three places: Bun's `topics`, a Map of
live contexts in a WeakMap (`maps`, `cur`), and the adaptor (`joined`).  `maps`
is indexed by the frame that created a Map, because a revalidation keeps the Map
it began with across its awaits.  `subs` and `revs` are the handlers suspended at
an await.  An unsubscribe and a close await only argument parsing and an empty
list of handlers (`Ws.getArg` in `signal/internalArg.ts` hands out `on` unbound, so
the list of unsubscribe handlers of a socket stays empty), hence they are single steps.

`SocketRooms`: an open and a guarded room, five frames.  Five are a subscribe, an
unsubscribe and a second subscribe around a revalidation, and one more
credential.  No fairness: the properties are safety only.

**Proved** for every set of rooms and guarded rooms and every number of frames,
from `SocketRoomsAssumption`: `TypeOK`, `PlacesAgree` (`HeardIsRouted` and
`UntrackedIsLost`) and `LateRoomsOnly` (`GhostsAreLate` and
`RoomsMatchCredential`).  `RoomsMatchCredential` speaks
of the moments when no revalidation is in progress; the invariant says for all
others which revalidation still has the room ahead of it (`Revocable`), and that
whoever passed a guarded room's guards was signed in then (`PassedGuards`).

## WsClient

**State.**  The client's object remembers one socket (`ws`) and one timer
(`timer`), but `#connect` and `#scheduleReconnect` overwrite what is there, so
`phase` holds every socket that exists and `strays` the timers that nobody can
clear any more.  `rooms` is what the listeners asked for, `jwt` counts the
changes of the token (odd: signed in).  Per socket there are the frames under
way in both directions and what the child holds: credential, topics, and the
subscribes and revalidations suspended at an await, as in `SocketRooms`.  The
gateway between the two pipes frames in order and is not kept apart.

**Actions.**  The calls of the application (`Connect`, `Destroy`, `SetJwt`,
`Subscribe`, `Unsubscribe`), the callbacks of each socket (`Opened`, `Closed`,
`Drop`, `ReceiveAck`) and timer, and the child's handlers.  The token is held in
memory, as on a native client: the handshake carries no credential.

`WsClient`: one guarded room, four sockets, six calls, one lost connection.  A
second socket takes three calls at most (`connect()`, `destroy()`, `connect()`
before the old socket's close event); six leave three for the room and the token.
`MaxSockets` bounds the sockets that exist at a time, and
ids are used again, so it hides no sequence of reconnects.

The properties hold up to named races, each of which TLC needs: `raced` (a
`connect()` that meets a timer or a socket still closing, after which two
sockets may live), `refused` (a room whose subscribe failed is kept by the client
and not asked for again) and `leftover` (an unsubscribe that overtakes its
subscribe, an acknowledgement that drops a room asked for since).  **Fairness**:
timers fire, connections are made or refused, closed sockets say so, frames are
handled.  Lost connections are bounded, since nothing can be promised about a
network that drops every one.

**Proved** for every set of rooms and any number of sockets, calls and lost
connections, from `WsClientAssumption`:

- `TypeOK`.  That `strays` and the sockets are within their bounds needs a count:
  each timer left behind and each socket still closing was paid for by a call or
  a lost connection (`Counted`).
- `OneSession`.  The count alone is not inductive: until `raced`, the socket that
  lives is the one the object remembers, a timer runs only when it remembers
  none, and sockets are being closed only after `destroy()` (`Session`).
- `JudgedByLatest`.  The frames of a socket are in the order of the tokens they
  were sent under, none older than the credential the child holds (`InOrder`);
  a credential older than the last frame's has a frame on its way that replaces
  it (`ToldBefore`), and the token of now was told to every open socket
  (`Current`).
- `RoomsAgree`.  For a room the client keeps there is a subscribe on its way, in
  its handler or done, with no unsubscribe behind it (`KeepsAt`); for a room it
  has left, the unsubscribe is on its way or nothing is there to undo
  (`LeavesAt`).  Both are per socket and go through every step of the child's
  handlers (`Agreed`).

`ComesToRest` stays with TLC.

## RscWorkerHost

**State.**  All workers ever spawned with what each is doing (`workers`), the
host's view (`proc`, `rolling`, `status`, the timers, `killed`), renders as fresh,
pending or queued, and the reload in flight.  A message of a worker is handled in
the step that sends it, since the host looks at nothing but whether it comes from
`#proc`.  Two kinds matter when they are read after the exit of the worker, which
stays `#proc` until a restart timer fires: a ready (`unread`) and metrics
(`Metrics` does not ask whether the worker is up).

A bundle has the number of the build that made it.  `Import` and `Reloaded` keep the
bundle and the build apart: a reload with a client manifest only
(`rebundled = FALSE`; `devHmrController.ts:282-286` and `webRouter.ts:341-345` call
it so) makes the worker import the bundle it has once more and supersedes an import
under way, whose end is then discarded (`rscWorker.tsx:322-325`).  The code's build
numbers are times (`pagesBundleBuilder.ts:88`), and two reloads without a bundle
carry that of the bundle, or 0 from a server that has had none
(`webRouter.ts:316`): labels of acknowledgements, for which one number per
bundle is enough.

**Actions.**  One per method and callback of `RscWorker`.  `Reload(full, rebundled)`
comes with or without a bundle, and with or without the recycle that accumulated
reloads call for; `Bad` are the bundles whose import throws.  `HandleExit` is apart
from `Exit`, because renders may be asked for in between.  A spawn may throw: in
`RestartTimer` the next timer is set, in `RollingRecycle` the throw leaves the old
worker current with the status `"starting"`.

`RscWorkerHost`: one render, three bundles of which the second is bad, two crashes or
failed spawns, one rolling recycle, one reload without a bundle: enough for a crash of
either worker of a recycle with reloads under way, a superseded import that throws, a
late ready with its restart timer pending, and a recycle that such a ready permits.
The safety properties were checked with two renders as well; the run has one, since
nothing in the host relates two renders.  **Fairness**: timers fire, exits are reported,
messages are read, a worker that runs boots, imports and answers.

The properties name what the code leaves open.  `ServesLatest`: a bundle that this very
worker missed (`missed`).  `RendersSettle`: a worker or a recycle that nothing ends
(`Wedged`), a `kill()` that finds no worker, and renders of a worker that a restart
timer replaced (`strayed`).  Each is among the findings below.

**Proved** for every set of renders, bundles and faults, from `RscAssumption`:
`TypeOK` and `NoStrayWorker`.  The latter is inductive only with `OneRecycle`: a host
that is ready has no rolling recycle, so the worker that a restart or a recycle
replaces is the only one it may lose, and the restart notes it when it was up.

`ServesLatest` and `EveryWaitIsOwed` follow from a second invariant, `Placed`,
on top of the first.  Neither is inductive alone: that a render waits says
nothing of where it waits.  `Placed` says what the host's status means for the
worker it speaks to, up to a ready or an exit not yet handled (`Postings`); a render
that waits is with that worker, or queued until there is one (`RendersPlaced`); a
reload in flight names the build that its worker imports (`ReloadPlaced`,
`NoReloadYet`); and a worker that is ready has, or imports, the latest bundle, unless
it is bad or this worker missed it (`BundlesPlaced`).  `RendersSettle` stays with TLC.

## BuilderRelay

**State.**  Three tables: the gateway's `#builderReqMap` (`gw.map`), the host's
`BuilderRequestRouter` (`router`) and `#pendingBuilderMessages` (`held`), with what
the builder has accepted (`work`, its host's `#inFlight`) and the answers not handled yet
(`queue`).  A request has an identity of its own (gateway generation, index, epoch
of the server process, number), which no process knows and every property is
stated by.

**Actions.**  `Ask` is a request all the way to the builder or into `held`: the
pipes between the processes keep their order and lose their contents with their
reader, so nothing can happen in between that a later step does not do as well.
The host's own queue is kept, since it stands still during a recycle.  Each way a
party is replaced is an action: `KidDies`, `GatewayExits`, `ReadyBuilderExits`,
`ReplacementFails`, `StartFails`, `Recycle`, `Suspend`, `RecycleChildren`,
`WakeForEdit`.  The stop of a gateway is one step, its end: while it lasts the host
sends the gateway nothing (`akanApp.host.ts:856`), so an answer that comes then is
lost with the requester, which ends with the gateway; it would count as `dropped`.

`BuilderRelay`: two requests, two indices, two gateways, one death of a server
process, two absences of the builder (a start counts as one when its last attempt
fails), one held request: each process can be
replaced while one request is ahead of another.  **Fairness** is on the builder
and the host, none on the RPC timeout: `RelaySettles` says that answers come
without it, unless the answer met a gateway that was not ready (`dropped`) or no
builder is coming (`Stranded`).

**Proved** for every number of server processes, requests and gateways, every
limit of held requests and every bound, from `RelayAssumption`: `TypeOK`,
`ForeignAnswersAreOlder` and `EveryWaitIsOwed`.  Neither of the two is inductive:
that a wait is owed does not say that the entry it is owed by leads back to it,
nor that the number it has is used once.  `IInv` says

- whose an entry is (`Right`): a request held, or accepted under a number of the
  present gateway, is the one the gateway has under that number, if any.  Of the
  entries of an earlier generation nothing is known, and nothing needs to be:
  their answers are discarded (`AcceptedRight`);
- that numbers are fresh (`Numbered`): processes and gateways number from 1
  without gaps, so the next number is in no table.  This is a statement about
  cardinalities, and the only one;
- that a gateway which is down has lost its table and its processes, and that one
  which is being replaced is down (`Phases`);
- that who waits is a process that is up and has its request held, or accepted
  and in the host's table (`Waits`).

The sequences matter by their elements only.  Each step moves some requests from
held to accepted (`Moves`) and answers some (`Settles`), and the invariant is
proved of the two together; an exit of the builder, which fails everything it had
accepted, changes neither: the requests are accepted until their answers are
handled, in whatever order.  `RelaySettles` stays with TLC.

## DevHost

**State.**  `disk` counts the edits of files the backend runs; `procs` are the
backends with the version each runs; `restarts` the calls of `#restartBackend`
suspended at the exit they wait for; `bh` the builder with what its watcher has
seen; `gap` the stamp taken while no builder watches.

**Actions.**  The timers, the exits, the pieces of `#recycleDevChildren` between
its awaits, and the builder's life as `IncrementalBuilderHost` drives it.
`TakeGap` stands for `#takeBuilderGapChanges` with its awaits: the stamp is taken from
the field before the first of them, and the builder that ended the gap watches by then,
so an edit in between is reported in any case; comparing early is the case in which
fewer restarts come of it.

`DevHost`: three edits, three faults (crashes, failed starts, degraded boots,
recycles, suspends): an edit before, during and after a replacement of the one
that should have noticed it.  `TwinsNeedOverlap` and `StaleBackendIsNoticed` name
the only ways the code goes wrong (`overlap`, `missed`).  **Fairness**: the host's
timers and calls end, children told to stop exit, a healthy builder boots and
reports.

Left out: build errors and the recycles deferred for them, the memory decisions,
a suspend that completes during a recycle, two overlapping calls of
`#startBuilder`.  A builder in degraded mode reports no edits but the fix of its
boot build.  After a failed recycle no stamp is taken, though the comment at
`akanApp.host.ts:1531` says the gap is acted on: such edits are `missed`.

**Proved** for any number of edits, faults, start attempts and recoveries, from
`HostAssumption`: `TypeOK`, `TwinsNeedOverlap` and `StaleBackendIsNoticed`.

- `TwinsNeedOverlap` needs to know whom the calls under way wait for: until
  `overlap`, a backend that is alive is the current one and is what each
  suspended call of `#restartBackend` waits for, and none is alive once the wait
  is over (`Single`).
- `StaleBackendIsNoticed` counts the modes of a recycle as noticing, since they
  stop the backend; the invariant does without them (`Stale`).  It rests on what a
  builder's status says of the host's mode (`Builder`), on an open gap whenever
  the host has, or is about to have, a builder and none watches (`Watched`), and
  on nothing being seen or missed before it is on disk (`Versions`).

`BackendCatchesUp` stays with TLC.

## Findings

Two are runs that TLC must find violated, with the quotation in `PROJECT.json`.

1. `SupervisorGrace` / `GraceTimeoutKills`: a child blocked past the restart
   grace period is said to be killed, but is sent SIGTERM, which its own handler
   swallows; its index never restarts (`server/akanApp.ts:466`).  `stop()` uses
   SIGKILL.
2. `RoomsMissed` / `EveryoneInRoom`: one socket leaving a room cuts the other
   sockets of its child off until the next snapshot (`server/akanApp.ts:1055`).

The others were met while modelling.  Each is in a module as the code has it, and
where a property would fail because of it, the property names it as an
exception.

- `server/akanApp.ts:350`: the limit is compared with `restartAttempts`, which the
  crash of a child that served raises too.  Such a replica is given up after two
  failed boots, with the message (line 438), the page (754) and the 503 (733) that
  three did, as the comment at line 82 and `akanApp.test.ts:478` have it; hence the
  `HasServed` of `CrashLoopIsALoop`.
- `server/akanApp.ts:980`: an abandoned replica, a "terminal state" in lines 420-423,
  is revived by a `"ready"` that is read after the exit event, when the spawns that
  followed the exit have failed: `#markReady` asks only whether the process is
  current.  The dead process counts as ready from then on, and the health check
  skips it (`RevivedOnlyLate` names this way and rules out every other).
- `server/akanServer.ts:405`: a deliver message has two listeners, so sockets
  outside the publishing replica get each event twice (`ChildDelivers`).
- `server/akanServer.ts:358`: a request to stop that finds a stop under way exits
  with 0 in the middle of it, though `server/lifecycle/shutdownManager.ts:6` calls
  the shutdown graceful (`Stop`).
- `server/resolver/signal.resolver.ts:485`: a revalidation that outlives its Map
  deletes the Map of a room subscribed since (`lost`).
- `server/akanApp.ts:1171`: `#builderReqMap` is not cleared when a child is
  replaced, so its answer may settle the request of the same number of the next
  one; and a request held for a builder is issued again under the generation of
  a later gateway (`akanApp.host.ts:1405`), which
  `akanApp/builderRequestRouter.ts:16-18` rules out (`ForeignAnswersAreOlder`).
- `incrementalBuilder/incrementalBuilder.host.ts:149-154`: a replacement builder
  that exits before it is ready is restarted by nobody (`Stranded`).
- `server/rscWorkerHost.ts:554-558`: a reload after hello and before ready resolves
  at once while the worker serves the bundle before it, although the comment there
  says that the new worker picks the latest up by the reply to its hello (`missed`).
- `server/rscWorkerHost.ts:569-571`: a reload still in flight is superseded because
  "the latest build strictly implies the earlier one completed".  A reload with a
  client manifest only does not: `rscWorker.tsx:322-325` discards the bundle whose
  import it overtook, and the worker goes on with the old bundle and acknowledges
  the new build (`missed`).
- `server/rscWorkerHost.ts:697`: a restarted worker whose first import fails stays
  alive, is not retried, and what is queued for it waits (`Wedged`).
- `server/rscWorkerHost.ts:519-522`: a spawn that throws in a rolling recycle leaves
  the status at `"starting"` with the old worker current; renders are queued
  and nothing ends the recycle (`Wedged`).
- `server/rscWorkerHost.ts:630`: a reload in flight when a rolling recycle begins
  is acknowledged by a worker whose messages are ignored by then
  (`EveryReloadIsOwed`).
- `server/rscWorkerHost.ts:819-823`: a ready read after the exit of its worker was
  handled makes the host ready with the restart timer pending; a recycle may bring a
  worker before it fires, and the timer then replaces that worker without killing it:
  the double restart that the comment in lines 779-781 is about (`strayed`).
- `server/rscWorkerHost.ts:561-563`: the old worker is said to keep serving until
  the replacement is ready; renders asked for meanwhile are queued (`Ask`).
- `kill()` between two workers leaves the renders that wait pending
  (`EveryRenderIsOwed`).
- `fetch/client/wsClient.ts:155`: `connect()` while a reconnect timer runs, or
  before the close event of a destroyed socket, opens a second socket that nobody
  remembers (`raced`); a late acknowledgement drops a room asked for again
  (`leftover`); a refused room is not asked for after signing in (`refused`).

## What is not proved

Liveness (`ReplicasRecover`, `StopFinishes`, `EveryJobSettles`, `RoomsConverge`,
`RequestsEnd`, `RelaySettles`, `BackendCatchesUp`, `RendersSettle`, `ComesToRest`)
is checked on the instances above; TLAPS does not handle fairness and `ENABLED`.

Every invariant and every other action property of a passing run is a theorem,
under the assumptions on the constants named per module.  All proofs are of the specifications, not
of the code: the correspondence is in `PROJECT.json` under "map", line by line.

## Not modelled

- The publish buffer of the Redis websocket adaptor, the Redis cache and the BullMQ
  queue: what they promise is decided by client libraries outside this repository.
- The events of the builder (css and pages updates, build status) on their way to
  browsers, and the hot reload there: broadcast, not answered, and superseded by
  the next build.
- The abrupt ends of the gateway itself: a second signal calls `process.exit(1)`
  in the middle of `stop()`.  What it means for a child is in `ServerLifecycle`
  (`ParentDisconnects`).
- The memory decisions and deferred recycles of the development host, and build
  failures: see `DevHost`.
- The scheduler and the solid cache: each operation is one SQL statement or one
  timer callback.  The database adaptor: transactions are SQLite's.
- Dependency injection, routing, rendering, schemas, dictionaries, types and
  conversions: pure functions of declarations, requests and build output.
- The browser's router, store and UI components, examples, benchmarks, deployment,
  command line tools: no concurrent state of their own, or none that the runtime
  depends on.

These parts are most of the repository's lines; the modules cover the parts in
which processes, sockets, timers and handlers meet.

## Plan

Done: the gateway and its children, queue, rooms, lifecycle; then `WsClient`,
`RscWorkerHost`, `BuilderRelay` and `DevHost`.

Left:

1. `WsSession`, in which `SocketRooms` takes the place of the handlers in
   `WsClient`, and the publish buffer and the data loader, as far as they have
   interleavings worth a module.
