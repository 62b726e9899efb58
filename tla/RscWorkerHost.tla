--------------------------- MODULE RscWorkerHost ---------------------------
(***************************************************************************)
(* The host side of the process that renders server components (class      *)
(* RscWorker).  Renders are sent to the worker when it is ready, queued     *)
(* while one starts, and failed when it exits.  A worker is replaced after  *)
(* a crash, with backoff, and by rolling recycles (memory, accumulated      *)
(* reloads), in which the old process stays until the new one is ready.     *)
(* A reload gives the running worker a new pages bundle, or a new client    *)
(* manifest for the bundle it has; a worker that starts is given the        *)
(* host's latest bundle in answer to its hello.                             *)
(*                                                                         *)
(* Messages of a worker are handled in the step that sends them: the host   *)
(* ignores those of any process but the current one, whenever they were     *)
(* sent.  Two kinds matter when they are read after the exit of the worker  *)
(* as well, and may be: ready, and metrics.  The chunks of an answer are    *)
(* left out.                                                                *)
(***************************************************************************)
EXTENDS Naturals, Sequences, FiniteSets

CONSTANTS
  Render,      \* requests to render
  Bad,         \* pages bundles whose import throws
  MaxBuild,    \* bound: pages bundles, numbered as they are built
  MaxCrashes,  \* bound: crashes of workers and spawns that fail
  MaxRecycles, \* bound: rolling recycles
  MaxManifests \* bound: reloads with a client manifest only

ASSUME RscAssumption ==
  /\ IsFiniteSet(Render)
  /\ MaxBuild \in Nat \ {0} /\ Bad \subseteq 2..MaxBuild
  /\ MaxCrashes \in Nat /\ MaxRecycles \in Nat /\ MaxManifests \in Nat

VARIABLES
  workers,    \* every worker spawned: phase, the bundle it serves, the import under
              \* way, the builds of superseded imports that will throw, its renders
  exits,      \* workers whose exit the host has not handled
  unread,     \* workers whose ready the host has not handled
  proc,       \* #proc: its number
  rolling,    \* #rollingRecycle: the old worker's number, 0 for null
  status,     \* #status
  timer,      \* how many restart timers run, and whether #recycleTimer does
  killed,     \* #killed
  fresh,      \* renders not asked for yet
  pending,    \* #pending
  queued,     \* #queuedSends
  latest,     \* #pagesBundleBuildId, the build of #pagesBundlePath
  reload,     \* #pendingReload: its target, and the worker it was sent to; none: 0
  missed,     \* history: the last bundle a worker was not told of, or told and did not
              \* import, although it goes on: its build, and the worker
  strayed,    \* history: workers that a restart timer found current and replaced, and their renders
  faults      \* crashes, rolling recycles and manifest-only reloads so far

renderVars == <<fresh, pending, queued>>
history == <<missed, strayed>>
vars == <<workers, exits, unread, proc, rolling, status, timer, killed, renderVars,
          latest, reload, history, faults>>

Worker == DOMAIN workers
Up(w) == workers[w].phase \notin {"dying", "dead"}
Gone == workers[proc].phase = "dead" /\ proc \notin exits  \* a send throws
NoImport == [bundle |-> 0, build |-> 0]
Spawned == [phase |-> "booting", build |-> 0, loading |-> NoImport, stale |-> {}, renders |-> {}]
None == [build |-> 0, worker |-> 0]
Told(ws, S) == [w \in DOMAIN ws |-> IF w \in S /\ ws[w].phase # "dead" THEN [ws[w] EXCEPT !.phase = "dying"] ELSE ws[w]]

-----------------------------------------------------------------------------
(* Renders *)

\* render, #sendRenderOrQueue.  One that cannot be sent fails at once.
Ask(r) ==
  /\ r \in fresh
  /\ fresh' = fresh \ {r}
  /\ pending' = IF status = "stopped" \/ (status = "ready" /\ Gone) THEN pending ELSE pending \union {r}
  /\ queued' = IF status \in {"starting", "restarting"} THEN queued \union {r} ELSE queued
  /\ workers' = IF status = "ready" /\ ~Gone THEN [workers EXCEPT ![proc].renders = @ \union {r}] ELSE workers
  /\ UNCHANGED <<exits, unread, proc, rolling, status, timer, killed, latest, reload, history, faults>>

\* The stream is cancelled; a send that is queued will find the render gone.
Cancel(r) ==
  /\ r \in pending
  /\ pending' = pending \ {r}
  /\ workers' = IF status = "ready" THEN [workers EXCEPT ![proc].renders = @ \ {r}] ELSE workers
  /\ UNCHANGED <<exits, unread, proc, rolling, status, timer, killed, fresh, queued, latest, reload, history, faults>>

\* end, redirect, not-found or error: #resolvePending, if it is from #proc.
Answer(w, r) ==
  /\ Up(w) /\ r \in workers[w].renders
  /\ workers' = [workers EXCEPT ![w].renders = @ \ {r}]
  /\ pending' = IF w = proc THEN pending \ {r} ELSE pending
  /\ UNCHANGED <<exits, unread, proc, rolling, status, timer, killed, fresh, queued, latest, reload, history, faults>>

-----------------------------------------------------------------------------
(* A worker starts *)

\* hello is answered with what the host has by now.
Hello(w) ==
  /\ workers[w].phase = "booting" /\ w = proc
  /\ workers' = [workers EXCEPT ![w].phase = "loading", ![w].loading = [bundle |-> latest, build |-> latest]]
  /\ UNCHANGED <<exits, unread, proc, rolling, status, timer, killed, renderVars, latest, reload, history, faults>>

\* The pages are imported: the worker sends ready.
Imported(w) ==
  /\ workers[w].phase = "loading" /\ workers[w].loading.bundle \notin Bad
  /\ workers' = [workers EXCEPT ![w] = [@ EXCEPT !.phase = "ready", !.build = workers[w].loading.bundle, !.loading = NoImport]]
  /\ unread' = unread \union {w}
  /\ UNCHANGED <<exits, proc, rolling, status, timer, killed, renderVars, latest, reload, history, faults>>

\* The import throws: an __init__ error, after which the worker stays as it is
\* and the host does nothing.
InitFails(w) ==
  /\ workers[w].phase = "loading" /\ workers[w].loading.bundle \in Bad
  /\ workers' = [workers EXCEPT ![w].phase = "failed", ![w].loading = NoImport]
  /\ UNCHANGED <<exits, unread, proc, rolling, status, timer, killed, renderVars, latest, reload, history, faults>>

\* A mistake to detect: the old worker of a rolling recycle is forgotten.
ReadyForgetsOld(ws) == ws

\* #finishRollingRecycle.
FinishRollingRecycle(ws) == Told(ws, {rolling})

\* #flushQueuedSends, to a worker that can be sent to.
FlushQueuedSends(ws) == [ws EXCEPT ![proc].renders = @ \union (queued \intersect pending)]

\* ready, whatever has become of the worker since.
Ready(w) ==
  /\ w \in unread
  /\ unread' = unread \ {w}
  /\ IF w # proc THEN UNCHANGED <<workers, status, rolling, pending, queued>>
     ELSE /\ status' = "ready" /\ rolling' = 0 /\ queued' = {}
          /\ LET ws == FinishRollingRecycle(workers)
             IN workers' = IF Gone THEN ws ELSE FlushQueuedSends(ws)
          /\ pending' = IF Gone THEN pending \ queued ELSE pending
  /\ UNCHANGED <<exits, proc, timer, killed, fresh, latest, reload, history, faults>>

-----------------------------------------------------------------------------
(* Recycles and reloads *)

\* restartWhenIdle when it is idle: a second worker, and the first goes on.  A
\* spawn that fails leaves it current, in a recycle that nothing finishes.
Idle == status = "ready" /\ pending = {} /\ ~killed
RollingRecycle(counted) ==
  /\ counted.recycles < MaxRecycles
  /\ rolling' = proc /\ status' = "starting"
  /\ \/ /\ workers' = Append(workers, Spawned) /\ proc' = Len(workers) + 1
        /\ faults' = [counted EXCEPT !.recycles = @ + 1]
     \/ /\ counted.crashes < MaxCrashes
        /\ faults' = [counted EXCEPT !.crashes = @ + 1, !.recycles = @ + 1]
        /\ UNCHANGED <<workers, proc>>

\* metrics, #maybeRecycleFromMetrics: the worker reports too much memory.
Metrics ==
  /\ Idle /\ RollingRecycle(faults)
  /\ UNCHANGED <<exits, unread, timer, killed, renderVars, latest, reload, history>>

\* The timer of a recycle that had to wait: it tries again.
RecycleTimer ==
  /\ timer.recycle
  /\ timer' = [timer EXCEPT !.recycle = status = "ready" /\ pending # {}]
  /\ IF Idle THEN RollingRecycle(faults) ELSE UNCHANGED <<workers, proc, rolling, status, faults>>
  /\ UNCHANGED <<exits, unread, killed, renderVars, latest, reload, history>>

\* #handleReload of the worker: the reload before is discarded when its import
\* ends, and reported when its import throws.  It is missed if the new one has
\* no bundle, and imports what the worker serves again.
Import(loading) ==
  LET w == workers[proc]
  IN /\ workers' = [workers EXCEPT ![proc] =
            [w EXCEPT !.loading = loading,
                      !.stale = IF w.loading.bundle \in Bad THEN @ \union {w.loading.build} ELSE @]]
     /\ missed' = IF loading.bundle = w.build /\ w.loading.bundle \notin {0, w.build}
                  THEN [build |-> w.loading.bundle, worker |-> proc] ELSE missed

\* The reload is sent to the worker, superseding the one before.
SendReload(loading) ==
  /\ reload' = IF Gone THEN None ELSE [build |-> loading.build, worker |-> proc]
  /\ IF Up(proc) THEN Import(loading) ELSE UNCHANGED <<workers, missed>>

\* The host has a new bundle, or (`rebundled` FALSE) another client manifest only.
Requested(rebundled) ==
  IF rebundled THEN latest < MaxBuild /\ latest' = latest + 1
               ELSE faults.manifests < MaxManifests /\ UNCHANGED latest
Counted(rebundled) == [faults EXCEPT !.manifests = IF rebundled THEN @ ELSE @ + 1]

\* What the worker is told, and what it is not told because it is not ready.
Message(rebundled) == [bundle |-> IF rebundled THEN latest' ELSE workers[proc].build, build |-> latest']
NotTold(rebundled) ==
  missed' = IF rebundled /\ (workers[proc].phase = "loading" \/ proc \in unread)
            THEN [build |-> latest', worker |-> proc] ELSE missed

\* A mistake to detect: a reload that is due for a recycle waits for it.
ReloadWaits(full, rebundled) ==
  /\ Requested(rebundled) /\ faults' = Counted(rebundled)
  /\ \/ status # "ready" /\ NotTold(rebundled) /\ UNCHANGED <<workers, timer, reload>>
     \/ /\ status = "ready" /\ full /\ timer' = [timer EXCEPT !.recycle = TRUE]
        /\ UNCHANGED <<workers, reload, missed>>
     \/ status = "ready" /\ ~full /\ SendReload(Message(rebundled)) /\ UNCHANGED timer
  /\ UNCHANGED <<exits, unread, proc, rolling, status, killed, renderVars, strayed>>

\* reload.  Unless the worker is ready it resolves at once; a worker that has
\* collected too many (`full`) is recycled instead, or a timer is set for it.
Reload(full, rebundled) ==
  /\ Requested(rebundled)
  /\ \/ /\ status # "ready" /\ NotTold(rebundled) /\ faults' = Counted(rebundled)
        /\ UNCHANGED <<workers, proc, rolling, status, timer, reload>>
     \/ /\ full /\ Idle /\ RollingRecycle(Counted(rebundled))
        /\ UNCHANGED <<timer, reload, missed>>
     \/ /\ status = "ready" /\ ~(full /\ Idle) /\ faults' = Counted(rebundled)
        /\ timer' = [timer EXCEPT !.recycle = (full /\ ~killed) \/ @]
        /\ SendReload(Message(rebundled))
        /\ UNCHANGED <<proc, rolling, status>>
  /\ UNCHANGED <<exits, unread, killed, renderVars, strayed>>

\* A mistake to detect: an import that throws is not reported.
ReloadedIfGood(w) ==
  /\ workers[w].phase = "ready" /\ workers[w].loading # NoImport
  /\ LET b == workers[w].loading
     IN /\ workers' = [workers EXCEPT ![w].loading = NoImport, ![w].build = IF b.bundle \in Bad THEN @ ELSE b.bundle]
        /\ reload' = IF w = proc /\ reload.build = b.build /\ b.bundle \notin Bad THEN None ELSE reload
  /\ UNCHANGED <<exits, unread, proc, rolling, status, timer, killed, renderVars, latest, history, faults>>

\* reloaded, or the error of an import that throws; either settles the reload.
Reloaded(w) ==
  /\ workers[w].phase = "ready" /\ workers[w].loading # NoImport
  /\ LET b == workers[w].loading
     IN /\ workers' = [workers EXCEPT ![w].loading = NoImport, ![w].build = IF b.bundle \in Bad THEN @ ELSE b.bundle]
        /\ reload' = IF w = proc /\ reload.build = b.build THEN None ELSE reload
  /\ UNCHANGED <<exits, unread, proc, rolling, status, timer, killed, renderVars, latest, history, faults>>

\* The error of a superseded import: it rejects the reload of the same build.
StaleFails(w) ==
  \E b \in workers[w].stale :
    /\ workers' = [workers EXCEPT ![w].stale = @ \ {b}]
    /\ reload' = IF w = proc /\ reload.build = b THEN None ELSE reload
    /\ UNCHANGED <<exits, unread, proc, rolling, status, timer, killed, renderVars, latest, history, faults>>

-----------------------------------------------------------------------------
(* Exits *)

\* A worker crashes, or ends because it was killed.
Exit(w) ==
  /\ workers[w].phase # "dead"
  /\ Up(w) => faults.crashes < MaxCrashes
  /\ faults' = [faults EXCEPT !.crashes = IF Up(w) THEN @ + 1 ELSE @]
  /\ workers' = [workers EXCEPT ![w] = [Spawned EXCEPT !.phase = "dead"]]
  /\ exits' = exits \union {w}
  /\ UNCHANGED <<unread, proc, rolling, status, timer, killed, renderVars, latest, reload, history>>

\* A mistake to detect: the renders in flight are left to the next worker.
ExitKeepsPending(w) ==
  /\ w \in exits
  /\ exits' = exits \ {w}
  /\ IF w # proc THEN UNCHANGED <<pending, queued, reload, status, timer>>
     ELSE /\ reload' = None
          /\ status' = IF killed THEN "stopped" ELSE "restarting"
          /\ timer' = [timer EXCEPT !.restart = IF killed THEN @ ELSE @ + 1]
          /\ UNCHANGED <<pending, queued>>
  /\ UNCHANGED <<workers, unread, proc, rolling, killed, fresh, latest, history, faults>>

\* #handleExit: all that waits fails, and a restart is scheduled.
HandleExit(w) ==
  /\ w \in exits
  /\ exits' = exits \ {w}
  /\ IF w # proc THEN UNCHANGED <<pending, queued, reload, status, timer>>
     ELSE /\ pending' = {} /\ queued' = {} /\ reload' = None
          /\ status' = IF killed THEN "stopped" ELSE "restarting"
          /\ timer' = [timer EXCEPT !.restart = IF killed THEN @ ELSE @ + 1]
  /\ UNCHANGED <<workers, unread, proc, rolling, killed, fresh, latest, history, faults>>

\* A timer of #scheduleRestart.  It does not look at what #proc is by now; a spawn
\* that fails sets the next timer.
RestartTimer ==
  /\ timer.restart > 0 /\ ~killed
  /\ \/ /\ timer' = [timer EXCEPT !.restart = @ - 1]
        /\ workers' = Append(workers, Spawned) /\ proc' = Len(workers) + 1 /\ status' = "starting"
        /\ strayed' = IF Gone THEN strayed
                      ELSE [workers |-> strayed.workers \union {proc},
                            renders |-> strayed.renders \union (pending \ queued)]
        /\ UNCHANGED faults
     \/ /\ faults.crashes < MaxCrashes
        /\ faults' = [faults EXCEPT !.crashes = @ + 1]
        /\ status' = "restarting"
        /\ UNCHANGED <<timer, workers, proc, strayed>>
  /\ UNCHANGED <<exits, unread, rolling, killed, renderVars, latest, reload, missed>>

\* A mistake to detect: kill leaves the timers running.
KillKeepsTimers ==
  /\ ~killed
  /\ killed' = TRUE /\ status' = "stopped"
  /\ workers' = Told(workers, {proc, rolling}) /\ rolling' = 0
  /\ UNCHANGED <<exits, unread, proc, timer, renderVars, latest, reload, history, faults>>

\* kill: when the server stops.  A restart timer it does not clear, because a
\* second one was set, finds the host killed and does nothing.
Kill ==
  /\ ~killed
  /\ killed' = TRUE /\ status' = "stopped"
  /\ timer' = [restart |-> 0, recycle |-> FALSE]
  /\ workers' = Told(workers, {proc, rolling}) /\ rolling' = 0
  /\ UNCHANGED <<exits, unread, proc, renderVars, latest, reload, history, faults>>

-----------------------------------------------------------------------------
Init ==
  /\ workers = <<Spawned>> /\ exits = {} /\ unread = {} /\ proc = 1 /\ rolling = 0
  /\ status = "starting" /\ timer = [restart |-> 0, recycle |-> FALSE] /\ killed = FALSE
  /\ fresh = Render /\ pending = {} /\ queued = {}
  /\ latest = 1 /\ reload = None
  /\ missed = None /\ strayed = [workers |-> {}, renders |-> {}]
  /\ faults = [crashes |-> 0, recycles |-> 0, manifests |-> 0]

Next ==
  \/ \E r \in Render : Ask(r) \/ Cancel(r) \/ \E w \in Worker : Answer(w, r)
  \/ \E w \in Worker : \/ Hello(w) \/ Imported(w) \/ InitFails(w) \/ Ready(w)
                       \/ Reloaded(w) \/ StaleFails(w) \/ Exit(w) \/ HandleExit(w)
  \/ \E full, rebundled \in BOOLEAN : Reload(full, rebundled)
  \/ Metrics \/ RecycleTimer \/ RestartTimer \/ Kill

Spec == Init /\ [][Next]_vars

\* Timers fire, messages are read, exits are reported, a killed worker ends, and
\* a worker that runs boots, imports and answers.
Fairness ==
  /\ WF_vars(\E w \in Worker : Hello(w) \/ Imported(w) \/ InitFails(w) \/ Ready(w))
  /\ WF_vars(\E w \in Worker : Reloaded(w) \/ StaleFails(w))
  /\ WF_vars(\E w \in Worker, r \in Render : Answer(w, r))
  /\ WF_vars(\E w \in Worker : (~Up(w) /\ Exit(w)) \/ HandleExit(w))
  /\ WF_vars(RestartTimer)

FairSpec == Spec /\ Fairness

-----------------------------------------------------------------------------
(* Properties *)

TypeOK ==
  /\ \A w \in Worker :
       workers[w] \in [phase : {"booting", "loading", "ready", "failed", "dying", "dead"},
                       build : 0..latest, loading : [bundle : 0..latest, build : 0..latest],
                       stale : SUBSET (0..latest), renders : SUBSET Render]
  /\ exits \subseteq Worker /\ unread \subseteq Worker
  /\ proc = Len(workers) /\ rolling \in 0..Len(workers)
  /\ status \in {"starting", "ready", "restarting", "stopped"}
  /\ timer \in [restart : Nat, recycle : BOOLEAN] /\ killed \in BOOLEAN
  /\ timer.restart > 0 => ~killed
  /\ fresh \subseteq Render /\ pending \subseteq Render \ fresh /\ queued \subseteq Render \ fresh
  /\ status = "ready" => queued = {}
  /\ latest \in 1..MaxBuild /\ {missed.build, reload.build} \subseteq 0..latest
  /\ {missed.worker, reload.worker} \subseteq 0..proc

\* No worker process outlives its use: but for the current one and the one a
\* rolling recycle keeps, all have exited or been killed, except those that a
\* restart timer found current and replaced.
NoStrayWorker ==
  \A w \in Worker : Up(w) => \/ ~killed /\ w \in {proc, rolling}
                             \/ w \in strayed.workers

\* A worker that serves has the latest bundle or is importing it, except for one
\* that cannot be imported and for one that this worker missed: its reload came
\* while the worker imported what hello had given it (neither was it told, nor
\* will it be), or was superseded by a reload that carried no bundle.
ServesLatest ==
  status = "ready" /\ Up(proc) =>
    \/ latest \in {workers[proc].build, workers[proc].loading.bundle} \union Bad
    \/ missed = [build |-> latest, worker |-> proc]

\* The worker's import failed, so that it neither gets ready nor exits; or the
\* spawn of a rolling recycle did, so that nothing ends the recycle.
Wedged ==
  \/ workers[proc].phase = "failed"
  \/ status = "starting" /\ rolling = proc

\* A render that waits is with the worker, or queued for one that comes, or the
\* exit that fails it is to be handled; or kill() came when no worker ran; or a
\* restart timer replaced the worker that had it.
EveryRenderIsOwed ==
  \A r \in pending :
    \/ r \in workers[proc].renders /\ Up(proc)
    \/ r \in queued /\ \/ timer.restart > 0 \/ proc \in unread \/ Wedged
                       \/ workers[proc].phase \in {"booting", "loading"}
    \/ proc \in exits \/ workers[proc].phase = "dying"
    \/ killed /\ workers[proc].phase = "dead"
    \/ r \in strayed.renders

\* A reload that waits is with the worker, or the exit that rejects it is to be
\* handled; or the worker was replaced under it, and its acknowledgement ignored.
EveryReloadIsOwed ==
  reload # None =>
    \/ workers[proc].loading.build = reload.build \/ ~Up(proc)
    \/ reload.worker # proc

\* Nobody who waits for the worker is forgotten.
EveryWaitIsOwed == EveryRenderIsOwed /\ EveryReloadIsOwed

\* Every render ends, unless the worker is wedged, kill() came between two or a
\* restart timer replaced the worker that had it.
RendersSettle ==
  \A r \in Render :
    []<>(r \notin pending \/ Wedged \/ (killed /\ workers[proc].phase = "dead") \/ r \in strayed.renders)
=============================================================================
