------------------------------ MODULE DevHost ------------------------------
(***************************************************************************)
(* The children of `akan start` (AkanAppHost): a backend, restarted when   *)
(* one of the files it runs is edited, and a builder, which is also the    *)
(* watcher that notices the edit.  Both crash and are replaced: the        *)
(* backend by restarts (after a debounce), by recovery with backoff and by *)
(* recycles of both children; the builder by IncrementalBuilderHost (crash *)
(* restart, memory recycle), by #startBuilder with its attempts, by        *)
(* recovery, and by an idle suspend that gives it up until the next edit   *)
(* or request.  While no builder watches, edits are found by comparing     *)
(* stamps of the backend's files (the builder gap).                        *)
(*                                                                         *)
(* `disk` counts the edits of files that the backend runs.  Delays are     *)
(* abstracted to the order of the timers; build errors, generations and    *)
(* the relay of requests and statuses are left out (see BuilderRelay).     *)
(***************************************************************************)
EXTENDS Naturals, Sequences, FiniteSets, SequencesExt

CONSTANTS
  StartAttempts,   \* BUILDER_START_MAX_ATTEMPTS
  RecoveryLimit,   \* BACKEND_RECOVERY_MAX_ATTEMPTS
  MaxEdits,        \* bound: edits of backend files
  MaxFaults        \* bound: crashes and failed starts of either child

ASSUME HostAssumption ==
  /\ StartAttempts \in Nat \ {0} /\ RecoveryLimit \in Nat
  /\ MaxEdits \in Nat /\ MaxFaults \in Nat

VARIABLES
  disk,      \* version of the backend's files
  procs,     \* every backend process spawned: its phase, and the version it runs
  cur,       \* #backend: its number, 0 for null
  restarts,  \* calls of #restartBackend under way: the process each one stops
  timer,     \* #restartTimer, #backendRecoveryTimer, and a recovery that refreshes the graph
  tries,     \* #backendRecoveryAttempts, and #backendGaveUp
  bh,        \* #builder: #status, whether it has a process, ready, what it watches and has seen
  mode,      \* what the host is doing about its children
  awaited,   \* the backend that a recycle of both children stops
  attempt,   \* attempt of #startBuilder under way
  gap,       \* #builderGapStamp: the version stamped, if any
  reported,  \* an invalidate message is in #builderMessageQueue
  faults,    \* crashes and failed starts so far
  missed,    \* history: the last edit that no watcher and no stamp could show
  overlap    \* history: two calls that end in #startBackend were under way at once

backendVars == <<procs, cur, restarts, timer, tries, overlap>>
builderVars == <<bh, mode, awaited, attempt, gap>>
vars == <<disk, backendVars, builderVars, reported, faults, missed>>

Alive == {i \in DOMAIN procs : procs[i].phase # "dead"}
Live == {i \in Alive : procs[i].phase # "stopping"}
Fault == faults < MaxFaults /\ faults' = faults + 1
NoFault == UNCHANGED faults

-----------------------------------------------------------------------------
(* The backend *)

\* Calls under way that end in #startBackend.
Starters ==
  Len(restarts) + (IF timer.refreshing THEN 1 ELSE 0)
    + (IF mode \in {"stopping", "recycling", "halting", "reloading"} THEN 1 ELSE 0)

\* #startBackend: it runs what it finds.  It overlaps the calls under way but
\* the one it ends, if any.
StartBackend(ended) ==
  /\ procs' = Append(procs, [phase |-> "booting", version |-> disk])
  /\ cur' = Len(procs) + 1
  /\ overlap' = (overlap \/ Starters > ended)

\* A call begins that will end in #startBackend.
StarterBegins == overlap' = (overlap \/ Starters > 0)

\* #stopBackend: SIGTERM to the current process, whose exit is waited for.
Stopping(i) == IF i = 0 THEN procs ELSE [procs EXCEPT ![i].phase = "stopping"]
Exited(i) == IF i = 0 THEN TRUE ELSE procs[i].phase = "dead"

\* #scheduleBackendRestart: the debounce starts anew, a recovery is superseded.
ScheduleRestart == timer' = [timer EXCEPT !.restart = TRUE, !.recovery = FALSE]

\* The debounce is over: #restartBackend stops the backend.
RestartTimerFires ==
  /\ timer.restart
  /\ timer' = [timer EXCEPT !.restart = FALSE]
  /\ tries' = [tries EXCEPT !.count = 0]
  /\ procs' = Stopping(cur)
  /\ restarts' = Append(restarts, cur) /\ StarterBegins
  /\ UNCHANGED <<disk, cur, builderVars, reported, missed>> /\ NoFault

\* A mistake to detect: the next backend is started while the old one stops.
RestartAtOnce(c) ==
  /\ c \in DOMAIN restarts
  /\ restarts' = RemoveAt(restarts, c)
  /\ StartBackend(1)
  /\ tries' = [tries EXCEPT !.gaveUp = FALSE]
  /\ UNCHANGED <<disk, timer, builderVars, reported, missed>> /\ NoFault

\* It has exited: #restartBackend starts the next, whatever runs by now.
RestartGoesOn(c) ==
  /\ c \in DOMAIN restarts /\ Exited(restarts[c])
  /\ restarts' = RemoveAt(restarts, c)
  /\ StartBackend(1)
  /\ tries' = [tries EXCEPT !.gaveUp = FALSE]
  /\ UNCHANGED <<disk, timer, builderVars, reported, missed>> /\ NoFault

\* backend-ready, from whichever process.
BackendReady(i) ==
  /\ procs[i].phase = "booting"
  /\ procs' = [procs EXCEPT ![i].phase = "ready"]
  /\ tries' = [tries EXCEPT !.count = 0]
  /\ UNCHANGED <<disk, cur, restarts, timer, overlap, builderVars, reported, missed>> /\ NoFault

\* A mistake to detect: a backend that stopped is still #backend.
BackendStopsUnseen(i) ==
  /\ procs[i].phase = "stopping"
  /\ procs' = [procs EXCEPT ![i].phase = "dead"]
  /\ UNCHANGED <<disk, cur, restarts, timer, tries, overlap, builderVars, reported, missed>> /\ NoFault

\* onExit of a backend that was told to stop.
BackendStops(i) ==
  /\ procs[i].phase = "stopping"
  /\ procs' = [procs EXCEPT ![i].phase = "dead"]
  /\ cur' = IF cur = i THEN 0 ELSE cur
  /\ UNCHANGED <<disk, restarts, timer, tries, overlap, builderVars, reported, missed>> /\ NoFault

\* onExit of another: #scheduleBackendRecovery, unless a backend or a recovery
\* is there; after RecoveryLimit attempts in a row the host gives up.
BackendCrashes(i) ==
  /\ i \in Live /\ Fault
  /\ procs' = [procs EXCEPT ![i].phase = "dead"]
  /\ cur' = IF cur = i THEN 0 ELSE cur
  /\ IF timer.recovery \/ cur' # 0 THEN UNCHANGED <<timer, tries>>
     ELSE IF tries.count >= RecoveryLimit
     THEN tries' = [tries EXCEPT !.gaveUp = TRUE] /\ UNCHANGED timer
     ELSE /\ tries' = [tries EXCEPT !.count = @ + 1]
          /\ timer' = [timer EXCEPT !.recovery = TRUE]
  /\ UNCHANGED <<disk, restarts, overlap, builderVars, reported, missed>>

\* The recovery timer: nothing to do if a backend is there, else the graph is
\* refreshed first.
RecoveryTimerFires ==
  /\ timer.recovery
  /\ timer' = [timer EXCEPT !.recovery = FALSE, !.refreshing = (cur = 0) \/ @]
  /\ IF cur = 0 THEN StarterBegins ELSE UNCHANGED overlap
  /\ UNCHANGED <<disk, procs, cur, restarts, tries, builderVars, reported, missed>> /\ NoFault

RecoveryGoesOn ==
  /\ timer.refreshing
  /\ timer' = [timer EXCEPT !.refreshing = FALSE]
  /\ IF cur = 0 THEN StartBackend(1) /\ tries' = [tries EXCEPT !.gaveUp = FALSE]
     ELSE UNCHANGED <<procs, cur, overlap, tries>>
  /\ UNCHANGED <<disk, restarts, builderVars, reported, missed>> /\ NoFault

\* #reviveBackendAfterGreenBuild.
Revive ==
  /\ tries.gaveUp /\ cur = 0 /\ ~timer.recovery /\ bh.watch = "all"
  /\ StartBackend(0)
  /\ tries' = [count |-> 0, gaveUp |-> FALSE]
  /\ UNCHANGED <<disk, restarts, timer, builderVars, reported, missed>> /\ NoFault

-----------------------------------------------------------------------------
(* Edits and the builder gap *)

\* An edit shows to a watcher, or in the stamp taken before it.  Neither is there
\* for one made while the host starts a builder after a failure or for a recycle;
\* a builder in degraded mode watches for the fix of its boot build only.
Edit ==
  /\ disk < MaxEdits
  /\ disk' = disk + 1
  /\ missed' = IF \/ bh.watch = "fix"
                  \/ bh.watch = "none" /\ gap = {} /\ mode \notin {"awake", "suspended", "waking"}
               THEN disk + 1 ELSE missed
  /\ UNCHANGED <<backendVars, builderVars, reported>> /\ NoFault

\* #handleWatchBatch: the builder reports what it has not seen yet.
WatchBatch ==
  /\ bh.watch = "all" /\ bh.seen < disk
  /\ bh' = [bh EXCEPT !.seen = disk]
  /\ reported' = TRUE
  /\ UNCHANGED <<disk, backendVars, mode, awaited, attempt, gap, missed>> /\ NoFault

Baseline == IF gap = {} THEN disk ELSE Max(gap)

\* What a departing builder had not reported is lost if the stamp is later.
BuilderGone == missed' = IF bh.watch = "all" /\ bh.seen < Baseline THEN Baseline ELSE missed

\* A mistake to detect: the latest stamp wins.
OpenGapAnew == gap' = {disk}

\* #openBuilderGap: the earliest stamp wins.
OpenGap == gap' = {Baseline}

\* A mistake to detect: the gap is discarded when a builder is back.
TakeGapUnread == gap' = {} /\ UNCHANGED timer

\* #takeBuilderGapChanges, and a restart if a stamped file moved.  The builder
\* watches by now: an edit during the awaits is reported, seen here or not, and a
\* gap opened during them is a new one.
TakeGap ==
  /\ gap' = {}
  /\ IF \E v \in gap : v < disk THEN ScheduleRestart ELSE UNCHANGED timer

\* #handleInvalidate for a file of the backend; the queue stands still while a
\* message before it recycles the children.
HandleInvalidate ==
  /\ reported /\ mode \notin {"stopping", "recycling"}
  /\ reported' = FALSE
  /\ ScheduleRestart
  /\ UNCHANGED <<disk, procs, cur, restarts, tries, overlap, builderVars, missed>> /\ NoFault

-----------------------------------------------------------------------------
(* The builder *)

Stopped == [status |-> "stopped", proc |-> FALSE, ready |-> FALSE, watch |-> "none", seen |-> 0]
Spawned(status) == [Stopped EXCEPT !.status = status, !.proc = TRUE]

\* Attempt n of #startBuilder.
StartBuilder(n) == attempt' = n /\ bh' = Spawned("starting")

\* builder-ready, also from a builder whose boot build failed.  After a
\* replacement, a wake and a recovery the gap is examined; after a recycle of
\* both children the backend is started, whatever runs by now, and after a
\* recovery if none does.
BuilderReady(degraded) ==
  LET recycled == mode \in {"recycling", "reloading"}
  IN /\ bh.proc /\ ~bh.ready
     /\ IF degraded THEN Fault ELSE NoFault
     /\ bh' = [bh EXCEPT !.status = "ready", !.ready = TRUE, !.seen = disk,
                         !.watch = IF degraded THEN "fix" ELSE "all"]
     /\ attempt' = 0
     /\ mode' = IF bh.status = "starting" THEN "awake" ELSE mode
     /\ IF recycled THEN UNCHANGED <<gap, timer>> ELSE TakeGap
     /\ IF recycled \/ (mode = "recovering" /\ cur = 0 /\ ~timer.recovery)
        THEN StartBackend(IF recycled THEN 1 ELSE 0) /\ tries' = [tries EXCEPT !.gaveUp = FALSE]
        ELSE UNCHANGED <<procs, cur, overlap, tries>>
     /\ UNCHANGED <<disk, restarts, awaited, reported, missed>>

\* #recoverBoot: an edit made the boot build pass.
FixBuild ==
  /\ bh.watch = "fix"
  /\ bh' = [bh EXCEPT !.watch = "all", !.seen = disk]
  /\ UNCHANGED <<disk, backendVars, mode, awaited, attempt, gap, reported, missed>> /\ NoFault

\* onExit of a ready builder: the gap opens (onAway).  After a recycle the
\* replacement is spawned at once, after a crash a timer does it.
ReadyBuilderExits ==
  /\ bh.proc /\ bh.ready
  /\ IF bh.status = "ready" THEN Fault ELSE NoFault
  /\ BuilderGone /\ OpenGap
  /\ bh' = IF bh.status = "recycling" THEN Spawned("restarting")
           ELSE [Stopped EXCEPT !.status = "restarting"]
  /\ UNCHANGED <<disk, backendVars, mode, awaited, attempt, reported>>

\* The timer of #scheduleRestart.
RestartTimer ==
  /\ bh.status = "restarting" /\ ~bh.proc
  /\ bh' = Spawned("restarting")
  /\ UNCHANGED <<disk, backendVars, mode, awaited, attempt, gap, reported, missed>> /\ NoFault

\* A replacement exits before it is ready, and is not replaced itself.
ReplacementFails ==
  /\ bh.status = "restarting" /\ bh.proc /\ Fault
  /\ bh' = Stopped
  /\ UNCHANGED <<disk, backendVars, mode, awaited, attempt, gap, reported, missed>>

\* The builder that #startBuilder waits for fails: the next attempt, or the host
\* is left without one.  A failed recycle starts the backend alone.
StartFails ==
  /\ attempt > 0 /\ Fault
  /\ IF attempt < StartAttempts
     THEN StartBuilder(attempt + 1) /\ UNCHANGED <<mode, procs, cur, overlap, tries>>
     ELSE /\ attempt' = 0 /\ bh' = Stopped /\ mode' = "down"
          /\ IF mode = "recycling" /\ cur = 0
             THEN StartBackend(1) /\ tries' = [tries EXCEPT !.gaveUp = FALSE]
             ELSE UNCHANGED <<procs, cur, overlap, tries>>
  /\ UNCHANGED <<disk, restarts, timer, awaited, gap, reported, missed>>

\* The timer of #scheduleBuilderRecovery.
RecoverBuilder ==
  /\ mode = "down"
  /\ mode' = "recovering" /\ StartBuilder(1)
  /\ UNCHANGED <<disk, backendVars, awaited, gap, reported, missed>> /\ NoFault

\* #recycleBuilderForRss: the builder drains, and goes on watching meanwhile.
Recycle ==
  /\ bh.status = "ready" /\ bh.watch = "all" /\ mode = "awake" /\ ~timer.restart /\ Fault
  /\ bh' = [bh EXCEPT !.status = "recycling"]
  /\ OpenGap
  /\ UNCHANGED <<disk, backendVars, mode, awaited, attempt, reported, missed>>

-----------------------------------------------------------------------------
(* Recycles of both children, suspend and wake *)

\* #recycleDevChildren: its timers are cleared and the backend is stopped.
StopForRecycle(stage) ==
  /\ mode' = stage
  /\ timer' = [timer EXCEPT !.restart = FALSE, !.recovery = FALSE]
  /\ procs' = Stopping(cur) /\ awaited' = cur /\ StarterBegins
  /\ UNCHANGED <<disk, cur, restarts, tries, bh, attempt>>

\* #handleInvalidate for runtime metadata or the configuration.
RecycleChildren ==
  /\ reported /\ mode \in {"awake", "down"}
  /\ reported' = FALSE
  /\ StopForRecycle("stopping")
  /\ UNCHANGED <<gap, missed>> /\ NoFault

\* The backend has exited: the builder is stopped, and started anew.
BackendStopped ==
  /\ mode \in {"stopping", "halting"}
  /\ Exited(awaited)
  /\ mode' = IF mode = "stopping" THEN "recycling" ELSE "reloading"
  /\ BuilderGone /\ StartBuilder(1) /\ awaited' = 0
  /\ UNCHANGED <<disk, backendVars, gap, reported>> /\ NoFault

\* #suspendWhenIdle, which does not look again at what decideIdleSuspend saw
\* before the idle watcher was installed.
Suspend ==
  /\ mode = "awake" /\ bh.status # "stopped" /\ bh.watch # "fix" /\ Fault
  /\ mode' = "suspended"
  /\ BuilderGone /\ OpenGap
  /\ bh' = Stopped
  /\ UNCHANGED <<disk, backendVars, awaited, attempt, reported>>

\* The idle watcher, or a request that needs the builder.
Wake ==
  /\ mode = "suspended"
  /\ mode' = "waking" /\ StartBuilder(1)
  /\ UNCHANGED <<disk, backendVars, awaited, gap, reported, missed>> /\ NoFault

\* An edit of the configuration: the gap is discarded, both children recycled.
WakeForConfig ==
  /\ mode = "suspended"
  /\ gap' = {}
  /\ StopForRecycle("halting")
  /\ UNCHANGED <<reported, missed>> /\ NoFault

-----------------------------------------------------------------------------
Init ==
  /\ disk = 1
  /\ procs = <<[phase |-> "booting", version |-> 1]>> /\ cur = 1
  /\ restarts = << >>
  /\ timer = [restart |-> FALSE, recovery |-> FALSE, refreshing |-> FALSE]
  /\ tries = [count |-> 0, gaveUp |-> FALSE]
  /\ bh = [status |-> "ready", proc |-> TRUE, ready |-> TRUE, watch |-> "all", seen |-> 1]
  /\ mode = "awake" /\ awaited = 0 /\ attempt = 0
  /\ gap = {} /\ reported = FALSE
  /\ faults = 0 /\ missed = 0 /\ overlap = FALSE

Next ==
  \/ RestartTimerFires \/ RecoveryTimerFires \/ RecoveryGoesOn \/ Revive
  \/ \E c \in DOMAIN restarts : RestartGoesOn(c)
  \/ \E i \in DOMAIN procs : BackendReady(i) \/ BackendStops(i) \/ BackendCrashes(i)
  \/ Edit \/ WatchBatch \/ HandleInvalidate \/ RecycleChildren
  \/ \E degraded \in BOOLEAN : BuilderReady(degraded)
  \/ FixBuild \/ ReadyBuilderExits \/ RestartTimer \/ ReplacementFails \/ StartFails
  \/ RecoverBuilder \/ Recycle \/ BackendStopped
  \/ Suspend \/ Wake \/ WakeForConfig

Spec == Init /\ [][Next]_vars

\* The host's timers and calls end, a backend told to stop exits (it is killed
\* after a while), and a healthy builder boots and reports what it sees.
Fairness ==
  /\ WF_vars(RestartTimerFires \/ RecoveryTimerFires \/ RecoveryGoesOn)
  /\ WF_vars(\E c \in DOMAIN restarts : RestartGoesOn(c))
  /\ WF_vars(\E i \in DOMAIN procs : BackendStops(i))
  /\ WF_vars(WatchBatch \/ HandleInvalidate \/ RecycleChildren)
  /\ WF_vars(BuilderReady(FALSE) \/ RestartTimer \/ RecoverBuilder)
  /\ WF_vars(bh.status = "recycling" /\ ReadyBuilderExits)
  /\ WF_vars(BackendStopped)
  /\ WF_vars((\E v \in gap : v < disk) /\ (Wake \/ WakeForConfig))

FairSpec == Spec /\ Fairness

-----------------------------------------------------------------------------
(* Properties *)

TypeOK ==
  /\ \A i \in DOMAIN procs : procs[i] \in [phase : {"booting", "ready", "stopping", "dead"}, version : 1..disk]
  /\ cur \in 0..Len(procs) /\ (cur = 0 \/ cur \in Alive)
  /\ \A c \in DOMAIN restarts : restarts[c] \in 0..Len(procs)
  /\ timer \in [restart : BOOLEAN, recovery : BOOLEAN, refreshing : BOOLEAN]
  /\ tries \in [count : 0..RecoveryLimit, gaveUp : BOOLEAN]
  /\ bh.seen \in 0..disk
  /\ mode \in {"awake", "suspended", "waking", "stopping", "recycling", "halting", "reloading", "down", "recovering"}
  /\ (attempt > 0) = (bh.status = "starting") /\ attempt \in 0..StartAttempts
  /\ gap \subseteq 1..disk /\ Cardinality(gap) <= 1

\* Two backend processes at once need two calls that end in #startBackend to
\* have been under way at once: neither #restartBackend nor #recycleDevChildren
\* looks again whether a backend is there (akanApp.host.ts:898,1608), and
\* everything else that starts one does.
TwinsNeedOverlap == Cardinality(Alive) > 1 => overlap

\* Something under way will replace the current backend, or tell that it must be.
Noticed ==
  \/ reported \/ (bh.watch = "all" /\ bh.seen < disk)
  \/ timer.restart \/ restarts # << >>
  \/ mode \in {"stopping", "recycling", "halting", "reloading"}
  \/ \E v \in gap : v < disk

\* A backend that runs older files than are on disk is about to be noticed,
\* unless the edit met neither a watcher nor a stamp: timers cleared by a
\* recycle, restarts that overtake each other and gaps opened and taken around
\* them lose no other edit.
StaleBackendIsNoticed ==
  cur \in Live /\ procs[cur].version < disk => Noticed \/ procs[cur].version < missed

\* The builder is gone and only an edit or a request, or nothing, brings it back.
Stranded == bh.status = "stopped" /\ mode = "awake"

\* Every edit reaches the backend in the end: what runs is what is on disk, or
\* the host gave up on it, a replacement builder died before it was ready, or
\* the edit was missed.
BackendCatchesUp ==
  []<>(\/ cur \in Live /\ procs[cur].version \in {disk} \union 0..missed
       \/ tries.gaveUp \/ Stranded)
=============================================================================
