-------------------------- MODULE ServerLifecycle --------------------------
(***************************************************************************)
(* The life of one child process (AkanServer and ShutdownManager): boot,   *)
(* serving, and the stop that its parent's shutdown message, the loss of   *)
(* the parent, a signal or an uncaught exception asks for.  Several of     *)
(* them may ask: each calls stop() and exits the process when that call    *)
(* settles.  stop() destroys the container in stages; the adaptors' stage  *)
(* waits for the job that the queue worker is running.                     *)
(*                                                                         *)
(* A call of stop() that finds the server not running returns at once, and *)
(* its caller exits in the same turn of the event loop: one step.  So is   *)
(* the exit that follows the last stage.  Delays are abstract: a timer may *)
(* fire at any moment.  The names that every specification has begin with  *)
(* Life here, so that the proofs about both ends of a stop can extend this *)
(* module and ChildSupervisor.                                             *)
(***************************************************************************)
EXTENDS Integers

CONSTANTS
  Stages,      \* the stages of destroyAll
  QueueStage,  \* the one that closes the queue's worker
  MaxRequests, \* bound: requests to stop
  MaxJobs      \* bound: jobs the worker claims

ASSUME LifecycleAssumption ==
  /\ Stages \in Nat \ {0}
  /\ QueueStage \in 1 .. Stages
  /\ MaxRequests \in Nat /\ MaxJobs \in Nat

VARIABLES
  status,    \* AkanServer.status
  ipc,       \* #registerParentIpc has been called
  managed,   \* ShutdownManager.register has been called
  connected, \* the parent is there
  stage,     \* stages of destroyAll that are over
  code,      \* exit code of the caller whose stop() does the work
  watchdog,  \* the timer of #handleParentDisconnect
  job,       \* the queue worker runs a handler
  exit,      \* how the process ended, "no" while it lives
  requests,  \* history: requests to stop that reached the process
  heard,     \* history: of them, the ones that were listened to
  crashed,   \* history: an exception was caught
  jobs       \* jobs so far

history == <<requests, heard, crashed>>
lifeVars == <<status, ipc, managed, connected, stage, code, watchdog, job, exit, history, jobs>>

LifeInit ==
  /\ status = "initializing"
  /\ ipc = FALSE
  /\ managed = FALSE
  /\ connected = TRUE
  /\ stage = 0
  /\ code = "none"
  /\ watchdog = FALSE
  /\ job = FALSE
  /\ exit = "no"
  /\ requests = 0
  /\ heard = 0
  /\ crashed = FALSE
  /\ jobs = 0

Alive == exit = "no"

----------------------------------------------------------------------------
(* Boot *)

(* init() has ended; start() and listen() register the parent's messages,  *)
(* set the status and send "ready" in one turn.                            *)
Listen ==
  /\ Alive /\ status = "initializing"
  /\ status' = "running"
  /\ ipc' = TRUE
  /\ UNCHANGED <<managed, connected, stage, code, watchdog, job, exit, history, jobs>>

(* runSchedulerInit settles, also when the server is stopping by then. *)
SchedulerReady ==
  /\ Alive /\ ipc /\ ~managed
  /\ managed' = TRUE
  /\ UNCHANGED <<status, ipc, connected, stage, code, watchdog, job, exit, history, jobs>>

(* init() or runSchedulerInit throws, and start() with it. *)
BootFails ==
  /\ Alive /\ ~managed
  /\ exit' = "1"
  /\ UNCHANGED <<status, ipc, managed, connected, stage, code, watchdog, job, history, jobs>>

----------------------------------------------------------------------------
(* stop() called by someone who exits with c when it succeeds.             *)

Stop(c) ==
  IF status = "running"
  THEN /\ status' = "stopping"
       /\ code' = c
       /\ UNCHANGED <<stage, exit>>
  ELSE /\ exit' = c
       /\ UNCHANGED <<status, code, stage>>

Request == Alive /\ requests < MaxRequests /\ requests' = requests + 1

Ends(e) == exit' = e /\ UNCHANGED <<status, code, stage>>

(* #handleIpcMessage; nobody listens before the boot is over. *)
ShutdownMessage ==
  /\ Request
  /\ connected
  /\ IF ipc THEN Stop("0") ELSE UNCHANGED <<status, code, stage, exit>>
  /\ heard' = heard + (IF ipc THEN 1 ELSE 0)
  /\ UNCHANGED <<ipc, managed, connected, watchdog, job, crashed, jobs>>

(* #handleParentDisconnect *)
ParentDisconnects ==
  /\ Request
  /\ connected
  /\ connected' = FALSE
  /\ IF ipc THEN Stop("0") ELSE UNCHANGED <<status, code, stage, exit>>
  /\ watchdog' = ipc
  /\ heard' = heard + (IF ipc THEN 1 ELSE 0)
  /\ UNCHANGED <<ipc, managed, job, crashed, jobs>>

(* SIGTERM or SIGINT; before ShutdownManager.register it ends the process. *)
Signal ==
  /\ Request
  /\ IF managed THEN Stop("0") ELSE Ends("signal")
  /\ heard' = heard + 1
  /\ UNCHANGED <<ipc, managed, connected, watchdog, job, crashed, jobs>>

(* uncaughtException, unhandledRejection *)
Exception ==
  /\ Request
  /\ IF managed THEN Stop("1") ELSE Ends("1")
  /\ heard' = heard + 1
  /\ crashed' = TRUE
  /\ UNCHANGED <<ipc, managed, connected, watchdog, job, jobs>>

----------------------------------------------------------------------------
(* The worker claims jobs until the queue adaptor closes it, also while    *)
(* the earlier stages of a stop are under way.                             *)

ClaimsJob ==
  /\ Alive /\ ipc /\ ~job /\ jobs < MaxJobs
  /\ stage + 1 < QueueStage \/ status = "running"
  /\ job' = TRUE
  /\ jobs' = jobs + 1
  /\ UNCHANGED <<status, ipc, managed, connected, stage, code, watchdog, exit, history>>

JobEnds ==
  /\ Alive /\ job
  /\ job' = FALSE
  /\ UNCHANGED <<status, ipc, managed, connected, stage, code, watchdog, exit, history, jobs>>

----------------------------------------------------------------------------
(* destroyAll: failing hooks are logged, so a stage ends when all of its   *)
(* hooks have settled, if ever.                                            *)

\* A mistake to detect: the worker is not waited for.
StageOverAtOnce == TRUE

StageOver == stage + 1 = QueueStage => ~job

DestroyStage ==
  /\ Alive /\ status = "stopping" /\ stage < Stages
  /\ StageOver
  /\ stage' = stage + 1
  /\ UNCHANGED <<status, ipc, managed, connected, code, watchdog, job, exit, history, jobs>>

Destroyed ==
  /\ Alive /\ status = "stopping" /\ stage = Stages
  /\ status' = "stopped"
  /\ exit' = code
  /\ UNCHANGED <<ipc, managed, connected, stage, code, watchdog, job, history, jobs>>

\* A mistake to detect: the timeout is armed when everything is destroyed.
TimeoutAfterStages ==
  /\ Alive /\ status = "stopping" /\ stage = Stages
  /\ status' = "stopped"
  /\ exit' = "1"
  /\ UNCHANGED <<ipc, managed, connected, stage, code, watchdog, job, history, jobs>>

(* #withShutdownTimeout rejects; every caller exits with 1. *)
ShutdownTimeout ==
  /\ Alive /\ status = "stopping"
  /\ status' = "stopped"
  /\ exit' = "1"
  /\ UNCHANGED <<ipc, managed, connected, stage, code, watchdog, job, history, jobs>>

Watchdog ==
  /\ Alive /\ watchdog
  /\ exit' = "1"
  /\ UNCHANGED <<status, ipc, managed, connected, stage, code, watchdog, job, history, jobs>>

LifeNext ==
  \/ Listen \/ SchedulerReady \/ BootFails
  \/ ShutdownMessage \/ ParentDisconnects \/ Signal \/ Exception
  \/ ClaimsJob \/ JobEnds
  \/ DestroyStage \/ Destroyed \/ ShutdownTimeout \/ Watchdog

LifeSpec == LifeInit /\ [][LifeNext]_lifeVars

(* Only timers are relied on: hooks and handlers may never settle. *)
FairLife == LifeSpec /\ WF_lifeVars(ShutdownTimeout) /\ WF_lifeVars(Watchdog)

----------------------------------------------------------------------------
LifeTypeOK ==
  /\ status \in {"initializing", "running", "stopping", "stopped"}
  /\ ipc \in BOOLEAN /\ managed \in BOOLEAN /\ connected \in BOOLEAN
  /\ stage \in 0 .. Stages
  /\ code \in {"none", "0", "1"}
  /\ watchdog \in BOOLEAN
  /\ job \in BOOLEAN
  /\ exit \in {"no", "0", "1", "signal"}
  /\ requests \in 0 .. MaxRequests
  /\ heard \in 0 .. MaxRequests
  /\ crashed \in BOOLEAN
  /\ jobs \in 0 .. MaxJobs

(* A process that was asked to stop once and reports success has destroyed *)
(* its whole container and cut no job short.                               *)
SuccessIsComplete ==
  exit = "0" /\ heard = 1 => stage = Stages /\ ~job

(* An exception is reported as a failure unless some other request to stop *)
(* came as well.                                                           *)
CrashIsReported == crashed /\ heard = 1 => exit # "0"

(* When one request alone was heard, the exit code tells what became of it. *)
ExitCodeIsTrue == SuccessIsComplete /\ CrashIsReported

(* Whoever asks a process that listens to stop gets it to exit, though     *)
(* hooks and handlers hang.                                                *)
RequestsEnd == heard > 0 ~> exit # "no"
=============================================================================
