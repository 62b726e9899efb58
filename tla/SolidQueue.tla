----------------------------- MODULE SolidQueue -----------------------------
(***************************************************************************)
(* The SQLite-backed job queue (class SolidQueue) shared by the replicas   *)
(* of an application.  Each replica has one worker for a job name; a       *)
(* worker claims a row in an immediate transaction, which leases it for    *)
(* queueLeaseMs, awaits the handler, and then writes the outcome to the    *)
(* row by its id.  Claims and writes of different replicas interleave with *)
(* each other, with expiring leases and with replicas that stop, crash and *)
(* come back.                                                              *)
(*                                                                         *)
(* Jobs of different names never meet (every statement and every worker is *)
(* for one name), so all jobs here have the same name.  Time is abstract:  *)
(* a delay or a lease that has not run out may run out at any moment.      *)
(***************************************************************************)
EXTENDS Integers, FiniteSets

CONSTANTS
  Job,          \* jobs that may be enqueued
  Replica,      \* processes working on the queue
  MaxAttempts,  \* options.attempts of each job
  Priority,     \* options.priority of each job
  MaxFaults     \* bound: crashes, stops, failed writes and overruns

ASSUME QueueAssumption ==
  /\ MaxAttempts \in [Job -> Nat \ {0}]
  /\ Priority \in [Job -> Nat]
  /\ MaxFaults \in Nat

VARIABLES
  row,       \* the jobs table
  clock,     \* createdAt of the last row
  mode,      \* the process and its worker: "up", "closing", "closed", "down"
  running,   \* SolidWorker.#running
  active,    \* handler invocations in progress in each process
  succeeded, \* history: handler runs of each job that returned
  lost,      \* history: runs of each job that a crash cut off
  overran,   \* history: jobs whose handler was still running at its lease's end
  faults     \* faults so far

history == <<succeeded, lost, overran>>
vars == <<row, clock, mode, running, active, history, faults>>

Settled == {"completed", "failed"}

(* A row; due: runAt has passed; lease: of lockedUntil. *)
Row ==
  [status : {"absent", "pending", "running"} \union Settled,
   attempts : Nat, created : Nat, due : BOOLEAN,
   lease : {"none", "held", "expired"}]

(* What claimJob returns. *)
Claim == [job : Job, attempt : Nat]

Init ==
  /\ row = [j \in Job |-> [status |-> "absent", attempts |-> 0, created |-> 0,
                           due |-> FALSE, lease |-> "none"]]
  /\ clock = 0
  /\ mode = [p \in Replica |-> "up"]
  /\ running = [p \in Replica |-> FALSE]
  /\ active = [p \in Replica |-> {}]
  /\ succeeded = [j \in Job |-> 0]
  /\ lost = [j \in Job |-> 0]
  /\ overran = {}
  /\ faults = 0

Fault == faults < MaxFaults /\ faults' = faults + 1

----------------------------------------------------------------------------
(* registerProcessQueue; several rows may be created in one millisecond.   *)
Enqueue(j) ==
  /\ row[j].status = "absent"
  /\ \E p \in Replica : mode[p] = "up"
  /\ \E now \in {clock, clock + 1}, due \in BOOLEAN :
       /\ clock' = now
       /\ row' = [row EXCEPT ![j] = [status |-> "pending", attempts |-> 0,
                                     created |-> now, due |-> due, lease |-> "none"]]
  /\ UNCHANGED <<mode, running, active, history, faults>>

BecomesDue(j) ==
  /\ row[j].status = "pending"
  /\ ~row[j].due
  /\ row' = [row EXCEPT ![j].due = TRUE]
  /\ UNCHANGED <<clock, mode, running, active, history, faults>>

Runs(p, j) == \E c \in active[p] : c.job = j

(* The lease of a dead claimant, or of one that takes its time. *)
LeaseExpires(j) ==
  /\ row[j].lease = "held"
  /\ row' = [row EXCEPT ![j].lease = "expired"]
  /\ IF \E p \in Replica : Runs(p, j)
     THEN Fault /\ overran' = overran \union {j}
     ELSE UNCHANGED <<faults, overran>>
  /\ UNCHANGED <<clock, mode, running, active, succeeded, lost>>

----------------------------------------------------------------------------
(* claimJob *)

\* A mistake to detect: any running row may be claimed again.
ClaimsLeased(j) ==
  /\ row[j].due
  /\ row[j].status \in {"pending", "running"}

\* A mistake to detect: the rows of crashed workers are never taken up.
ClaimsPendingOnly(j) == row[j].due /\ row[j].status = "pending"

\* A mistake to detect: a job that has failed for good is claimed again.
ClaimsFailedToo(j) ==
  /\ row[j].due
  /\ \/ row[j].status \in {"pending", "failed"}
     \/ row[j].status = "running" /\ row[j].lease = "expired"

(* The WHERE of the claim statement. *)
Claimable(j) ==
  /\ row[j].due
  /\ \/ row[j].status = "pending"
     \/ row[j].status = "running" /\ row[j].lease = "expired"

(* ORDER BY priority DESC, createdAt ASC *)
Before(j, k) ==
  \/ Priority[j] > Priority[k]
  \/ Priority[j] = Priority[k] /\ row[j].created < row[k].created

First(j) == Claimable(j) /\ \A k \in Job : Claimable(k) => ~Before(k, j)

ClaimJob(p, j) ==
  /\ First(j)
  /\ row' = [row EXCEPT ![j].status = "running", ![j].attempts = @ + 1,
                        ![j].lease = "held"]
  /\ active' = [active EXCEPT ![p] =
                  @ \union {[job |-> j, attempt |-> row[j].attempts + 1]}]

NothingToClaim == \A j \in Job : ~Claimable(j)

----------------------------------------------------------------------------
(* SolidWorker.pump, by its timer or by wake(); a pump that claims nothing *)
(* leaves no trace.                                                        *)

\* A mistake to detect: a wake-up pumps beside the pump already running.
PumpBesidePump(p, j) ==
  /\ mode[p] = "up"
  /\ ClaimJob(p, j)
  /\ running' = [running EXCEPT ![p] = TRUE]
  /\ UNCHANGED <<clock, mode, history, faults>>

Pump(p, j) ==
  /\ mode[p] = "up"
  /\ ~running[p]
  /\ ClaimJob(p, j)
  /\ running' = [running EXCEPT ![p] = TRUE]
  /\ UNCHANGED <<clock, mode, history, faults>>

(* The loop of a pump goes on after a job has been run. *)
PumpAgain(p, j) ==
  /\ running[p]
  /\ active[p] = {}
  /\ mode[p] = "up"
  /\ ClaimJob(p, j)
  /\ UNCHANGED <<clock, mode, running, history, faults>>

PumpReturns(p) ==
  /\ running[p]
  /\ active[p] = {}
  /\ mode[p] = "closing" \/ NothingToClaim
  /\ running' = [running EXCEPT ![p] = FALSE]
  /\ UNCHANGED <<row, clock, mode, active, history, faults>>

----------------------------------------------------------------------------
(* runJob, once the handler's promise is settled: each outcome is written  *)
(* in the turn of the event loop that resumes it.                          *)

JobCompletes(p, c) ==
  /\ c \in active[p]
  /\ active' = [active EXCEPT ![p] = @ \ {c}]
  /\ succeeded' = [succeeded EXCEPT ![c.job] = @ + 1]
  /\ row' = [row EXCEPT ![c.job].status = "completed", ![c.job].lease = "none"]
  /\ UNCHANGED <<clock, mode, running, lost, overran, faults>>

\* A mistake to detect: one retry too many.
FailedLate(j) == row[j].attempts > MaxAttempts[j]
\* A mistake to detect: the first failure is final.
FailedAtOnce(j) == TRUE

Failed(j) == row[j].attempts >= MaxAttempts[j]

\* A mistake to detect: a status that the claim statement does not know.
RetryStatusUnknown(j) ==
  row' = [row EXCEPT ![j].status = IF Failed(j) THEN "failed" ELSE "delayed",
                     ![j].lease = "none"]

(* The catch block.  The row may be claimed by another worker by now; its  *)
(* own attempts are read, and the row is written all the same.             *)
RecordFailure(j) ==
  \E due \in BOOLEAN :
    row' = [row EXCEPT ![j].status = IF Failed(j) THEN "failed" ELSE "pending",
                       ![j].due = due, ![j].lease = "none"]

JobFails(p, c) ==
  /\ c \in active[p]
  /\ active' = [active EXCEPT ![p] = @ \ {c}]
  /\ RecordFailure(c.job)
  /\ UNCHANGED <<clock, mode, running, history, faults>>

(* The handler returned but writing "completed" failed (the database stays *)
(* locked beyond its busy timeout): the same catch block runs.             *)
CompletionWriteFails(p, c) ==
  /\ c \in active[p]
  /\ Fault
  /\ active' = [active EXCEPT ![p] = @ \ {c}]
  /\ succeeded' = [succeeded EXCEPT ![c.job] = @ + 1]
  /\ RecordFailure(c.job)
  /\ UNCHANGED <<clock, mode, running, lost, overran>>

----------------------------------------------------------------------------
(* onDestroy closes the worker, which finishes the job it is running, and  *)
(* then the database; the process is replaced by the gateway.              *)

CloseBegin(p) ==
  /\ mode[p] = "up"
  /\ Fault
  /\ mode' = [mode EXCEPT ![p] = "closing"]
  /\ UNCHANGED <<row, clock, running, active, history>>

CloseEnd(p) ==
  /\ mode[p] = "closing"
  /\ ~running[p]
  /\ mode' = [mode EXCEPT ![p] = "closed"]
  /\ UNCHANGED <<row, clock, running, active, history, faults>>

(* The process dies, at any point.  When a claim or the catch block throws *)
(* it shuts down first, for the unhandled rejection, and exits with 1: that *)
(* is a death later in the same stop.                                      *)
Crash(p) ==
  /\ mode[p] \in {"up", "closing"}
  /\ Fault
  /\ mode' = [mode EXCEPT ![p] = "down"]
  /\ running' = [running EXCEPT ![p] = FALSE]
  /\ active' = [active EXCEPT ![p] = {}]
  /\ lost' = [j \in Job |-> lost[j] + Cardinality({c \in active[p] : c.job = j})]
  /\ UNCHANGED <<row, clock, succeeded, overran>>

Restart(p) ==
  /\ mode[p] \in {"closed", "down"}
  /\ mode' = [mode EXCEPT ![p] = "up"]
  /\ UNCHANGED <<row, clock, running, active, history, faults>>

----------------------------------------------------------------------------
Ends(p) ==
  \E c \in active[p] : JobCompletes(p, c) \/ JobFails(p, c) \/ CompletionWriteFails(p, c)

Next ==
  \/ \E j \in Job : Enqueue(j) \/ BecomesDue(j) \/ LeaseExpires(j)
  \/ \E p \in Replica :
       \/ \E j \in Job : Pump(p, j) \/ PumpAgain(p, j)
       \/ PumpReturns(p) \/ Ends(p)
       \/ CloseBegin(p) \/ CloseEnd(p) \/ Crash(p) \/ Restart(p)

Spec == Init /\ [][Next]_vars

(* The poll timer of each worker fires, pumps go on, delays and leases run *)
(* out, handlers settle, closing and restarting finish.                    *)
Fairness ==
  /\ \A j \in Job : WF_vars(BecomesDue(j)) /\ WF_vars(LeaseExpires(j))
  /\ \A p \in Replica :
       /\ WF_vars(\E j \in Job : Pump(p, j) \/ PumpAgain(p, j))
       /\ WF_vars(PumpReturns(p)) /\ WF_vars(Ends(p))
       /\ WF_vars(CloseEnd(p)) /\ WF_vars(Restart(p))

FairSpec == Spec /\ Fairness

----------------------------------------------------------------------------
TypeOK ==
  /\ row \in [Job -> Row]
  /\ clock \in Nat
  /\ mode \in [Replica -> {"up", "closing", "closed", "down"}]
  /\ running \in [Replica -> BOOLEAN]
  /\ active \in [Replica -> SUBSET Claim]
  /\ succeeded \in [Job -> Nat]
  /\ lost \in [Job -> Nat]
  /\ overran \subseteq Job
  /\ faults \in Nat

(* While the handlers of a job keep within their lease, no two of its      *)
(* invocations overlap, in one process or in two, and its row says         *)
(* "running" for as long as one is in progress.                            *)
ExclusiveRun ==
  \A j \in Job \ overran :
    /\ \A p, q \in Replica : Runs(p, j) /\ Runs(q, j) => p = q
    /\ \A p \in Replica : Runs(p, j) => row[j].status = "running"

(* A process runs one job of a name at a time, however often its worker is *)
(* woken or polled, and holds it only while its pump is running.           *)
OneHandlerPerWorker ==
  \A p \in Replica :
    /\ Cardinality(active[p]) <= 1
    /\ active[p] # {} => running[p]

(* A graceful stop lets the running handler finish: the database is never  *)
(* closed under it.                                                        *)
StopDrainsHandlers ==
  \A p \in Replica : mode[p] \in {"closed", "down"} => active[p] = {}

(* A worker has one job at a time, and none when its database is closed.   *)
WorkersInOrder == OneHandlerPerWorker /\ StopDrainsHandlers

(* A job goes beyond its attempts only by runs that a crash cut off, or by *)
(* as many as were claimed from a worker that overran.                     *)
AttemptsWithinBudget ==
  \A j \in Job :
    row[j].attempts <= MaxAttempts[j] + (IF j \in overran THEN faults ELSE lost[j])

(* A job is given up only when its budget is used up, and reported done    *)
(* only when a run of its handler returned.                                *)
SettledForAReason ==
  \A j \in Job :
    /\ row[j].status = "failed" => row[j].attempts >= MaxAttempts[j]
    /\ row[j].status = "completed" => succeeded[j] > 0

(* The attempts of a job, and what is said of it in the end, are accounted *)
(* for by the runs of its handler.                                         *)
BudgetsKept == AttemptsWithinBudget /\ SettledForAReason

(* A worker is late when its row has been claimed again, or settled, since *)
(* it claimed it.                                                          *)
Late(c) == row[c.job].attempts # c.attempt \/ row[c.job].status # "running"

(* A settled job changes again only by the hand of a late worker, so never *)
(* when its handlers kept within their lease.                              *)
OnlyLateWorkersReopen ==
  [][\A j \in Job : row[j].status \in Settled /\ row'[j] # row[j] =>
       /\ j \in overran
       /\ \E p \in Replica : \E c \in active[p] :
            c.job = j /\ Late(c) /\ c \notin active'[p]]_vars

(* Every job that was enqueued settles in the end, whatever crashes, stops *)
(* and overruns happened on the way.                                       *)
EveryJobSettles ==
  \A j \in Job : row[j].status = "pending" ~> row[j].status \in Settled

----------------------------------------------------------------------------
(* The queue keeps the promise of JobLedger.  A row left "running" by a    *)
(* process that died is still running to the ledger until its lease runs   *)
(* out.                                                                    *)
PhaseOf(j) ==
  IF j \in overran THEN "void"
  ELSE IF \/ row[j].status = "pending"
          \/ row[j].status = "running" /\ row[j].lease = "expired"
  THEN "queued" ELSE row[j].status

RunsOf(j) == IF j \in overran THEN 0 ELSE row[j].attempts

LedgerPhase == [j \in Job |-> PhaseOf(j)]
LedgerRuns == [j \in Job |-> RunsOf(j)]

Ledger == INSTANCE JobLedger
  WITH phase <- LedgerPhase, runs <- LedgerRuns, Budget <- MaxAttempts

KeepsLedger == Ledger!Spec
=============================================================================
