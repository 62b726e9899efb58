----------------------------- MODULE JobLedger -----------------------------
(***************************************************************************)
(* What a job queue promises about each job, whoever works on it: a queued *)
(* job is run by one worker at a time until a run succeeds or its budget   *)
(* of attempts is used up; a run that is lost with its process puts the    *)
(* job back; what has settled stays settled.  A run that outlives the time *)
(* its worker was given voids the promise for its job.                     *)
(***************************************************************************)
EXTENDS Naturals

CONSTANTS
  Job,     \* jobs
  Budget   \* attempts each job is allowed

VARIABLES
  phase,  \* where each job is
  runs    \* runs each job has begun

ledger == <<phase, runs>>

Init ==
  /\ phase = [j \in Job |-> "absent"]
  /\ runs = [j \in Job |-> 0]

Queue(j) ==
  /\ phase[j] = "absent"
  /\ phase' = [phase EXCEPT ![j] = "queued"]
  /\ UNCHANGED runs

Run(j) ==
  /\ phase[j] = "queued"
  /\ phase' = [phase EXCEPT ![j] = "running"]
  /\ runs' = [runs EXCEPT ![j] = @ + 1]

Succeed(j) ==
  /\ phase[j] = "running"
  /\ phase' = [phase EXCEPT ![j] = "completed"]
  /\ UNCHANGED runs

(* A failed run is repeated while the budget lasts, and only then. *)
Fail(j) ==
  /\ phase[j] = "running"
  /\ phase' = [phase EXCEPT ![j] = IF runs[j] < Budget[j] THEN "queued" ELSE "failed"]
  /\ UNCHANGED runs

(* The worker is gone; nobody knows how the run ended. *)
Lose(j) ==
  /\ phase[j] = "running"
  /\ phase' = [phase EXCEPT ![j] = "queued"]
  /\ UNCHANGED runs

(* The run has taken too long; nothing is promised from here on. *)
Void(j) ==
  /\ phase[j] = "running"
  /\ phase' = [phase EXCEPT ![j] = "void"]
  /\ runs' = [runs EXCEPT ![j] = 0]

Next ==
  \E j \in Job :
    Queue(j) \/ Run(j) \/ Succeed(j) \/ Fail(j) \/ Lose(j) \/ Void(j)

Spec == Init /\ [][Next]_ledger
=============================================================================
