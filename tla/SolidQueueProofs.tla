-------------------------- MODULE SolidQueueProofs --------------------------
(***************************************************************************)
(* Proofs about SolidQueue for every set of jobs and replicas, every       *)
(* budget and priority of each job, and any number of faults; and that it  *)
(* implements JobLedger.                                                   *)
(***************************************************************************)
EXTENDS SolidQueue, FiniteSetTheorems, TLAPS

----------------------------------------------------------------------------
(* A worker that holds a job is pumping, a process that pumps is alive,    *)
(* and it holds one job at most.                                           *)
Workers ==
  \A p \in Replica :
    /\ active[p] # {} => running[p]
    /\ running[p] => mode[p] \in {"up", "closing"}
    /\ \A c, d \in active[p] : c = d

(* Only running rows are leased; rows that are not there have no history.  *)
Leases ==
  \A j \in Job :
    /\ row[j].lease # "none" => row[j].status = "running"
    /\ row[j].status = "absent" => row[j].attempts = 0 /\ j \notin overran

(* A job that has kept within its leases has one run, and the lease is its. *)
Leased ==
  \A j \in Job \ overran :
    /\ \A p, q \in Replica : Runs(p, j) /\ Runs(q, j) => p = q
    /\ \A p \in Replica : Runs(p, j) => row[j].status = "running" /\ row[j].lease = "held"

(* Nobody runs a job whose lease is held: the process that claimed it died. *)
Orphan(j) ==
  row[j].status = "running" /\ \A p \in Replica : ~Runs(p, j)

(* Attempts are within the budget, and below it where another may follow.  *)
Allowance(j) == MaxAttempts[j] + (IF j \in overran THEN faults ELSE lost[j])

Budgets ==
  \A j \in Job :
    /\ lost[j] <= faults
    /\ row[j].attempts <= Allowance(j)
    /\ row[j].status = "pending" \/ row[j].lease = "expired" \/ Orphan(j)
         => row[j].attempts < Allowance(j)

IInv ==
  TypeOK /\ Workers /\ Leases /\ Leased /\ Budgets /\ SettledForAReason

----------------------------------------------------------------------------
LEMMA AtMostOne ==
  ASSUME NEW S, \A c, d \in S : c = d
  PROVE  /\ IsFiniteSet(S)
         /\ Cardinality(S) = IF S = {} THEN 0 ELSE 1
<1>1. CASE S = {}
  BY <1>1, FS_EmptySet
<1>2. CASE S # {}
  <2>1. PICK c \in S : S = {c}
    BY <1>2
  <2> QED  BY <2>1, <1>2, FS_Singleton
<1> QED  BY <1>1, <1>2

LEMMA InitInv == Init => IInv
<1> SUFFICES ASSUME Init  PROVE IInv
  OBVIOUS
<1> USE QueueAssumption DEF QueueAssumption, Init
<1>1. TypeOK
  BY DEF TypeOK, Row, Settled
<1>2. Workers
  BY DEF Workers
<1>3. Leases
  BY DEF Leases
<1>4. Leased
  BY DEF Leased, Runs
<1>5. Budgets
  BY DEF Budgets, Allowance, Orphan, Runs
<1>6. SettledForAReason
  BY DEF SettledForAReason
<1> QED  BY <1>1, <1>2, <1>3, <1>4, <1>5, <1>6 DEF IInv

----------------------------------------------------------------------------
(* What a step does to a row and to who runs what.                         *)

(* Row j alone is written, with this status, attempts and lease.           *)
Writes(j, status, attempts, lease) ==
  /\ row' \in [Job -> Row]
  /\ row'[j].status = status
  /\ row'[j].attempts = attempts
  /\ row'[j].lease = lease
  /\ \A k \in Job : k # j => row'[k] = row[k]

ClaimEffect(p, j) ==
  /\ Claimable(j)
  /\ active[p] = {} /\ mode[p] = "up"
  /\ Writes(j, "running", row[j].attempts + 1, "held")
  /\ active' \in [Replica -> SUBSET Claim]
  /\ \A q \in Replica \ {p} : active'[q] = active[q]
  /\ \E c \in Claim : c.job = j /\ active'[p] = {c}
  /\ running' = [running EXCEPT ![p] = TRUE]
  /\ UNCHANGED <<clock, mode, succeeded, lost, overran, faults>>

LEMMA ClaimStep ==
  ASSUME TypeOK, NEW p \in Replica, NEW j \in Job, Workers,
         Pump(p, j) \/ PumpAgain(p, j)
  PROVE  ClaimEffect(p, j)
<1> USE DEF TypeOK
<1>1. /\ ClaimJob(p, j) /\ active[p] = {} /\ mode[p] = "up"
      /\ running' = [running EXCEPT ![p] = TRUE]
      /\ UNCHANGED <<clock, mode, succeeded, lost, overran, faults>>
  BY DEF Pump, PumpAgain, Workers, history
<1>2. Claimable(j)
  BY <1>1 DEF ClaimJob, First
<1> DEFINE r == [row[j] EXCEPT !.status = "running", !.attempts = @ + 1, !.lease = "held"]
           c == [job |-> j, attempt |-> row[j].attempts + 1]
<1>3. row' = [row EXCEPT ![j] = r]
  BY <1>1 DEF ClaimJob
<1>4. /\ r \in Row /\ r.status = "running" /\ r.attempts = row[j].attempts + 1
      /\ r.lease = "held"
  <2>1. row[j] \in Row /\ row[j].attempts + 1 \in Nat
    BY DEF Row
  <2> HIDE DEF TypeOK
  <2> QED  BY <2>1 DEF Row
<1>5. c \in Claim /\ c.job = j
  BY DEF Claim, Row
<1>6. active' = [active EXCEPT ![p] = @ \union {c}]
  BY <1>1 DEF ClaimJob
<1> HIDE DEF r, c
<1>7. Writes(j, "running", row[j].attempts + 1, "held")
  BY <1>3, <1>4 DEF Writes
<1>8. /\ active' \in [Replica -> SUBSET Claim]
      /\ \A q \in Replica \ {p} : active'[q] = active[q]
      /\ active'[p] = {c}
  BY <1>1, <1>5, <1>6
<1> QED  BY <1>1, <1>2, <1>5, <1>7, <1>8 DEF ClaimEffect

EndEffect(p, c) ==
  /\ c \in active[p]
  /\ active' = [active EXCEPT ![p] = @ \ {c}]
  /\ \/ Writes(c.job, "completed", row[c.job].attempts, "none") /\ succeeded'[c.job] > 0
     \/ Writes(c.job, "failed", row[c.job].attempts, "none") /\ Failed(c.job)
     \/ Writes(c.job, "pending", row[c.job].attempts, "none") /\ ~Failed(c.job)
  /\ succeeded' \in [Job -> Nat]
  /\ \A j \in Job : succeeded[j] <= succeeded'[j]
  /\ faults' \in {faults, faults + 1}
  /\ UNCHANGED <<clock, mode, running, lost, overran>>

LEMMA FailureStep ==
  ASSUME TypeOK, NEW j \in Job, RecordFailure(j)
  PROVE  \/ Writes(j, "failed", row[j].attempts, "none") /\ Failed(j)
         \/ Writes(j, "pending", row[j].attempts, "none") /\ ~Failed(j)
<1> USE DEF TypeOK
<1> DEFINE r(d) == [row[j] EXCEPT !.status = IF Failed(j) THEN "failed" ELSE "pending",
                                  !.due = d, !.lease = "none"]
<1>1. PICK d \in BOOLEAN : row' = [row EXCEPT ![j] = r(d)]
  BY DEF RecordFailure
<1>2. /\ r(d) \in Row /\ r(d).attempts = row[j].attempts /\ r(d).lease = "none"
      /\ r(d).status = IF Failed(j) THEN "failed" ELSE "pending"
  BY DEF Row, Settled
<1> HIDE DEF r
<1> QED  BY <1>1, <1>2 DEF Writes

LEMMA EndStep ==
  ASSUME TypeOK, NEW p \in Replica, NEW c \in active[p],
         JobCompletes(p, c) \/ JobFails(p, c) \/ CompletionWriteFails(p, c)
  PROVE  EndEffect(p, c)
<1> USE DEF TypeOK
<1>1. c.job \in Job
  BY DEF Claim
<1>2. CASE JobCompletes(p, c)
  <2> DEFINE r == [row[c.job] EXCEPT !.status = "completed", !.lease = "none"]
  <2>1. row' = [row EXCEPT ![c.job] = r]
    BY <1>2 DEF JobCompletes
  <2>2. /\ r \in Row /\ r.attempts = row[c.job].attempts /\ r.lease = "none"
        /\ r.status = "completed"
    <3>1. row[c.job] \in Row
      BY <1>1
    <3> HIDE DEF TypeOK
    <3> QED  BY <3>1 DEF Row, Settled
  <2> HIDE DEF r
  <2>3. Writes(c.job, "completed", row[c.job].attempts, "none")
    BY <1>1, <2>1, <2>2 DEF Writes
  <2>4. succeeded' = [succeeded EXCEPT ![c.job] = @ + 1]
    BY <1>2 DEF JobCompletes
  <2>5. /\ succeeded' \in [Job -> Nat] /\ succeeded'[c.job] > 0
        /\ \A j \in Job : succeeded[j] <= succeeded'[j]
    BY <1>1, <2>4
  <2> QED  BY <1>2, <2>3, <2>5 DEF EndEffect, JobCompletes
<1>3. CASE JobFails(p, c)
  BY <1>1, <1>3, FailureStep DEF EndEffect, JobFails, history
<1>4. CASE CompletionWriteFails(p, c)
  <2>1. succeeded' = [succeeded EXCEPT ![c.job] = @ + 1]
    BY <1>4 DEF CompletionWriteFails
  <2>2. succeeded' \in [Job -> Nat] /\ \A j \in Job : succeeded[j] <= succeeded'[j]
    BY <1>1, <2>1
  <2> QED  BY <1>1, <1>4, <2>2, FailureStep DEF EndEffect, CompletionWriteFails, Fault
<1> QED  BY <1>2, <1>3, <1>4

(* A claim adds one run, the end of a run takes one away. *)
LEMMA RunsAfterClaim ==
  ASSUME NEW p \in Replica, NEW j \in Job, ClaimEffect(p, j)
  PROVE  \A q \in Replica, k \in Job :
           Runs(q, k)' <=> Runs(q, k) \/ (q = p /\ k = j)
BY DEF ClaimEffect, Runs

LEMMA RunsAfterEnd ==
  ASSUME TypeOK, Workers, NEW p \in Replica, NEW c \in active[p], EndEffect(p, c)
  PROVE  /\ c.job \in Job /\ active'[p] = {}
         /\ \A q \in Replica : q # p => active'[q] = active[q]
         /\ \A k \in Job : Runs(p, k) <=> k = c.job
         /\ \A k \in Job : ~Runs(p, k)'
         /\ \A q \in Replica, k \in Job : q # p => (Runs(q, k)' <=> Runs(q, k))
<1>1. active[p] = {c}
  BY DEF Workers
<1>2. active'[p] = {} /\ \A q \in Replica : q # p => active'[q] = active[q]
  BY <1>1 DEF EndEffect, TypeOK
<1> QED  BY <1>1, <1>2 DEF Runs, TypeOK, Claim

(* Enqueue, BecomesDue and LeaseExpires write the row of a job. *)
RowEffect(j) ==
  /\ \/ /\ row[j].status = "absent" /\ Writes(j, "pending", 0, "none")
        /\ UNCHANGED <<faults, overran>>
     \/ /\ row[j].status = "pending"
        /\ Writes(j, "pending", row[j].attempts, row[j].lease)
        /\ UNCHANGED <<faults, overran>>
     \/ /\ row[j].lease = "held"
        /\ Writes(j, row[j].status, row[j].attempts, "expired")
        /\ \/ /\ \E p \in Replica : Runs(p, j)
              /\ faults' = faults + 1 /\ overran' = overran \union {j}
           \/ /\ \A p \in Replica : ~Runs(p, j)
              /\ UNCHANGED <<faults, overran>>
  /\ clock' \in Nat
  /\ UNCHANGED <<mode, running, active, succeeded, lost>>

LEMMA RowStep ==
  ASSUME TypeOK, NEW j \in Job, Enqueue(j) \/ BecomesDue(j) \/ LeaseExpires(j)
  PROVE  RowEffect(j)
<1> USE DEF TypeOK
<1>1. CASE Enqueue(j)
  <2>1. PICK now \in {clock, clock + 1}, due \in BOOLEAN :
          /\ clock' = now
          /\ row' = [row EXCEPT ![j] = [status |-> "pending", attempts |-> 0,
                                       created |-> now, due |-> due, lease |-> "none"]]
    BY <1>1 DEF Enqueue
  <2>2. [status |-> "pending", attempts |-> 0, created |-> now, due |-> due,
         lease |-> "none"] \in Row
    BY DEF Row
  <2>3. Writes(j, "pending", 0, "none")
    BY <2>1, <2>2 DEF Writes
  <2> QED  BY <1>1, <2>1, <2>3 DEF Enqueue, RowEffect, history
<1>2. CASE BecomesDue(j)
  <2> DEFINE r == [row[j] EXCEPT !.due = TRUE]
  <2>1. row' = [row EXCEPT ![j] = r]
    BY <1>2 DEF BecomesDue
  <2>2. /\ r \in Row /\ r.status = row[j].status /\ r.attempts = row[j].attempts
        /\ r.lease = row[j].lease
    <3>1. row[j] \in Row
      OBVIOUS
    <3> QED  BY <3>1 DEF Row
  <2> HIDE DEF r
  <2>3. Writes(j, row[j].status, row[j].attempts, row[j].lease)
    BY <2>1, <2>2 DEF Writes
  <2> QED  BY <1>2, <2>3 DEF BecomesDue, RowEffect, history
<1>3. CASE LeaseExpires(j)
  <2> DEFINE r == [row[j] EXCEPT !.lease = "expired"]
  <2>1. row' = [row EXCEPT ![j] = r]
    BY <1>3 DEF LeaseExpires
  <2>2. /\ r \in Row /\ r.status = row[j].status /\ r.attempts = row[j].attempts
        /\ r.lease = "expired"
    <3>1. row[j] \in Row
      OBVIOUS
    <3> QED  BY <3>1 DEF Row
  <2> HIDE DEF r
  <2>3. Writes(j, row[j].status, row[j].attempts, "expired")
    BY <2>1, <2>2 DEF Writes
  <2> QED  BY <1>3, <2>3 DEF LeaseExpires, RowEffect, Fault
<1> QED  BY <1>1, <1>2, <1>3

CrashEffect(p) ==
  /\ mode' = [mode EXCEPT ![p] = "down"]
  /\ running' = [running EXCEPT ![p] = FALSE]
  /\ active' = [active EXCEPT ![p] = {}]
  /\ lost' = [j \in Job |-> lost[j] + (IF Runs(p, j) THEN 1 ELSE 0)]
  /\ faults' = faults + 1
  /\ UNCHANGED <<row, clock, succeeded, overran>>

LEMMA CrashStep ==
  ASSUME TypeOK, Workers, NEW p \in Replica, Crash(p)
  PROVE  CrashEffect(p)
<1> SUFFICES ASSUME NEW j \in Job
             PROVE  Cardinality({c \in active[p] : c.job = j}) = IF Runs(p, j) THEN 1 ELSE 0
  BY DEF Crash, CrashEffect, Fault
<1> DEFINE S == {c \in active[p] : c.job = j}
<1>1. \A c, d \in S : c = d
  BY DEF Workers
<1>2. S = {} <=> ~Runs(p, j)
  BY DEF Runs
<1> HIDE DEF S
<1>3. Cardinality(S) = IF S = {} THEN 0 ELSE 1
  BY <1>1, AtMostOne
<1>4. Cardinality(S) = IF Runs(p, j) THEN 1 ELSE 0
  BY <1>2, <1>3
<1> QED  BY <1>4 DEF S

(* The worker's own bookkeeping: PumpReturns, CloseBegin, CloseEnd, Restart. *)
WorkerEffect(p) ==
  /\ \/ /\ active[p] = {} /\ running' = [running EXCEPT ![p] = FALSE]
        /\ UNCHANGED mode
     \/ mode[p] = "up" /\ mode' = [mode EXCEPT ![p] = "closing"] /\ UNCHANGED running
     \/ ~running[p] /\ mode' = [mode EXCEPT ![p] = "closed"] /\ UNCHANGED running
     \/ mode' = [mode EXCEPT ![p] = "up"] /\ UNCHANGED running
  /\ faults' \in {faults, faults + 1}
  /\ UNCHANGED <<row, clock, active, succeeded, lost, overran>>

LEMMA WorkerStep ==
  ASSUME NEW p \in Replica,
         PumpReturns(p) \/ CloseBegin(p) \/ CloseEnd(p) \/ Restart(p)
  PROVE  WorkerEffect(p)
BY DEF PumpReturns, CloseBegin, CloseEnd, Restart, WorkerEffect, Fault, history

(* Every step has one of these effects. *)
Effect ==
  \/ \E j \in Job : RowEffect(j)
  \/ \E p \in Replica, j \in Job : ClaimEffect(p, j)
  \/ \E p \in Replica : \E c \in active[p] : EndEffect(p, c)
  \/ \E p \in Replica : CrashEffect(p) \/ WorkerEffect(p)
  \/ UNCHANGED vars

LEMMA StepEffect ==
  ASSUME TypeOK, Workers, [Next]_vars
  PROVE  Effect
BY ClaimStep, EndStep, RowStep, CrashStep, WorkerStep DEF Next, Ends, Effect

----------------------------------------------------------------------------
LEMMA TypeStep ==
  ASSUME TypeOK, Workers, Effect
  PROVE  TypeOK'
<1> USE DEF TypeOK
<1>1. ASSUME NEW j \in Job, RowEffect(j)  PROVE TypeOK'
  <2>1. row' \in [Job -> Row]
    BY <1>1 DEF RowEffect, Writes
  <2> QED  BY <1>1, <2>1 DEF RowEffect
<1>2. ASSUME NEW p \in Replica, NEW j \in Job, ClaimEffect(p, j)  PROVE TypeOK'
  BY <1>2 DEF ClaimEffect, Writes
<1>3. ASSUME NEW p \in Replica, NEW c \in active[p], EndEffect(p, c)  PROVE TypeOK'
  <2>1. row' \in [Job -> Row]
    BY <1>3 DEF EndEffect, Writes
  <2>2. active' \in [Replica -> SUBSET Claim] /\ faults' \in Nat
    BY <1>3 DEF EndEffect
  <2> QED  BY <1>3, <2>1, <2>2 DEF EndEffect
<1>4. ASSUME NEW p \in Replica, CrashEffect(p)  PROVE TypeOK'
  BY <1>4 DEF CrashEffect
<1>5. ASSUME NEW p \in Replica, WorkerEffect(p)  PROVE TypeOK'
  <2>1. running' \in [Replica -> BOOLEAN]
    BY <1>5 DEF WorkerEffect
  <2>2. mode' \in [Replica -> {"up", "closing", "closed", "down"}]
    BY <1>5 DEF WorkerEffect
  <2> QED  BY <1>5, <2>1, <2>2 DEF WorkerEffect
<1>6. CASE UNCHANGED vars
  BY <1>6 DEF vars, history
<1> HIDE DEF TypeOK
<1> QED  BY <1>1, <1>2, <1>3, <1>4, <1>5, <1>6 DEF Effect

LEMMA WorkersStep ==
  ASSUME TypeOK, Workers, Effect
  PROVE  Workers'
<1> USE DEF TypeOK, Workers
<1>1. ASSUME UNCHANGED <<active, running, mode>>  PROVE Workers'
  BY <1>1
<1>2. ASSUME NEW p \in Replica, NEW j \in Job, ClaimEffect(p, j)  PROVE Workers'
  <2>1. PICK c \in Claim : active'[p] = {c}
    BY <1>2 DEF ClaimEffect
  <2>2. ASSUME NEW q \in Replica, q # p
        PROVE  active'[q] = active[q] /\ running'[q] = running[q] /\ mode'[q] = mode[q]
    BY <1>2, <2>2 DEF ClaimEffect
  <2>3. running'[p] /\ mode'[p] = "up"
    BY <1>2 DEF ClaimEffect
  <2> QED  BY <2>1, <2>2, <2>3
<1>3. ASSUME NEW p \in Replica, NEW c \in active[p], EndEffect(p, c)  PROVE Workers'
  <2>1. active'[p] = {} /\ \A q \in Replica : q # p => active'[q] = active[q]
    BY <1>3, RunsAfterEnd
  <2> QED  BY <1>3, <2>1 DEF EndEffect
<1>4. ASSUME NEW p \in Replica, CrashEffect(p)  PROVE Workers'
  BY <1>4 DEF CrashEffect
<1>5. ASSUME NEW p \in Replica, WorkerEffect(p)  PROVE Workers'
  BY <1>5 DEF WorkerEffect
<1>6. ASSUME NEW j \in Job, RowEffect(j)  PROVE Workers'
  BY <1>1, <1>6 DEF RowEffect
<1>7. CASE UNCHANGED vars
  BY <1>1, <1>7 DEF vars
<1> HIDE DEF TypeOK, Workers
<1> QED  BY <1>2, <1>3, <1>4, <1>5, <1>6, <1>7 DEF Effect

LEMMA LeasesStep ==
  ASSUME TypeOK, Workers, Leases, Leased, Effect
  PROVE  Leases'
<1> USE DEF TypeOK, Leases
<1>1. ASSUME UNCHANGED <<row, overran>>  PROVE Leases'
  BY <1>1
<1>2. ASSUME NEW j \in Job, RowEffect(j)  PROVE Leases'
  BY <1>2 DEF RowEffect, Writes
<1>3. ASSUME NEW p \in Replica, NEW j \in Job, ClaimEffect(p, j)  PROVE Leases'
  BY <1>3 DEF ClaimEffect, Writes
<1>4. ASSUME NEW p \in Replica, NEW c \in active[p], EndEffect(p, c)  PROVE Leases'
  <2>1. c.job \in Job
    BY DEF Claim
  <2> QED  BY <1>4, <2>1 DEF EndEffect, Writes
<1>5. ASSUME NEW p \in Replica, CrashEffect(p) \/ WorkerEffect(p)  PROVE Leases'
  BY <1>1, <1>5 DEF CrashEffect, WorkerEffect
<1>6. CASE UNCHANGED vars
  BY <1>1, <1>6 DEF vars, history
<1> HIDE DEF TypeOK, Leases
<1> QED  BY <1>2, <1>3, <1>4, <1>5, <1>6 DEF Effect

LEMMA LeasedStep ==
  ASSUME TypeOK, Workers, Leases, Leased, Effect
  PROVE  Leased'
<1> USE DEF Leased
<1>1. ASSUME UNCHANGED <<row, overran>>,
             \A p \in Replica, j \in Job : Runs(p, j)' => Runs(p, j)
      PROVE  Leased'
  BY <1>1
<1>2. ASSUME NEW j \in Job, RowEffect(j)  PROVE Leased'
  <2>1. \A p \in Replica, k \in Job : Runs(p, k)' <=> Runs(p, k)
    BY <1>2 DEF RowEffect, Runs
  <2>2. \A k \in Job : k # j => row'[k] = row[k]
    BY <1>2 DEF RowEffect, Writes
  <2>3. overran \subseteq overran'
    BY <1>2 DEF RowEffect
  <2>4. j \notin overran' => \A p \in Replica : ~Runs(p, j)
    BY <1>2, <2>3 DEF RowEffect
  <2> QED  BY <2>1, <2>2, <2>3, <2>4
<1>3. ASSUME NEW p \in Replica, NEW j \in Job, ClaimEffect(p, j)  PROVE Leased'
  <2>1. overran' = overran
    BY <1>3 DEF ClaimEffect
  <2>2. j \notin overran => \A q \in Replica : ~Runs(q, j)
    BY <1>3 DEF ClaimEffect, Claimable
  <2>3. /\ row'[j].status = "running" /\ row'[j].lease = "held"
        /\ \A k \in Job : k # j => row'[k] = row[k]
    BY <1>3 DEF ClaimEffect, Writes
  <2>4. \A q \in Replica, k \in Job : Runs(q, k)' <=> Runs(q, k) \/ (q = p /\ k = j)
    BY <1>3, RunsAfterClaim
  <2> QED  BY <2>1, <2>2, <2>3, <2>4
<1>4. ASSUME NEW p \in Replica, NEW c \in active[p], EndEffect(p, c)  PROVE Leased'
  <2>1. /\ c.job \in Job
        /\ Runs(p, c.job)
        /\ \A k \in Job : ~Runs(p, k)'
        /\ \A q \in Replica, k \in Job : q # p => (Runs(q, k)' <=> Runs(q, k))
    BY <1>4, RunsAfterEnd
  <2>2. overran' = overran /\ \A k \in Job : k # c.job => row'[k] = row[k]
    BY <1>4 DEF EndEffect, Writes
  <2>3. c.job \notin overran => \A q \in Replica : ~Runs(q, c.job)'
    BY <2>1
  <2> QED  BY <2>1, <2>2, <2>3
<1>5. ASSUME NEW p \in Replica, CrashEffect(p) \/ WorkerEffect(p)  PROVE Leased'
  BY <1>1, <1>5 DEF CrashEffect, WorkerEffect, Runs, TypeOK
<1>6. CASE UNCHANGED vars
  BY <1>1, <1>6 DEF vars, history, Runs
<1> HIDE DEF Leased
<1> QED  BY <1>2, <1>3, <1>4, <1>5, <1>6 DEF Effect

LEMMA ReasonStep ==
  ASSUME TypeOK, Leases, SettledForAReason, Effect
  PROVE  SettledForAReason'
<1> USE QueueAssumption DEF QueueAssumption, TypeOK, SettledForAReason
<1>1. ASSUME UNCHANGED <<row, succeeded>>  PROVE SettledForAReason'
  BY <1>1
<1>2. ASSUME NEW j \in Job, RowEffect(j)  PROVE SettledForAReason'
  BY <1>2 DEF RowEffect, Writes, Leases
<1>3. ASSUME NEW p \in Replica, NEW j \in Job, ClaimEffect(p, j)  PROVE SettledForAReason'
  BY <1>3 DEF ClaimEffect, Writes
<1>4. ASSUME NEW p \in Replica, NEW c \in active[p], EndEffect(p, c)
      PROVE  SettledForAReason'
  <2>1. c.job \in Job
    BY DEF Claim
  <2>2. \A k \in Job : k # c.job => row'[k] = row[k] /\ (succeeded[k] > 0 => succeeded'[k] > 0)
    BY <1>4 DEF EndEffect, Writes
  <2>3. /\ row'[c.job].status = "failed" => row'[c.job].attempts >= MaxAttempts[c.job]
        /\ row'[c.job].status = "completed" => succeeded'[c.job] > 0
    BY <1>4, <2>1 DEF EndEffect, Writes, Failed
  <2> QED  BY <2>1, <2>2, <2>3
<1>5. ASSUME NEW p \in Replica, CrashEffect(p) \/ WorkerEffect(p)  PROVE SettledForAReason'
  BY <1>1, <1>5 DEF CrashEffect, WorkerEffect
<1>6. CASE UNCHANGED vars
  BY <1>1, <1>6 DEF vars, history
<1> HIDE DEF TypeOK, SettledForAReason
<1> QED  BY <1>2, <1>3, <1>4, <1>5, <1>6 DEF Effect

(* Allowances only grow, and the budget of a job that is left alone holds. *)
Budget(j) ==
  /\ lost[j] <= faults
  /\ row[j].attempts <= Allowance(j)
  /\ row[j].status = "pending" \/ row[j].lease = "expired" \/ Orphan(j)
       => row[j].attempts < Allowance(j)

LEMMA BudgetKept ==
  ASSUME TypeOK, TypeOK', NEW j \in Job, Budget(j),
         row'[j] = row[j], lost'[j] = lost[j], faults <= faults',
         j \in overran <=> j \in overran',
         \A p \in Replica : Runs(p, j)' <=> Runs(p, j)
  PROVE  Budget(j)'
<1>1. Orphan(j)' <=> Orphan(j)
  BY DEF Orphan
<1>2. /\ MaxAttempts[j] \in Nat /\ lost[j] \in Nat /\ faults \in Nat /\ faults' \in Nat
      /\ row[j].attempts \in Nat
  BY QueueAssumption DEF QueueAssumption, TypeOK, Row
<1> QED  BY <1>1, <1>2 DEF Budget, Allowance

LEMMA BudgetsStep ==
  ASSUME IInv, Effect, TypeOK'
  PROVE  Budgets'
<1> SUFFICES ASSUME NEW k \in Job  PROVE Budget(k)'
  BY DEF Budgets, Budget
<1>1. \A j \in Job : Budget(j)
  BY DEF IInv, Budgets, Budget
<1>2. \A j \in Job :
        /\ MaxAttempts[j] \in Nat \ {0} /\ lost[j] \in Nat /\ faults \in Nat
        /\ lost'[j] \in Nat /\ faults' \in Nat /\ row[j].attempts \in Nat
        /\ row[j].lease # "none" => row[j].status = "running"
  BY QueueAssumption DEF QueueAssumption, IInv, TypeOK, Row, Leases
<1>3. ASSUME NEW j \in Job, RowEffect(j)  PROVE Budget(k)'
  <2>1. \A p \in Replica, i \in Job : Runs(p, i)' <=> Runs(p, i)
    BY <1>3 DEF RowEffect, Runs
  <2>2. CASE k # j
    BY <1>1, <1>2, <1>3, <2>1, <2>2, BudgetKept DEF RowEffect, Writes, IInv
  <2>3. CASE k = j
    <3>1. CASE row[j].status = "absent" /\ Writes(j, "pending", 0, "none")
               /\ UNCHANGED <<faults, overran>>
      BY <1>1, <1>2, <1>3, <2>3, <3>1 DEF Writes, Budget, Allowance, RowEffect
    <3>2. CASE row[j].status = "pending" /\ UNCHANGED <<faults, overran>>
               /\ Writes(j, "pending", row[j].attempts, row[j].lease)
      BY <1>1, <1>2, <1>3, <2>3, <3>2 DEF Writes, Budget, Allowance, RowEffect
    <3>3. CASE /\ row[j].lease = "held"
               /\ Writes(j, row[j].status, row[j].attempts, "expired")
               /\ faults' = faults + 1 /\ overran' = overran \union {j}
      BY <1>1, <1>2, <1>3, <2>3, <3>3 DEF Writes, Budget, Allowance, RowEffect
    <3>4. CASE /\ row[j].lease = "held"
               /\ Writes(j, row[j].status, row[j].attempts, "expired")
               /\ \A p \in Replica : ~Runs(p, j)
               /\ UNCHANGED <<faults, overran>>
      <4>1. Orphan(j)
        BY <1>2, <3>4 DEF Orphan
      <4> QED  BY <1>1, <1>2, <1>3, <2>3, <3>4, <4>1 DEF Writes, Budget, Allowance, RowEffect
    <3> QED  BY <1>3, <3>1, <3>2, <3>3, <3>4 DEF RowEffect
  <2> QED  BY <2>2, <2>3
<1>4. ASSUME NEW p \in Replica, NEW j \in Job, ClaimEffect(p, j)  PROVE Budget(k)'
  <2>1. \A q \in Replica, i \in Job : Runs(q, i)' <=> Runs(q, i) \/ (q = p /\ i = j)
    BY <1>4, RunsAfterClaim
  <2>2. CASE k # j
    BY <1>1, <1>2, <1>4, <2>1, <2>2, BudgetKept DEF ClaimEffect, Writes, IInv
  <2>3. CASE k = j
    <3>1. row[j].attempts < Allowance(j)
      BY <1>1, <1>4 DEF ClaimEffect, Claimable, Budget
    <3>2. Allowance(j)' = Allowance(j)
      BY <1>4 DEF ClaimEffect, Allowance
    <3>3. ~Orphan(j)'
      BY <2>1 DEF Orphan
    <3> QED  BY <1>1, <1>2, <1>4, <2>3, <3>1, <3>2, <3>3 DEF ClaimEffect, Writes, Budget, Allowance
  <2> QED  BY <2>2, <2>3
<1>5. ASSUME NEW p \in Replica, NEW c \in active[p], EndEffect(p, c)  PROVE Budget(k)'
  <2>1. /\ c.job \in Job
        /\ \A i \in Job : Runs(p, i) <=> i = c.job
        /\ \A i \in Job : ~Runs(p, i)'
        /\ \A q \in Replica, i \in Job : q # p => (Runs(q, i)' <=> Runs(q, i))
    BY <1>5, RunsAfterEnd DEF IInv
  <2>2. CASE k # c.job
    <3>1. \A q \in Replica : Runs(q, k)' <=> Runs(q, k)
      BY <2>1, <2>2
    <3>2. row'[k] = row[k] /\ lost' = lost /\ overran' = overran /\ faults <= faults'
      BY <1>2, <1>5, <2>2 DEF EndEffect, Writes
    <3> QED  BY <1>1, <3>1, <3>2, BudgetKept DEF IInv
  <2>3. CASE k = c.job
    <3>1. /\ row'[k].lease = "none" /\ row'[k].attempts = row[k].attempts
          /\ \/ row'[k].status \in Settled
             \/ row'[k].status = "pending" /\ row[k].attempts < MaxAttempts[k]
      BY <1>2, <1>5, <2>1, <2>3 DEF EndEffect, Writes, Settled, Failed
    <3>2. lost' = lost /\ overran' = overran /\ faults <= faults'
      BY <1>2, <1>5 DEF EndEffect
    <3>3. ~Orphan(k)'
      BY <3>1 DEF Orphan, Settled
    <3> QED  BY <1>1, <1>2, <3>1, <3>2, <3>3 DEF Budget, Allowance, Settled
  <2> QED  BY <2>2, <2>3
<1>6. ASSUME NEW p \in Replica, CrashEffect(p)  PROVE Budget(k)'
  <2>1. /\ row' = row /\ overran' = overran /\ faults' = faults + 1
        /\ lost'[k] = lost[k] + (IF Runs(p, k) THEN 1 ELSE 0)
    BY <1>6 DEF CrashEffect
  <2>2. \A q \in Replica : q # p => (Runs(q, k)' <=> Runs(q, k))
    BY <1>6 DEF CrashEffect, Runs, IInv, TypeOK
  <2>3. Orphan(k)' => Orphan(k) \/ Runs(p, k)
    BY <2>1, <2>2 DEF Orphan
  <2> QED  BY <1>1, <1>2, <2>1, <2>3 DEF Budget, Allowance
<1>7. ASSUME NEW p \in Replica, WorkerEffect(p)  PROVE Budget(k)'
  <2>1. \A q \in Replica : Runs(q, k)' <=> Runs(q, k)
    BY <1>7 DEF WorkerEffect, Runs
  <2> QED  BY <1>1, <1>2, <1>7, <2>1, BudgetKept DEF WorkerEffect, IInv
<1>8. CASE UNCHANGED vars
  <2>1. \A q \in Replica : Runs(q, k)' <=> Runs(q, k)
    BY <1>8 DEF vars, Runs
  <2> QED  BY <1>1, <1>2, <1>8, <2>1, BudgetKept DEF vars, history, IInv
<1> QED  BY <1>3, <1>4, <1>5, <1>6, <1>7, <1>8 DEF Effect

LEMMA NextInv == IInv /\ [Next]_vars => IInv'
<1> SUFFICES ASSUME IInv, [Next]_vars  PROVE IInv'
  OBVIOUS
<1>1. Effect
  BY StepEffect DEF IInv
<1>2. TypeOK' /\ Workers' /\ Leases' /\ Leased' /\ SettledForAReason'
  BY <1>1, TypeStep, WorkersStep, LeasesStep, LeasedStep, ReasonStep DEF IInv
<1> QED  BY <1>1, <1>2, BudgetsStep DEF IInv

(* The inductive invariant: the types, what a worker is doing, what a      *)
(* lease says, that an unexpired lease is its holder's, how many attempts  *)
(* each job has left, and the invariant about settled jobs.                *)
THEOREM QueueInvariant == Spec => []IInv
BY InitInv, NextInv, PTL DEF Spec

(* The table, the workers and the histories keep their types. *)
THEOREM TypeCorrect == Spec => []TypeOK
<1>1. IInv => TypeOK
  BY DEF IInv
<1> QED  BY <1>1, QueueInvariant, PTL

(* Runs of a job whose handlers keep within their lease never overlap.     *)
THEOREM ExclusiveCorrect == Spec => []ExclusiveRun
<1>1. IInv => ExclusiveRun
  BY DEF IInv, Leased, ExclusiveRun
<1> QED  BY <1>1, QueueInvariant, PTL

(* The pump of a worker is its only one, however it is woken. *)
THEOREM WorkerCorrect == Spec => []OneHandlerPerWorker
<1>1. IInv => OneHandlerPerWorker
  <2> SUFFICES ASSUME IInv, NEW p \in Replica
               PROVE  Cardinality(active[p]) <= 1 /\ (active[p] # {} => running[p])
    BY DEF OneHandlerPerWorker
  <2>1. \A c, d \in active[p] : c = d
    BY DEF IInv, Workers
  <2>2. Cardinality(active[p]) = IF active[p] = {} THEN 0 ELSE 1
    BY <2>1, AtMostOne
  <2> QED  BY <2>2 DEF IInv, Workers
<1> QED  BY <1>1, QueueInvariant, PTL

(* A graceful stop never closes the database under a running handler.      *)
THEOREM StopCorrect == Spec => []StopDrainsHandlers
<1>1. IInv => StopDrainsHandlers
  BY DEF IInv, Workers, StopDrainsHandlers
<1> QED  BY <1>1, QueueInvariant, PTL

(* A worker has one job at a time, and none when its database is closed.   *)
THEOREM WorkersCorrect == Spec => []WorkersInOrder
<1>1. OneHandlerPerWorker /\ StopDrainsHandlers => WorkersInOrder
  BY DEF WorkersInOrder
<1> QED  BY <1>1, WorkerCorrect, StopCorrect, PTL

(* A job goes beyond its attempts only by runs that a crash cut off, or by *)
(* as many as were claimed from a worker that overran.                     *)
THEOREM BudgetCorrect == Spec => []AttemptsWithinBudget
<1>1. IInv => AttemptsWithinBudget
  BY DEF IInv, Budgets, Allowance, AttemptsWithinBudget
<1> QED  BY <1>1, QueueInvariant, PTL

(* A job is given up, or reported done, for a reason. *)
THEOREM SettlingCorrect == Spec => []SettledForAReason
<1>1. IInv => SettledForAReason
  BY DEF IInv
<1> QED  BY <1>1, QueueInvariant, PTL

(* The attempts of a job and its outcome are accounted for by its runs.    *)
THEOREM AccountsCorrect == Spec => []BudgetsKept
<1>1. AttemptsWithinBudget /\ SettledForAReason => BudgetsKept
  BY DEF BudgetsKept
<1> QED  BY <1>1, BudgetCorrect, SettlingCorrect, PTL

----------------------------------------------------------------------------
(* A step that changes a settled row is the end of a late worker's run.    *)
LEMMA ReopenStep ==
  ASSUME IInv, Effect, NEW j \in Job, row[j].status \in Settled, row'[j] # row[j]
  PROVE  /\ j \in overran
         /\ \E p \in Replica : \E c \in active[p] :
              c.job = j /\ Late(c) /\ c \notin active'[p]
<1> USE DEF IInv
<1>1. ASSUME NEW i \in Job, RowEffect(i)  PROVE FALSE
  BY <1>1 DEF RowEffect, Writes, Leases, Settled
<1>2. ASSUME NEW p \in Replica, NEW i \in Job, ClaimEffect(p, i)  PROVE FALSE
  BY <1>2 DEF ClaimEffect, Writes, Claimable, Settled
<1>3. ASSUME NEW p \in Replica, CrashEffect(p) \/ WorkerEffect(p)  PROVE FALSE
  BY <1>3 DEF CrashEffect, WorkerEffect
<1>4. PICK p \in Replica : \E c \in active[p] : EndEffect(p, c)
  BY <1>1, <1>2, <1>3 DEF Effect, vars
<1>5. PICK c \in active[p] : EndEffect(p, c)
  BY <1>4
<1>6. c.job = j
  BY <1>5 DEF EndEffect, Writes
<1>7. Runs(p, j) /\ active'[p] = {}
  BY <1>5, <1>6, RunsAfterEnd
<1>8. j \in overran
  BY <1>7 DEF Leased, Settled
<1> QED  BY <1>6, <1>7, <1>8 DEF Late, Settled

(* What has settled stays settled, but for workers that outlived their     *)
(* lease.                                                                  *)
THEOREM ReopenCorrect == Spec => OnlyLateWorkersReopen
<1>1. IInv /\ [Next]_vars =>
        [\A j \in Job : row[j].status \in Settled /\ row'[j] # row[j] =>
           /\ j \in overran
           /\ \E p \in Replica : \E c \in active[p] :
                c.job = j /\ Late(c) /\ c \notin active'[p]]_vars
  <2> SUFFICES ASSUME IInv, [Next]_vars,
                      NEW j \in Job, row[j].status \in Settled, row'[j] # row[j]
               PROVE  /\ j \in overran
                      /\ \E p \in Replica : \E c \in active[p] :
                           c.job = j /\ Late(c) /\ c \notin active'[p]
    OBVIOUS
  <2>1. Effect
    BY StepEffect DEF IInv
  <2> QED  BY <2>1, ReopenStep
<1> QED  BY <1>1, QueueInvariant, PTL DEF Spec, OnlyLateWorkersReopen

----------------------------------------------------------------------------
(* When one job's view changes, so does the ledger at that job only.       *)
LEMMA ViewOfOne ==
  ASSUME NEW j \in Job,
         \A k \in Job : k # j => PhaseOf(k)' = PhaseOf(k) /\ RunsOf(k)' = RunsOf(k)
  PROVE  /\ LedgerPhase' = [LedgerPhase EXCEPT ![j] = PhaseOf(j)']
         /\ LedgerRuns' = [LedgerRuns EXCEPT ![j] = RunsOf(j)']
         /\ LedgerPhase[j] = PhaseOf(j) /\ LedgerRuns[j] = RunsOf(j)
         /\ PhaseOf(j)' = PhaseOf(j) => LedgerPhase' = LedgerPhase
         /\ RunsOf(j)' = RunsOf(j) => LedgerRuns' = LedgerRuns
BY DEF LedgerPhase, LedgerRuns

(* A step that leaves the views of all jobs alone is a stutter. *)
LEMMA ViewUnchanged ==
  ASSUME \A k \in Job : PhaseOf(k)' = PhaseOf(k) /\ RunsOf(k)' = RunsOf(k)
  PROVE  UNCHANGED Ledger!ledger
BY DEF LedgerPhase, LedgerRuns, Ledger!ledger

(* The view of a job is its row and whether it overran. *)
LEMMA ViewOfRow ==
  ASSUME NEW j \in Job, row'[j] = row[j], j \in overran' <=> j \in overran
  PROVE  PhaseOf(j)' = PhaseOf(j) /\ RunsOf(j)' = RunsOf(j)
BY DEF PhaseOf, RunsOf

(* A change of one job's view, from and to.                                *)
View(j, phase1, runs1, phase2, runs2) ==
  /\ PhaseOf(j) = phase1 /\ RunsOf(j) = runs1
  /\ PhaseOf(j)' = phase2 /\ RunsOf(j)' = runs2

OthersKept(j) ==
  \A k \in Job : k # j => PhaseOf(k)' = PhaseOf(k) /\ RunsOf(k)' = RunsOf(k)

(* Which changes of a job's view are steps of the ledger.                  *)
LEMMA ViewIsLedger ==
  ASSUME NEW j \in Job, OthersKept(j), NEW n \in Nat,
         \/ View(j, "absent", n, "queued", n)
         \/ View(j, "queued", n, "running", n + 1)
         \/ View(j, "running", n, "completed", n)
         \/ View(j, "running", n, "queued", n)
         \/ View(j, "running", n, "failed", n) /\ n >= MaxAttempts[j]
         \/ View(j, "running", n, "void", 0)
  PROVE  Ledger!Next
<1>1. /\ LedgerPhase' = [LedgerPhase EXCEPT ![j] = PhaseOf(j)']
      /\ LedgerRuns' = [LedgerRuns EXCEPT ![j] = RunsOf(j)']
      /\ LedgerPhase[j] = PhaseOf(j) /\ LedgerRuns[j] = RunsOf(j)
      /\ PhaseOf(j)' = PhaseOf(j) => LedgerPhase' = LedgerPhase
      /\ RunsOf(j)' = RunsOf(j) => LedgerRuns' = LedgerRuns
  BY ViewOfOne DEF OthersKept
<1>2. CASE View(j, "absent", n, "queued", n)
  BY <1>1, <1>2 DEF View, Ledger!Next, Ledger!Queue
<1>3. CASE View(j, "queued", n, "running", n + 1)
  <2>1. Ledger!Run(j)
    BY <1>1, <1>3 DEF View, Ledger!Run
  <2> QED  BY <2>1 DEF Ledger!Next
<1>4. CASE View(j, "running", n, "completed", n)
  BY <1>1, <1>4 DEF View, Ledger!Next, Ledger!Succeed
<1>5. CASE View(j, "running", n, "queued", n)
  BY <1>1, <1>5 DEF View, Ledger!Next, Ledger!Lose
<1>6. CASE View(j, "running", n, "failed", n) /\ n >= MaxAttempts[j]
  <2>1. ~(n < MaxAttempts[j])
    BY <1>6, QueueAssumption DEF QueueAssumption
  <2>2. Ledger!Fail(j)
    BY <1>1, <1>6, <2>1 DEF View, Ledger!Fail
  <2> QED  BY <2>2 DEF Ledger!Next
<1>7. CASE View(j, "running", n, "void", 0)
  BY <1>1, <1>7 DEF View, Ledger!Next, Ledger!Void
<1> QED  BY <1>2, <1>3, <1>4, <1>5, <1>6, <1>7

(* Every effect on the queue is a step of the ledger or a stutter.         *)
LEMMA LedgerStep ==
  ASSUME IInv, Effect
  PROVE  [Ledger!Next]_(Ledger!ledger)
<1> USE DEF IInv
<1>1. \A j \in Job : row[j].attempts \in Nat
  BY DEF TypeOK, Row
<1>2. ASSUME UNCHANGED <<row, overran>>  PROVE UNCHANGED Ledger!ledger
  BY <1>2, ViewOfRow, ViewUnchanged
<1>3. ASSUME NEW j \in Job, OthersKept(j),
             PhaseOf(j)' = PhaseOf(j) /\ RunsOf(j)' = RunsOf(j)
      PROVE  UNCHANGED Ledger!ledger
  BY <1>3, ViewUnchanged DEF OthersKept
<1>4. ASSUME NEW j \in Job, RowEffect(j)  PROVE [Ledger!Next]_(Ledger!ledger)
  <2>1. OthersKept(j)
    BY <1>4, ViewOfRow DEF RowEffect, Writes, OthersKept
  <2>2. CASE row[j].status = "absent" /\ Writes(j, "pending", 0, "none")
             /\ UNCHANGED <<faults, overran>>
    <3>1. View(j, "absent", 0, "queued", 0)
      BY <2>2 DEF View, PhaseOf, RunsOf, Writes, Leases
    <3> QED  BY <2>1, <3>1, ViewIsLedger
  <2>3. CASE row[j].status = "pending" /\ UNCHANGED <<faults, overran>>
             /\ Writes(j, "pending", row[j].attempts, row[j].lease)
    <3>1. PhaseOf(j)' = PhaseOf(j) /\ RunsOf(j)' = RunsOf(j)
      BY <2>3 DEF PhaseOf, RunsOf, Writes
    <3> QED  BY <1>3, <2>1, <3>1
  <2>4. CASE /\ row[j].lease = "held"
             /\ Writes(j, row[j].status, row[j].attempts, "expired")
             /\ overran' = overran \/ overran' = overran \union {j}
    <3>1. CASE j \in overran
      <4>1. PhaseOf(j)' = PhaseOf(j) /\ RunsOf(j)' = RunsOf(j)
        BY <2>4, <3>1 DEF PhaseOf, RunsOf
      <4> QED  BY <1>3, <2>1, <4>1
    <3>2. CASE j \notin overran /\ overran' = overran
      <4>1. View(j, "running", row[j].attempts, "queued", row[j].attempts)
        BY <2>4, <3>2 DEF View, PhaseOf, RunsOf, Writes, Leases
      <4> QED  BY <1>1, <2>1, <4>1, ViewIsLedger
    <3>3. CASE j \notin overran /\ overran' = overran \union {j}
      <4>1. View(j, "running", row[j].attempts, "void", 0)
        BY <2>4, <3>3 DEF View, PhaseOf, RunsOf, Writes, Leases
      <4> QED  BY <1>1, <2>1, <4>1, ViewIsLedger
    <3> QED  BY <2>4, <3>1, <3>2, <3>3
  <2> QED  BY <1>4, <2>2, <2>3, <2>4 DEF RowEffect
<1>5. ASSUME NEW p \in Replica, NEW j \in Job, ClaimEffect(p, j)
      PROVE  [Ledger!Next]_(Ledger!ledger)
  <2>1. OthersKept(j)
    BY <1>5, ViewOfRow DEF ClaimEffect, Writes, OthersKept
  <2>2. CASE j \in overran
    <3>1. PhaseOf(j)' = PhaseOf(j) /\ RunsOf(j)' = RunsOf(j)
      BY <1>5, <2>2 DEF ClaimEffect, PhaseOf, RunsOf
    <3> QED  BY <1>3, <2>1, <3>1
  <2>3. CASE j \notin overran
    <3>1. View(j, "queued", row[j].attempts, "running", row[j].attempts + 1)
      BY <1>5, <2>3 DEF ClaimEffect, Claimable, Writes, View, PhaseOf, RunsOf
    <3> QED  BY <1>1, <2>1, <3>1, ViewIsLedger
  <2> QED  BY <2>2, <2>3
<1>6. ASSUME NEW p \in Replica, NEW c \in active[p], EndEffect(p, c)
      PROVE  [Ledger!Next]_(Ledger!ledger)
  <2> DEFINE j == c.job
  <2>1. j \in Job /\ Runs(p, j)
    BY <1>6, RunsAfterEnd
  <2>2. OthersKept(j)
    BY <1>6, ViewOfRow DEF EndEffect, Writes, OthersKept
  <2>3. CASE j \in overran
    <3>1. PhaseOf(j)' = PhaseOf(j) /\ RunsOf(j)' = RunsOf(j)
      BY <1>6, <2>3 DEF EndEffect, PhaseOf, RunsOf
    <3> QED  BY <1>3, <2>1, <2>2, <3>1
  <2>4. CASE j \notin overran
    <3>1. row[j].status = "running" /\ row[j].lease = "held" /\ overran' = overran
      BY <1>6, <2>1, <2>4 DEF Leased, EndEffect
    <3>2. PhaseOf(j) = "running" /\ RunsOf(j) = row[j].attempts
      BY <2>4, <3>1 DEF PhaseOf, RunsOf
    <3>3. CASE Writes(j, "completed", row[j].attempts, "none")
      <4>1. View(j, "running", row[j].attempts, "completed", row[j].attempts)
        BY <2>4, <3>1, <3>2, <3>3 DEF View, PhaseOf, RunsOf, Writes
      <4> QED  BY <1>1, <2>1, <2>2, <4>1, ViewIsLedger
    <3>4. CASE Writes(j, "failed", row[j].attempts, "none") /\ Failed(j)
      <4>1. View(j, "running", row[j].attempts, "failed", row[j].attempts)
        BY <2>4, <3>1, <3>2, <3>4 DEF View, PhaseOf, RunsOf, Writes
      <4> QED  BY <1>1, <2>1, <2>2, <3>4, <4>1, ViewIsLedger DEF Failed
    <3>5. CASE Writes(j, "pending", row[j].attempts, "none")
      <4>1. View(j, "running", row[j].attempts, "queued", row[j].attempts)
        BY <2>4, <3>1, <3>2, <3>5 DEF View, PhaseOf, RunsOf, Writes
      <4> QED  BY <1>1, <2>1, <2>2, <4>1, ViewIsLedger
    <3> QED  BY <1>6, <3>3, <3>4, <3>5 DEF EndEffect
  <2> QED  BY <2>3, <2>4
<1>7. ASSUME NEW p \in Replica, CrashEffect(p) \/ WorkerEffect(p)
      PROVE  UNCHANGED Ledger!ledger
  BY <1>2, <1>7 DEF CrashEffect, WorkerEffect
<1>8. CASE UNCHANGED vars
  BY <1>2, <1>8 DEF vars, history
<1> QED  BY <1>4, <1>5, <1>6, <1>7, <1>8 DEF Effect

(* The queue implements the ledger: whatever replicas, crashes, leases and *)
(* failed writes do, each job is run, repeated, given up and settled as    *)
(* JobLedger allows, until one of its handlers outlives its lease.         *)
THEOREM LedgerKept == Spec => KeepsLedger
<1>1. Init => Ledger!Init
  BY DEF Init, Ledger!Init, LedgerPhase, LedgerRuns, PhaseOf, RunsOf
<1>2. IInv /\ [Next]_vars => [Ledger!Next]_(Ledger!ledger)
  BY StepEffect, LedgerStep DEF IInv
<1> QED  BY <1>1, <1>2, QueueInvariant, PTL DEF Spec, KeepsLedger, Ledger!Spec
=============================================================================
