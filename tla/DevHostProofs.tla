---------------------------- MODULE DevHostProofs ----------------------------
(***************************************************************************)
(* Proofs about DevHost for any number of edits, faults and attempts: the  *)
(* development host has at most one backend until two of its calls         *)
(* overlap, and a backend that runs older files than are on disk is about  *)
(* to be noticed unless the edit met neither a watcher nor a stamp.        *)
(***************************************************************************)
EXTENDS DevHost, SequenceTheorems, FiniteSetTheorems, TLAPS

-----------------------------------------------------------------------------
(* The inductive invariant: types *)

Phases == {"booting", "ready", "stopping", "dead"}
Backend == [phase : Phases, version : Nat]
Modes == {"awake", "suspended", "waking", "stopping", "recycling", "halting",
          "reloading", "down", "recovering"}
Statuses == {"starting", "ready", "recycling", "restarting", "stopped"}

Processes ==
  /\ disk \in Nat \ {0}
  /\ procs \in Seq(Backend)
  /\ \A i \in 1 .. Len(procs) : procs[i].version \in 1 .. disk

Referred ==
  /\ cur \in 0 .. Len(procs) /\ (cur # 0 => procs[cur].phase # "dead")
  /\ awaited \in 0 .. Len(procs)
  /\ restarts \in Seq(Nat)
  /\ \A c \in 1 .. Len(restarts) : restarts[c] \in 0 .. Len(procs)

Timers ==
  /\ timer \in [restart : BOOLEAN, recovery : BOOLEAN, refreshing : BOOLEAN]
  /\ tries \in [count : 0 .. RecoveryLimit, gaveUp : BOOLEAN]
  /\ reported \in BOOLEAN /\ overlap \in BOOLEAN

\* The builder is started in four modes only, and watches once it is ready.
Builder ==
  /\ bh \in [status : Statuses, proc : BOOLEAN, ready : BOOLEAN,
             watch : {"none", "fix", "all"}, seen : Nat]
  /\ mode \in Modes
  /\ bh.status = "starting" <=> mode \in {"waking", "recycling", "reloading", "recovering"}
  /\ bh.ready <=> bh.watch # "none"
  /\ bh.ready <=> bh.status \in {"ready", "recycling"}
  /\ mode \in {"suspended", "halting", "down"} => bh.status = "stopped"
  /\ bh.status = "stopped" => bh.proc = FALSE

Attempts ==
  /\ attempt \in 0 .. StartAttempts
  /\ attempt > 0 <=> bh.status = "starting"

\* Nothing is seen or missed before it is on disk.
Versions ==
  /\ bh.seen <= disk
  /\ gap = {} \/ \E g \in 1 .. disk : gap = {g}
  /\ missed \in 0 .. disk /\ (bh.watch = "all" => missed <= bh.seen)

\* Whenever the host has a builder, or is about to, the edits that no builder
\* watches for show in the stamp.
Watched == bh.watch = "none" /\ mode \in {"awake", "suspended", "waking"} => gap # {}

Typed == Processes /\ Referred /\ Timers /\ Builder /\ Attempts /\ Versions /\ Watched

-----------------------------------------------------------------------------
(* Lemmas about operators *)

\* A process changes its phase, and nothing else does.
LEMMA PhaseChange ==
  ASSUME NEW q \in Seq(Backend), NEW i \in 1 .. Len(q), NEW ph \in Phases
  PROVE  LET p == [q EXCEPT ![i] = [q[i] EXCEPT !.phase = ph]]
         IN /\ p \in Seq(Backend) /\ Len(p) = Len(q)
            /\ p[i].phase = ph
            /\ \A j \in 1 .. Len(q) : p[j].version = q[j].version
            /\ \A j \in 1 .. Len(q) : j # i => p[j] = q[j]
<1> DEFINE b == [q[i] EXCEPT !.phase = ph]
           p == [q EXCEPT ![i] = b]
<1>1. Len(q) \in Nat /\ q[i] \in Backend /\ DOMAIN q = 1 .. Len(q)
  BY LenProperties, ElementOfSeq
<1>2. b \in Backend /\ b.phase = ph /\ b.version = q[i].version
  BY <1>1 DEF Backend
<1> HIDE DEF b, Backend
<1>4. p \in Seq(Backend) /\ Len(p) = Len(q)
  BY <1>2, ExceptSeq
<1>5. p[i] = b /\ \A j \in 1 .. Len(q) : j # i => p[j] = q[j]
  BY <1>1
<1> HIDE DEF p
<1>6. p[i].phase = ph /\ \A j \in 1 .. Len(q) : p[j].version = q[j].version
  BY <1>2, <1>5
<1> QED  BY <1>4, <1>5, <1>6 DEF b, p

\* What is left of a sequence was in it.
LEMMA RemoveAtOf ==
  ASSUME NEW S, NEW q \in Seq(S), NEW c \in 1 .. Len(q)
  PROVE  /\ RemoveAt(q, c) \in Seq(S) /\ Len(RemoveAt(q, c)) = Len(q) - 1
         /\ \A d \in 1 .. Len(q) - 1 : \E e \in 1 .. Len(q) : RemoveAt(q, c)[d] = q[e]
<1> DEFINE n == Len(q)
           a == SubSeq(q, 1, c - 1)
           b == SubSeq(q, c + 1, n)
<1>1. n \in Nat /\ DOMAIN q = 1 .. n
  BY LenProperties
<1>2. /\ a \in Seq(S) /\ Len(a) = c - 1
      /\ \A d \in 1 .. c - 1 : a[d] = q[d]
  BY <1>1, SubSeqProperties
<1>3. /\ b \in Seq(S) /\ Len(b) = n - c
      /\ \A d \in 1 .. n - c : b[d] = q[c + d]
  <2> DEFINE m == c + 1
  <2>1. m \in Int /\ n \in Int /\ \A i \in m .. n : q[i] \in S
    BY <1>1
  <2>2. n - m + 1 = n - c /\ (IF m <= n THEN n - m + 1 ELSE 0) = n - c
    <3>1. n \in Nat /\ c \in 1 .. n
      BY <1>1
    <3> HIDE DEF n
    <3>2. c \in Nat /\ c <= n
      BY <3>1
    <3>3. CASE c = n
      BY <3>1, <3>2, <3>3
    <3>4. CASE c < n
      BY <3>1, <3>2, <3>4
    <3> QED  BY <3>1, <3>2, <3>3, <3>4
  <2>3. \A d \in 1 .. n - c : m + d - 1 = c + d
    BY <1>1
  <2>4. b = SubSeq(q, m, n)
    OBVIOUS
  <2> HIDE DEF m, n, b
  <2>5. /\ b \in Seq(S) /\ Len(b) = IF m <= n THEN n - m + 1 ELSE 0
        /\ \A d \in 1 .. n - m + 1 : b[d] = q[m + d - 1]
    BY <2>1, <2>4, SubSeqProperties
  <2> QED  BY <2>2, <2>3, <2>5
<1>4. RemoveAt(q, c) = a \o b
  BY DEF RemoveAt
<1> HIDE DEF a, b, n
<1>5. /\ a \o b \in Seq(S) /\ Len(a \o b) = n - 1
      /\ \A d \in 1 .. n - 1 : (a \o b)[d] = IF d <= c - 1 THEN a[d] ELSE b[d - (c - 1)]
  <2>1. /\ a \o b \in Seq(S) /\ Len(a \o b) = Len(a) + Len(b)
        /\ \A d \in 1 .. Len(a) + Len(b) : (a \o b)[d] = IF d <= Len(a) THEN a[d] ELSE b[d - Len(a)]
    BY <1>2, <1>3, ConcatProperties
  <2>2. Len(a) + Len(b) = n - 1 /\ Len(a) = c - 1
    BY <1>1, <1>2, <1>3
  <2> QED  BY <2>1, <2>2
<1>6. ASSUME NEW d \in 1 .. n - 1 PROVE \E e \in 1 .. n : (a \o b)[d] = q[e]
  <2>1. CASE d <= c - 1
    <3>1. d \in 1 .. c - 1 /\ d \in 1 .. n
      BY <1>1, <2>1 DEF n
    <3> QED  BY <1>2, <1>5, <2>1, <3>1
  <2>2. CASE ~(d <= c - 1)
    <3> DEFINE k == d - (c - 1)
    <3>1. k \in 1 .. n - c /\ c + k = d + 1 /\ d + 1 \in 1 .. n
      BY <1>1, <2>2 DEF n
    <3>2. (a \o b)[d] = b[k]
      BY <1>5, <2>2
    <3> HIDE DEF k
    <3> QED  BY <1>3, <3>1, <3>2
  <2> QED  BY <2>1, <2>2
<1> QED  BY <1>4, <1>5, <1>6 DEF n

\* The stamp of the builder gap.
LEMMA BaselineOf ==
  ASSUME Processes, Versions
  PROVE  /\ Baseline \in 1 .. disk
         /\ gap = {} => Baseline = disk
         /\ \A g : gap = {g} => Baseline = g
<1>1. CASE gap = {}
  BY <1>1 DEF Baseline, Processes
<1>2. ASSUME NEW g \in 1 .. disk, gap = {g}
      PROVE  Baseline = g
  <2>1. Max({g}) = g
    BY DEF Max
  <2> QED  BY <1>2, <2>1 DEF Baseline
<1> QED  BY <1>1, <1>2 DEF Versions
-----------------------------------------------------------------------------
(* What a step does to the backend *)

\* Nothing happens to it: time passes, files are edited, the builder moves.
BackendStays ==
  /\ UNCHANGED <<procs, cur, restarts>>
  /\ awaited' \in {awaited, 0} /\ disk' \in {disk, disk + 1}

\* It is told to stop, by a restart or a recycle that will wait for its exit.
BackendToStop ==
  /\ disk' = disk /\ cur' = cur /\ procs' = Stopping(cur)
  /\ restarts' = restarts \/ restarts' = Append(restarts, cur)
  /\ awaited' \in {awaited, cur}

\* Another is started, by one of the calls under way or by none.
BackendStarts ==
  /\ disk' = disk /\ awaited' = awaited
  /\ procs' = Append(procs, [phase |-> "booting", version |-> disk])
  /\ cur' = Len(procs) + 1
  /\ restarts' = restarts \/ \E c \in 1 .. Len(restarts) : restarts' = RemoveAt(restarts, c)

\* A process gets ready or exits.
BackendMoves ==
  \E i \in 1 .. Len(procs), ph \in {"ready", "dead"} :
    /\ disk' = disk /\ awaited' = awaited /\ restarts' = restarts
    /\ procs[i].phase # "dead" /\ (ph = "ready" => procs[i].phase = "booting")
    /\ procs' = [procs EXCEPT ![i].phase = ph]
    /\ cur' = IF ph = "dead" /\ cur = i THEN 0 ELSE cur

LEMMA Domains == ASSUME Typed PROVE DOMAIN procs = 1 .. Len(procs) /\ DOMAIN restarts = 1 .. Len(restarts)
BY DEF Typed, Processes, Referred

LEMMA BackendSteps ==
  ASSUME Typed, [Next]_vars
  PROVE  BackendStays \/ BackendToStop \/ BackendStarts \/ BackendMoves
<1> USE Domains
<1>1. CASE UNCHANGED vars
  BY <1>1 DEF vars, backendVars, builderVars, BackendStays
<1>2. CASE \/ RecoveryTimerFires \/ Edit \/ WatchBatch \/ HandleInvalidate \/ FixBuild
           \/ ReadyBuilderExits \/ RestartTimer \/ ReplacementFails
           \/ RecoverBuilder \/ Recycle \/ BackendStopped \/ Suspend \/ Wake
  BY <1>2 DEF RecoveryTimerFires, Edit, WatchBatch, HandleInvalidate, FixBuild,
              ReadyBuilderExits, RestartTimer, ReplacementFails, RecoverBuilder, Recycle,
              BackendStopped, Suspend, Wake, backendVars, builderVars, BackendStays
<1>3. CASE RestartTimerFires \/ RecycleChildren \/ WakeForConfig
  BY <1>3 DEF RestartTimerFires, RecycleChildren, WakeForConfig, StopForRecycle, builderVars,
              BackendToStop
<1>4. CASE Revive \/ \E c \in DOMAIN restarts : RestartGoesOn(c)
  BY <1>4 DEF Revive, RestartGoesOn, StartBackend, builderVars, BackendStarts
<1>5. CASE RecoveryGoesOn
  BY <1>5 DEF RecoveryGoesOn, StartBackend, builderVars, BackendStarts, BackendStays
<1>6. CASE StartFails
  BY <1>6 DEF StartFails, StartBackend, BackendStarts, BackendStays
<1>7. ASSUME NEW degraded \in BOOLEAN, BuilderReady(degraded)
      PROVE  BackendStays \/ BackendStarts
  BY <1>7 DEF BuilderReady, StartBackend, BackendStarts, BackendStays
<1>8. ASSUME NEW i \in DOMAIN procs, BackendReady(i) \/ BackendStops(i) \/ BackendCrashes(i)
      PROVE  BackendMoves
  <2>1. CASE BackendReady(i)
    BY <1>8, <2>1 DEF BackendReady, builderVars, BackendMoves
  <2>2. CASE BackendStops(i)
    BY <1>8, <2>2 DEF BackendStops, builderVars, BackendMoves
  <2>3. CASE BackendCrashes(i)
    BY <1>8, <2>3 DEF BackendCrashes, Live, Alive, builderVars, BackendMoves
  <2> QED  BY <1>8, <2>1, <2>2, <2>3
<1> QED  BY <1>1, <1>2, <1>3, <1>4, <1>5, <1>6, <1>7, <1>8 DEF Next

LEMMA StaysTyped ==
  ASSUME Processes, Referred, BackendStays
  PROVE  Processes' /\ Referred'
<1>1. Processes'
  BY DEF Processes, BackendStays
<1>2. Referred'
  <2>1. Len(procs) \in Nat
    BY LenProperties DEF Processes
  <2> QED  BY <2>1 DEF Referred, BackendStays
<1> QED  BY <1>1, <1>2

\* What a sequence of stopped processes refers to.
LEMMA AppendOf ==
  ASSUME NEW n \in Nat, NEW q \in Seq(Nat), \A c \in 1 .. Len(q) : q[c] \in 0 .. n,
         NEW e \in 0 .. n
  PROVE  /\ Append(q, e) \in Seq(Nat) /\ Len(Append(q, e)) = Len(q) + 1
         /\ Append(q, e)[Len(q) + 1] = e
         /\ \A c \in 1 .. Len(q) : Append(q, e)[c] = q[c]
         /\ \A c \in 1 .. Len(Append(q, e)) : Append(q, e)[c] \in 0 .. n
<1>1. Len(q) \in Nat /\ e \in Nat
  BY LenProperties
<1> DEFINE p == Append(q, e)
<1>2. /\ p \in Seq(Nat) /\ Len(p) = Len(q) + 1 /\ p[Len(q) + 1] = e
      /\ \A c \in 1 .. Len(q) : p[c] = q[c]
  BY <1>1, AppendProperties
<1> HIDE DEF p
<1>3. ASSUME NEW c \in 1 .. Len(p) PROVE p[c] \in 0 .. n
  <2>1. c \in 1 .. Len(q) \/ c = Len(q) + 1
    BY <1>1, <1>2
  <2> QED  BY <1>2, <2>1
<1> QED  BY <1>2, <1>3 DEF p

LEMMA ToStopTyped ==
  ASSUME Processes, Referred, BackendToStop
  PROVE  /\ Processes' /\ Referred' /\ cur' \notin Live'
         /\ Len(procs') = Len(procs)
         /\ \A j \in 1 .. Len(procs) : procs'[j].phase # "dead" => procs[j].phase # "dead"
<1>0. /\ Len(procs) \in Nat /\ DOMAIN procs = 1 .. Len(procs) /\ cur \in 0 .. Len(procs)
      /\ procs \in Seq(Backend)
  BY LenProperties DEF Processes, Referred
<1>r. restarts' \in Seq(Nat) /\ \A c \in 1 .. Len(restarts') : restarts'[c] \in 0 .. Len(procs)
  <2>1. CASE restarts' = restarts
    BY <2>1 DEF Referred
  <2>2. CASE restarts' = Append(restarts, cur)
    BY <1>0, <2>2, AppendOf DEF Referred
  <2> QED  BY <2>1, <2>2 DEF BackendToStop
<1>a. cur' = cur /\ awaited' \in 0 .. Len(procs) /\ disk' = disk
  BY <1>0 DEF Referred, BackendToStop
<1> HIDE DEF Backend
<1>1. CASE cur = 0
  <2>1. procs' = procs
    BY <1>1 DEF BackendToStop, Stopping
  <2>2. Processes' /\ 0 \notin DOMAIN procs
    BY <1>0, <1>a, <2>1 DEF Processes
  <2>3. Referred'
    BY <1>0, <1>1, <1>r, <1>a, <2>1 DEF Referred
  <2>4. cur' \notin Live'
    BY <1>1, <1>a, <2>1, <2>2 DEF Live, Alive
  <2> QED  BY <2>1, <2>2, <2>3, <2>4
<1>2. CASE cur # 0
  <2>1. cur \in 1 .. Len(procs) /\ procs' = [procs EXCEPT ![cur].phase = "stopping"]
    BY <1>0, <1>2 DEF BackendToStop, Stopping
  <2>0. "stopping" \in Phases
    BY DEF Phases
  <2> DEFINE p == procs'
  <2> HIDE DEF p
  <2>p. p = [procs EXCEPT ![cur] = [procs[cur] EXCEPT !.phase = "stopping"]]
    BY <2>1 DEF p
  <2>2. /\ p \in Seq(Backend) /\ Len(p) = Len(procs)
        /\ p[cur].phase = "stopping"
        /\ \A j \in 1 .. Len(procs) : p[j].version = procs[j].version
        /\ \A j \in 1 .. Len(procs) : j # cur => p[j] = procs[j]
    BY <1>0, <2>0, <2>1, <2>p, PhaseChange
  <2>3. Processes'
    BY <1>a, <2>2 DEF Processes, p
  <2>4. Referred'
    <3>1. cur' \in 0 .. Len(procs') /\ procs'[cur'].phase # "dead"
      BY <1>0, <1>a, <2>2 DEF p
    <3>2. awaited' \in 0 .. Len(procs') /\ \A c \in 1 .. Len(restarts') : restarts'[c] \in 0 .. Len(procs')
      BY <1>a, <1>r, <2>2 DEF p
    <3> QED  BY <1>r, <3>1, <3>2 DEF Referred
  <2>5. cur' \notin Live'
    BY <1>a, <2>2 DEF Live, Alive, p
  <2>6. procs[cur].phase # "dead"
    BY <1>2 DEF Referred
  <2> QED  BY <2>2, <2>3, <2>4, <2>5, <2>6 DEF p
<1> QED  BY <1>1, <1>2

LEMMA StartsTyped ==
  ASSUME Processes, Referred, BackendStarts
  PROVE  /\ Processes' /\ Referred' /\ cur' = Len(procs) + 1 /\ Len(procs') = Len(procs) + 1
         /\ procs'[cur'] = [phase |-> "booting", version |-> disk]
         /\ \A j \in 1 .. Len(procs) : procs'[j] = procs[j]
         /\ \A c \in 1 .. Len(restarts') : \E d \in 1 .. Len(restarts) : restarts'[c] = restarts[d]
<1>0. /\ Len(procs) \in Nat /\ DOMAIN procs = 1 .. Len(procs) /\ cur \in 0 .. Len(procs)
      /\ procs \in Seq(Backend) /\ restarts \in Seq(Nat)
  BY LenProperties DEF Processes, Referred
<1> DEFINE b == [phase |-> "booting", version |-> disk]
<1>1. b \in Backend /\ b.version = disk /\ b.phase = "booting" /\ procs' = Append(procs, b)
  BY DEF Backend, Phases, Processes, BackendStarts
<1> HIDE DEF b, Backend
<1>2. /\ procs' \in Seq(Backend) /\ Len(procs') = Len(procs) + 1
      /\ procs'[Len(procs) + 1] = b
      /\ \A j \in 1 .. Len(procs) : procs'[j] = procs[j]
  BY <1>0, <1>1, AppendProperties
<1>3. /\ restarts' \in Seq(Nat)
      /\ \A c \in 1 .. Len(restarts') : \E d \in 1 .. Len(restarts) : restarts'[c] = restarts[d]
  <2>1. CASE restarts' = restarts
    BY <1>0, <2>1
  <2>2. ASSUME NEW c \in 1 .. Len(restarts), restarts' = RemoveAt(restarts, c) PROVE <1>3!:
    <3>1. /\ RemoveAt(restarts, c) \in Seq(Nat) /\ Len(RemoveAt(restarts, c)) = Len(restarts) - 1
          /\ \A d \in 1 .. Len(restarts) - 1 : \E e \in 1 .. Len(restarts) : RemoveAt(restarts, c)[d] = restarts[e]
      <4>1. restarts \in Seq(Nat)
        BY <1>0
      <4> QED  BY <4>1, RemoveAtOf, SMTT(40)
    <3> QED  BY <2>2, <3>1
  <2> QED  BY <2>1, <2>2 DEF BackendStarts
<1>a. cur' = Len(procs) + 1 /\ awaited' = awaited /\ disk' = disk
  BY DEF BackendStarts
<1>4. Processes'
  <2>1. ASSUME NEW i \in 1 .. Len(procs') PROVE procs'[i].version \in 1 .. disk'
    <3>1. i \in 1 .. Len(procs) \/ i = Len(procs) + 1
      BY <1>0, <1>2
    <3>2. CASE i \in 1 .. Len(procs)
      BY <1>2, <1>a, <3>2 DEF Processes
    <3>3. CASE i = Len(procs) + 1
      BY <1>1, <1>2, <1>a, <3>3 DEF Processes
    <3> QED  BY <3>1, <3>2, <3>3
  <2> QED  BY <1>2, <1>a, <2>1 DEF Processes
<1>5. Referred'
  <2>1. cur' \in 0 .. Len(procs') /\ procs'[cur'].phase # "dead"
    BY <1>0, <1>1, <1>2, <1>a
  <2>2. awaited' \in 0 .. Len(procs')
    BY <1>0, <1>2, <1>a DEF Referred
  <2>3. ASSUME NEW c \in 1 .. Len(restarts') PROVE restarts'[c] \in 0 .. Len(procs')
    <3>1. PICK d \in 1 .. Len(restarts) : restarts'[c] = restarts[d]
      BY <1>3
    <3>2. restarts[d] \in 0 .. Len(procs)
      BY DEF Referred
    <3> QED  BY <1>0, <1>2, <3>1, <3>2
  <2> QED  BY <1>3, <2>1, <2>2, <2>3 DEF Referred
<1> QED  BY <1>2, <1>3, <1>4, <1>5, <1>a DEF b

LEMMA MovesTyped ==
  ASSUME Processes, Referred, BackendMoves
  PROVE  /\ Processes' /\ Referred' /\ Len(procs') = Len(procs) /\ cur' \in {cur, 0}
         /\ \A j \in 1 .. Len(procs) : procs'[j].version = procs[j].version
         /\ \A j \in 1 .. Len(procs) : procs'[j].phase # "dead" => procs[j].phase # "dead"
         /\ \A j \in 1 .. Len(procs) :
              procs'[j].phase \in {"booting", "stopping"} => procs'[j] = procs[j]
         /\ \A j \in 1 .. Len(procs) : procs'[j].phase = "dead" => procs[j].phase = "dead" \/ j # cur'
         /\ cur' # cur => procs'[cur].phase = "dead"
<1>0. /\ Len(procs) \in Nat /\ DOMAIN procs = 1 .. Len(procs) /\ cur \in 0 .. Len(procs)
      /\ procs \in Seq(Backend)
  BY LenProperties DEF Processes, Referred
<1>1. PICK i \in 1 .. Len(procs), ph \in {"ready", "dead"} :
        /\ disk' = disk /\ awaited' = awaited /\ restarts' = restarts
        /\ procs[i].phase # "dead" /\ (ph = "ready" => procs[i].phase = "booting")
        /\ procs' = [procs EXCEPT ![i].phase = ph]
        /\ cur' = IF ph = "dead" /\ cur = i THEN 0 ELSE cur
  BY DEF BackendMoves
<1> HIDE DEF Backend
<1>p. ph \in Phases
  BY DEF Phases
<1> DEFINE p == procs'
<1> HIDE DEF p
<1>q. p = [procs EXCEPT ![i] = [procs[i] EXCEPT !.phase = ph]]
  BY <1>1 DEF p
<1>2. /\ p \in Seq(Backend) /\ Len(p) = Len(procs)
      /\ p[i].phase = ph
      /\ \A j \in 1 .. Len(procs) : p[j].version = procs[j].version
      /\ \A j \in 1 .. Len(procs) : j # i => p[j] = procs[j]
  BY <1>0, <1>p, <1>q, PhaseChange
<1>3. Processes'
  BY <1>1, <1>2 DEF Processes, p
<1>c. cur' \in {cur, 0} /\ (cur' = i => ph # "dead")
  BY <1>1
<1>4. Referred'
  <2>1. cur' \in 0 .. Len(procs')
    BY <1>0, <1>c, <1>2 DEF p
  <2>2. cur' # 0 => procs'[cur'].phase # "dead"
    BY <1>0, <1>c, <1>2 DEF p, Referred
  <2> QED  BY <1>1, <1>2, <2>1, <2>2 DEF Referred, p
<1>5. ASSUME NEW j \in 1 .. Len(procs)
      PROVE  /\ p[j].phase # "dead" => procs[j].phase # "dead"
             /\ p[j].phase \in {"booting", "stopping"} => p[j] = procs[j]
             /\ p[j].phase = "dead" => procs[j].phase = "dead" \/ j # cur'
  BY <1>1, <1>2, <1>c
<1>6. cur' # cur => p[cur].phase = "dead"
  BY <1>1, <1>2
<1> QED  BY <1>2, <1>3, <1>4, <1>5, <1>6, <1>c DEF p

LEMMA NextBackend == ASSUME Typed, [Next]_vars PROVE Processes' /\ Referred'
BY BackendSteps, StaysTyped, ToStopTyped, StartsTyped, MovesTyped DEF Typed
-----------------------------------------------------------------------------
(* What a step does to the timers and the builder *)

LEMMA NextTimers == ASSUME Typed, [Next]_vars PROVE Timers'
<1>0. Timers /\ RecoveryLimit \in Nat
  BY HostAssumption DEF Typed, HostAssumption
<1>1. timer' \in [restart : BOOLEAN, recovery : BOOLEAN, refreshing : BOOLEAN]
  <2> DEFINE T == [restart : BOOLEAN, recovery : BOOLEAN, refreshing : BOOLEAN]
  <2>0. timer \in T
    BY <1>0 DEF Timers
  <2>1. CASE timer' = timer
    BY <2>0, <2>1
  <2>2. CASE \E r \in BOOLEAN : timer' = [timer EXCEPT !.restart = TRUE, !.recovery = FALSE]
                             \/ timer' = [timer EXCEPT !.restart = FALSE]
                             \/ timer' = [timer EXCEPT !.recovery = TRUE]
                             \/ timer' = [timer EXCEPT !.recovery = FALSE, !.refreshing = r]
                             \/ timer' = [timer EXCEPT !.refreshing = FALSE]
                             \/ timer' = [timer EXCEPT !.restart = FALSE, !.recovery = FALSE]
    BY <2>0, <2>2
  <2>3. ((cur = 0) \/ timer.refreshing) \in BOOLEAN
    BY <2>0
  <2> HIDE DEF T
  <2>4. CASE \/ RestartTimerFires \/ RecoveryTimerFires \/ RecoveryGoesOn \/ Revive
             \/ \E c \in DOMAIN restarts : RestartGoesOn(c)
    BY <2>1, <2>2, <2>3, <2>4 DEF RestartTimerFires, RecoveryTimerFires, RecoveryGoesOn, Revive, RestartGoesOn
  <2>5. CASE \/ \E i \in DOMAIN procs : BackendReady(i) \/ BackendStops(i) \/ BackendCrashes(i)
             \/ Edit \/ WatchBatch \/ HandleInvalidate \/ RecycleChildren
    BY <2>1, <2>2, <2>5 DEF BackendReady, BackendStops, BackendCrashes, Edit, WatchBatch, HandleInvalidate,
         RecycleChildren, ScheduleRestart, StopForRecycle, backendVars
  <2>6. CASE \/ \E degraded \in BOOLEAN : BuilderReady(degraded)
             \/ FixBuild \/ ReadyBuilderExits \/ RestartTimer \/ ReplacementFails \/ StartFails
             \/ RecoverBuilder \/ Recycle \/ BackendStopped \/ Suspend \/ Wake \/ WakeForConfig
    BY <2>1, <2>2, <2>6 DEF BuilderReady, TakeGap, ScheduleRestart, FixBuild, ReadyBuilderExits, RestartTimer,
         ReplacementFails, StartFails, RecoverBuilder, Recycle, BackendStopped, Suspend, Wake,
         WakeForConfig, StopForRecycle, backendVars
  <2>7. CASE UNCHANGED vars
    BY <2>1, <2>7 DEF vars, backendVars
  <2> QED  BY <2>4, <2>5, <2>6, <2>7 DEF Next, T
<1>2. tries' \in [count : 0 .. RecoveryLimit, gaveUp : BOOLEAN]
  <2> DEFINE T == [count : 0 .. RecoveryLimit, gaveUp : BOOLEAN]
  <2>0. tries \in T /\ tries.count \in 0 .. RecoveryLimit
    BY <1>0 DEF Timers
  <2>1. CASE tries' = tries
    BY <2>0, <2>1
  <2>2. CASE \/ tries' = [tries EXCEPT !.count = 0]
             \/ tries' = [tries EXCEPT !.gaveUp = FALSE]
             \/ tries' = [tries EXCEPT !.gaveUp = TRUE]
             \/ tries' = [count |-> 0, gaveUp |-> FALSE]
    <3>1. 0 \in 0 .. RecoveryLimit
      BY <1>0
    <3>2. CASE tries' = [count |-> 0, gaveUp |-> FALSE]
      BY <3>1, <3>2
    <3>3. CASE \/ tries' = [tries EXCEPT !.count = 0]
               \/ tries' = [tries EXCEPT !.gaveUp = FALSE]
               \/ tries' = [tries EXCEPT !.gaveUp = TRUE]
      BY <2>0, <3>1, <3>3
    <3> QED  BY <2>2, <3>2, <3>3
  <2>3. CASE ~(tries.count >= RecoveryLimit) /\ tries' = [tries EXCEPT !.count = @ + 1]
    <3>1. tries.count + 1 \in 0 .. RecoveryLimit
      BY <1>0, <2>0, <2>3
    <3> QED  BY <2>0, <2>3, <3>1
  <2> HIDE DEF T
  <2>4. CASE \/ RestartTimerFires \/ RecoveryTimerFires \/ RecoveryGoesOn \/ Revive
             \/ \E c \in DOMAIN restarts : RestartGoesOn(c)
    BY <2>1, <2>2, <2>4 DEF RestartTimerFires, RecoveryTimerFires, RecoveryGoesOn, Revive, RestartGoesOn
  <2>5. CASE \/ \E i \in DOMAIN procs : BackendReady(i) \/ BackendStops(i)
             \/ Edit \/ WatchBatch \/ HandleInvalidate \/ RecycleChildren
    BY <2>1, <2>2, <2>5 DEF BackendReady, BackendStops, Edit, WatchBatch, HandleInvalidate,
         RecycleChildren, StopForRecycle, backendVars
  <2>6. CASE \/ \E degraded \in BOOLEAN : BuilderReady(degraded)
             \/ FixBuild \/ ReadyBuilderExits \/ RestartTimer \/ ReplacementFails \/ StartFails
             \/ RecoverBuilder \/ Recycle \/ BackendStopped \/ Suspend \/ Wake \/ WakeForConfig
    BY <2>1, <2>2, <2>6 DEF BuilderReady, FixBuild, ReadyBuilderExits, RestartTimer,
         ReplacementFails, StartFails, RecoverBuilder, Recycle, BackendStopped, Suspend, Wake,
         WakeForConfig, StopForRecycle, backendVars
  <2>7. CASE \E i \in DOMAIN procs : BackendCrashes(i)
    BY <2>1, <2>2, <2>3, <2>7 DEF BackendCrashes
  <2>8. CASE UNCHANGED vars
    BY <2>1, <2>8 DEF vars, backendVars
  <2> QED  BY <2>4, <2>5, <2>6, <2>7, <2>8 DEF Next, T
<1>3. reported' \in BOOLEAN
  <2>1. reported \in BOOLEAN
    BY <1>0 DEF Timers
  <2> QED
    BY <2>1 DEF Next, vars, RestartTimerFires, RecoveryTimerFires, RecoveryGoesOn, Revive, RestartGoesOn,
         BackendReady, BackendStops, BackendCrashes, Edit, WatchBatch, HandleInvalidate, RecycleChildren,
         BuilderReady, FixBuild, ReadyBuilderExits, RestartTimer, ReplacementFails, StartFails,
         RecoverBuilder, Recycle, BackendStopped, Suspend, Wake, WakeForConfig
<1>4. overlap' \in BOOLEAN
  <2>1. overlap \in BOOLEAN
    BY <1>0 DEF Timers
  <2>2. overlap' = overlap \/ \E k \in {0, 1} : overlap' = (overlap \/ Starters > k)
    BY DEF Next, vars, RestartTimerFires, RecoveryTimerFires, RecoveryGoesOn, Revive, RestartGoesOn,
         BackendReady, BackendStops, BackendCrashes, Edit, WatchBatch, HandleInvalidate, RecycleChildren,
         BuilderReady, FixBuild, ReadyBuilderExits, RestartTimer, ReplacementFails, StartFails,
         RecoverBuilder, Recycle, BackendStopped, Suspend, Wake, WakeForConfig,
         backendVars, StarterBegins, StartBackend, StopForRecycle
  <2>3. (overlap \/ Starters > 0) \in BOOLEAN /\ (overlap \/ Starters > 1) \in BOOLEAN
    OBVIOUS
  <2> QED  BY <2>1, <2>2, <2>3
<1> QED  BY <1>1, <1>2, <1>3, <1>4 DEF Timers
BuilderHealth == Builder /\ Attempts /\ Versions /\ Watched

\* Steps of the backend alone.
BuilderStays == UNCHANGED <<bh, mode, attempt, gap, missed, disk>>

LEMMA BuilderSteps ==
  ASSUME [Next]_vars
  PROVE  \/ BuilderStays
         \/ RecycleChildren \/ WakeForConfig \/ Edit \/ WatchBatch
         \/ \E degraded \in BOOLEAN : BuilderReady(degraded)
         \/ FixBuild \/ ReadyBuilderExits \/ RestartTimer \/ ReplacementFails \/ StartFails
         \/ RecoverBuilder \/ Recycle \/ BackendStopped \/ Suspend \/ Wake
BY DEF Next, vars, builderVars, BuilderStays, RestartTimerFires, RecoveryTimerFires, RecoveryGoesOn,
       Revive, RestartGoesOn, BackendReady, BackendStops, BackendCrashes, HandleInvalidate

\* The builders that the host makes.
LEMMA Builders ==
  /\ Stopped.status = "stopped" /\ Stopped.proc = FALSE /\ Stopped.ready = FALSE
  /\ Stopped.watch = "none" /\ Stopped.seen = 0
  /\ \A s \in Statuses :
       /\ Spawned(s).status = s /\ Spawned(s).proc = TRUE /\ Spawned(s).ready = FALSE
       /\ Spawned(s).watch = "none" /\ Spawned(s).seen = 0
       /\ [Stopped EXCEPT !.status = s].status = s
       /\ [Stopped EXCEPT !.status = s].ready = FALSE
       /\ [Stopped EXCEPT !.status = s].watch = "none"
       /\ [Stopped EXCEPT !.status = s].seen = 0
BY DEF Stopped, Spawned

BuilderKind == [status : Statuses, proc : BOOLEAN, ready : BOOLEAN,
                watch : {"none", "fix", "all"}, seen : Nat]

LEMMA BuilderKinds ==
  /\ Stopped \in BuilderKind
  /\ \A s \in Statuses : Spawned(s) \in BuilderKind /\ [Stopped EXCEPT !.status = s] \in BuilderKind
BY DEF Stopped, Spawned, BuilderKind, Statuses

\* A builder that leaves: what it had not reported is missed, or shows in the stamp.
LEMMA GoneMissed ==
  ASSUME Processes, Builder, Versions, BuilderGone, disk' = disk, bh'.watch = "none",
         gap' \in {gap, {Baseline}}, bh'.seen = 0
  PROVE  Versions'
<1>0. disk \in Nat /\ missed \in 0 .. disk /\ Baseline \in 1 .. disk
  BY BaselineOf DEF Processes, Versions
<1>1. missed' \in 0 .. disk'
  BY <1>0 DEF BuilderGone
<1>2. gap' = {} \/ \E g \in 1 .. disk' : gap' = {g}
  <2>1. CASE gap' = gap
    BY <2>1 DEF Versions
  <2>2. CASE gap' = {Baseline}
    BY <1>0, <2>2
  <2> QED  BY <2>1, <2>2
<1> QED  BY <1>0, <1>1, <1>2 DEF Versions
LEMMA NextBuilder == ASSUME Typed, [Next]_vars PROVE BuilderHealth'
<1> USE DEF BuilderHealth
<1>0. /\ bh \in BuilderKind /\ mode \in Modes
      /\ bh.status = "starting" <=> mode \in {"waking", "recycling", "reloading", "recovering"}
      /\ bh.ready <=> bh.watch # "none"
      /\ bh.ready <=> bh.status \in {"ready", "recycling"}
      /\ mode \in {"suspended", "halting", "down"} => bh.status = "stopped"
      /\ bh.status = "stopped" => bh.proc = FALSE
      /\ bh.proc \in BOOLEAN /\ bh.ready \in BOOLEAN /\ bh.status \in Statuses
      /\ bh.watch \in {"none", "fix", "all"}
  BY DEF Typed, Builder, BuilderKind
<1>n. /\ disk \in Nat \ {0} /\ bh.seen \in Nat /\ bh.seen <= disk /\ missed \in 0 .. disk
      /\ (bh.watch = "all" => missed <= bh.seen)
      /\ gap = {} \/ \E g \in 1 .. disk : gap = {g}
      /\ attempt \in 0 .. StartAttempts /\ (attempt > 0 <=> bh.status = "starting")
      /\ StartAttempts \in Nat \ {0}
      /\ Baseline \in 1 .. disk
  BY HostAssumption, BaselineOf
  DEF Typed, Processes, Builder, Versions, Attempts, HostAssumption
<1>w. Watched
  BY DEF Typed
<1>1. CASE BuilderStays
  BY <1>1 DEF Typed, Builder, Attempts, Versions, Watched, BuilderStays
<1>2. CASE RecycleChildren
  BY <1>0, <1>n, <1>2 DEF RecycleChildren, StopForRecycle, Builder, Attempts, Versions, Watched,
     BuilderKind, Modes
<1>3. CASE WakeForConfig
  BY <1>0, <1>n, <1>3 DEF WakeForConfig, StopForRecycle, Builder, Attempts, Versions, Watched,
     BuilderKind, Modes
<1>4. CASE Edit
  <2>1. UNCHANGED <<bh, mode, attempt, gap>> /\ disk' = disk + 1 /\ missed' \in {missed, disk + 1}
        /\ (bh.watch = "all" => missed' = missed)
    BY <1>4 DEF Edit, builderVars
  <2>2. Versions'
    BY <1>n, <2>1 DEF Versions
  <2> QED  BY <2>1, <2>2 DEF Typed, Builder, Attempts, Watched
<1>5. CASE WatchBatch \/ FixBuild
  <2>1. /\ UNCHANGED <<disk, mode, attempt, gap, missed>>
        /\ \E w \in {"all"} : bh' = [bh EXCEPT !.watch = w, !.seen = disk]
        /\ bh.watch # "none"
    BY <1>0, <1>5 DEF WatchBatch, FixBuild, BuilderKind
  <2>2. /\ bh' \in BuilderKind /\ bh'.status = bh.status /\ bh'.ready = bh.ready
        /\ bh'.proc = bh.proc
        /\ bh'.watch = "all" /\ bh'.seen = disk
    BY <1>0, <1>n, <2>1 DEF BuilderKind
  <2>3. Builder'
    BY <1>0, <2>1, <2>2 DEF Builder, BuilderKind
  <2> QED  BY <1>n, <2>1, <2>2, <2>3 DEF Attempts, Versions, Watched
<1>6. ASSUME NEW degraded \in BOOLEAN, BuilderReady(degraded) PROVE BuilderHealth'
  <2>1. /\ disk' = disk /\ missed' = missed /\ attempt' = 0 /\ gap' \in {gap, {}}
        /\ mode' = IF bh.status = "starting" THEN "awake" ELSE mode
        /\ bh.ready = FALSE
        /\ bh' = [bh EXCEPT !.status = "ready", !.ready = TRUE, !.seen = disk,
                         !.watch = IF degraded THEN "fix" ELSE "all"]
        /\ bh.proc
    BY <1>0, <1>6 DEF BuilderReady, TakeGap
  <2>2. /\ bh' \in BuilderKind /\ bh'.status = "ready" /\ bh'.ready = TRUE
        /\ bh'.watch # "none" /\ bh'.seen = disk
    BY <1>0, <1>n, <2>1 DEF BuilderKind, Statuses
  <2>3. mode' \notin {"suspended", "halting", "down"}
    BY <1>0, <2>1
  <2>4. Builder'
    BY <1>0, <2>1, <2>2, <2>3 DEF Builder, BuilderKind, Modes
  <2> QED  BY <1>n, <2>1, <2>2, <2>4 DEF Attempts, Versions, Watched
<1>7. CASE ReadyBuilderExits
  <2>1. /\ bh' = Spawned("restarting") \/ bh' = [Stopped EXCEPT !.status = "restarting"]
        /\ disk' = disk /\ mode' = mode /\ attempt' = attempt /\ gap' = {Baseline}
        /\ BuilderGone /\ bh.ready
    BY <1>7 DEF ReadyBuilderExits, OpenGap
  <2>2. /\ bh' \in BuilderKind /\ bh'.status = "restarting" /\ bh'.ready = FALSE
        /\ bh'.watch = "none" /\ bh'.seen = 0
    <3>1. "restarting" \in Statuses
      BY DEF Statuses
    <3>2. CASE bh' = Spawned("restarting")
      BY <3>1, <3>2, Builders, BuilderKinds
    <3>3. CASE bh' = [Stopped EXCEPT !.status = "restarting"]
      BY <3>1, <3>3, Builders, BuilderKinds
    <3> QED  BY <2>1, <3>2, <3>3
  <2>3. Builder'
    BY <1>0, <2>1, <2>2 DEF Builder, BuilderKind
  <2>4. Versions'
    BY <2>1, <2>2, GoneMissed DEF Typed
  <2> QED  BY <1>0, <1>n, <2>1, <2>2, <2>3, <2>4 DEF Attempts, Watched
<1>8. CASE RestartTimer \/ ReplacementFails
  <2>1. /\ bh'.status = "restarting" \/ (bh'.status = "stopped" /\ bh'.proc = FALSE)
        /\ bh' \in BuilderKind /\ bh'.ready = FALSE /\ bh'.watch = "none" /\ bh'.seen = 0
        /\ UNCHANGED <<disk, mode, attempt, gap, missed>>
        /\ bh.status = "restarting"
    BY <1>8, Builders, BuilderKinds DEF RestartTimer, ReplacementFails, Statuses
  <2>2. Builder'
    BY <1>0, <2>1 DEF Builder, BuilderKind
  <2> QED  BY <1>0, <1>n, <1>w, <2>1, <2>2 DEF Attempts, Versions, Watched
<1>9. ASSUME NEW n \in 1 .. StartAttempts, StartBuilder(n),
             mode' \in {"waking", "recycling", "reloading", "recovering"},
             Versions', Watched'
      PROVE  BuilderHealth'
  <2>1. /\ bh' \in BuilderKind /\ bh'.status = "starting" /\ bh'.ready = FALSE
        /\ bh'.watch = "none" /\ attempt' = n
    BY <1>9, Builders, BuilderKinds DEF StartBuilder, Statuses
  <2>2. Builder'
    BY <1>9, <2>1 DEF Builder, BuilderKind, Modes
  <2>3. Attempts'
    BY <1>9, <2>1 DEF Attempts
  <2> QED  BY <1>9, <2>2, <2>3
<1>10. CASE StartFails
  <2>0. bh.status = "starting" /\ bh.watch = "none"
        /\ mode \in {"waking", "recycling", "reloading", "recovering"}
    BY <1>0, <1>n, <1>10 DEF StartFails
  <2>1. CASE attempt < StartAttempts
    <3>1. /\ StartBuilder(attempt + 1) /\ mode' = mode /\ UNCHANGED <<disk, gap, missed>>
      BY <1>10, <2>1 DEF StartFails
    <3>2. bh'.seen = 0 /\ bh'.watch = "none"
      BY <3>1, Builders DEF StartBuilder, Statuses
    <3>3. attempt + 1 \in 1 .. StartAttempts
      BY <1>n, <2>1
    <3>4. Versions'
      BY <1>n, <3>1, <3>2 DEF Versions
    <3>5. Watched'
      BY <1>w, <2>0, <3>1, <3>2 DEF Watched
    <3> QED  BY <1>9, <2>0, <3>1, <3>3, <3>4, <3>5
  <2>2. CASE ~(attempt < StartAttempts)
    <3>1. attempt' = 0 /\ bh' = Stopped /\ mode' = "down" /\ UNCHANGED <<disk, gap, missed>>
      BY <1>10, <2>2 DEF StartFails
    <3>2. Builder'
      BY <3>1, Builders, BuilderKinds DEF Builder, BuilderKind, Modes
    <3> QED  BY <1>n, <3>1, <3>2, Builders DEF Attempts, Versions, Watched
  <2> QED  BY <2>1, <2>2
<1>11. CASE RecoverBuilder \/ Wake
  <2>1. /\ StartBuilder(1) /\ UNCHANGED <<disk, gap, missed>>
        /\ \/ mode = "down" /\ mode' = "recovering"
           \/ mode = "suspended" /\ mode' = "waking"
        /\ bh.watch = "none"
    BY <1>0, <1>11 DEF RecoverBuilder, Wake, backendVars
  <2>2. bh'.seen = 0 /\ bh'.watch = "none"
    BY <2>1, Builders DEF StartBuilder, Statuses
  <2>3. Versions'
    BY <1>n, <2>1, <2>2 DEF Versions
  <2>4. Watched'
    BY <1>w, <2>1, <2>2 DEF Watched
  <2>5. 1 \in 1 .. StartAttempts
    BY <1>n
  <2> QED  BY <1>9, <2>1, <2>3, <2>4, <2>5
<1>12. CASE Recycle
  <2>1. /\ bh' = [bh EXCEPT !.status = "recycling"] /\ bh.status = "ready"
        /\ mode = "awake" /\ mode' = mode /\ attempt' = attempt /\ disk' = disk /\ missed' = missed
        /\ gap' = {Baseline}
    BY <1>12 DEF Recycle, OpenGap
  <2>2. /\ bh' \in BuilderKind /\ bh'.status = "recycling" /\ bh'.ready = bh.ready
        /\ bh'.watch = bh.watch /\ bh'.seen = bh.seen
    BY <1>0, <2>1 DEF BuilderKind, Statuses
  <2>3. Builder'
    BY <1>0, <2>1, <2>2 DEF Builder, BuilderKind
  <2> QED  BY <1>0, <1>n, <2>1, <2>2, <2>3 DEF Attempts, Versions, Watched
<1>13. CASE BackendStopped
  <2>1. /\ StartBuilder(1) /\ mode' \in {"recycling", "reloading"} /\ BuilderGone
        /\ disk' = disk /\ gap' = gap
    BY <1>13 DEF BackendStopped
  <2>2. bh'.seen = 0 /\ bh'.watch = "none"
    BY <2>1, Builders DEF StartBuilder, Statuses
  <2>3. Versions'
    BY <2>1, <2>2, GoneMissed DEF Typed
  <2>4. Watched'
    BY <2>1 DEF Watched
  <2>5. 1 \in 1 .. StartAttempts
    BY <1>n
  <2> QED  BY <1>9, <2>1, <2>3, <2>4, <2>5
<1>14. CASE Suspend
  <2>1. /\ bh' = Stopped /\ mode' = "suspended" /\ mode = "awake" /\ attempt' = attempt
        /\ BuilderGone /\ gap' = {Baseline} /\ disk' = disk
    BY <1>14 DEF Suspend, OpenGap
  <2>2. Versions'
    BY <2>1, Builders, GoneMissed DEF Typed
  <2>3. Builder'
    BY <2>1, Builders, BuilderKinds DEF Builder, BuilderKind, Modes
  <2>4. Attempts'
    BY <1>0, <1>n, <2>1, Builders DEF Attempts
  <2> QED  BY <2>1, <2>2, <2>3, <2>4 DEF Watched
<1> QED
  BY BuilderSteps, <1>1, <1>2, <1>3, <1>4, <1>5, <1>6, <1>7, <1>8, <1>10, <1>11, <1>12, <1>13, <1>14
LEMMA TypedInit == ASSUME Init PROVE Typed
<1>1. Processes /\ Referred
  <2> DEFINE b == [phase |-> "booting", version |-> 1]
  <2>1. b \in Backend /\ b.version = 1 /\ b.phase = "booting" /\ procs = <<b>>
    BY DEF Init, Backend, Phases
  <2> HIDE DEF b, Backend
  <2>2. procs \in Seq(Backend) /\ Len(procs) = 1 /\ procs[1] = b
    BY <2>1
  <2>3. restarts \in Seq(Nat) /\ Len(restarts) = 0
    BY DEF Init
  <2> QED  BY <2>1, <2>2, <2>3 DEF Init, Processes, Referred
<1>2. Timers
  <2>1. 0 \in 0 .. RecoveryLimit
    BY HostAssumption DEF HostAssumption
  <2>2. tries \in [count : 0 .. RecoveryLimit, gaveUp : BOOLEAN]
    BY <2>1 DEF Init
  <2> QED  BY <2>2 DEF Init, Timers
<1>3. Builder /\ Attempts
  BY HostAssumption DEF Init, Builder, Attempts, Modes, Statuses, HostAssumption
<1>4. Versions /\ Watched
  BY DEF Init, Versions, Watched
<1> QED  BY <1>1, <1>2, <1>3, <1>4 DEF Typed

LEMMA NextTyped == ASSUME Typed, [Next]_vars PROVE Typed'
BY NextBackend, NextTimers, NextBuilder DEF Typed, BuilderHealth

-----------------------------------------------------------------------------
(* The inductive invariant: edits *)

\* Noticed, without the recycles that are under way: those stop the backend.
Seen ==
  \/ reported \/ (bh.watch = "all" /\ bh.seen < disk)
  \/ timer.restart \/ restarts # << >>
  \/ \E v \in gap : v < disk

Stale == cur \in Live /\ procs[cur].version < disk => Seen \/ procs[cur].version < missed

\* The edits that a departing builder had not reported are in the stamp, or missed.
LEMMA GoneSeen ==
  ASSUME Typed, BuilderGone, disk' = disk, NEW v \in 1 .. disk, v < disk,
         gap' = {Baseline} \/ gap' = gap,
         v < missed \/ (bh.watch = "all" /\ bh.seen < disk) \/ \E g \in gap : g < disk
  PROVE  v < missed' \/ \E g \in gap' : g < disk'
<1>0. /\ disk \in Nat /\ missed \in 0 .. disk /\ Baseline \in 1 .. disk /\ bh.seen \in Nat
      /\ bh.watch = "all" => missed <= bh.seen
  BY BaselineOf DEF Typed, Processes, Versions, Builder
<1>1. missed' \in 0 .. disk /\ missed <= missed'
  BY <1>0 DEF BuilderGone
<1>2. CASE v < missed
  BY <1>0, <1>1, <1>2
<1>3. CASE \E g \in gap : g < disk
  <2>1. PICK g \in 1 .. disk : gap = {g} /\ g < disk
    BY <1>3 DEF Typed, Versions
  <2>2. Baseline = g
    BY <2>1, BaselineOf DEF Typed
  <2> QED  BY <2>1, <2>2
<1>4. CASE bh.watch = "all" /\ bh.seen < disk /\ ~\E g \in gap : g < disk
  <2>1. Baseline = disk
    <3>1. CASE gap = {}
      BY <3>1, BaselineOf DEF Typed
    <3>2. ASSUME NEW g \in 1 .. disk, gap = {g} PROVE Baseline = disk
      <4>1. g = disk
        BY <1>0, <1>4, <3>2
      <4> QED  BY <3>2, <4>1, BaselineOf DEF Typed
    <3> QED  BY <3>1, <3>2 DEF Typed, Versions
  <2>2. missed' = disk
    BY <1>4, <2>1 DEF BuilderGone
  <2> QED  BY <2>2
<1> QED  BY <1>2, <1>3, <1>4

\* Other steps lose no edit that can be seen, unless they stop the backend or
\* start another.
LEMMA NextSeen ==
  ASSUME Typed, [Next]_vars, NEW v \in 1 .. disk, v < disk => Seen \/ v < missed
  PROVE  BackendToStop \/ BackendStarts \/ (v < disk' => Seen' \/ v < missed')
<1> DEFINE Goal == v < disk' => Seen' \/ v < missed'
<1>0. /\ disk \in Nat \ {0} /\ missed \in 0 .. disk /\ bh.seen \in Nat /\ bh.seen <= disk
      /\ gap = {} \/ \E g \in 1 .. disk : gap = {g}
      /\ (bh.ready <=> bh.watch # "none") /\ (bh.ready <=> bh.status \in {"ready", "recycling"})
      /\ mode \in {"suspended", "halting", "down"} => bh.status = "stopped"
      /\ attempt > 0 <=> bh.status = "starting"
      /\ bh.watch \in {"none", "fix", "all"}
  BY DEF Typed, Processes, Versions, Builder, Attempts
<1>t. timer \in [restart : BOOLEAN, recovery : BOOLEAN, refreshing : BOOLEAN]
  BY DEF Typed, Timers
<1>1. CASE UNCHANGED vars
  BY <1>1 DEF vars, backendVars, builderVars, Seen
<1>2. CASE \/ RestartTimerFires \/ RecycleChildren \/ WakeForConfig
           \/ Revive \/ \E c \in DOMAIN restarts : RestartGoesOn(c)
  <2>1. CASE RestartTimerFires \/ RecycleChildren \/ WakeForConfig
    BY <2>1, Domains DEF RestartTimerFires, RecycleChildren, WakeForConfig, StopForRecycle, builderVars,
              BackendToStop
  <2>2. CASE Revive \/ \E c \in DOMAIN restarts : RestartGoesOn(c)
    BY <2>2, Domains DEF Revive, RestartGoesOn, StartBackend, builderVars, BackendStarts
  <2> QED  BY <1>2, <2>1, <2>2
<1>3. CASE \/ RecoveryTimerFires
           \/ \E i \in DOMAIN procs : BackendReady(i) \/ BackendStops(i) \/ BackendCrashes(i)
  <2>1. /\ UNCHANGED <<disk, restarts, bh, gap, reported, missed>>
        /\ timer' = timer \/ timer' = [timer EXCEPT !.recovery = TRUE]
           \/ timer' = [timer EXCEPT !.recovery = FALSE, !.refreshing = (cur = 0) \/ @]
    BY <1>3 DEF RecoveryTimerFires, BackendReady, BackendStops, BackendCrashes, builderVars
  <2>2. timer'.restart = timer.restart
    BY <1>t, <2>1
  <2> QED  BY <2>1, <2>2 DEF Seen
<1>4. CASE RecoveryGoesOn
  <2>1. CASE cur = 0
    BY <1>4, <2>1 DEF RecoveryGoesOn, StartBackend, builderVars, BackendStarts
  <2>2. CASE cur # 0
    <3>1. /\ UNCHANGED <<disk, restarts, bh, gap, reported, missed>>
          /\ timer' = [timer EXCEPT !.refreshing = FALSE]
      BY <1>4, <2>2 DEF RecoveryGoesOn, builderVars
    <3>2. timer'.restart = timer.restart
      BY <1>t, <3>1
    <3> QED  BY <3>1, <3>2 DEF Seen
  <2> QED  BY <2>1, <2>2
<1>5. CASE Edit
  <2>1. UNCHANGED <<bh, gap, restarts, timer, reported>> /\ disk' = disk + 1
    BY <1>5 DEF Edit, backendVars, builderVars
  <2>m. missed' = IF \/ bh.watch = "fix"
                     \/ bh.watch = "none" /\ gap = {} /\ mode \notin {"awake", "suspended", "waking"}
                  THEN disk + 1 ELSE missed
    BY <1>5 DEF Edit
  <2>2. CASE bh.watch = "all"
    BY <1>0, <2>1, <2>2 DEF Seen
  <2>3. CASE bh.watch = "fix"
    BY <1>0, <2>m, <2>3
  <2>4. CASE bh.watch = "none" /\ gap = {}
    <3>1. missed' = disk + 1
      BY <2>m, <2>4 DEF Typed, Watched
    <3> QED  BY <1>0, <3>1
  <2>5. CASE bh.watch = "none" /\ gap # {}
    <3>1. PICK g \in 1 .. disk : gap = {g}
      BY <1>0, <2>5
    <3>2. g < disk'
      BY <1>0, <2>1
    <3> QED  BY <2>1, <3>1, <3>2 DEF Seen
  <2> QED  BY <1>0, <2>2, <2>3, <2>4, <2>5
<1>6. CASE WatchBatch
  BY <1>6 DEF WatchBatch, Seen
<1>7. CASE HandleInvalidate
  <2>1. timer'.restart = TRUE
    BY <1>t, <1>7 DEF HandleInvalidate, ScheduleRestart
  <2> QED  BY <2>1 DEF Seen
<1>8. ASSUME NEW degraded \in BOOLEAN, BuilderReady(degraded)
      PROVE  BackendStarts \/ Goal
  <2>0. bh.watch = "none" /\ UNCHANGED <<disk, restarts, awaited, reported, missed>>
    BY <1>0, <1>8 DEF BuilderReady
  <2>1. CASE mode \in {"recycling", "reloading"}
    BY <1>8, <2>1 DEF BuilderReady, StartBackend, BackendStarts
  <2>2. CASE mode \notin {"recycling", "reloading"}
    <3>1. IF \E g \in gap : g < disk THEN ScheduleRestart ELSE UNCHANGED timer
      BY <1>8, <2>2 DEF BuilderReady, TakeGap
    <3>2. timer'.restart = TRUE \/ (timer' = timer /\ ~\E g \in gap : g < disk)
      BY <1>t, <3>1 DEF ScheduleRestart
    <3>3. CASE timer'.restart = TRUE
      BY <3>3 DEF Seen
    <3>4. CASE timer' = timer /\ ~\E g \in gap : g < disk
      BY <2>0, <3>4 DEF Seen
    <3> QED  BY <3>2, <3>3, <3>4
  <2> QED  BY <2>1, <2>2
<1>9. CASE FixBuild \/ RestartTimer \/ ReplacementFails \/ RecoverBuilder \/ Wake
  <2>1. bh.watch # "all" /\ UNCHANGED <<disk, timer, restarts, gap, reported, missed>>
    BY <1>0, <1>9 DEF FixBuild, RestartTimer, ReplacementFails, RecoverBuilder, Wake, backendVars
  <2> QED  BY <2>1 DEF Seen
<1>10. CASE ReadyBuilderExits \/ Suspend \/ BackendStopped
  <2>1. /\ UNCHANGED <<disk, timer, restarts, reported>> /\ BuilderGone
        /\ gap' = {Baseline} \/ gap' = gap
    BY <1>10 DEF ReadyBuilderExits, Suspend, BackendStopped, OpenGap, backendVars
  <2>2. CASE v < disk /\ ~(reported \/ timer.restart \/ restarts # << >>)
    <3>1. v < missed \/ (bh.watch = "all" /\ bh.seen < disk) \/ \E g \in gap : g < disk
      BY <2>2 DEF Seen
    <3>2. v < missed' \/ \E g \in gap' : g < disk'
      BY <2>1, <2>2, <3>1, GoneSeen
    <3> QED  BY <3>2 DEF Seen
  <2>3. CASE reported \/ timer.restart \/ restarts # << >>
    BY <2>1, <2>3 DEF Seen
  <2> QED  BY <2>1, <2>2, <2>3
<1>11. CASE StartFails
  <2>1. bh.watch = "none" /\ UNCHANGED <<disk, restarts, timer, awaited, gap, reported, missed>>
    BY <1>0, <1>11 DEF StartFails
  <2> QED  BY <2>1 DEF Seen
<1>12. CASE Recycle
  <2>1. /\ UNCHANGED <<disk, timer, restarts, reported, missed>> /\ gap' = {Baseline}
        /\ bh'.watch = bh.watch /\ bh'.seen = bh.seen
    BY <1>12 DEF Recycle, OpenGap, backendVars, Typed, Builder
  <2>2. (\E g \in gap : g < disk) => \E g \in gap' : g < disk'
    <3>1. CASE gap = {}
      BY <3>1
    <3>2. ASSUME NEW g \in 1 .. disk, gap = {g} PROVE gap' = gap
      BY <2>1, <3>2, BaselineOf DEF Typed
    <3> QED  BY <1>0, <2>1, <3>1, <3>2
  <2> QED  BY <2>1, <2>2 DEF Seen
<1> QED
  BY <1>1, <1>2, <1>3, <1>4, <1>5, <1>6, <1>7, <1>8, <1>9, <1>10, <1>11, <1>12 DEF Next
LEMMA NextStale == ASSUME Typed, Stale, [Next]_vars PROVE Stale'
<1>0. Processes /\ Referred
  BY DEF Typed
<1>d. DOMAIN procs = 1 .. Len(procs) /\ DOMAIN procs' = 1 .. Len(procs')
  BY NextTyped, Domains, NextBackend DEF Processes
<1>1. CASE BackendToStop
  BY <1>0, <1>1, ToStopTyped DEF Stale
<1>2. CASE BackendStarts
  <2>1. procs'[cur'].version = disk' /\ disk \in Nat
    BY <1>0, <1>2, StartsTyped DEF BackendStarts, Processes
  <2> QED  BY <1>2, <2>1 DEF Stale, BackendStarts
<1>3. CASE ~BackendToStop /\ ~BackendStarts
  <2> SUFFICES ASSUME cur' \in Live', procs'[cur'].version < disk'
               PROVE  Seen' \/ procs'[cur'].version < missed'
    BY DEF Stale
  <2>1. cur' = cur /\ cur \in Live /\ procs'[cur].version = procs[cur].version /\ cur \in 1 .. Len(procs)
    <3>1. CASE BackendStays
      BY <1>d, <3>1 DEF BackendStays, Live, Alive
    <3>2. CASE BackendMoves
      <4>1. /\ Len(procs') = Len(procs) /\ cur' \in {cur, 0}
            /\ \A j \in 1 .. Len(procs) : procs'[j].version = procs[j].version
            /\ \A j \in 1 .. Len(procs) : procs'[j].phase # "dead" => procs[j].phase # "dead"
        BY <1>0, <3>2, MovesTyped
      <4>2. cur' \in 1 .. Len(procs) /\ cur' = cur /\ procs'[cur].phase \notin {"dead", "stopping"}
        BY <1>d, <4>1 DEF Live, Alive
      <4>3. procs[cur].phase # "stopping"
        <5>1. PICK i \in 1 .. Len(procs), ph \in {"ready", "dead"} :
                /\ ph = "ready" => procs[i].phase = "booting"
                /\ procs' = [procs EXCEPT ![i].phase = ph]
          BY <3>2 DEF BackendMoves
        <5>2. CASE cur = i
          <6>1. procs'[cur].phase = ph
            <7>1. procs[i] \in Backend
              BY <1>0, ElementOfSeq DEF Processes
            <7> QED  BY <1>d, <4>2, <5>1, <5>2, <7>1 DEF Backend
          <6> QED  BY <4>2, <5>1, <5>2, <6>1
        <5>3. CASE cur # i
          BY <1>d, <4>2, <5>1, <5>3
        <5> QED  BY <5>2, <5>3
      <4> QED  BY <1>d, <4>1, <4>2, <4>3 DEF Live, Alive
    <3> QED  BY <1>3, <3>1, <3>2, BackendSteps
  <2> DEFINE v == procs[cur].version
  <2>2. v \in 1 .. disk
    BY <1>0, <2>1 DEF Processes
  <2>3. v < disk => Seen \/ v < missed
    BY <2>1 DEF Stale
  <2>4. v = procs'[cur'].version
    BY <2>1
  <2> HIDE DEF v
  <2>5. v < disk' => Seen' \/ v < missed'
    BY <1>3, <2>2, <2>3, NextSeen
  <2> QED  BY <2>4, <2>5
<1> QED  BY <1>1, <1>2, <1>3
-----------------------------------------------------------------------------
(* The inductive invariant: one backend *)

\* A recycle of both children is under way.
Recycling(m) == m \in {"stopping", "recycling", "halting", "reloading"}

\* Until two calls overlap, whoever is alive is the process that each call under
\* way waits for, and none is alive once the wait is over.
Single ==
  ~overlap =>
    /\ Alive \subseteq {cur} /\ Starters <= 1
    /\ \A c \in 1 .. Len(restarts) : Alive \subseteq {restarts[c]}
    /\ mode \in {"stopping", "halting"} => Alive \subseteq {awaited}
    /\ mode \in {"recycling", "reloading"} \/ timer.refreshing => Alive = {}

\* The calls under way, counted.
Calls(n, r, m) == n + (IF r THEN 1 ELSE 0) + (IF m THEN 1 ELSE 0)

LEMMA CallsOf ==
  ASSUME NEW n \in Nat, NEW r \in BOOLEAN, NEW m \in BOOLEAN
  PROVE  /\ Calls(n, r, m) \in Nat
         /\ ~(Calls(n, r, m) > 0) <=> n = 0 /\ ~r /\ ~m
         /\ ~(Calls(n, r, m) > 1) <=> Calls(n, r, m) <= 1
         /\ Calls(n, r, m) <= 1 /\ r => n = 0 /\ ~m
         /\ Calls(n, r, m) <= 1 /\ m => n = 0 /\ ~r
         /\ Calls(n, r, m) <= 1 /\ n > 0 => n = 1 /\ ~r /\ ~m
         /\ n = 0 /\ ~r => Calls(n, r, m) <= 1
         /\ n = 0 /\ ~m => Calls(n, r, m) <= 1
         /\ n <= 1 /\ ~r /\ ~m => Calls(n, r, m) <= 1
         /\ Calls(n, r, m) <= 1 => Calls(n, r, FALSE) <= 1
BY DEF Calls

LEMMA StartersCount ==
  /\ Starters = Calls(Len(restarts), timer.refreshing, Recycling(mode))
  /\ Starters' = Calls(Len(restarts'), timer'.refreshing, Recycling(mode'))
BY DEF Starters, Calls, Recycling

\* Which backends are alive after a step.
LEMMA NextAlive ==
  ASSUME Typed, [Next]_vars
  PROVE  /\ BackendStarts => Alive' \subseteq Alive \union {cur'}
         /\ BackendToStop => Alive' \subseteq Alive /\ cur' = cur
         /\ BackendStays => Alive' = Alive /\ cur' = cur
         /\ BackendMoves => Alive' \subseteq Alive /\ (Alive \subseteq {cur} => Alive' \subseteq {cur'})
<1>0. Processes /\ Referred
  BY DEF Typed
<1>d. DOMAIN procs = 1 .. Len(procs) /\ DOMAIN procs' = 1 .. Len(procs') /\ Len(procs) \in Nat
  BY <1>0, NextBackend, LenProperties DEF Processes
<1>1. ASSUME BackendStarts PROVE Alive' \subseteq Alive \union {cur'}
  <2>1. /\ cur' = Len(procs) + 1 /\ Len(procs') = Len(procs) + 1
        /\ \A j \in 1 .. Len(procs) : procs'[j] = procs[j]
    BY <1>0, <1>1, StartsTyped
  <2>2. ASSUME NEW j \in Alive', j # cur' PROVE j \in Alive
    <3>1. j \in 1 .. Len(procs)
      BY <1>d, <2>1, <2>2 DEF Alive
    <3> QED  BY <1>d, <2>1, <2>2, <3>1 DEF Alive
  <2> QED  BY <2>2
<1>2. ASSUME BackendToStop PROVE Alive' \subseteq Alive /\ cur' = cur
  <2>1. /\ Len(procs') = Len(procs)
        /\ \A j \in 1 .. Len(procs) : procs'[j].phase # "dead" => procs[j].phase # "dead"
    BY <1>0, <1>2, ToStopTyped
  <2> QED  BY <1>d, <1>2, <2>1 DEF Alive, BackendToStop
<1>3. ASSUME BackendStays PROVE Alive' = Alive /\ cur' = cur
  BY <1>3 DEF BackendStays, Alive
<1>4. ASSUME BackendMoves
      PROVE  Alive' \subseteq Alive /\ (Alive \subseteq {cur} => Alive' \subseteq {cur'})
  <2>1. /\ Len(procs') = Len(procs) /\ cur' \in {cur, 0}
        /\ \A j \in 1 .. Len(procs) : procs'[j].phase # "dead" => procs[j].phase # "dead"
        /\ cur' # cur => procs'[cur].phase = "dead"
    BY <1>0, <1>4, MovesTyped
  <2>2. Alive' \subseteq Alive
    BY <1>d, <2>1 DEF Alive
  <2>3. cur' # cur => cur \notin Alive'
    BY <2>1 DEF Alive
  <2> QED  BY <2>2, <2>3
<1> QED  BY <1>1, <1>2, <1>3, <1>4

\* A call that ends in #startBackend while no other is under way, or another
\* that starts one while there are none.
LEMMA SingleStarted ==
  ASSUME Typed, [Next]_vars, BackendStarts,
         ~overlap' => Alive = {} /\ Len(restarts') = 0 /\ ~timer'.refreshing /\ ~Recycling(mode')
  PROVE  Single'
<1> SUFFICES ASSUME ~overlap'
             PROVE  /\ Alive' \subseteq {cur'} /\ Starters' <= 1
                    /\ \A c \in 1 .. Len(restarts') : Alive' \subseteq {restarts'[c]}
                    /\ mode' \in {"stopping", "halting"} => Alive' \subseteq {awaited'}
                    /\ mode' \in {"recycling", "reloading"} \/ timer'.refreshing => Alive' = {}
  BY DEF Single
<1>1. Alive' \subseteq {cur'}
  BY NextAlive
<1>2. Starters' <= 1
  <2>1. Starters' = Calls(0, FALSE, FALSE)
    <3>1. timer'.refreshing = FALSE /\ Recycling(mode') = FALSE
      <4>1. timer' \in [restart : BOOLEAN, recovery : BOOLEAN, refreshing : BOOLEAN]
        BY NextTimers DEF Timers
      <4> QED  BY <4>1 DEF Recycling
    <3> QED  BY <3>1, StartersCount
  <2> QED  BY <2>1 DEF Calls
<1>3. 1 .. Len(restarts') = {}
  OBVIOUS
<1> QED  BY <1>1, <1>2, <1>3 DEF Recycling

\* A call begins while none is under way, and waits for the current backend.
LEMMA SingleBegun ==
  ASSUME Typed, Single, [Next]_vars, BackendToStop, StarterBegins,
         ~overlap' => Starters' <= 1,
         restarts' = restarts \/ restarts' = Append(restarts, cur),
         timer'.refreshing = timer.refreshing,
         mode' = mode \/ (mode' \in {"stopping", "halting"} /\ awaited' = cur)
  PROVE  Single'
<1> SUFFICES ASSUME ~overlap'
             PROVE  /\ Alive' \subseteq {cur'} /\ Starters' <= 1
                    /\ \A c \in 1 .. Len(restarts') : Alive' \subseteq {restarts'[c]}
                    /\ mode' \in {"stopping", "halting"} => Alive' \subseteq {awaited'}
                    /\ mode' \in {"recycling", "reloading"} \/ timer'.refreshing => Alive' = {}
  BY DEF Single
<1>0. timer.refreshing \in BOOLEAN /\ Len(restarts) \in Nat /\ restarts \in Seq(Nat) /\ cur \in Nat
  BY LenProperties DEF Typed, Timers, Referred
<1>1. ~overlap /\ Len(restarts) = 0 /\ ~timer.refreshing /\ ~Recycling(mode)
  <2>1. ~overlap /\ ~(Starters > 0)
    BY DEF StarterBegins
  <2>2. Recycling(mode) \in BOOLEAN
    BY DEF Recycling
  <2> QED  BY <1>0, <2>1, <2>2, CallsOf, StartersCount
<1>2. Alive' \subseteq {cur} /\ cur' = cur
  BY <1>1, NextAlive DEF Single
<1>3. ASSUME NEW c \in 1 .. Len(restarts') PROVE restarts'[c] = cur
  <2>1. restarts' = Append(restarts, cur)
    BY <1>1, <1>3
  <2>2. Len(restarts') = Len(restarts) + 1 /\ restarts'[Len(restarts) + 1] = cur
    BY <1>0, <2>1, AppendProperties
  <2> QED  BY <1>1, <2>2
<1> QED  BY <1>1, <1>2, <1>3 DEF Recycling

\* A step that begins no call.
LEMMA SingleKept ==
  ASSUME Typed, Single, [Next]_vars, overlap' = overlap, BackendStays \/ BackendMoves,
         timer'.refreshing = timer.refreshing, restarts' = restarts,
         ~overlap => (mode' = mode /\ awaited' = awaited) \/ ~Recycling(mode')
  PROVE  Single'
<1> SUFFICES ASSUME ~overlap'
             PROVE  /\ Alive' \subseteq {cur'} /\ Starters' <= 1
                    /\ \A c \in 1 .. Len(restarts') : Alive' \subseteq {restarts'[c]}
                    /\ mode' \in {"stopping", "halting"} => Alive' \subseteq {awaited'}
                    /\ mode' \in {"recycling", "reloading"} \/ timer'.refreshing => Alive' = {}
  BY DEF Single
<1>0. timer.refreshing \in BOOLEAN /\ Len(restarts) \in Nat
  BY LenProperties DEF Typed, Timers, Referred
<1>1. Alive' \subseteq Alive /\ Alive' \subseteq {cur'}
  BY NextAlive DEF Single
<1>2. Starters' <= 1
  <2>1. Starters <= 1 /\ Recycling(mode) \in BOOLEAN
    BY DEF Single, Recycling
  <2>2. CASE mode' = mode
    BY <2>1, <2>2, StartersCount
  <2>3. CASE ~Recycling(mode')
    <3>1. Recycling(mode') = FALSE
      BY <2>3 DEF Recycling
    <3> QED  BY <1>0, <2>1, <3>1, StartersCount, CallsOf
  <2> QED  BY <2>2, <2>3
<1>3. \A c \in 1 .. Len(restarts') : Alive' \subseteq {restarts'[c]}
  BY <1>1 DEF Single
<1>4. mode' \in {"stopping", "halting"} => Alive' \subseteq {awaited'}
  BY <1>1 DEF Single, Recycling
<1>5. mode' \in {"recycling", "reloading"} \/ timer'.refreshing => Alive' = {}
  BY <1>1 DEF Single, Recycling
<1> QED  BY <1>1, <1>2, <1>3, <1>4, <1>5
LEMMA SingleInit == ASSUME Init PROVE Single /\ Stale
<1>1. Alive \subseteq {cur} /\ Len(restarts) = 0 /\ ~timer.refreshing /\ mode = "awake"
  BY DEF Init, Alive
<1>2. Starters <= 1
  BY <1>1 DEF Starters
<1>3. procs[cur].version = disk /\ disk = 1
  BY DEF Init
<1> QED  BY <1>1, <1>2, <1>3 DEF Single, Stale

LEMMA NextSingle == ASSUME Typed, Single, [Next]_vars PROVE Single'
<1>0. /\ timer \in [restart : BOOLEAN, recovery : BOOLEAN, refreshing : BOOLEAN]
      /\ overlap \in BOOLEAN /\ Len(restarts) \in Nat /\ restarts \in Seq(Nat)
      /\ timer.refreshing \in BOOLEAN /\ Recycling(mode) \in BOOLEAN
      /\ DOMAIN procs = 1 .. Len(procs) /\ DOMAIN restarts = 1 .. Len(restarts)
      /\ cur \in 0 .. Len(procs) /\ (cur # 0 => procs[cur].phase # "dead")
      /\ awaited \in 0 .. Len(procs) /\ Len(procs) \in Nat
      /\ \A c \in 1 .. Len(restarts) : restarts[c] \in 0 .. Len(procs)
  BY LenProperties, Domains DEF Typed, Timers, Referred, Processes, Recycling
<1>k. ~overlap => Starters <= 1
  BY DEF Single
\* What one call under way says of the others.
<1>r. ~overlap /\ timer.refreshing => Len(restarts) = 0 /\ ~Recycling(mode)
  BY <1>0, <1>k, CallsOf, StartersCount
<1>m. ~overlap /\ Recycling(mode) => Len(restarts) = 0 /\ ~timer.refreshing
  BY <1>0, <1>k, CallsOf, StartersCount
<1>s. ~overlap /\ Len(restarts) > 0 => Len(restarts) = 1 /\ ~timer.refreshing /\ ~Recycling(mode)
  BY <1>0, <1>k, CallsOf, StartersCount
<1>z. ~(Starters > 0) => Len(restarts) = 0 /\ ~timer.refreshing /\ ~Recycling(mode)
  BY <1>0, CallsOf, StartersCount
<1>c. 0 \notin Alive /\ (cur # 0 => cur \in Alive) /\ (Alive \subseteq {cur} /\ cur = 0 => Alive = {})
  BY <1>0 DEF Alive
<1>e. ASSUME NEW i, Exited(i), Alive \subseteq {i} PROVE Alive = {}
  BY <1>c, <1>e DEF Exited, Alive
<1>1. CASE UNCHANGED vars
  BY <1>1 DEF vars, backendVars, builderVars, Single, Starters, Alive
<1>2. CASE RestartTimerFires
  <2>1. /\ timer' = [timer EXCEPT !.restart = FALSE] /\ restarts' = Append(restarts, cur)
        /\ mode' = mode /\ StarterBegins /\ BackendToStop
    BY <1>2 DEF RestartTimerFires, BackendToStop, builderVars
  <2>2. timer'.refreshing = timer.refreshing
    BY <1>0, <2>1
  <2>3. ASSUME ~overlap' PROVE Starters' <= 1
    <3>1. Len(restarts) = 0 /\ ~timer.refreshing /\ ~Recycling(mode)
      BY <1>z, <2>1, <2>3 DEF StarterBegins
    <3>2. Len(restarts') = 1
      BY <1>0, <2>1, <3>1, AppendProperties
    <3>3. timer'.refreshing = FALSE /\ Recycling(mode') = FALSE
      BY <1>0, <2>1, <2>2, <3>1
    <3> QED  BY <3>2, <3>3, StartersCount DEF Calls
  <2> QED  BY <2>1, <2>2, <2>3, SingleBegun
<1>3. CASE RecycleChildren \/ WakeForConfig
  <2>1. PICK stage \in {"stopping", "halting"} : StopForRecycle(stage)
    BY <1>3 DEF RecycleChildren, WakeForConfig
  <2>2. /\ timer' = [timer EXCEPT !.restart = FALSE, !.recovery = FALSE] /\ restarts' = restarts
        /\ mode' \in {"stopping", "halting"} /\ awaited' = cur /\ StarterBegins
        /\ BackendToStop
    BY <1>3, <2>1 DEF StopForRecycle, BackendToStop
  <2>3. timer'.refreshing = timer.refreshing
    BY <1>0, <2>2
  <2>4. ASSUME ~overlap' PROVE Starters' <= 1
    <3>1. Len(restarts) = 0 /\ ~timer.refreshing
      BY <1>z, <2>2, <2>4 DEF StarterBegins
    <3>2. Len(restarts') = 0 /\ timer'.refreshing = FALSE /\ Recycling(mode') = TRUE
      BY <1>0, <2>2, <2>3, <3>1 DEF Recycling
    <3> QED  BY <3>2, StartersCount DEF Calls
  <2> QED  BY <2>2, <2>3, <2>4, SingleBegun
<1>4. CASE RecoveryTimerFires
  <2>1. /\ timer' = [timer EXCEPT !.recovery = FALSE, !.refreshing = (cur = 0) \/ @]
        /\ UNCHANGED <<procs, cur, restarts, mode, awaited, disk>>
    BY <1>4 DEF RecoveryTimerFires, builderVars
  <2>2. BackendStays
    BY <2>1 DEF BackendStays
  <2>3. CASE cur # 0
    <3>1. timer'.refreshing = timer.refreshing /\ overlap' = overlap
      BY <1>0, <1>4, <2>1, <2>3 DEF RecoveryTimerFires
    <3> QED  BY <2>1, <2>2, <3>1, SingleKept
  <2>4. CASE cur = 0
    <3>0. overlap' = (overlap \/ Starters > 0)
      BY <1>4, <2>4 DEF RecoveryTimerFires, StarterBegins
    <3> SUFFICES ASSUME ~overlap' PROVE Single'
      BY DEF Single
    <3>1. ~overlap /\ Len(restarts) = 0 /\ ~Recycling(mode)
      BY <1>z, <3>0
    <3>2. Alive' = {}
      BY <1>c, <2>2, <2>4, <3>1, NextAlive DEF Single
    <3>3. timer'.refreshing = TRUE
      BY <1>0, <2>1, <2>4
    <3>4. Recycling(mode') = FALSE /\ Len(restarts') = 0
      BY <1>0, <2>1, <3>1
    <3>5. Starters' <= 1
      BY <3>3, <3>4, StartersCount DEF Calls
    <3> QED  BY <3>2, <3>5 DEF Single
  <2> QED  BY <2>3, <2>4
<1>5. CASE RecoveryGoesOn
  <2>1. timer.refreshing /\ timer' = [timer EXCEPT !.refreshing = FALSE]
        /\ UNCHANGED <<disk, restarts, mode, awaited>>
    BY <1>5 DEF RecoveryGoesOn, builderVars
  <2>2. timer'.refreshing = FALSE
    BY <1>0, <2>1
  <2>3. CASE cur = 0
    <3>1. BackendStarts /\ overlap' = (overlap \/ Starters > 1)
      BY <1>5, <2>1, <2>3 DEF RecoveryGoesOn, StartBackend, BackendStarts
    <3>2. ~overlap' => Alive = {} /\ Len(restarts') = 0 /\ ~timer'.refreshing /\ ~Recycling(mode')
      BY <1>r, <2>1, <2>2, <3>1 DEF Single
    <3> QED  BY <3>1, <3>2, SingleStarted
  <2>4. CASE cur # 0
    <3>1. overlap' = overlap
      BY <1>5, <2>4 DEF RecoveryGoesOn
    <3>2. overlap
      BY <1>c, <2>1, <2>4 DEF Single
    <3> QED  BY <3>1, <3>2 DEF Single
  <2> QED  BY <2>3, <2>4
<1>6. CASE Revive
  <2>1. /\ BackendStarts /\ overlap' = (overlap \/ Starters > 0) /\ cur = 0
        /\ UNCHANGED <<restarts, timer, mode>>
    BY <1>6 DEF Revive, StartBackend, BackendStarts, builderVars
  <2>2. ~overlap' => Alive = {} /\ Len(restarts') = 0 /\ ~timer'.refreshing /\ ~Recycling(mode')
    BY <1>z, <1>c, <2>1 DEF Single
  <2> QED  BY <2>1, <2>2, SingleStarted
<1>7. ASSUME NEW c \in DOMAIN restarts, RestartGoesOn(c) PROVE Single'
  <2>1. /\ BackendStarts /\ overlap' = (overlap \/ Starters > 1) /\ Exited(restarts[c])
        /\ restarts' = RemoveAt(restarts, c) /\ UNCHANGED <<timer, mode>>
    BY <1>0, <1>7 DEF RestartGoesOn, StartBackend, BackendStarts, builderVars
  <2>2. c \in 1 .. Len(restarts) /\ Len(restarts) > 0
    BY <1>0
  <2>3. Len(restarts') = Len(restarts) - 1
    BY <1>0, <2>1, <2>2, RemoveAtOf
  <2>4. ~overlap => Alive = {}
    <3>1. ~overlap => Alive \subseteq {restarts[c]}
      BY <2>2 DEF Single
    <3> DEFINE i == restarts[c]
    <3>2. Exited(i) /\ (~overlap => Alive \subseteq {i})
      BY <2>1, <3>1
    <3> HIDE DEF i
    <3> QED  BY <1>e, <3>2
  <2>5. ~overlap' => Alive = {} /\ Len(restarts') = 0 /\ ~timer'.refreshing /\ ~Recycling(mode')
    BY <1>0, <1>s, <2>1, <2>2, <2>3, <2>4
  <2> QED  BY <2>1, <2>5, SingleStarted
<1>8. ASSUME NEW i \in DOMAIN procs, BackendReady(i) \/ BackendStops(i) \/ BackendCrashes(i) PROVE Single'
  <2>1. /\ UNCHANGED <<overlap, restarts, mode, awaited>>
        /\ timer' = timer \/ timer' = [timer EXCEPT !.recovery = TRUE]
    BY <1>8 DEF BackendReady, BackendStops, BackendCrashes, builderVars
  <2>2. timer'.refreshing = timer.refreshing
    BY <1>0, <2>1
  <2>3. BackendMoves
    <3>1. CASE BackendReady(i)
      BY <1>0, <1>8, <3>1 DEF BackendReady, builderVars, BackendMoves
    <3>2. CASE BackendStops(i)
      BY <1>0, <1>8, <3>2 DEF BackendStops, builderVars, BackendMoves
    <3>3. CASE BackendCrashes(i)
      BY <1>0, <1>8, <3>3 DEF BackendCrashes, Live, Alive, builderVars, BackendMoves
    <3> QED  BY <1>8, <3>1, <3>2, <3>3
  <2> QED  BY <2>1, <2>2, <2>3, SingleKept
<1>9. CASE \/ Edit \/ WatchBatch \/ HandleInvalidate \/ FixBuild \/ ReadyBuilderExits
           \/ RestartTimer \/ ReplacementFails \/ RecoverBuilder \/ Recycle \/ Suspend \/ Wake
  <2>1. /\ UNCHANGED <<procs, cur, restarts, overlap, awaited>>
        /\ mode' = mode \/ ~Recycling(mode')
        /\ timer' = timer \/ timer' = [timer EXCEPT !.restart = TRUE, !.recovery = FALSE]
    BY <1>9 DEF Edit, WatchBatch, HandleInvalidate, FixBuild, ReadyBuilderExits, RestartTimer,
         ReplacementFails, RecoverBuilder, Recycle, Suspend, Wake, backendVars, builderVars,
         ScheduleRestart, Recycling
  <2>2. timer'.refreshing = timer.refreshing
    BY <1>0, <2>1
  <2>3. disk' \in {disk, disk + 1}
    BY <1>9 DEF Edit, WatchBatch, HandleInvalidate, FixBuild, ReadyBuilderExits, RestartTimer,
         ReplacementFails, RecoverBuilder, Recycle, Suspend, Wake
  <2>4. BackendStays
    BY <2>1, <2>3 DEF BackendStays
  <2> QED  BY <2>1, <2>2, <2>4, SingleKept
<1>10. CASE BackendStopped
  <2>1. /\ UNCHANGED <<procs, cur, restarts, timer, overlap, disk>> /\ awaited' = 0
        /\ mode \in {"stopping", "halting"} /\ Exited(awaited)
        /\ mode' \in {"recycling", "reloading"}
    BY <1>10 DEF BackendStopped, backendVars
  <2> SUFFICES ASSUME ~overlap PROVE Single'
    BY <2>1 DEF Single
  <2>2. Alive = {}
    BY <1>e, <2>1 DEF Single
  <2>3. Alive' = {}
    BY <2>1, <2>2 DEF Alive
  <2>4. Recycling(mode') = TRUE /\ Recycling(mode) = TRUE
    BY <2>1 DEF Recycling
  <2>5. Starters' <= 1
    BY <1>k, <2>1, <2>4, StartersCount
  <2> QED  BY <2>1, <2>3, <2>5 DEF Single
<1>11. ASSUME NEW degraded \in BOOLEAN, BuilderReady(degraded) PROVE Single'
  <2>1. /\ UNCHANGED <<disk, restarts, awaited>>
        /\ mode' = IF bh.status = "starting" THEN "awake" ELSE mode
        /\ timer' = timer \/ timer' = [timer EXCEPT !.restart = TRUE, !.recovery = FALSE]
    BY <1>11 DEF BuilderReady, TakeGap, ScheduleRestart
  <2>2. timer'.refreshing = timer.refreshing
    BY <1>0, <2>1
  <2>3. bh.status = "starting" <=> mode \in {"waking", "recycling", "reloading", "recovering"}
    BY DEF Typed, Builder
  <2>4. CASE mode \in {"recycling", "reloading"}
    <3>1. BackendStarts /\ overlap' = (overlap \/ Starters > 1) /\ mode' = "awake"
      BY <1>11, <2>1, <2>3, <2>4 DEF BuilderReady, StartBackend, BackendStarts
    <3>2. ~overlap' => Alive = {} /\ Len(restarts') = 0 /\ ~timer'.refreshing /\ ~Recycling(mode')
      BY <1>m, <2>1, <2>2, <2>4, <3>1 DEF Single, Recycling
    <3> QED  BY <3>1, <3>2, SingleStarted
  <2>5. CASE mode \notin {"recycling", "reloading"} /\ mode = "recovering" /\ cur = 0 /\ ~timer.recovery
    <3>1. BackendStarts /\ overlap' = (overlap \/ Starters > 0) /\ mode' = "awake"
      BY <1>11, <2>1, <2>3, <2>5 DEF BuilderReady, StartBackend, BackendStarts
    <3>2. ~overlap' => Alive = {} /\ Len(restarts') = 0 /\ ~timer'.refreshing /\ ~Recycling(mode')
      BY <1>z, <1>c, <2>1, <2>2, <2>5, <3>1 DEF Single, Recycling
    <3> QED  BY <3>1, <3>2, SingleStarted
  <2>6. CASE mode \notin {"recycling", "reloading"} /\ ~(mode = "recovering" /\ cur = 0 /\ ~timer.recovery)
    <3>1. BackendStays /\ overlap' = overlap
      BY <1>11, <2>1, <2>6 DEF BuilderReady, BackendStays
    <3>2. mode' = mode \/ ~Recycling(mode')
      BY <2>1 DEF Recycling
    <3> QED  BY <2>1, <2>2, <3>1, <3>2, SingleKept
  <2> QED  BY <2>4, <2>5, <2>6
<1>12. CASE StartFails
  <2>1. UNCHANGED <<disk, restarts, timer, awaited>>
    BY <1>12 DEF StartFails
  <2>2. CASE attempt < StartAttempts \/ ~(mode = "recycling" /\ cur = 0)
    <3>1. BackendStays /\ overlap' = overlap /\ (mode' = mode \/ mode' = "down")
      BY <1>12, <2>1, <2>2 DEF StartFails, BackendStays
    <3> QED  BY <2>1, <3>1, SingleKept DEF Recycling
  <2>3. CASE ~(attempt < StartAttempts) /\ mode = "recycling" /\ cur = 0
    <3>1. BackendStarts /\ overlap' = (overlap \/ Starters > 1) /\ mode' = "down"
      BY <1>12, <2>1, <2>3 DEF StartFails, StartBackend, BackendStarts
    <3>2. ~overlap' => Alive = {} /\ Len(restarts') = 0 /\ ~timer'.refreshing /\ ~Recycling(mode')
      BY <1>m, <2>1, <2>3, <3>1 DEF Single, Recycling
    <3> QED  BY <3>1, <3>2, SingleStarted
  <2> QED  BY <2>2, <2>3
<1> QED
  BY <1>1, <1>2, <1>3, <1>4, <1>5, <1>6, <1>7, <1>8, <1>9, <1>10, <1>11, <1>12 DEF Next
-----------------------------------------------------------------------------
(* Theorems *)

IInv == Typed /\ Stale /\ Single

\* Every reachable state satisfies the inductive invariant: types and references
\* to processes, what the builder's status says of the host's mode, no edit
\* unseen but the missed ones, and one backend until two calls overlap.
THEOREM HostInvariant == Spec => []IInv
<1>1. Init => IInv
  BY TypedInit, SingleInit DEF IInv
<1>2. IInv /\ [Next]_vars => IInv'
  BY NextTyped, NextStale, NextSingle DEF IInv
<1> QED  BY <1>1, <1>2, PTL DEF Spec

\* The current backend is a process that has not exited, whoever waits for an
\* exit waits for a process that was spawned, attempts to start a builder are
\* counted while one starts and only then, and there is one stamp at most.
THEOREM TypeCorrect == Spec => []TypeOK
<1>1. IInv => TypeOK
  <2> SUFFICES ASSUME IInv PROVE TypeOK
    OBVIOUS
  <2>1. /\ DOMAIN procs = 1 .. Len(procs) /\ DOMAIN restarts = 1 .. Len(restarts)
        /\ Processes /\ Referred /\ Timers /\ Builder /\ Attempts /\ Versions
    BY Domains DEF IInv, Typed
  <2>2. ASSUME NEW i \in DOMAIN procs
        PROVE  procs[i] \in [phase : {"booting", "ready", "stopping", "dead"}, version : 1 .. disk]
    <3>1. procs[i] \in Backend /\ procs[i].version \in 1 .. disk
      BY <2>1, ElementOfSeq DEF Processes
    <3> QED  BY <3>1 DEF Backend, Phases
  <2>3. cur \in 0 .. Len(procs) /\ (cur = 0 \/ cur \in Alive)
    BY <2>1 DEF Referred, Alive
  <2>4. bh.seen \in 0 .. disk
    BY <2>1 DEF Builder, Versions, Processes
  <2>5. gap \subseteq 1 .. disk /\ Cardinality(gap) <= 1
    <3>1. CASE gap = {}
      BY <3>1, FS_EmptySet
    <3>2. ASSUME NEW g \in 1 .. disk, gap = {g} PROVE gap \subseteq 1 .. disk /\ Cardinality(gap) <= 1
      <4>1. Cardinality({g}) = 1
        BY FS_Singleton
      <4> QED  BY <3>2, <4>1
    <3> QED  BY <2>1, <3>1, <3>2 DEF Versions
  <2>6. \A c \in DOMAIN restarts : restarts[c] \in 0 .. Len(procs)
    BY <2>1 DEF Referred
  <2>7. (attempt > 0) = (bh.status = "starting") /\ attempt \in 0 .. StartAttempts
    BY <2>1 DEF Attempts
  <2>8. /\ timer \in [restart : BOOLEAN, recovery : BOOLEAN, refreshing : BOOLEAN]
        /\ tries \in [count : 0 .. RecoveryLimit, gaveUp : BOOLEAN]
    BY <2>1 DEF Timers
  <2>9. mode \in Modes
    BY <2>1 DEF Builder
  <2> QED  BY <2>2, <2>3, <2>4, <2>5, <2>6, <2>7, <2>8, <2>9 DEF TypeOK, Modes
<1> QED  BY <1>1, HostInvariant, PTL

\* Two backend processes at once need two calls that end in #startBackend to have
\* been under way at once, however many restarts, recoveries and recycles there are.
THEOREM TwinsCorrect == Spec => []TwinsNeedOverlap
<1>1. IInv => TwinsNeedOverlap
  <2> SUFFICES ASSUME Single, ~overlap PROVE ~(Cardinality(Alive) > 1)
    BY DEF IInv, TwinsNeedOverlap
  <2>1. Alive \subseteq {cur}
    BY DEF Single
  <2>2. CASE Alive = {}
    <3>1. Cardinality({}) = 0
      BY FS_EmptySet
    <3> QED  BY <2>2, <3>1
  <2>3. CASE Alive = {cur}
    <3>1. Cardinality({cur}) = 1
      BY FS_Singleton
    <3> QED  BY <2>3, <3>1
  <2> QED  BY <2>1, <2>2, <2>3
<1> QED  BY <1>1, HostInvariant, PTL

\* A backend that runs older files than are on disk is about to be noticed, unless
\* the edit met neither a watcher nor a stamp, whatever crashes, wakes, suspends
\* and recycles come between.
THEOREM StaleCorrect == Spec => []StaleBackendIsNoticed
<1>1. IInv => StaleBackendIsNoticed
  BY DEF IInv, Stale, StaleBackendIsNoticed, Seen, Noticed
<1> QED  BY <1>1, HostInvariant, PTL
=============================================================================
