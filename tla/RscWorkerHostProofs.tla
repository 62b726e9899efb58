------------------------ MODULE RscWorkerHostProofs ------------------------
(***************************************************************************)
(* Proofs about RscWorkerHost for every set of renders and every number of *)
(* builds, crashes and recycles: whatever replaces a worker, no process is *)
(* forgotten, nobody who waits is, and what is served is the latest bundle, *)
(* with the exceptions that the properties name.                           *)
(***************************************************************************)
EXTENDS RscWorkerHost, SequenceTheorems, TLAPS

-----------------------------------------------------------------------------
(* The inductive invariant *)

Phases == {"booting", "loading", "ready", "failed", "dying", "dead"}
Load(n) == [bundle : 0..n, build : 0..n]
WorkerRecord(n) ==
  [phase : Phases, build : 0..n, loading : Load(n), stale : SUBSET (0..n), renders : SUBSET Render]

\* The workers are a sequence, which the type invariant leaves open.
Spawnings == workers \in Seq(WorkerRecord(latest))

\* What the rest of the host knows of them.
HostTypes ==
  /\ exits \subseteq Worker /\ unread \subseteq Worker
  /\ proc = Len(workers) /\ proc > 0 /\ rolling \in 0..Len(workers)
  /\ status \in {"starting", "ready", "restarting", "stopped"}
  /\ timer \in [restart : Nat, recycle : BOOLEAN] /\ killed \in BOOLEAN
  /\ timer.restart > 0 => ~killed
  /\ fresh \subseteq Render /\ pending \subseteq Render \ fresh /\ queued \subseteq Render \ fresh
  /\ status = "ready" => queued = {}
  /\ latest \in 1..MaxBuild
  /\ missed.build \in 0..latest /\ reload.build \in 0..latest
  /\ missed.worker \in 0..proc /\ reload.worker \in 0..proc

\* A rolling recycle begins when none is under way.
OneRecycle == status = "ready" => rolling = 0

IInv == Spawnings /\ HostTypes /\ OneRecycle /\ NoStrayWorker

-----------------------------------------------------------------------------
(* What steps do to the workers *)

LEMMA SpawnedTyped == ASSUME NEW n \in Nat PROVE Spawned \in WorkerRecord(n)
BY DEF Spawned, NoImport, WorkerRecord, Load, Phases

\* A field of a worker changes, and no other.
LEMMA PhaseSet ==
  ASSUME NEW n \in Nat, NEW r \in WorkerRecord(n), NEW p \in Phases
  PROVE  LET e == [r EXCEPT !.phase = p]
         IN /\ e \in WorkerRecord(n) /\ e.phase = p /\ e.build = r.build
            /\ e.loading = r.loading /\ e.stale = r.stale /\ e.renders = r.renders
BY DEF WorkerRecord

LEMMA BuildSet ==
  ASSUME NEW n \in Nat, NEW r \in WorkerRecord(n), NEW b \in 0..n
  PROVE  LET e == [r EXCEPT !.build = b]
         IN /\ e \in WorkerRecord(n) /\ e.phase = r.phase /\ e.build = b
            /\ e.loading = r.loading /\ e.stale = r.stale /\ e.renders = r.renders
BY DEF WorkerRecord

LEMMA LoadingSet ==
  ASSUME NEW n \in Nat, NEW r \in WorkerRecord(n), NEW l \in Load(n)
  PROVE  LET e == [r EXCEPT !.loading = l]
         IN /\ e \in WorkerRecord(n) /\ e.phase = r.phase /\ e.build = r.build
            /\ e.loading = l /\ e.stale = r.stale /\ e.renders = r.renders
BY DEF WorkerRecord

LEMMA StaleSet ==
  ASSUME NEW n \in Nat, NEW r \in WorkerRecord(n), NEW S \in SUBSET (0..n)
  PROVE  LET e == [r EXCEPT !.stale = S]
         IN /\ e \in WorkerRecord(n) /\ e.phase = r.phase /\ e.build = r.build
            /\ e.loading = r.loading /\ e.stale = S /\ e.renders = r.renders
BY DEF WorkerRecord

LEMMA RendersSet ==
  ASSUME NEW n \in Nat, NEW r \in WorkerRecord(n), NEW R \in SUBSET Render
  PROVE  LET e == [r EXCEPT !.renders = R]
         IN /\ e \in WorkerRecord(n) /\ e.phase = r.phase /\ e.build = r.build
            /\ e.loading = r.loading /\ e.stale = r.stale /\ e.renders = R
BY DEF WorkerRecord

LEMMA NothingLoads == ASSUME NEW n \in Nat PROVE NoImport \in Load(n)
BY DEF NoImport, Load

LEMMA RecordsGrow ==
  ASSUME NEW n \in Nat, NEW ws \in Seq(WorkerRecord(n))
  PROVE  ws \in Seq(WorkerRecord(n + 1))
<1>1. Load(n) \subseteq Load(n + 1)
  BY DEF Load
<1>2. 0..n \subseteq 0..(n + 1)
  OBVIOUS
<1>3. WorkerRecord(n) \subseteq WorkerRecord(n + 1)
  BY <1>1, <1>2 DEF WorkerRecord
<1> QED  BY <1>3

\* The facts about the workers that every step starts from.
LEMMA Known ==
  ASSUME Spawnings, HostTypes
  PROVE  /\ latest \in Nat \ {0} /\ MaxBuild \in Nat /\ Len(workers) \in Nat
         /\ Worker = 1..Len(workers) /\ proc \in Worker /\ proc = Len(workers)
         /\ \A w \in Worker : workers[w] \in WorkerRecord(latest)
<1>1. MaxBuild \in Nat /\ latest \in Nat \ {0}
  BY RscAssumption DEF HostTypes, RscAssumption
<1>2. Len(workers) \in Nat /\ Worker = 1..Len(workers)
  BY LenProperties DEF Spawnings, Worker
<1>3. \A w \in Worker : workers[w] \in WorkerRecord(latest)
  BY <1>2, ElementOfSeq DEF Spawnings
<1>4. proc \in Worker
  BY <1>2 DEF HostTypes
<1> QED  BY <1>1, <1>2, <1>3, <1>4 DEF HostTypes

\* The type invariant.
LEMMA TypesFollow ==
  ASSUME Spawnings, HostTypes
  PROVE  TypeOK
<1>1. \A w \in Worker : workers[w] \in WorkerRecord(latest)
  BY Known
<1> QED  BY <1>1 DEF TypeOK, HostTypes, WorkerRecord, Load, Phases

\* A worker is changed, and no other.
Changes(w, e) ==
  /\ workers' \in Seq(WorkerRecord(latest')) /\ Len(workers') = Len(workers) /\ DOMAIN workers' = Worker
  /\ e \in WorkerRecord(latest')
  /\ \A v \in Worker : workers'[v] = IF v = w THEN e ELSE workers[v]

LEMMA OneChanges ==
  ASSUME Spawnings, NEW w \in Worker, latest \in Nat, latest' \in {latest, latest + 1},
         NEW e \in WorkerRecord(latest'),
         workers' = [workers EXCEPT ![w] = e]
  PROVE  Changes(w, e)
<1> HIDE DEF WorkerRecord
<1>1. DOMAIN workers = 1..Len(workers)
  BY LenProperties DEF Spawnings
<1>2. w \in 1..Len(workers)
  BY <1>1 DEF Worker
<1>3. workers \in Seq(WorkerRecord(latest'))
  BY RecordsGrow DEF Spawnings
<1>4. workers' \in Seq(WorkerRecord(latest')) /\ Len(workers') = Len(workers)
  BY <1>2, <1>3, ExceptSeq
<1> QED  BY <1>1, <1>2, <1>4 DEF Worker, Changes

\* Nothing is changed.
LEMMA NoneChanges ==
  ASSUME Spawnings, HostTypes, latest' \in {latest, latest + 1}, workers' = workers
  PROVE  Changes(proc, workers[proc])
<1>1. proc \in Worker /\ latest \in Nat /\ Worker = 1..Len(workers)
  BY Known
<1>2. workers \in Seq(WorkerRecord(latest'))
  BY <1>1, RecordsGrow DEF Spawnings
<1>3. workers[proc] \in WorkerRecord(latest')
  BY <1>1, <1>2, ElementOfSeq
<1> QED  BY <1>1, <1>2, <1>3 DEF Changes, Worker

\* A worker is added: it is up, and nothing else changes.
LEMMA OneMore ==
  ASSUME Spawnings, latest \in Nat
  PROVE  LET ws == Append(workers, Spawned)
         IN /\ ws \in Seq(WorkerRecord(latest))
            /\ Len(ws) = Len(workers) + 1
            /\ DOMAIN ws = Worker \union {Len(workers) + 1}
            /\ \A v \in Worker : ws[v] = workers[v]
            /\ ws[Len(workers) + 1] = Spawned
<1> DEFINE ws == Append(workers, Spawned)
<1>1. Spawned \in WorkerRecord(latest)
  BY SpawnedTyped
<1>2. /\ ws \in Seq(WorkerRecord(latest)) /\ Len(ws) = Len(workers) + 1
      /\ \A v \in 1..Len(workers) : ws[v] = workers[v]
      /\ ws[Len(workers) + 1] = Spawned
  BY <1>1, AppendProperties DEF Spawnings
<1>3. /\ Len(workers) \in Nat /\ DOMAIN workers = 1..Len(workers)
      /\ DOMAIN ws = 1..Len(ws)
  BY <1>2, LenProperties DEF Spawnings
<1> HIDE DEF ws
<1> QED  BY <1>2, <1>3 DEF ws, Worker

\* Workers are told to end: those that are not gone are dying.
LEMMA SomeTold ==
  ASSUME NEW n \in Nat, NEW ws \in Seq(WorkerRecord(n)), NEW S
  PROVE  /\ Told(ws, S) \in Seq(WorkerRecord(n))
         /\ Len(Told(ws, S)) = Len(ws) /\ DOMAIN Told(ws, S) = DOMAIN ws
         /\ \A v \in DOMAIN ws :
              /\ v \in S => Told(ws, S)[v].phase \in {"dying", "dead"}
              /\ v \notin S => Told(ws, S)[v] = ws[v]
              /\ ws[v].phase = "dead" => Told(ws, S)[v] = ws[v]
              /\ ws[v].phase \in {"dying", "dead"} => Told(ws, S)[v].phase \in {"dying", "dead"}
              /\ Told(ws, S)[v].phase = "dead" => ws[v].phase = "dead"
<1> DEFINE told(v) == IF v \in S /\ ws[v].phase # "dead" THEN [ws[v] EXCEPT !.phase = "dying"] ELSE ws[v]
<1>1. Len(ws) \in Nat /\ DOMAIN ws = 1..Len(ws)
  BY LenProperties
<1>2. \A v \in 1..Len(ws) : ws[v] \in WorkerRecord(n)
  BY ElementOfSeq
<1>3. ASSUME NEW v \in 1..Len(ws)
      PROVE  /\ told(v) \in WorkerRecord(n)
             /\ v \in S => told(v).phase \in {"dying", "dead"}
             /\ v \notin S => told(v) = ws[v]
             /\ ws[v].phase = "dead" => told(v) = ws[v]
             /\ ws[v].phase \in {"dying", "dead"} => told(v).phase \in {"dying", "dead"}
             /\ told(v).phase = "dead" => ws[v].phase = "dead"
  <2>1. ws[v] \in WorkerRecord(n) /\ "dying" \in Phases
    BY <1>2 DEF Phases
  <2> DEFINE e == [ws[v] EXCEPT !.phase = "dying"]
  <2>2. e \in WorkerRecord(n) /\ e.phase = "dying"
    BY <2>1, PhaseSet
  <2> HIDE DEF e
  <2>3. told(v) = IF v \in S /\ ws[v].phase # "dead" THEN e ELSE ws[v]
    BY DEF e
  <2> HIDE DEF told
  <2> QED  BY <2>1, <2>2, <2>3
<1>4. Told(ws, S) = [v \in 1..Len(ws) |-> told(v)]
  BY <1>1 DEF Told
<1>5. [v \in 1..Len(ws) |-> told(v)] \in Seq(WorkerRecord(n))
  <2> HIDE DEF told
  <2> QED  BY <1>1, <1>3, IsASeq
<1>6. DOMAIN Told(ws, S) = 1..Len(ws)
  BY <1>4
<1>7. Len(Told(ws, S)) = Len(ws)
  BY <1>1, <1>4, <1>5, <1>6, LenProperties
<1>8. \A v \in 1..Len(ws) : Told(ws, S)[v] = told(v)
  BY <1>4
<1> HIDE DEF told
<1> QED  BY <1>1, <1>3, <1>4, <1>5, <1>6, <1>7, <1>8

-----------------------------------------------------------------------------
(* What each action does, in these terms *)

\* A worker boots, imports, acknowledges, reports an import that threw or exits.
LEMMA HelloDoes ==
  ASSUME Spawnings, HostTypes, NEW w \in Worker, Hello(w)
  PROVE  /\ w = proc /\ workers[w].phase = "booting"
         /\ UNCHANGED <<exits, unread, proc, rolling, status, timer, killed, renderVars, latest, reload, history>>
         /\ \E e : /\ Changes(w, e) /\ e.phase = "loading" /\ e.loading = [bundle |-> latest, build |-> latest]
                   /\ e.renders = workers[w].renders
<1>0. latest \in Nat /\ workers[w] \in WorkerRecord(latest) /\ latest' = latest
  BY Known DEF Hello
<1> DEFINE l == [bundle |-> latest, build |-> latest]
           a == [workers[w] EXCEPT !.phase = "loading"]
           e == [workers[w] EXCEPT !.phase = "loading", !.loading = l]
<1>1. l \in Load(latest) /\ "loading" \in Phases
  BY <1>0 DEF Load, Phases
<1>2. a \in WorkerRecord(latest) /\ a.phase = "loading" /\ a.renders = workers[w].renders
  BY <1>0, <1>1, PhaseSet
<1>3. /\ e \in WorkerRecord(latest) /\ e.phase = "loading" /\ e.loading = l
      /\ e.renders = workers[w].renders
  <2> HIDE DEF a, l
  <2>1. [a EXCEPT !.loading = l] \in WorkerRecord(latest) /\ [a EXCEPT !.loading = l].phase = "loading"
        /\ [a EXCEPT !.loading = l].loading = l /\ [a EXCEPT !.loading = l].renders = workers[w].renders
    BY <1>0, <1>1, <1>2, LoadingSet
  <2> USE DEF a
  <2> QED  BY <2>1
<1>4. workers' = [workers EXCEPT ![w] = e]
  BY DEF Hello
<1>5. Changes(w, e)
  <2> HIDE DEF e
  <2> QED  BY <1>0, <1>3, <1>4, OneChanges
<1> HIDE DEF e
<1> QED  BY <1>3, <1>5 DEF Hello

LEMMA ImportedDoes ==
  ASSUME Spawnings, HostTypes, NEW w \in Worker, Imported(w)
  PROVE  /\ workers[w].phase = "loading" /\ unread' = unread \union {w}
         /\ UNCHANGED <<exits, proc, rolling, status, timer, killed, renderVars, latest, reload, history>>
         /\ \E e : /\ Changes(w, e) /\ e.phase = "ready" /\ e.loading = NoImport
                   /\ e.build = workers[w].loading.bundle /\ e.renders = workers[w].renders
<1>0. /\ latest \in Nat /\ workers[w] \in WorkerRecord(latest) /\ latest' = latest
      /\ NoImport \in Load(latest) /\ "ready" \in Phases
  BY Known, NothingLoads DEF Imported, Phases
<1> DEFINE b == workers[w].loading.bundle
           a == [workers[w] EXCEPT !.phase = "ready"]
           c == [a EXCEPT !.build = b]
           e == [c EXCEPT !.loading = NoImport]
<1>1. b \in 0..latest
  BY <1>0 DEF WorkerRecord, Load
<1>2. a \in WorkerRecord(latest) /\ a.phase = "ready" /\ a.renders = workers[w].renders
  BY <1>0, PhaseSet
<1>3. /\ c \in WorkerRecord(latest) /\ c.phase = "ready" /\ c.build = b
      /\ c.renders = workers[w].renders
  <2> HIDE DEF a, b
  <2> QED  BY <1>0, <1>1, <1>2, BuildSet
<1>4. /\ e \in WorkerRecord(latest) /\ e.phase = "ready" /\ e.build = b
      /\ e.loading = NoImport /\ e.renders = workers[w].renders
  <2> HIDE DEF c, b
  <2> QED  BY <1>0, <1>3, LoadingSet
<1>5. workers' = [workers EXCEPT ![w] = e]
  BY DEF Imported
<1>6. Changes(w, e)
  <2> HIDE DEF e
  <2> QED  BY <1>0, <1>4, <1>5, OneChanges
<1> HIDE DEF e
<1> QED  BY <1>4, <1>6 DEF Imported

LEMMA InitFailsDoes ==
  ASSUME Spawnings, HostTypes, NEW w \in Worker, InitFails(w)
  PROVE  /\ workers[w].phase = "loading"
         /\ UNCHANGED <<exits, unread, proc, rolling, status, timer, killed, renderVars, latest, reload, history>>
         /\ \E e : Changes(w, e) /\ e.phase = "failed" /\ e.renders = workers[w].renders
<1>0. /\ latest \in Nat /\ workers[w] \in WorkerRecord(latest) /\ latest' = latest
      /\ NoImport \in Load(latest) /\ "failed" \in Phases
  BY Known, NothingLoads DEF InitFails, Phases
<1> DEFINE a == [workers[w] EXCEPT !.phase = "failed"]
           e == [a EXCEPT !.loading = NoImport]
<1>1. a \in WorkerRecord(latest) /\ a.phase = "failed" /\ a.renders = workers[w].renders
  BY <1>0, PhaseSet
<1>2. e \in WorkerRecord(latest) /\ e.phase = "failed" /\ e.renders = workers[w].renders
  <2> HIDE DEF a
  <2> QED  BY <1>0, <1>1, LoadingSet
<1>3. workers' = [workers EXCEPT ![w] = e]
  BY DEF InitFails
<1>4. Changes(w, e)
  <2> HIDE DEF e
  <2> QED  BY <1>0, <1>2, <1>3, OneChanges
<1> HIDE DEF e
<1> QED  BY <1>2, <1>4 DEF InitFails

LEMMA ReloadedDoes ==
  ASSUME Spawnings, HostTypes, NEW w \in Worker, Reloaded(w)
  PROVE  /\ workers[w].phase = "ready" /\ workers[w].loading # NoImport
         /\ reload' = IF w = proc /\ reload.build = workers[w].loading.build THEN None ELSE reload
         /\ UNCHANGED <<exits, unread, proc, rolling, status, timer, killed, renderVars, latest, history>>
         /\ \E e : /\ Changes(w, e) /\ e.phase = "ready" /\ e.loading = NoImport
                   /\ e.renders = workers[w].renders
                   /\ e.build = IF workers[w].loading.bundle \in Bad THEN workers[w].build
                                                                      ELSE workers[w].loading.bundle
<1>0. /\ latest \in Nat /\ workers[w] \in WorkerRecord(latest) /\ latest' = latest
      /\ NoImport \in Load(latest)
      /\ workers[w].phase = "ready" /\ workers[w].loading # NoImport
  BY Known, NothingLoads DEF Reloaded
<1> DEFINE b == IF workers[w].loading.bundle \in Bad THEN workers[w].build ELSE workers[w].loading.bundle
           a == [workers[w] EXCEPT !.loading = NoImport]
           e == [a EXCEPT !.build = b]
<1>1. b \in 0..latest
  BY <1>0 DEF WorkerRecord, Load
<1>2. /\ a \in WorkerRecord(latest) /\ a.phase = "ready" /\ a.loading = NoImport
      /\ a.renders = workers[w].renders
  BY <1>0, LoadingSet
<1>3. /\ e \in WorkerRecord(latest) /\ e.phase = "ready" /\ e.build = b
      /\ e.loading = NoImport /\ e.renders = workers[w].renders
  <2> HIDE DEF a, b
  <2> QED  BY <1>0, <1>1, <1>2, BuildSet
<1>4. workers' = [workers EXCEPT ![w] = e]
  <2>1. workers' = [workers EXCEPT ![w].loading = NoImport,
                                   ![w].build = IF workers[w].loading.bundle \in Bad THEN @ ELSE workers[w].loading.bundle]
    BY DEF Reloaded
  <2> QED  BY <1>0, <2>1
<1>5. Changes(w, e)
  <2> HIDE DEF e
  <2> QED  BY <1>0, <1>3, <1>4, OneChanges
<1> HIDE DEF e
<1> QED  BY <1>3, <1>5 DEF Reloaded

LEMMA StaleFailsDoes ==
  ASSUME Spawnings, HostTypes, NEW w \in Worker, StaleFails(w)
  PROVE  /\ reload' = reload \/ reload' = None
         /\ UNCHANGED <<exits, unread, proc, rolling, status, timer, killed, renderVars, latest, history>>
         /\ \E e : /\ Changes(w, e) /\ e.phase = workers[w].phase /\ e.loading = workers[w].loading
                   /\ e.build = workers[w].build /\ e.renders = workers[w].renders
<1>0. latest \in Nat /\ workers[w] \in WorkerRecord(latest) /\ latest' = latest
  BY Known DEF StaleFails
<1>1. PICK b \in workers[w].stale : workers' = [workers EXCEPT ![w].stale = @ \ {b}]
  BY DEF StaleFails
<1> DEFINE S == workers[w].stale \ {b}
           e == [workers[w] EXCEPT !.stale = S]
<1>2. S \in SUBSET (0..latest)
  BY <1>0 DEF WorkerRecord
<1>3. /\ e \in WorkerRecord(latest) /\ e.phase = workers[w].phase /\ e.loading = workers[w].loading
      /\ e.build = workers[w].build /\ e.renders = workers[w].renders
  <2> HIDE DEF S
  <2> QED  BY <1>0, <1>2, StaleSet
<1>4. workers' = [workers EXCEPT ![w] = e]
  BY <1>1
<1>5. Changes(w, e)
  <2> HIDE DEF e
  <2> QED  BY <1>0, <1>3, <1>4, OneChanges
<1> HIDE DEF e
<1> QED  BY <1>3, <1>5 DEF StaleFails

LEMMA ExitDoes ==
  ASSUME Spawnings, HostTypes, NEW w \in Worker, Exit(w)
  PROVE  /\ exits' = exits \union {w} /\ workers[w].phase # "dead"
         /\ UNCHANGED <<unread, proc, rolling, status, timer, killed, renderVars, latest, reload, history>>
         /\ \E e : Changes(w, e) /\ e.phase = "dead"
<1>0. latest \in Nat /\ Spawned \in WorkerRecord(latest) /\ latest' = latest /\ "dead" \in Phases
  BY Known, SpawnedTyped DEF Exit, Phases
<1> DEFINE e == [Spawned EXCEPT !.phase = "dead"]
<1>1. e \in WorkerRecord(latest) /\ e.phase = "dead"
  <2> HIDE DEF Spawned
  <2> QED  BY <1>0, PhaseSet
<1>2. workers' = [workers EXCEPT ![w] = e]
  BY DEF Exit
<1>3. Changes(w, e)
  <2> HIDE DEF e
  <2> QED  BY <1>0, <1>1, <1>2, OneChanges
<1> HIDE DEF e
<1> QED  BY <1>1, <1>3 DEF Exit


\* Only the renders of a worker change, if anything does.
OnlyRenders(w, e) ==
  /\ Changes(w, e) /\ e.phase = workers[w].phase
  /\ e.build = workers[w].build /\ e.loading = workers[w].loading

LEMMA RendersChange ==
  ASSUME Spawnings, HostTypes, NEW w \in Worker, NEW R \in SUBSET Render, latest' = latest,
         workers' = [workers EXCEPT ![w] = [workers[w] EXCEPT !.renders = R]]
  PROVE  \E e : OnlyRenders(w, e) /\ e.renders = R
<1> DEFINE e == [workers[w] EXCEPT !.renders = R]
<1>0. latest \in Nat /\ workers[w] \in WorkerRecord(latest)
  BY Known
<1>1. /\ e \in WorkerRecord(latest) /\ e.phase = workers[w].phase /\ e.loading = workers[w].loading
      /\ e.build = workers[w].build /\ e.renders = R
  BY <1>0, RendersSet
<1>2. Changes(w, e)
  <2> HIDE DEF e
  <2>1. workers' = [workers EXCEPT ![w] = e]
    BY DEF e
  <2> QED  BY <1>0, <1>1, <2>1, OneChanges
<1> HIDE DEF e
<1> QED  BY <1>1, <1>2 DEF OnlyRenders

LEMMA AskDoes ==
  ASSUME Spawnings, HostTypes, NEW r \in Render, Ask(r)
  PROVE  \E e : OnlyRenders(proc, e) /\ e.renders = workers[proc].renders \union
                                                    (IF status = "ready" /\ ~Gone THEN {r} ELSE {})
<1>0. /\ latest \in Nat /\ proc \in Worker /\ workers[proc] \in WorkerRecord(latest) /\ latest' = latest
  BY Known DEF Ask
<1>1. workers[proc].renders \subseteq Render
  BY <1>0 DEF WorkerRecord
<1>2. CASE status = "ready" /\ ~Gone
  <2>1. workers' = [workers EXCEPT ![proc] = [workers[proc] EXCEPT !.renders = workers[proc].renders \union {r}]]
    BY <1>2 DEF Ask
  <2> QED  BY <1>0, <1>1, <1>2, <2>1, RendersChange
<1>3. CASE ~(status = "ready" /\ ~Gone)
  <2>1. Changes(proc, workers[proc])
    BY <1>0, <1>3, NoneChanges DEF Ask
  <2> QED  BY <1>3, <2>1 DEF OnlyRenders
<1> QED  BY <1>2, <1>3

LEMMA CancelDoes ==
  ASSUME Spawnings, HostTypes, NEW r \in Render, Cancel(r)
  PROVE  \E e : OnlyRenders(proc, e) /\ workers[proc].renders \ {r} \subseteq e.renders
<1>0. /\ latest \in Nat /\ proc \in Worker /\ workers[proc] \in WorkerRecord(latest) /\ latest' = latest
  BY Known DEF Cancel
<1>1. workers[proc].renders \ {r} \subseteq Render
  BY <1>0 DEF WorkerRecord
<1>2. CASE status = "ready"
  <2>1. workers' = [workers EXCEPT ![proc] = [workers[proc] EXCEPT !.renders = workers[proc].renders \ {r}]]
    BY <1>2 DEF Cancel
  <2> QED  BY <1>0, <1>1, <2>1, RendersChange
<1>3. CASE status # "ready"
  <2>1. Changes(proc, workers[proc])
    BY <1>0, <1>3, NoneChanges DEF Cancel
  <2> QED  BY <2>1 DEF OnlyRenders
<1> QED  BY <1>2, <1>3

LEMMA AnswerDoes ==
  ASSUME Spawnings, HostTypes, NEW r \in Render, NEW w \in Worker, Answer(w, r)
  PROVE  \E e : OnlyRenders(w, e) /\ e.renders = workers[w].renders \ {r}
<1>0. /\ latest \in Nat /\ workers[w] \in WorkerRecord(latest) /\ latest' = latest
  BY Known DEF Answer
<1>1. workers[w].renders \ {r} \subseteq Render
  BY <1>0 DEF WorkerRecord
<1>2. workers' = [workers EXCEPT ![w] = [workers[w] EXCEPT !.renders = workers[w].renders \ {r}]]
  BY DEF Answer
<1> QED  BY <1>0, <1>1, <1>2, RendersChange

\* The current worker's ready is read: the worker it replaces is told to end.
LEMMA ReadyDoes ==
  ASSUME Spawnings, HostTypes, NEW w \in Worker, Ready(w), w = proc
  PROVE  /\ workers' \in Seq(WorkerRecord(latest')) /\ Len(workers') = Len(workers) /\ DOMAIN workers' = Worker
         /\ \A v \in Worker :
              /\ v = rolling => workers'[v].phase \in {"dying", "dead"}
              /\ v # rolling => workers'[v].phase = workers[v].phase
              /\ workers[v].phase \in {"dying", "dead"} => workers'[v].phase \in {"dying", "dead"}
              /\ (workers'[v].phase = "dead") = (workers[v].phase = "dead")
         /\ proc # rolling => /\ workers'[proc].build = workers[proc].build
                              /\ workers'[proc].loading = workers[proc].loading
                              /\ ~Gone => /\ workers[proc].renders \subseteq workers'[proc].renders
                                          /\ queued \intersect pending \subseteq workers'[proc].renders
<1>0. /\ latest \in Nat /\ Worker = 1..Len(workers) /\ Len(workers) \in Nat /\ proc \in Worker
      /\ \A v \in Worker : workers[v] \in WorkerRecord(latest)
      /\ latest' = latest
  BY Known DEF Ready
<1> DEFINE ts == Told(workers, {rolling})
           R == ts[proc].renders \union (queued \intersect pending)
           f == [ts[proc] EXCEPT !.renders = R]
<1>1. /\ ts \in Seq(WorkerRecord(latest)) /\ Len(ts) = Len(workers) /\ DOMAIN ts = Worker
      /\ \A v \in Worker :
              /\ v = rolling => ts[v].phase \in {"dying", "dead"}
              /\ v # rolling => ts[v] = workers[v]
              /\ workers[v].phase \in {"dying", "dead"} => ts[v].phase \in {"dying", "dead"}
              /\ (ts[v].phase = "dead") = (workers[v].phase = "dead")
              /\ ts[v] \in WorkerRecord(latest)
  <2> HIDE DEF WorkerRecord
  <2>1. workers \in Seq(WorkerRecord(latest)) /\ DOMAIN workers = Worker
    BY DEF Spawnings, Worker
  <2>2. /\ ts \in Seq(WorkerRecord(latest)) /\ Len(ts) = Len(workers) /\ DOMAIN ts = Worker
      /\ \A v \in Worker :
              /\ v = rolling => ts[v].phase \in {"dying", "dead"}
              /\ v # rolling => ts[v] = workers[v]
              /\ workers[v].phase = "dead" => ts[v] = workers[v]
              /\ workers[v].phase \in {"dying", "dead"} => ts[v].phase \in {"dying", "dead"}
              /\ ts[v].phase = "dead" => workers[v].phase = "dead"
    BY <1>0, <2>1, SomeTold
  <2>3. \A v \in Worker : ts[v] \in WorkerRecord(latest)
    <3> HIDE DEF ts
    <3> QED  BY <1>0, <2>2, ElementOfSeq
  <2> HIDE DEF ts
  <2> QED  BY <2>2, <2>3
<1> HIDE DEF ts
<1>2. /\ f \in WorkerRecord(latest) /\ f.phase = ts[proc].phase
      /\ f.build = ts[proc].build /\ f.loading = ts[proc].loading
      /\ f.renders = ts[proc].renders \union (queued \intersect pending)
  <2>1. R \in SUBSET Render
    BY <1>0, <1>1 DEF WorkerRecord, HostTypes
  <2>2. ts[proc] \in WorkerRecord(latest)
    BY <1>0, <1>1
  <2> HIDE DEF R
  <2>3. f \in WorkerRecord(latest)
    BY <1>0, <2>1, <2>2, RendersSet
  <2>4. /\ f.phase = ts[proc].phase /\ f.renders = R
        /\ f.build = ts[proc].build /\ f.loading = ts[proc].loading
    BY <1>0, <2>1, <2>2, RendersSet
  <2> QED  BY <2>3, <2>4 DEF R
<1>3. workers' = IF Gone THEN ts ELSE [ts EXCEPT ![proc] = f]
  BY DEF Ready, ts, FinishRollingRecycle, FlushQueuedSends
<1> HIDE DEF f
<1>4. CASE Gone
  BY <1>0, <1>1, <1>3, <1>4
<1>5. CASE ~Gone
  <2>1. workers' = [ts EXCEPT ![proc] = f] /\ proc \in 1..Len(ts)
    BY <1>0, <1>1, <1>3, <1>5
  <2>2. /\ workers' \in Seq(WorkerRecord(latest)) /\ Len(workers') = Len(ts)
        /\ \A v \in 1..Len(ts) : workers'[v] = IF v = proc THEN f ELSE ts[v]
    <3> HIDE DEF WorkerRecord
    <3> QED  BY <1>1, <1>2, <2>1, ExceptSeq
  <2>3. DOMAIN workers' = Worker /\ \A v \in Worker : workers'[v] = IF v = proc THEN f ELSE ts[v]
    BY <1>0, <1>1, <2>1, <2>2
  <2>4. \A v \in Worker :
              /\ v = rolling => workers'[v].phase \in {"dying", "dead"}
              /\ v # rolling => workers'[v].phase = workers[v].phase
              /\ workers[v].phase \in {"dying", "dead"} => workers'[v].phase \in {"dying", "dead"}
              /\ (workers'[v].phase = "dead") = (workers[v].phase = "dead")
    BY <1>0, <1>1, <1>2, <2>3
  <2> QED  BY <1>0, <1>1, <1>2, <2>2, <2>3, <2>4
<1> QED  BY <1>4, <1>5

\* A reload is sent: the worker, if it runs, imports what it is told.
LEMMA SendDoes ==
  ASSUME Spawnings, HostTypes, latest' \in {latest, latest + 1}, NEW l \in Load(latest'), SendReload(l)
  PROVE  \E e : /\ Changes(proc, e) /\ e.phase = workers[proc].phase
                /\ e.build = workers[proc].build /\ e.renders = workers[proc].renders
                /\ Up(proc) => e.loading = l
<1>0. /\ latest \in Nat /\ latest' \in Nat /\ proc \in Worker /\ Worker = 1..Len(workers)
      /\ workers \in Seq(WorkerRecord(latest'))
  BY Known, RecordsGrow DEF Spawnings
<1>1. workers[proc] \in WorkerRecord(latest')
  BY <1>0, ElementOfSeq
<1>2. CASE ~Up(proc)
  <2>1. Changes(proc, workers[proc])
    BY <1>0, <1>2, NoneChanges DEF SendReload
  <2> QED  BY <1>2, <2>1
<1>3. CASE Up(proc)
  <2> DEFINE S == IF workers[proc].loading.bundle \in Bad THEN workers[proc].stale \union {workers[proc].loading.build}
                                                          ELSE workers[proc].stale
             a == [workers[proc] EXCEPT !.loading = l]
             e == [a EXCEPT !.stale = S]
  <2>1. S \in SUBSET (0..latest')
    BY <1>0, <1>1 DEF WorkerRecord, Load
  <2>2. /\ a \in WorkerRecord(latest') /\ a.phase = workers[proc].phase /\ a.loading = l
        /\ a.build = workers[proc].build /\ a.renders = workers[proc].renders
    BY <1>0, <1>1, LoadingSet
  <2>3. /\ e \in WorkerRecord(latest') /\ e.phase = workers[proc].phase /\ e.loading = l
        /\ e.build = workers[proc].build /\ e.renders = workers[proc].renders
    <3> HIDE DEF a, S
    <3>1. e \in WorkerRecord(latest')
      BY <1>0, <2>1, <2>2, StaleSet
    <3>2. /\ e.phase = a.phase /\ e.loading = a.loading
          /\ e.build = a.build /\ e.renders = a.renders
      BY <1>0, <2>1, <2>2, StaleSet
    <3> QED  BY <2>2, <3>1, <3>2
  <2>4. workers' = [workers EXCEPT ![proc] = e]
    <3>1. workers' = [workers EXCEPT ![proc] =
            [workers[proc] EXCEPT !.loading = l,
               !.stale = IF workers[proc].loading.bundle \in Bad THEN @ \union {workers[proc].loading.build} ELSE @]]
      BY <1>3 DEF SendReload, Import
    <3> QED  BY <1>1, <3>1 DEF WorkerRecord
  <2>5. Changes(proc, e)
    <3> HIDE DEF e
    <3> QED  BY <1>0, <2>3, <2>4, OneChanges
  <2> HIDE DEF e
  <2> QED  BY <2>3, <2>5
<1> QED  BY <1>2, <1>3

-----------------------------------------------------------------------------
(* The steps keep the invariant *)

LEMMA InitInv == Init => IInv
<1> SUFFICES ASSUME Init PROVE IInv
  OBVIOUS
<1> USE RscAssumption DEF RscAssumption
<1>1. Spawned \in WorkerRecord(1)
  BY SpawnedTyped
<1>2. /\ Spawnings /\ Len(workers) = 1 /\ DOMAIN workers = 1..1
      /\ workers[1] = Spawned
  <2>1. workers = <<Spawned>> /\ latest = 1
    BY DEF Init
  <2> HIDE DEF WorkerRecord, Spawned
  <2> QED  BY <1>1, <2>1 DEF Spawnings
<1>3. HostTypes
  <2>1. exits \subseteq Worker /\ unread \subseteq Worker /\ proc = Len(workers) /\ proc > 0
        /\ rolling \in 0..Len(workers)
    BY <1>2 DEF Worker, Init
  <2>2. /\ latest \in 1..MaxBuild
        /\ missed.build \in 0..latest /\ reload.build \in 0..latest
        /\ missed.worker \in 0..proc /\ reload.worker \in 0..proc
    BY DEF None, Init
  <2>3. timer \in [restart : Nat, recycle : BOOLEAN] /\ killed \in BOOLEAN /\ ~killed
    BY DEF Init
  <2>4. /\ fresh \subseteq Render /\ pending \subseteq Render \ fresh /\ status = "starting"
        /\ queued \subseteq Render \ fresh
    BY DEF Init
  <2> QED  BY <2>1, <2>2, <2>3, <2>4 DEF HostTypes
<1>4. OneRecycle /\ NoStrayWorker
  BY <1>2 DEF OneRecycle, NoStrayWorker, Worker, Init
<1> QED  BY <1>2, <1>3, <1>4 DEF IInv

\* A worker goes on or exits, and nobody is revived.
LEMMA WorkerGoesOn ==
  ASSUME IInv, NEW w \in Worker, NEW e, Changes(w, e),
         e.phase \notin {"dying", "dead"} => workers[w].phase \notin {"dying", "dead"},
         UNCHANGED <<latest, proc, rolling, status, timer, killed, history>>,
         exits' \subseteq exits \union {w}, unread' \subseteq unread \union {w},
         fresh' \subseteq Render, pending' \subseteq Render \ fresh', queued' \subseteq Render \ fresh',
         status = "ready" => queued' = queued,
         reload' = reload \/ reload' = None
  PROVE  IInv'
<1>1. Spawnings' /\ Worker' = Worker /\ Len(workers') = Len(workers)
  BY DEF Spawnings, Changes, Worker
<1>2. HostTypes'
  <2>1. reload'.build \in 0..latest' /\ reload'.worker \in 0..proc'
    BY Known DEF IInv, HostTypes, None
  <2>2. exits' \subseteq Worker' /\ unread' \subseteq Worker'
    BY <1>1 DEF IInv, HostTypes
  <2> QED  BY <1>1, <2>1, <2>2 DEF IInv, HostTypes, history
<1>3. \A v \in Worker : Up(v)' => Up(v)
  BY DEF Changes, Up
<1>4. OneRecycle' /\ NoStrayWorker'
  BY <1>1, <1>3 DEF IInv, OneRecycle, NoStrayWorker, history
<1> QED  BY <1>1, <1>2, <1>4 DEF IInv

\* Renders are asked for, cancelled and answered.
LEMMA RenderSteps ==
  ASSUME IInv, NEW r \in Render,
         Ask(r) \/ Cancel(r) \/ \E w \in Worker : Answer(w, r)
  PROVE  IInv'
<1>0. /\ UNCHANGED <<exits, unread, proc, rolling, status, timer, killed, latest, reload, history>>
      /\ proc \in Worker
  BY Known DEF Ask, Cancel, Answer, IInv
<1>1. /\ fresh' \subseteq Render /\ pending' \subseteq Render \ fresh' /\ queued' \subseteq Render \ fresh'
      /\ status = "ready" => queued' = queued
  BY DEF Ask, Cancel, Answer, IInv, HostTypes
<1>2. PICK w \in Worker : \E e : OnlyRenders(w, e)
  BY <1>0, AskDoes, CancelDoes, AnswerDoes DEF IInv
<1>3. PICK e : OnlyRenders(w, e)
  BY <1>2
<1> QED  BY <1>0, <1>1, <1>3, WorkerGoesOn DEF OnlyRenders

\* One worker goes on: it boots, imports, acknowledges or exits.
LEMMA WorkerSteps ==
  ASSUME IInv, NEW w \in Worker,
         Hello(w) \/ Imported(w) \/ InitFails(w) \/ Reloaded(w) \/ StaleFails(w) \/ Exit(w)
  PROVE  IInv'
<1>0. /\ fresh \subseteq Render /\ pending \subseteq Render \ fresh /\ queued \subseteq Render \ fresh
  BY DEF IInv, HostTypes
<1> USE DEF renderVars
<1>1. CASE Hello(w)
  BY <1>0, <1>1, HelloDoes, WorkerGoesOn DEF IInv
<1>2. CASE Imported(w)
  BY <1>0, <1>2, ImportedDoes, WorkerGoesOn DEF IInv
<1>3. CASE InitFails(w)
  BY <1>0, <1>3, InitFailsDoes, WorkerGoesOn DEF IInv
<1>4. CASE Reloaded(w)
  BY <1>0, <1>4, ReloadedDoes, WorkerGoesOn DEF IInv
<1>5. CASE StaleFails(w)
  BY <1>0, <1>5, StaleFailsDoes, WorkerGoesOn DEF IInv
<1>6. CASE Exit(w)
  BY <1>0, <1>6, ExitDoes, WorkerGoesOn DEF IInv
<1> QED  BY <1>1, <1>2, <1>3, <1>4, <1>5, <1>6

\* A ready is read: the worker replaced is told to end.
LEMMA ReadyStep ==
  ASSUME IInv, NEW w \in Worker, Ready(w)
  PROVE  IInv'
<1>0. /\ UNCHANGED <<exits, proc, timer, killed, fresh, latest, reload, history>>
      /\ unread' \subseteq unread
  BY DEF Ready
<1>1. CASE w # proc
  <2>1. UNCHANGED <<workers, status, rolling, pending, queued>>
    BY <1>1 DEF Ready
  <2> QED  BY <1>0, <2>1
           DEF IInv, Spawnings, HostTypes, OneRecycle, NoStrayWorker, Worker, Up, history
<1>2. CASE w = proc
  <2>1. /\ status' = "ready" /\ rolling' = 0 /\ queued' = {}
        /\ pending' \subseteq pending
    BY <1>2 DEF Ready
  <2>2. /\ workers' \in Seq(WorkerRecord(latest')) /\ Len(workers') = Len(workers) /\ DOMAIN workers' = Worker
        /\ \A v \in Worker : Up(v)' => Up(v) /\ v # rolling
    BY <1>2, ReadyDoes DEF IInv, Up
  <2>3. Spawnings' /\ Worker' = Worker
    BY <2>2 DEF Spawnings, Worker
  <2>4. HostTypes'
    BY <1>0, <2>1, <2>2, <2>3, Known DEF IInv, HostTypes, history
  <2>5. OneRecycle' /\ NoStrayWorker'
    BY <1>0, <2>1, <2>2, <2>3 DEF IInv, OneRecycle, NoStrayWorker, history
  <2> QED  BY <2>3, <2>4, <2>5 DEF IInv
<1> QED  BY <1>1, <1>2

\* An exit is handled: a restart is due when the current worker is gone.
LEMMA HandleExitStep ==
  ASSUME IInv, NEW w \in Worker, HandleExit(w)
  PROVE  IInv'
<1>1. /\ UNCHANGED <<workers, unread, proc, rolling, killed, fresh, latest, history>>
      /\ exits' \subseteq exits
  BY DEF HandleExit
<1>2. CASE w # proc
  BY <1>1, <1>2 DEF HandleExit, IInv, Spawnings, HostTypes, OneRecycle, NoStrayWorker, Worker, Up, history
<1>3. CASE w = proc
  <2>1. /\ pending' = {} /\ queued' = {} /\ reload' = None
        /\ status' = IF killed THEN "stopped" ELSE "restarting"
    BY <1>3 DEF HandleExit
  <2>2. /\ timer' \in [restart : Nat, recycle : BOOLEAN]
        /\ timer'.restart > 0 => ~killed
    <3>1. timer' = [timer EXCEPT !.restart = IF killed THEN @ ELSE @ + 1] /\ timer \in [restart : Nat, recycle : BOOLEAN]
      BY <1>3 DEF HandleExit, IInv, HostTypes
    <3>2. CASE killed
      <4>1. timer' = timer
        BY <3>1, <3>2
      <4> QED  BY <4>1 DEF IInv, HostTypes
    <3>3. CASE ~killed
      <4>1. timer' = [timer EXCEPT !.restart = timer.restart + 1] /\ timer.restart + 1 \in Nat
        BY <3>1, <3>3
      <4> DEFINE n == timer.restart + 1
      <4>2. n \in Nat /\ timer' = [timer EXCEPT !.restart = n]
        BY <4>1
      <4> HIDE DEF n
      <4>3. timer' \in [restart : Nat, recycle : BOOLEAN]
        BY <3>1, <4>2
      <4> QED  BY <3>3, <4>3
    <3> QED  BY <3>2, <3>3
  <2>3. reload'.build = 0 /\ reload'.worker = 0
    BY <2>1 DEF None
  <2>4. Spawnings' /\ NoStrayWorker' /\ OneRecycle'
    BY <1>1, <2>1 DEF IInv, Spawnings, NoStrayWorker, OneRecycle, Worker, Up, history
  <2>5. HostTypes'
    <3>1. latest \in Nat /\ proc \in Nat
      BY Known DEF IInv
    <3>2. exits' \subseteq Worker' /\ unread' \subseteq Worker'
      BY <1>1 DEF IInv, HostTypes, Worker
    <3>3. /\ proc' = Len(workers') /\ proc' > 0 /\ rolling' \in 0..Len(workers')
          /\ latest' \in 1..MaxBuild /\ missed'.build \in 0..latest' /\ missed'.worker \in 0..proc'
          /\ killed' \in BOOLEAN /\ killed' = killed
      BY <1>1 DEF IInv, HostTypes, history
    <3>4. /\ status' \in {"starting", "ready", "restarting", "stopped"}
          /\ status' # "ready"
      BY <2>1
    <3>5. /\ fresh' \subseteq Render /\ pending' \subseteq Render \ fresh' /\ queued' \subseteq Render \ fresh'
      BY <1>1, <2>1 DEF IInv, HostTypes
    <3>6. reload'.build \in 0..latest' /\ reload'.worker \in 0..proc'
      BY <1>1, <2>3, <3>1
    <3> QED  BY <2>2, <3>2, <3>3, <3>4, <3>5, <3>6 DEF HostTypes
  <2> QED  BY <2>4, <2>5 DEF IInv
<1> QED  BY <1>2, <1>3

\* A worker is spawned: those it replaces are rolled over, gone or noted.
LEMMA SpawnStep ==
  ASSUME IInv, ~killed, status' = "starting",
         workers' = Append(workers, Spawned), proc' = Len(workers) + 1,
         latest' \in {latest, latest + 1}, latest' \in 1..MaxBuild,
         rolling' \in 0..Len(workers), strayed.workers \subseteq strayed'.workers,
         \A w \in Worker : Up(w) /\ w \in {proc, rolling} => w = rolling' \/ w \in strayed'.workers,
         timer' \in [restart : Nat, recycle : BOOLEAN],
         UNCHANGED <<exits, unread, killed, renderVars, reload, missed>>
  PROVE  IInv'
<1>0. /\ latest \in Nat /\ Worker = 1..Len(workers) /\ Len(workers) \in Nat /\ proc = Len(workers)
  BY Known DEF IInv
<1>1. /\ workers' \in Seq(WorkerRecord(latest)) /\ Len(workers') = Len(workers) + 1
      /\ Worker' = Worker \union {Len(workers) + 1}
      /\ \A v \in Worker : workers'[v] = workers[v]
  BY <1>0, OneMore DEF IInv, Worker
<1>2. Spawnings'
  <2>1. workers' \in Seq(WorkerRecord(latest + 1))
    BY <1>0, <1>1, RecordsGrow
  <2> QED  BY <1>1, <2>1 DEF Spawnings
<1>3. \A v \in Worker : Up(v)' = Up(v)
  BY <1>1 DEF Up
<1>4. OneRecycle' /\ NoStrayWorker'
  <2> SUFFICES ASSUME NEW v \in Worker', Up(v)' PROVE v \in {proc', rolling'} \/ v \in strayed'.workers
    BY DEF OneRecycle, NoStrayWorker
  <2>1. CASE v = proc'
    BY <2>1
  <2>2. CASE v # proc'
    <3>1. v \in Worker /\ Up(v)
      BY <1>1, <1>3, <2>2
    <3> QED  BY <3>1 DEF IInv, NoStrayWorker
  <2> QED  BY <2>1, <2>2
<1>5. HostTypes'
  <2>1. reload'.build \in 0..latest' /\ reload'.worker \in 0..proc' /\ missed'.build \in 0..latest' /\ missed'.worker \in 0..proc'
    BY <1>0 DEF IInv, HostTypes
  <2>2. (/\ fresh \subseteq Render /\ pending \subseteq Render \ fresh /\ queued \subseteq Render \ fresh)'
    BY DEF IInv, HostTypes, renderVars
  <2>3. exits' \subseteq Worker' /\ unread' \subseteq Worker' /\ killed' \in BOOLEAN
    BY <1>1 DEF IInv, HostTypes
  <2>4. proc' = Len(workers') /\ proc' > 0 /\ rolling' \in 0..Len(workers')
    BY <1>0, <1>1
  <2> QED  BY <2>1, <2>2, <2>3, <2>4 DEF HostTypes
<1> QED  BY <1>2, <1>4, <1>5 DEF IInv

\* The host's bookkeeping changes, and no worker does.
LEMMA HostStep ==
  ASSUME IInv, Spawnings', workers' = workers, status' \in {"starting", "restarting"},
         latest' \in {latest, latest + 1}, latest' \in 1..MaxBuild,
         rolling' = rolling \/ (rolling' = proc /\ rolling = 0),
         timer' \in [restart : Nat, recycle : BOOLEAN], timer'.restart > 0 => ~killed,
         UNCHANGED <<exits, unread, proc, killed, renderVars, reload, history>>
  PROVE  IInv'
<1>0. /\ latest \in Nat /\ Worker = 1..Len(workers) /\ Len(workers) \in Nat /\ proc = Len(workers) /\ proc \in Worker
  BY Known DEF IInv
<1>1. Worker' = Worker /\ \A v \in Worker : Up(v)' = Up(v)
  BY DEF Worker, Up
<1>2. OneRecycle' /\ NoStrayWorker'
  BY <1>0, <1>1 DEF IInv, OneRecycle, NoStrayWorker, history
<1>3. HostTypes'
  <2>1. reload'.build \in 0..latest' /\ reload'.worker \in 0..proc' /\ missed'.build \in 0..latest' /\ missed'.worker \in 0..proc'
    BY <1>0 DEF IInv, HostTypes, history
  <2>2. (/\ fresh \subseteq Render /\ pending \subseteq Render \ fresh /\ queued \subseteq Render \ fresh)'
    BY DEF IInv, HostTypes, renderVars
  <2>3. exits' \subseteq Worker' /\ unread' \subseteq Worker' /\ killed' \in BOOLEAN
    BY <1>1 DEF IInv, HostTypes
  <2>4. proc' = Len(workers') /\ proc' > 0 /\ rolling' \in 0..Len(workers')
    BY <1>0 DEF IInv, HostTypes
  <2> QED  BY <2>1, <2>2, <2>3, <2>4 DEF HostTypes
<1> QED  BY <1>2, <1>3 DEF IInv

\* A rolling recycle, by memory, by its timer or in place of a reload.
LEMMA RollSteps ==
  ASSUME IInv, Idle, NEW counted, RollingRecycle(counted),
         latest' \in {latest, latest + 1}, latest' \in 1..MaxBuild,
         timer' \in [restart : Nat, recycle : BOOLEAN],
         UNCHANGED <<exits, unread, killed, renderVars, reload, history>>
  PROVE  IInv'
<1>0. latest \in Nat /\ Len(workers) \in Nat /\ proc = Len(workers) /\ proc \in Worker
  BY Known DEF IInv
<1>1. ~killed /\ rolling = 0 /\ rolling' = proc /\ status' = "starting" /\ strayed' = strayed /\ missed' = missed
  BY DEF Idle, IInv, OneRecycle, RollingRecycle, history
<1>2. CASE workers' = Append(workers, Spawned) /\ proc' = Len(workers) + 1
  <2>1. /\ rolling' \in 0..Len(workers)
        /\ \A w \in Worker : Up(w) /\ w \in {proc, rolling} => w = rolling' \/ w \in strayed'.workers
    BY <1>0, <1>1 DEF Worker
  <2> QED  BY <1>1, <1>2, <2>1, SpawnStep
<1>3. CASE UNCHANGED <<workers, proc>>
  <2>1. Spawnings'
    BY <1>0, <1>3, RecordsGrow DEF IInv, Spawnings
  <2> QED  BY <1>1, <1>3, <2>1, HostStep
<1> QED  BY <1>2, <1>3 DEF RollingRecycle

LEMMA MetricsStep == IInv /\ Metrics => IInv'
<1> SUFFICES ASSUME IInv, Metrics PROVE IInv'
  OBVIOUS
<1>1. latest' \in {latest, latest + 1} /\ latest' \in 1..MaxBuild /\ timer' \in [restart : Nat, recycle : BOOLEAN]
  BY DEF IInv, HostTypes, Metrics
<1> QED  BY <1>1, RollSteps DEF Metrics

LEMMA RecycleTimerStep == IInv /\ RecycleTimer => IInv'
<1> SUFFICES ASSUME IInv, RecycleTimer PROVE IInv'
  OBVIOUS
<1> DEFINE b == status = "ready" /\ pending # {}
<1>0. UNCHANGED <<exits, unread, killed, renderVars, latest, reload, history>>
  BY DEF RecycleTimer
<1>1. timer' = [timer EXCEPT !.recycle = b]
  BY DEF RecycleTimer
<1>2. timer' \in [restart : Nat, recycle : BOOLEAN] /\ timer'.restart = timer.restart
  <2> HIDE DEF b
  <2>1. timer \in [restart : Nat, recycle : BOOLEAN]
    BY DEF IInv, HostTypes
  <2>2. b \in BOOLEAN
    BY DEF b
  <2> QED  BY <1>1, <2>1, <2>2
<1>3. latest' \in {latest, latest + 1} /\ latest' \in 1..MaxBuild
  BY <1>0 DEF IInv, HostTypes
<1>4. CASE Idle
  <2>1. RollingRecycle(faults)
    BY <1>4 DEF RecycleTimer
  <2> QED  BY <1>0, <1>2, <1>3, <1>4, <2>1, RollSteps
<1>5. CASE ~Idle
  <2>1. UNCHANGED <<workers, proc, rolling, status>>
    BY <1>5 DEF RecycleTimer
  <2> QED  BY <1>0, <1>2, <2>1
           DEF IInv, Spawnings, HostTypes, OneRecycle, NoStrayWorker, Worker, Up, renderVars, history
<1> QED  BY <1>4, <1>5

\* What a reload asks for.
LEMMA RequestDoes ==
  ASSUME Spawnings, HostTypes, NEW rebundled \in BOOLEAN, Requested(rebundled)
  PROVE  /\ latest' = IF rebundled THEN latest + 1 ELSE latest
         /\ latest' \in {latest, latest + 1} /\ latest' \in 1..MaxBuild
         /\ Message(rebundled) \in Load(latest')
         /\ Message(rebundled).build = latest'
         /\ Message(rebundled).bundle = IF rebundled THEN latest' ELSE workers[proc].build
<1>0. latest \in Nat \ {0} /\ MaxBuild \in Nat /\ proc \in Worker /\ workers[proc] \in WorkerRecord(latest)
  BY Known
<1>1. latest' = IF rebundled THEN latest + 1 ELSE latest
  BY DEF Requested
<1>2. latest' \in {latest, latest + 1} /\ latest' \in 1..MaxBuild
  BY <1>0, <1>1 DEF Requested, HostTypes
<1>3. workers[proc].build \in 0..latest
  BY <1>0 DEF WorkerRecord
<1>4. workers[proc].build \in 0..latest' /\ latest' \in 0..latest'
  BY <1>0, <1>1, <1>3
<1> QED  BY <1>1, <1>2, <1>4 DEF Message, Load

LEMMA ReloadStep ==
  ASSUME IInv, NEW full \in BOOLEAN, NEW rebundled \in BOOLEAN, Reload(full, rebundled)
  PROVE  IInv'
<1>0. /\ latest \in Nat /\ Len(workers) \in Nat
      /\ Worker = 1..Len(workers) /\ proc \in Worker /\ proc = Len(workers)
  BY Known DEF IInv
<1>1. /\ UNCHANGED <<exits, unread, killed, renderVars, strayed>>
      /\ Requested(rebundled)
  BY DEF Reload
<1>2. /\ latest' \in {latest, latest + 1} /\ latest' \in 1..MaxBuild
      /\ Message(rebundled) \in Load(latest')
      /\ Message(rebundled).build = latest'
  BY <1>1, RequestDoes DEF IInv
<1>3. workers \in Seq(WorkerRecord(latest'))
  BY <1>0, <1>2, RecordsGrow DEF IInv, Spawnings
<1>4. CASE status # "ready" /\ NotTold(rebundled) /\ UNCHANGED <<workers, proc, rolling, status, timer, reload>>
  <2>1. missed' = missed \/ missed' = [build |-> latest', worker |-> proc]
    BY <1>4 DEF NotTold
  <2>2. missed'.build \in 0..latest' /\ missed'.worker \in 0..proc' /\ reload'.build \in 0..latest' /\ reload'.worker \in 0..proc'
    BY <1>0, <1>2, <1>4, <2>1 DEF IInv, HostTypes
  <2>3. HostTypes'
    BY <1>1, <1>2, <1>4, <2>2 DEF IInv, HostTypes, renderVars, Worker
  <2>4. Spawnings' /\ OneRecycle' /\ NoStrayWorker'
    BY <1>1, <1>3, <1>4 DEF IInv, Spawnings, OneRecycle, NoStrayWorker, Worker, Up
  <2> QED  BY <2>3, <2>4 DEF IInv
<1>5. CASE full /\ Idle /\ RollingRecycle(Counted(rebundled)) /\ UNCHANGED <<timer, reload, missed>>
  <2>1. timer' \in [restart : Nat, recycle : BOOLEAN]
    BY <1>5 DEF IInv, HostTypes
  <2> QED  BY <1>1, <1>2, <1>5, <2>1, RollSteps DEF history
<1>6. CASE /\ status = "ready" /\ ~(full /\ Idle)
           /\ timer' = [timer EXCEPT !.recycle = (full /\ ~killed) \/ @]
           /\ SendReload(Message(rebundled))
           /\ UNCHANGED <<proc, rolling, status>>
  <2>1. timer' \in [restart : Nat, recycle : BOOLEAN] /\ timer'.restart = timer.restart
    <3> DEFINE b == (full /\ ~killed) \/ timer.recycle
    <3>1. timer' = [timer EXCEPT !.recycle = b] /\ b \in BOOLEAN
      BY <1>6
    <3> HIDE DEF b
    <3> QED  BY <3>1 DEF IInv, HostTypes
  <2>2. PICK e : Changes(proc, e) /\ e.phase = workers[proc].phase
    BY <1>2, <1>6, SendDoes DEF IInv
  <2>3. Spawnings' /\ Worker' = Worker /\ Len(workers') = Len(workers) /\ \A v \in Worker : Up(v)' = Up(v)
    BY <1>0, <2>2 DEF Changes, Spawnings, Worker, Up
  <2>4. \/ missed' = missed
        \/ missed' = [build |-> workers[proc].loading.bundle, worker |-> proc]
    BY <1>6 DEF SendReload, Import
  <2>5. workers[proc].loading.bundle \in 0..latest
    BY <1>0, Known DEF IInv, WorkerRecord, Load
  <2>6. missed'.build \in 0..latest' /\ missed'.worker \in 0..proc'
    BY <1>0, <1>2, <1>6, <2>4, <2>5 DEF IInv, HostTypes
  <2>7. reload'.build \in 0..latest' /\ reload'.worker \in 0..proc'
    BY <1>0, <1>2, <1>6 DEF SendReload, None
  <2>8. HostTypes'
    <3>1. /\ exits' \subseteq Worker' /\ unread' \subseteq Worker'
          /\ proc' = Len(workers') /\ proc' > 0 /\ rolling' \in 0..Len(workers')
      BY <1>1, <1>6, <2>3 DEF IInv, HostTypes
    <3>2. /\ (timer.restart > 0 => ~killed)' /\ killed' \in BOOLEAN
      BY <1>1, <2>1 DEF IInv, HostTypes
    <3>3. (/\ fresh \subseteq Render /\ pending \subseteq Render \ fresh /\ queued \subseteq Render \ fresh
           /\ status \in {"starting", "ready", "restarting", "stopped"}
           /\ status = "ready" => queued = {})'
      BY <1>1, <1>6 DEF IInv, HostTypes, renderVars
    <3> QED  BY <1>2, <2>1, <2>6, <2>7, <3>1, <3>2, <3>3 DEF HostTypes
  <2>9. OneRecycle' /\ NoStrayWorker'
    BY <1>1, <1>6, <2>3 DEF IInv, OneRecycle, NoStrayWorker
  <2> QED  BY <2>3, <2>8, <2>9 DEF IInv
<1> QED  BY <1>4, <1>5, <1>6 DEF Reload

LEMMA RestartTimerStep == IInv /\ RestartTimer => IInv'
<1> SUFFICES ASSUME IInv, RestartTimer PROVE IInv'
  OBVIOUS
<1>0. latest \in Nat /\ Len(workers) \in Nat /\ proc \in Worker
  BY Known DEF IInv
<1>1. /\ timer.restart > 0 /\ ~killed
      /\ UNCHANGED <<exits, unread, rolling, killed, renderVars, latest, reload, missed>>
      /\ latest' \in {latest, latest + 1} /\ latest' \in 1..MaxBuild
      /\ timer \in [restart : Nat, recycle : BOOLEAN] /\ rolling \in 0..Len(workers)
  BY DEF RestartTimer, IInv, HostTypes
<1>2. CASE /\ timer' = [timer EXCEPT !.restart = @ - 1]
           /\ workers' = Append(workers, Spawned) /\ proc' = Len(workers) + 1 /\ status' = "starting"
           /\ strayed' = IF Gone THEN strayed
                         ELSE [workers |-> strayed.workers \union {proc},
                               renders |-> strayed.renders \union (pending \ queued)]
  <2>1. timer' \in [restart : Nat, recycle : BOOLEAN]
    <3> DEFINE n == timer.restart - 1
    <3>1. n \in Nat /\ timer' = [timer EXCEPT !.restart = n]
      BY <1>1, <1>2
    <3> HIDE DEF n
    <3> QED  BY <1>1, <3>1
  <2>2. strayed.workers \subseteq strayed'.workers /\ (Up(proc) => proc \in strayed'.workers)
    BY <1>2 DEF Gone, Up
  <2>3. \A w \in Worker : Up(w) /\ w \in {proc, rolling} => w = rolling' \/ w \in strayed'.workers
    BY <1>1, <2>2
  <2>4. rolling' \in 0..Len(workers)
    BY <1>1
  <2> QED  BY <1>1, <1>2, <2>1, <2>2, <2>3, <2>4, SpawnStep
<1>3. CASE status' = "restarting" /\ UNCHANGED <<timer, workers, proc, strayed>>
  <2>1. Spawnings'
    BY <1>1, <1>3 DEF IInv, Spawnings
  <2> QED  BY <1>1, <1>3, <2>1, HostStep DEF history
<1> QED  BY <1>2, <1>3 DEF RestartTimer

LEMMA KillStep == IInv /\ Kill => IInv'
<1> SUFFICES ASSUME IInv, Kill PROVE IInv'
  OBVIOUS
<1>0. /\ latest \in Nat /\ Len(workers) \in Nat /\ proc \in Worker
  BY Known DEF IInv
<1>1. /\ killed' = TRUE /\ status' = "stopped" /\ rolling' = 0
      /\ timer' = [restart |-> 0, recycle |-> FALSE]
      /\ workers' = Told(workers, {proc, rolling})
      /\ UNCHANGED <<exits, unread, proc, renderVars, latest, reload, history>>
  BY DEF Kill
<1>2. /\ Spawnings' /\ Len(workers') = Len(workers) /\ Worker' = Worker
      /\ \A v \in Worker : Up(v)' => Up(v) /\ v \notin {proc, rolling}
  <2> HIDE DEF WorkerRecord
  <2> QED  BY <1>0, <1>1, SomeTold DEF IInv, Spawnings, Worker, Up
<1>3. HostTypes'
  <2>1. timer' \in [restart : Nat, recycle : BOOLEAN] /\ timer'.restart = 0
    BY <1>1
  <2>2. exits' \subseteq Worker' /\ unread' \subseteq Worker' /\ proc' = Len(workers') /\ proc' > 0
        /\ rolling' \in 0..Len(workers')
    BY <1>0, <1>1, <1>2 DEF IInv, HostTypes
  <2> QED  BY <1>1, <2>1, <2>2 DEF IInv, HostTypes, renderVars, history
<1>4. OneRecycle' /\ NoStrayWorker'
  BY <1>1, <1>2 DEF IInv, OneRecycle, NoStrayWorker, history
<1> QED  BY <1>2, <1>3, <1>4 DEF IInv

LEMMA NextInv == IInv /\ [Next]_vars => IInv'
<1> SUFFICES ASSUME IInv, [Next]_vars PROVE IInv'
  OBVIOUS
<1>1. ASSUME NEW r \in Render, Ask(r) \/ Cancel(r) \/ \E w \in Worker : Answer(w, r) PROVE IInv'
  BY <1>1, RenderSteps
<1>2. ASSUME NEW w \in Worker,
             Hello(w) \/ Imported(w) \/ InitFails(w) \/ Reloaded(w) \/ StaleFails(w) \/ Exit(w)
      PROVE  IInv'
  BY <1>2, WorkerSteps
<1>3. ASSUME NEW w \in Worker, Ready(w) \/ HandleExit(w) PROVE IInv'
  BY <1>3, ReadyStep, HandleExitStep
<1>4. ASSUME NEW full \in BOOLEAN, NEW rebundled \in BOOLEAN, Reload(full, rebundled) PROVE IInv'
  BY <1>4, ReloadStep
<1>5. CASE Metrics \/ RecycleTimer \/ RestartTimer \/ Kill
  BY <1>5, MetricsStep, RecycleTimerStep, RestartTimerStep, KillStep
<1>6. CASE UNCHANGED vars
  BY <1>6 DEF vars, renderVars, history, IInv, Spawnings, HostTypes, OneRecycle, NoStrayWorker, Worker, Up
<1> QED  BY <1>1, <1>2, <1>3, <1>4, <1>5, <1>6 DEF Next

-----------------------------------------------------------------------------
(* Who waits for the worker, and what it serves *)

Phase == workers[proc].phase

\* The host's status tells what its current worker does, unless that has exited
\* or been told to end: a worker that got ready is one the host knows to be, or
\* will know; one that is gone is killed or replaced by a timer.
Postings ==
  /\ \A w \in exits : workers[w].phase = "dead"
  /\ \A w \in unread : workers[w].phase \in {"ready", "dying", "dead"}
  /\ status = "ready" \/ rolling = proc =>
       proc \notin unread /\ Phase \notin {"booting", "loading", "failed"}
  /\ Gone => timer.restart > 0 \/ killed
  /\ Phase = "ready" /\ proc \notin unread =>
       status = "ready" \/ (status = "starting" /\ rolling = proc) \/ timer.restart > 0
  /\ status = "stopped" => killed
  /\ strayed.workers \subseteq 1..proc - 1

\* Renders that wait are queued or with the worker, or its exit is to be handled.
RendersPlaced ==
  \A r \in pending \ strayed.renders :
    r \in queued \/ ((Up(proc) => r \in workers[proc].renders) /\ (Gone => killed))

\* A reload that waits was sent to a worker that was ready, and is its last.
ReloadPlaced ==
  reload # None =>
    \/ workers[proc].loading.build = reload.build \/ ~Up(proc) \/ reload.worker # proc

NoReloadYet == Phase \in {"booting", "loading", "failed"} => reload = None \/ reload.worker # proc

\* A worker has what hello gave it or the host last told it, or missed it.
Missed == missed = [build |-> latest, worker |-> proc]
BundlesPlaced ==
  /\ Phase = "loading" =>
       workers[proc].loading.bundle > 0 /\ (workers[proc].loading.bundle = latest \/ Missed)
  /\ Phase = "ready" =>
       workers[proc].build > 0 /\ (workers[proc].loading = NoImport \/ workers[proc].loading.bundle > 0)
  /\ Phase = "ready" /\ (proc \in unread \/ status = "ready") =>
       latest \in {workers[proc].build, workers[proc].loading.bundle} \union Bad \/ Missed
  /\ Phase = "ready" /\ proc \in unread => workers[proc].loading = NoImport
  /\ Phase = "ready" /\ status = "ready" =>
       workers[proc].loading.bundle \in {0, workers[proc].build, latest}

Placed == Postings /\ RendersPlaced /\ ReloadPlaced /\ NoReloadYet /\ BundlesPlaced


LEMMA PlacedServes == ASSUME IInv, Placed PROVE ServesLatest
<1>1. workers[proc].phase \in Phases
  BY Known DEF IInv, WorkerRecord
<1>2. status = "ready" /\ Up(proc) => Phase = "ready"
  BY <1>1 DEF Placed, Postings, Phase, Up, Phases
<1> QED  BY <1>2 DEF Placed, BundlesPlaced, ServesLatest, Missed

LEMMA PlacedOwes == ASSUME IInv, Placed PROVE EveryWaitIsOwed
<1>1. proc \in Worker /\ workers[proc].phase \in Phases
  BY Known DEF IInv, WorkerRecord
<1>2. status \in {"starting", "ready", "restarting", "stopped"} /\ (status = "ready" => queued = {})
  BY DEF IInv, HostTypes
<1>3. killed => ~Up(proc)
  <2>1. proc \notin strayed.workers
    BY Known DEF IInv, Placed, Postings
  <2> QED  BY <1>1, <2>1 DEF IInv, NoStrayWorker
<1>4. EveryRenderIsOwed
  <2> SUFFICES ASSUME NEW r \in pending, r \notin strayed.renders
               PROVE  \/ r \in workers[proc].renders /\ Up(proc)
                      \/ r \in queued /\ \/ timer.restart > 0 \/ proc \in unread \/ Wedged
                                         \/ workers[proc].phase \in {"booting", "loading"}
                      \/ proc \in exits \/ workers[proc].phase = "dying"
                      \/ killed /\ workers[proc].phase = "dead"
    BY DEF EveryRenderIsOwed
  <2>1. r \in queued \/ ((Up(proc) => r \in workers[proc].renders) /\ (Gone => killed))
    BY DEF Placed, RendersPlaced
  <2>2. CASE workers[proc].phase \in {"dying", "dead"}
    <3>1. Gone => r \in queued \/ killed
      BY <2>1
    <3> QED  BY <2>2, <3>1 DEF Placed, Postings, Gone
  <2>3. CASE workers[proc].phase \notin {"dying", "dead"} /\ r \notin queued
    BY <2>1, <2>3 DEF Up
  <2>4. CASE workers[proc].phase \notin {"dying", "dead"} /\ r \in queued
    <3>1. status # "ready" /\ status # "stopped"
      BY <1>2, <1>3, <2>4 DEF Placed, Postings, Up
    <3> QED  BY <1>1, <2>4, <3>1 DEF Placed, Postings, Phase, Phases, Wedged
  <2> QED  BY <2>2, <2>3, <2>4
<1>5. EveryReloadIsOwed
  BY DEF Placed, ReloadPlaced, EveryReloadIsOwed
<1> QED  BY <1>4, <1>5 DEF EveryWaitIsOwed

LEMMA InitPlaced == Init => Placed
<1> SUFFICES ASSUME Init PROVE Placed
  OBVIOUS
<1>1. workers[proc] = Spawned /\ pending = {} /\ exits = {} /\ unread = {} /\ reload = None /\ status = "starting"
      /\ strayed.workers = {} /\ rolling = 0 /\ proc = 1
  BY DEF Init
<1>2. Spawned.phase = "booting"
  BY DEF Spawned
<1> QED  BY <1>1, <1>2
         DEF Placed, Postings, RendersPlaced, ReloadPlaced, NoReloadYet, BundlesPlaced, Phase, Gone

\* A worker other than the current one goes on.
LEMMA AnotherGoesOn ==
  ASSUME IInv, Placed, NEW w \in Worker, w # proc, NEW e, Changes(w, e),
         w \in exits' => e.phase = "dead",
         w \in unread' => e.phase \in {"ready", "dying", "dead"},
         exits' \subseteq exits \union {w}, exits \subseteq exits',
         unread' \subseteq unread \union {w}, unread \subseteq unread',
         UNCHANGED <<latest, proc, rolling, status, timer, killed, queued, reload, history>>,
         pending' \subseteq pending
  PROVE  Placed'
<1>1. /\ exits \subseteq Worker /\ unread \subseteq Worker /\ proc \in Worker
      /\ workers'[proc] = workers[proc] /\ workers'[w] = e
      /\ \A v \in Worker \ {w} : workers'[v] = workers[v]
  BY Known DEF IInv, HostTypes, Changes
<1>2. (proc \in exits') = (proc \in exits) /\ (proc \in unread') = (proc \in unread)
  OBVIOUS
<1>3. Postings'
  BY <1>1, <1>2 DEF Placed, Postings, Phase, Gone, history
<1>4. RendersPlaced' /\ ReloadPlaced' /\ NoReloadYet'
  BY <1>1, <1>2 DEF Placed, RendersPlaced, ReloadPlaced, NoReloadYet, Phase, Gone, Up, history
<1>5. BundlesPlaced'
  BY <1>1, <1>2 DEF Placed, BundlesPlaced, Phase, Missed, history
<1> QED  BY <1>3, <1>4, <1>5 DEF Placed

\* Renders come and go with the worker they were sent to.
LEMMA RenderPlaced ==
  ASSUME IInv, Placed, NEW r \in Render,
         Ask(r) \/ Cancel(r) \/ \E w \in Worker : Answer(w, r)
  PROVE  Placed'
<1>0. /\ UNCHANGED <<exits, unread, proc, rolling, status, timer, killed, latest, reload, history>>
      /\ exits \subseteq Worker /\ unread \subseteq Worker /\ proc \in Worker
      /\ status \in {"starting", "ready", "restarting", "stopped"}
  BY Known DEF Ask, Cancel, Answer, IInv, HostTypes
<1>1. PICK w \in Worker : \E e :
        /\ OnlyRenders(w, e)
        /\ \/ w = proc /\ Ask(r) /\ e.renders = workers[proc].renders \union (IF status = "ready" /\ ~Gone THEN {r} ELSE {})
           \/ w = proc /\ Cancel(r) /\ workers[proc].renders \ {r} \subseteq e.renders
           \/ Answer(w, r) /\ e.renders = workers[w].renders \ {r}
  BY <1>0, AskDoes, CancelDoes, AnswerDoes DEF IInv
<1>2. PICK e :
        /\ OnlyRenders(w, e)
        /\ \/ w = proc /\ Ask(r) /\ e.renders = workers[proc].renders \union (IF status = "ready" /\ ~Gone THEN {r} ELSE {})
           \/ w = proc /\ Cancel(r) /\ workers[proc].renders \ {r} \subseteq e.renders
           \/ Answer(w, r) /\ e.renders = workers[w].renders \ {r}
  BY <1>1
<1>3. \A v \in Worker : /\ workers'[v].phase = workers[v].phase /\ workers'[v].build = workers[v].build
                        /\ workers'[v].loading = workers[v].loading
  BY <1>2 DEF OnlyRenders, Changes
<1>4. Postings' /\ ReloadPlaced' /\ NoReloadYet'
  BY <1>0, <1>3 DEF Placed, Postings, ReloadPlaced, NoReloadYet, Phase, Gone, Up, history
<1>5. BundlesPlaced'
  BY <1>0, <1>3 DEF Placed, BundlesPlaced, Phase, Missed, history
<1>6. RendersPlaced'
  <2> SUFFICES ASSUME NEW q \in pending', q \notin strayed.renders
               PROVE  q \in queued' \/ ((Up(proc) => q \in workers'[proc].renders) /\ (Gone => killed))
    BY <1>0, <1>3 DEF RendersPlaced, Up, Gone, history
  <2>1. CASE w = proc /\ Ask(r) /\ e.renders = workers[proc].renders \union (IF status = "ready" /\ ~Gone THEN {r} ELSE {})
    <3>1. workers'[proc] = e
      BY <1>0, <1>2, <2>1 DEF OnlyRenders, Changes
    <3>2. queued \subseteq queued'
      BY <2>1 DEF Ask
    <3>3. CASE q \in pending
      BY <2>1, <3>1, <3>2, <3>3 DEF Placed, RendersPlaced
    <3>4. CASE q \notin pending
      <4>1. q = r /\ status # "stopped" /\ ~(status = "ready" /\ Gone)
        BY <2>1, <3>4 DEF Ask
      <4>2. status # "ready" => q \in queued'
        BY <1>0, <2>1, <4>1 DEF Ask
      <4>3. status = "ready" => ~Gone /\ q \in workers'[proc].renders
        BY <2>1, <3>1, <4>1
      <4> QED  BY <4>2, <4>3
    <3> QED  BY <3>3, <3>4
  <2>2. CASE w = proc /\ Cancel(r) /\ workers[proc].renders \ {r} \subseteq e.renders
    <3>1. workers'[proc] = e
      BY <1>0, <1>2, <2>2 DEF OnlyRenders, Changes
    <3>2. queued' = queued /\ q \in pending /\ q # r
      BY <2>2 DEF Cancel
    <3> QED  BY <2>2, <3>1, <3>2 DEF Placed, RendersPlaced
  <2>3. CASE Answer(w, r) /\ e.renders = workers[w].renders \ {r}
    <3>1. workers'[proc] = IF w = proc THEN e ELSE workers[proc]
      BY <1>0, <1>2, <2>3 DEF OnlyRenders, Changes
    <3>2. queued' = queued /\ q \in pending /\ (w = proc => q # r)
      BY <2>3 DEF Answer
    <3> QED  BY <2>3, <3>1, <3>2 DEF Placed, RendersPlaced
  <2> QED  BY <1>2, <2>1, <2>2, <2>3
<1> QED  BY <1>4, <1>5, <1>6 DEF Placed

\* A worker boots, imports or exits.
LEMMA WorkerPlaced ==
  ASSUME IInv, Placed, NEW w \in Worker,
         Hello(w) \/ Imported(w) \/ InitFails(w) \/ Reloaded(w) \/ StaleFails(w) \/ Exit(w)
  PROVE  Placed'
<1>0. /\ exits \subseteq Worker /\ unread \subseteq Worker /\ proc \in Worker
      /\ latest \in Nat \ {0} /\ workers[proc] \in WorkerRecord(latest)
  BY Known DEF IInv, HostTypes
<1> USE DEF renderVars, history
<1>1. CASE Hello(w)
  <2>1. PICK e : /\ Changes(w, e) /\ e.phase = "loading" /\ e.loading = [bundle |-> latest, build |-> latest]
                 /\ e.renders = workers[w].renders
    BY <1>1, HelloDoes DEF IInv
  <2>2. /\ w = proc /\ Phase = "booting"
        /\ UNCHANGED <<exits, unread, proc, rolling, status, timer, killed, renderVars, latest, reload, history>>
    BY <1>1, HelloDoes DEF IInv, Phase
  <2>3. workers'[proc] = e /\ \A v \in Worker \ {proc} : workers'[v] = workers[v]
    BY <1>0, <2>1, <2>2 DEF Changes
  <2>4. Postings'
    BY <1>0, <2>1, <2>2, <2>3 DEF Placed, Postings, Phase, Gone
  <2>5. RendersPlaced' /\ ReloadPlaced' /\ NoReloadYet'
    BY <1>0, <2>1, <2>2, <2>3 DEF Placed, RendersPlaced, ReloadPlaced, NoReloadYet, Phase, Gone, Up
  <2>6. BundlesPlaced'
    BY <1>0, <2>1, <2>2, <2>3 DEF BundlesPlaced, Phase
  <2> QED  BY <2>4, <2>5, <2>6 DEF Placed
<1>2. CASE Imported(w)
  <2>1. PICK e : /\ Changes(w, e) /\ e.phase = "ready" /\ e.loading = NoImport
                 /\ e.build = workers[w].loading.bundle /\ e.renders = workers[w].renders
    BY <1>2, ImportedDoes DEF IInv
  <2>2. /\ workers[w].phase = "loading" /\ unread' = unread \union {w}
        /\ UNCHANGED <<exits, proc, rolling, status, timer, killed, renderVars, latest, reload, history>>
    BY <1>2, ImportedDoes DEF IInv
  <2>3. w \notin exits
    BY <2>2 DEF Placed, Postings
  <2>4. CASE w # proc
    <3>1. UNCHANGED <<exits, proc, rolling, status, timer, killed, queued, pending, latest, reload, history>>
      BY <2>2
    <3> QED  BY <2>1, <2>2, <2>3, <2>4, <3>1, AnotherGoesOn
  <2>5. CASE w = proc
    <3>1. workers'[proc] = e /\ \A v \in Worker \ {proc} : workers'[v] = workers[v]
      BY <1>0, <2>1, <2>5 DEF Changes
    <3>2. status # "ready" /\ rolling # proc
      BY <2>2, <2>5 DEF Placed, Postings, Phase
    <3>3. Postings'
      BY <1>0, <2>1, <2>2, <2>3, <2>5, <3>1, <3>2 DEF Placed, Postings, Phase, Gone
    <3>4. RendersPlaced' /\ ReloadPlaced' /\ NoReloadYet'
      BY <1>0, <2>1, <2>2, <2>5, <3>1, <3>2 DEF Placed, RendersPlaced, ReloadPlaced, NoReloadYet, Phase, Gone, Up
    <3>5. BundlesPlaced'
      BY <1>0, <2>1, <2>2, <2>5, <3>1, <3>2 DEF Placed, BundlesPlaced, Phase, Missed
    <3> QED  BY <3>3, <3>4, <3>5 DEF Placed
  <2> QED  BY <2>4, <2>5
<1>3. CASE InitFails(w)
  <2>1. PICK e : Changes(w, e) /\ e.phase = "failed" /\ e.renders = workers[w].renders
    BY <1>3, InitFailsDoes DEF IInv
  <2>2. /\ workers[w].phase = "loading"
        /\ UNCHANGED <<exits, unread, proc, rolling, status, timer, killed, renderVars, latest, reload, history>>
    BY <1>3, InitFailsDoes DEF IInv
  <2>3. w \notin exits /\ w \notin unread
    BY <2>2 DEF Placed, Postings
  <2>4. CASE w # proc
    <3>1. UNCHANGED <<exits, unread, proc, rolling, status, timer, killed, queued, pending, latest, reload, history>>
      BY <2>2
    <3> QED  BY <2>1, <2>2, <2>3, <2>4, <3>1, AnotherGoesOn
  <2>5. CASE w = proc
    <3>1. workers'[proc] = e /\ \A v \in Worker \ {proc} : workers'[v] = workers[v]
      BY <1>0, <2>1, <2>5 DEF Changes
    <3>2. status # "ready" /\ rolling # proc
      BY <2>2, <2>5 DEF Placed, Postings, Phase
    <3>3. Postings'
      BY <1>0, <2>1, <2>2, <2>3, <2>5, <3>1, <3>2 DEF Placed, Postings, Phase, Gone
    <3>4. RendersPlaced' /\ ReloadPlaced' /\ NoReloadYet'
      BY <1>0, <2>1, <2>2, <2>5, <3>1, <3>2 DEF Placed, RendersPlaced, ReloadPlaced, NoReloadYet, Phase, Gone, Up
    <3>5. BundlesPlaced'
      BY <2>1, <2>5, <3>1, <2>2 DEF BundlesPlaced, Phase
    <3> QED  BY <3>3, <3>4, <3>5 DEF Placed
  <2> QED  BY <2>4, <2>5
<1>4. CASE Reloaded(w)
  <2>1. PICK e : /\ Changes(w, e) /\ e.phase = "ready" /\ e.loading = NoImport
                 /\ e.renders = workers[w].renders
                 /\ e.build = IF workers[w].loading.bundle \in Bad THEN workers[w].build
                                                                    ELSE workers[w].loading.bundle
    BY <1>4, ReloadedDoes DEF IInv
  <2>2. /\ workers[w].phase = "ready" /\ workers[w].loading # NoImport
        /\ reload' = IF w = proc /\ reload.build = workers[w].loading.build THEN None ELSE reload
        /\ UNCHANGED <<exits, unread, proc, rolling, status, timer, killed, renderVars, latest, history>>
    BY <1>4, ReloadedDoes DEF IInv
  <2>3. w \notin exits
    BY <2>2 DEF Placed, Postings
  <2>4. CASE w # proc
    <3>1. UNCHANGED <<exits, unread, proc, rolling, status, timer, killed, queued, pending, latest, reload, history>>
      BY <2>2, <2>4
    <3> QED  BY <2>1, <2>2, <2>3, <2>4, <3>1, AnotherGoesOn
  <2>5. CASE w = proc
    <3>1. workers'[proc] = e /\ \A v \in Worker \ {proc} : workers'[v] = workers[v]
      BY <1>0, <2>1, <2>5 DEF Changes
    <3>2. proc \notin unread /\ workers[proc].loading.bundle > 0 /\ workers[proc].build > 0
      BY <2>2, <2>5 DEF Placed, BundlesPlaced, Phase
    <3>3. Postings'
      BY <1>0, <2>1, <2>2, <2>3, <2>5, <3>1 DEF Placed, Postings, Phase, Gone
    <3>4. RendersPlaced' /\ NoReloadYet'
      BY <1>0, <2>1, <2>2, <2>5, <3>1 DEF Placed, RendersPlaced, NoReloadYet, Phase, Gone, Up
    <3>5. ReloadPlaced'
      BY <1>0, <2>1, <2>2, <2>5, <3>1 DEF Placed, ReloadPlaced, Up
    <3>6. NoImport.bundle = 0
      BY DEF NoImport
    <3>7. BundlesPlaced'
      BY <1>0, <2>1, <2>2, <2>5, <3>1, <3>2, <3>6 DEF Placed, BundlesPlaced, Phase, Missed
    <3> QED  BY <3>3, <3>4, <3>5, <3>7 DEF Placed
  <2> QED  BY <2>4, <2>5
<1>5. CASE StaleFails(w)
  <2>1. PICK e : /\ Changes(w, e) /\ e.phase = workers[w].phase /\ e.loading = workers[w].loading
                 /\ e.build = workers[w].build /\ e.renders = workers[w].renders
    BY <1>5, StaleFailsDoes DEF IInv
  <2>2. /\ reload' = reload \/ reload' = None
        /\ UNCHANGED <<exits, unread, proc, rolling, status, timer, killed, renderVars, latest, history>>
    BY <1>5, StaleFailsDoes DEF IInv
  <2>3. \A v \in Worker : /\ workers'[v].phase = workers[v].phase /\ workers'[v].build = workers[v].build
                          /\ workers'[v].loading = workers[v].loading /\ workers'[v].renders = workers[v].renders
    BY <2>1 DEF Changes
  <2>4. Postings' /\ RendersPlaced'
    BY <1>0, <2>2, <2>3 DEF Placed, Postings, RendersPlaced, Phase, Gone, Up
  <2>5. ReloadPlaced' /\ NoReloadYet'
    BY <1>0, <2>2, <2>3 DEF Placed, ReloadPlaced, NoReloadYet, Phase, Up
  <2>6. BundlesPlaced'
    BY <1>0, <2>2, <2>3 DEF Placed, BundlesPlaced, Phase, Missed
  <2> QED  BY <2>4, <2>5, <2>6 DEF Placed
<1>6. CASE Exit(w)
  <2>1. PICK e : Changes(w, e) /\ e.phase = "dead"
    BY <1>6, ExitDoes DEF IInv
  <2>2. /\ exits' = exits \union {w}
        /\ UNCHANGED <<unread, proc, rolling, status, timer, killed, renderVars, latest, reload, history>>
    BY <1>6, ExitDoes DEF IInv
  <2>3. CASE w # proc
    <3>1. UNCHANGED <<unread, proc, rolling, status, timer, killed, queued, pending, latest, reload, history>>
      BY <2>2
    <3> QED  BY <2>1, <2>2, <2>3, <3>1, AnotherGoesOn
  <2>4. CASE w = proc
    <3>1. workers'[proc] = e /\ \A v \in Worker \ {proc} : workers'[v] = workers[v]
      BY <1>0, <2>1, <2>4 DEF Changes
    <3>2. Postings'
      BY <1>0, <2>1, <2>2, <2>4, <3>1 DEF Placed, Postings, Phase, Gone
    <3>3. RendersPlaced' /\ ReloadPlaced' /\ NoReloadYet' /\ BundlesPlaced'
      BY <1>0, <2>1, <2>2, <2>4, <3>1 DEF RendersPlaced, ReloadPlaced, NoReloadYet, BundlesPlaced, Phase, Gone, Up
    <3> QED  BY <3>2, <3>3 DEF Placed
  <2> QED  BY <2>3, <2>4
<1> QED  BY <1>1, <1>2, <1>3, <1>4, <1>5, <1>6

\* The current worker's ready is read: the renders that waited are sent, and it
\* serves what it imported.
LEMMA ReadyPlaced ==
  ASSUME IInv, Placed, NEW w \in Worker, Ready(w)
  PROVE  Placed'
<1>0. /\ exits \subseteq Worker /\ unread \subseteq Worker /\ proc \in Worker
      /\ latest \in Nat \ {0} /\ w \in unread /\ unread' = unread \ {w}
      /\ UNCHANGED <<exits, proc, timer, killed, latest, reload, history>>
  BY Known DEF IInv, HostTypes, Ready
<1> USE DEF history
<1>1. CASE w # proc
  <2>1. UNCHANGED <<workers, status, rolling, pending, queued>>
    BY <1>1 DEF Ready
  <2>2. (proc \in unread') = (proc \in unread)
    BY <1>0, <1>1
  <2>3. Postings'
    BY <1>0, <2>1, <2>2 DEF Placed, Postings, Phase, Gone
  <2>4. RendersPlaced' /\ ReloadPlaced' /\ NoReloadYet' /\ BundlesPlaced'
    BY <1>0, <2>1, <2>2
       DEF Placed, RendersPlaced, ReloadPlaced, NoReloadYet, BundlesPlaced, Phase, Gone, Up, Missed
  <2> QED  BY <2>3, <2>4 DEF Placed
<1>2. CASE w = proc
  <2>1. /\ status' = "ready" /\ rolling' = 0 /\ queued' = {}
        /\ pending' = IF Gone THEN pending \ queued ELSE pending
    BY <1>2 DEF Ready
  <2>2. /\ \A v \in Worker :
              /\ v = rolling => workers'[v].phase \in {"dying", "dead"}
              /\ v # rolling => workers'[v].phase = workers[v].phase
              /\ workers[v].phase \in {"dying", "dead"} => workers'[v].phase \in {"dying", "dead"}
              /\ (workers'[v].phase = "dead") = (workers[v].phase = "dead")
        /\ proc # rolling => /\ workers'[proc].build = workers[proc].build
                             /\ workers'[proc].loading = workers[proc].loading
                             /\ ~Gone => /\ workers[proc].renders \subseteq workers'[proc].renders
                                         /\ queued \intersect pending \subseteq workers'[proc].renders
    BY <1>2, ReadyDoes DEF IInv
  <2>3. proc # rolling /\ Phase \in {"ready", "dying", "dead"} /\ proc \notin unread'
    BY <1>0, <1>2 DEF Placed, Postings, Phase
  <2>4. Phase' = Phase /\ Gone' = Gone /\ Up(proc)' = Up(proc)
    BY <1>0, <2>2, <2>3 DEF Phase, Gone, Up
  <2>5. Postings'
    <3>1. (\A v \in exits : workers[v].phase = "dead")'
      BY <1>0, <2>2 DEF Placed, Postings
    <3>2. (\A v \in unread : workers[v].phase \in {"ready", "dying", "dead"})'
      BY <1>0, <2>2 DEF Placed, Postings
    <3> QED  BY <1>0, <2>1, <2>3, <2>4, <3>1, <3>2 DEF Placed, Postings
  <2>6. RendersPlaced'
    <3> SUFFICES ASSUME NEW q \in pending', q \notin strayed.renders
                 PROVE  (Up(proc) => q \in workers'[proc].renders) /\ (Gone => killed)
      BY <1>0, <2>4 DEF RendersPlaced, Up, Gone
    <3>1. q \in queued \/ ((Up(proc) => q \in workers[proc].renders) /\ (Gone => killed))
      BY <2>1 DEF Placed, RendersPlaced
    <3>2. CASE Gone
      BY <2>1, <3>1, <3>2 DEF Gone, Up
    <3>3. CASE ~Gone
      BY <2>1, <2>2, <2>3, <3>1, <3>3
    <3> QED  BY <3>2, <3>3
  <2>7. ReloadPlaced' /\ NoReloadYet'
    BY <1>0, <2>2, <2>3, <2>4 DEF Placed, ReloadPlaced, NoReloadYet
  <2>8. BundlesPlaced'
    <3>1. CASE Phase # "ready"
      BY <2>3, <2>4, <3>1 DEF BundlesPlaced
    <3>2. CASE Phase = "ready"
      <4>1. /\ workers[proc].loading = NoImport /\ NoImport.bundle = 0
            /\ latest \in {workers[proc].build, workers[proc].loading.bundle} \union Bad \/ Missed
            /\ workers[proc].build > 0
        BY <1>0, <1>2, <3>2 DEF Placed, BundlesPlaced, NoImport
      <4> QED  BY <1>0, <2>2, <2>3, <2>4, <3>2, <4>1 DEF BundlesPlaced, Missed
    <3> QED  BY <3>1, <3>2
  <2> QED  BY <2>5, <2>6, <2>7, <2>8 DEF Placed
<1> QED  BY <1>1, <1>2

\* What waits for a worker that exited fails.
LEMMA HandleExitPlaced ==
  ASSUME IInv, Placed, NEW w \in Worker, HandleExit(w)
  PROVE  Placed'
<1>0. /\ UNCHANGED <<workers, unread, proc, rolling, killed, fresh, latest, history>>
      /\ exits' = exits \ {w} /\ w \in exits
  BY DEF HandleExit
<1> USE DEF history
<1>1. CASE w # proc
  <2>1. UNCHANGED <<pending, queued, reload, status, timer>> /\ (proc \in exits') = (proc \in exits)
    BY <1>0, <1>1 DEF HandleExit
  <2>2. Postings'
    BY <1>0, <2>1 DEF Placed, Postings, Phase, Gone
  <2>3. RendersPlaced' /\ ReloadPlaced' /\ NoReloadYet' /\ BundlesPlaced'
    BY <1>0, <2>1
       DEF Placed, RendersPlaced, ReloadPlaced, NoReloadYet, BundlesPlaced, Phase, Gone, Up, Missed
  <2> QED  BY <2>2, <2>3 DEF Placed
<1>2. CASE w = proc
  <2>1. timer' = [timer EXCEPT !.restart = IF killed THEN @ ELSE @ + 1] /\ timer \in [restart : Nat, recycle : BOOLEAN]
    BY <1>2 DEF HandleExit, IInv, HostTypes
  <2>2. timer'.restart > 0 \/ killed
    BY <2>1
  <2>3. workers[proc].phase = "dead"
    BY <1>0, <1>2 DEF Placed, Postings
  <2>4. pending' = {} /\ reload' = None /\ status' = IF killed THEN "stopped" ELSE "restarting"
    BY <1>2 DEF HandleExit
  <2>5. Postings'
    <3>1. (\A v \in exits : workers[v].phase = "dead")' /\ (\A v \in unread : workers[v].phase \in {"ready", "dying", "dead"})'
      BY <1>0 DEF Placed, Postings
    <3>2. (status = "ready" \/ rolling = proc =>
             proc \notin unread /\ Phase \notin {"booting", "loading", "failed"})'
      BY <1>0, <2>4 DEF Placed, Postings, Phase
    <3>3. (strayed.workers \subseteq 1..proc - 1)'
      BY <1>0 DEF Placed, Postings
    <3> QED  BY <1>0, <2>2, <2>3, <2>4, <3>1, <3>2, <3>3 DEF Postings, Phase, Gone
  <2>6. RendersPlaced' /\ ReloadPlaced' /\ NoReloadYet' /\ BundlesPlaced'
    BY <1>0, <2>3, <2>4 DEF RendersPlaced, ReloadPlaced, NoReloadYet, BundlesPlaced, Phase
  <2> QED  BY <2>5, <2>6 DEF Placed
<1> QED  BY <1>1, <1>2

\* A new worker has nothing to do, and nobody waits that is not queued.
LEMMA SpawnPlaced ==
  ASSUME IInv, Placed,
         workers' = Append(workers, Spawned), proc' = Len(workers) + 1,
         status' = "starting", rolling' \in 0..Len(workers),
         pending \subseteq queued \union strayed'.renders,
         strayed'.workers \subseteq strayed.workers \union {proc},
         UNCHANGED <<exits, unread, killed, pending, queued, reload>>
  PROVE  Placed'
<1>1. /\ Worker = 1..Len(workers) /\ Len(workers) \in Nat /\ exits \subseteq Worker /\ unread \subseteq Worker
      /\ latest \in Nat /\ reload.worker \in 0..proc /\ proc = Len(workers)
  BY Known DEF IInv, HostTypes
<1>2. workers'[proc'] = Spawned /\ \A v \in Worker : workers'[v] = workers[v]
  BY <1>1, OneMore DEF IInv
<1>3. Spawned.phase = "booting"
  BY DEF Spawned
<1>4. reload'.worker # proc' /\ rolling' # proc' /\ proc' \notin unread'
  BY <1>1
<1>5. strayed'.workers \subseteq 1..proc' - 1
  <2>1. proc \in 1..proc' - 1 /\ 1..proc - 1 \subseteq 1..proc' - 1
    BY <1>1, Known DEF IInv, HostTypes, Worker
  <2>2. strayed.workers \subseteq 1..proc - 1
    BY DEF Placed, Postings
  <2> QED  BY <2>1, <2>2
<1>6. Postings'
  BY <1>1, <1>2, <1>3, <1>4, <1>5 DEF Placed, Postings, Phase, Gone
<1>7. RendersPlaced' /\ ReloadPlaced' /\ NoReloadYet' /\ BundlesPlaced'
  BY <1>2, <1>3, <1>4 DEF RendersPlaced, ReloadPlaced, NoReloadYet, BundlesPlaced, Phase
<1> QED  BY <1>6, <1>7 DEF Placed

\* A rolling recycle begins when nobody waits; if its spawn fails, the worker is
\* left where it was.
LEMMA RollPlaced ==
  ASSUME IInv, Placed, Idle, NEW counted, RollingRecycle(counted), latest' \in Nat,
         timer'.restart = timer.restart,
         UNCHANGED <<exits, unread, killed, renderVars, reload, history>>
  PROVE  Placed'
<1>0. /\ status = "ready" /\ pending = {} /\ rolling' = proc /\ status' = "starting"
      /\ pending' = {} /\ queued' = queued /\ strayed' = strayed /\ missed' = missed
      /\ proc = Len(workers) /\ proc \in Nat
  BY Known DEF Idle, RollingRecycle, renderVars, history, IInv, HostTypes
<1>1. CASE workers' = Append(workers, Spawned) /\ proc' = Len(workers) + 1
  BY <1>0, <1>1, SpawnPlaced
<1>2. CASE UNCHANGED <<workers, proc>>
  <2>1. Postings'
    BY <1>0, <1>2 DEF Placed, Postings, Phase, Gone
  <2>2. RendersPlaced' /\ ReloadPlaced' /\ NoReloadYet'
    BY <1>0, <1>2 DEF Placed, RendersPlaced, ReloadPlaced, NoReloadYet, Phase, Up
  <2>3. proc \notin unread /\ Phase # "loading"
    BY <1>0 DEF Placed, Postings
  <2>4. BundlesPlaced'
    BY <1>0, <1>2, <2>3 DEF Placed, BundlesPlaced, Phase
  <2> QED  BY <2>1, <2>2, <2>4 DEF Placed
<1> QED  BY <1>1, <1>2 DEF RollingRecycle

LEMMA RecyclePlaced ==
  ASSUME IInv, Placed, Metrics \/ RecycleTimer
  PROVE  Placed'
<1>0. latest' \in Nat
  BY Known DEF IInv, Metrics, RecycleTimer
<1>1. CASE Metrics
  BY <1>0, <1>1, RollPlaced DEF Metrics
<1>2. CASE RecycleTimer
  <2>1. timer' = [timer EXCEPT !.recycle = status = "ready" /\ pending # {}]
    BY <1>2 DEF RecycleTimer
  <2>2. timer'.restart = timer.restart
    BY <2>1 DEF IInv, HostTypes
  <2>3. UNCHANGED <<exits, unread, killed, renderVars, latest, reload, history>>
    BY <1>2 DEF RecycleTimer
  <2>4. CASE Idle
    <3>1. RollingRecycle(faults)
      BY <1>2, <2>4 DEF RecycleTimer
    <3> QED  BY <1>0, <2>2, <2>3, <2>4, <3>1, RollPlaced
  <2>5. CASE ~Idle
    <3>1. UNCHANGED <<workers, proc, rolling, status>>
      BY <1>2, <2>5 DEF RecycleTimer
    <3>2. Postings'
      BY <2>2, <2>3, <3>1 DEF Placed, Postings, Phase, Gone, history
    <3>3. RendersPlaced' /\ ReloadPlaced' /\ NoReloadYet' /\ BundlesPlaced'
      BY <2>3, <3>1 DEF Placed, RendersPlaced, ReloadPlaced, NoReloadYet, BundlesPlaced, Phase, Gone, Up, Missed,
                        history, renderVars
    <3> QED  BY <3>2, <3>3 DEF Placed
  <2> QED  BY <2>4, <2>5
<1> QED  BY <1>1, <1>2

\* A restart timer fires: what waits for a worker that was there is noted.
LEMMA RestartPlaced == ASSUME IInv, Placed, RestartTimer PROVE Placed'
<1>0. /\ timer.restart > 0 /\ ~killed /\ proc = Len(workers) /\ rolling' = rolling /\ rolling \in 0..Len(workers)
      /\ UNCHANGED <<exits, unread, killed, fresh, pending, queued, latest, reload, missed>>
  BY DEF RestartTimer, IInv, HostTypes, renderVars
<1>1. CASE /\ workers' = Append(workers, Spawned) /\ proc' = Len(workers) + 1 /\ status' = "starting"
           /\ strayed' = IF Gone THEN strayed
                         ELSE [workers |-> strayed.workers \union {proc},
                               renders |-> strayed.renders \union (pending \ queued)]
  <2>1. strayed'.workers \subseteq strayed.workers \union {proc}
    BY <1>1
  <2>2. pending \subseteq queued \union strayed'.renders
    <3>1. CASE Gone
      BY <1>0, <1>1, <3>1 DEF Placed, RendersPlaced
    <3>2. CASE ~Gone
      BY <1>1, <3>2
    <3> QED  BY <3>1, <3>2
  <2> QED  BY <1>0, <1>1, <2>1, <2>2, SpawnPlaced
<1>2. CASE status' = "restarting" /\ UNCHANGED <<timer, workers, proc, strayed>>
  <2>1. Postings'
    BY <1>0, <1>2 DEF Placed, Postings, Phase, Gone
  <2>2. RendersPlaced' /\ ReloadPlaced' /\ NoReloadYet' /\ BundlesPlaced'
    BY <1>0, <1>2 DEF Placed, RendersPlaced, ReloadPlaced, NoReloadYet, BundlesPlaced, Phase, Gone, Up, Missed
  <2> QED  BY <2>1, <2>2 DEF Placed
<1> QED  BY <1>1, <1>2 DEF RestartTimer

\* A reload is told to a worker that is ready; what starts is either not told yet
\* or has it noted as missed.
LEMMA ReloadKept ==
  ASSUME IInv, Placed, NEW full \in BOOLEAN, NEW rebundled \in BOOLEAN, Reload(full, rebundled)
  PROVE  Placed'
<1>0. /\ proc \in Worker /\ exits \subseteq Worker /\ unread \subseteq Worker
      /\ latest \in Nat \ {0} /\ workers[proc] \in WorkerRecord(latest)
      /\ status \in {"starting", "ready", "restarting", "stopped"}
  BY Known DEF IInv, HostTypes
<1>1. /\ UNCHANGED <<exits, unread, killed, fresh, pending, queued, strayed>>
      /\ latest' = IF rebundled THEN latest + 1 ELSE latest
      /\ latest' \in Nat /\ latest' \in {latest, latest + 1}
      /\ Message(rebundled) \in Load(latest')
      /\ Message(rebundled).build = latest'
      /\ Message(rebundled).bundle = IF rebundled THEN latest' ELSE workers[proc].build
  BY <1>0, RequestDoes DEF Reload, IInv, renderVars
<1>2. CASE status # "ready" /\ NotTold(rebundled) /\ UNCHANGED <<workers, proc, rolling, status, timer, reload>>
  <2>1. Postings' /\ RendersPlaced' /\ ReloadPlaced' /\ NoReloadYet'
    BY <1>1, <1>2 DEF Placed, Postings, RendersPlaced, ReloadPlaced, NoReloadYet, Phase, Gone, Up
  <2>2. CASE rebundled /\ (Phase = "loading" \/ proc \in unread)
    <3>1. Missed'
      BY <1>2, <2>2 DEF NotTold, Missed, Phase
    <3>2. BundlesPlaced'
      BY <1>1, <1>2, <3>1 DEF Placed, BundlesPlaced, Phase
    <3> QED  BY <2>1, <3>2 DEF Placed
  <2>3. CASE ~rebundled
    <3>1. missed' = missed /\ latest' = latest
      BY <1>1, <1>2, <2>3 DEF NotTold
    <3>2. BundlesPlaced'
      BY <1>1, <1>2, <3>1 DEF Placed, BundlesPlaced, Phase, Missed
    <3> QED  BY <2>1, <3>2 DEF Placed
  <2>4. CASE rebundled /\ Phase # "loading" /\ proc \notin unread
    <3>1. BundlesPlaced'
      BY <1>1, <1>2, <2>4 DEF Placed, BundlesPlaced, Phase
    <3> QED  BY <2>1, <3>1 DEF Placed
  <2> QED  BY <2>2, <2>3, <2>4
<1>3. CASE full /\ Idle /\ RollingRecycle(Counted(rebundled)) /\ UNCHANGED <<timer, reload, missed>>
  <2>1. UNCHANGED <<exits, unread, killed, renderVars, reload, history>> /\ timer'.restart = timer.restart
    BY <1>1, <1>3 DEF renderVars, history
  <2> QED  BY <1>1, <1>3, <2>1, RollPlaced
<1>4. CASE /\ status = "ready" /\ ~(full /\ Idle)
           /\ timer' = [timer EXCEPT !.recycle = (full /\ ~killed) \/ @]
           /\ SendReload(Message(rebundled))
           /\ UNCHANGED <<proc, rolling, status>>
  <2>1. timer'.restart = timer.restart
    BY <1>4 DEF IInv, HostTypes
  <2>2. PICK e : /\ Changes(proc, e) /\ e.phase = workers[proc].phase
                 /\ e.build = workers[proc].build /\ e.renders = workers[proc].renders
                 /\ Up(proc) => e.loading = Message(rebundled)
    BY <1>1, <1>4, SendDoes DEF IInv
  <2>3. /\ \A v \in Worker : workers'[v].phase = workers[v].phase
        /\ workers'[proc].renders = workers[proc].renders /\ workers'[proc].build = workers[proc].build
        /\ Up(proc) => workers'[proc].loading = Message(rebundled)
    BY <1>0, <2>2 DEF Changes
  <2>4. Phase' = Phase /\ Up(proc)' = Up(proc) /\ Gone' = Gone
    BY <1>0, <1>1, <1>4, <2>3 DEF Phase, Up, Gone
  <2>5. proc \notin unread /\ Phase \notin {"booting", "loading", "failed"}
    BY <1>4 DEF Placed, Postings
  <2>6. Postings' /\ NoReloadYet'
    BY <1>0, <1>1, <1>4, <2>1, <2>3, <2>4, <2>5 DEF Placed, Postings, NoReloadYet, Phase
  <2>7. RendersPlaced'
    BY <1>0, <1>1, <1>4, <2>3, <2>4 DEF Placed, RendersPlaced
  <2>8. ReloadPlaced'
    <3>1. Up(proc) => reload'.build = latest' /\ workers'[proc].loading.build = latest'
      BY <1>1, <1>4, <2>3 DEF SendReload, Gone, Up
    <3>2. CASE Up(proc)
      BY <1>4, <2>4, <3>1, <3>2 DEF ReloadPlaced, Up
    <3>3. CASE ~Up(proc)
      BY <2>4, <3>3 DEF ReloadPlaced, Up
    <3> QED  BY <3>2, <3>3
  <2>9. BundlesPlaced'
    <3>1. CASE Phase # "ready"
      BY <2>4, <2>5, <3>1 DEF BundlesPlaced
    <3>2. CASE Phase = "ready"
      <4>1. /\ Up(proc) /\ workers[proc].build > 0
            /\ latest \in {workers[proc].build, workers[proc].loading.bundle} \union Bad \/ Missed
            /\ workers[proc].loading.bundle \in {0, workers[proc].build, latest}
        BY <1>4, <3>2 DEF Placed, BundlesPlaced, Phase, Up
      <4>2. /\ workers'[proc].loading = Message(rebundled) /\ workers'[proc].build = workers[proc].build
            /\ Message(rebundled).bundle > 0
            /\ Message(rebundled).bundle \in {0, workers[proc].build, latest'}
        BY <1>0, <1>1, <2>3, <4>1
      <4>3. latest' \in {workers'[proc].build, workers'[proc].loading.bundle} \union Bad \/ Missed'
        <5>1. CASE rebundled
          BY <1>1, <4>2, <5>1
        <5>2. CASE ~rebundled
          <6>1. Import(Message(rebundled)) /\ latest' = latest /\ Message(rebundled).bundle = workers[proc].build
            BY <1>1, <1>4, <4>1, <5>2 DEF SendReload
          <6>2. missed' = IF workers[proc].loading.bundle \notin {0, workers[proc].build}
                          THEN [build |-> workers[proc].loading.bundle, worker |-> proc] ELSE missed
            BY <6>1 DEF Import
          <6> QED  BY <1>0, <1>4, <4>1, <4>2, <6>1, <6>2 DEF Missed
        <5> QED  BY <5>1, <5>2
      <4> QED  BY <1>1, <1>4, <2>4, <2>5, <3>2, <4>1, <4>2, <4>3 DEF BundlesPlaced
    <3> QED  BY <3>1, <3>2
  <2> QED  BY <2>6, <2>7, <2>8, <2>9 DEF Placed
<1> QED  BY <1>2, <1>3, <1>4 DEF Reload

\* Workers that are told to end are ones that did not exit.
LEMMA KillPlaced == ASSUME IInv, Placed, Kill PROVE Placed'
<1>1. /\ killed' = TRUE /\ status' = "stopped" /\ workers' = Told(workers, {proc, rolling}) /\ rolling' = 0
      /\ UNCHANGED <<exits, unread, proc, pending, queued, latest, reload, history>>
  BY DEF Kill, renderVars
<1>2. proc \in Worker /\ exits \subseteq Worker /\ unread \subseteq Worker /\ latest \in Nat /\ proc > 0
  BY Known DEF IInv, HostTypes
<1>3. /\ \A v \in Worker :
           /\ workers[v].phase = "dead" => workers'[v].phase = "dead"
           /\ workers[v].phase \in {"ready", "dying", "dead"} => workers'[v].phase \in {"ready", "dying", "dead"}
      /\ workers'[proc].phase \in {"dying", "dead"}
  <2>1. workers \in Seq(WorkerRecord(latest)) /\ DOMAIN workers = Worker
    BY DEF IInv, Spawnings, Worker
  <2> HIDE DEF WorkerRecord
  <2> QED  BY <1>1, <1>2, <2>1, SomeTold
<1>4. Postings'
  <2>1. (\A v \in exits : workers[v].phase = "dead")'
    BY <1>1, <1>2, <1>3 DEF Placed, Postings
  <2>2. (\A v \in unread : workers[v].phase \in {"ready", "dying", "dead"})'
    BY <1>1, <1>2, <1>3 DEF Placed, Postings
  <2>3. ~(status = "ready" \/ rolling = proc)'
    BY <1>1, <1>2
  <2>4. (strayed.workers \subseteq 1..proc - 1)'
    BY <1>1 DEF Placed, Postings, history
  <2>5. (Phase # "ready")'
    BY <1>1, <1>3 DEF Phase, history
  <2> QED  BY <1>1, <2>1, <2>2, <2>3, <2>4, <2>5 DEF Postings
<1>5. RendersPlaced' /\ ReloadPlaced' /\ NoReloadYet' /\ BundlesPlaced'
  BY <1>1, <1>3 DEF RendersPlaced, ReloadPlaced, NoReloadYet, BundlesPlaced, Phase, Up
<1> QED  BY <1>4, <1>5 DEF Placed

LEMMA NextPlaced == IInv /\ Placed /\ [Next]_vars => Placed'
<1> SUFFICES ASSUME IInv, Placed, [Next]_vars PROVE Placed'
  OBVIOUS
<1>1. ASSUME NEW r \in Render, Ask(r) \/ Cancel(r) \/ \E w \in Worker : Answer(w, r) PROVE Placed'
  BY <1>1, RenderPlaced
<1>2. ASSUME NEW w \in Worker,
             Hello(w) \/ Imported(w) \/ InitFails(w) \/ Reloaded(w) \/ StaleFails(w) \/ Exit(w)
      PROVE  Placed'
  BY <1>2, WorkerPlaced
<1>3. ASSUME NEW w \in Worker, Ready(w) \/ HandleExit(w) PROVE Placed'
  BY <1>3, ReadyPlaced, HandleExitPlaced
<1>4. ASSUME NEW full \in BOOLEAN, NEW rebundled \in BOOLEAN, Reload(full, rebundled) PROVE Placed'
  BY <1>4, ReloadKept
<1>5. CASE Metrics \/ RecycleTimer \/ RestartTimer \/ Kill
  BY <1>5, RecyclePlaced, RestartPlaced, KillPlaced
<1>6. CASE UNCHANGED vars
  <2>1. Postings' /\ RendersPlaced'
    BY <1>6 DEF vars, renderVars, history, Placed, Postings, RendersPlaced, Phase, Gone, Up
  <2>2. ReloadPlaced' /\ NoReloadYet' /\ BundlesPlaced'
    BY <1>6 DEF vars, renderVars, history, Placed, ReloadPlaced, NoReloadYet, BundlesPlaced, Phase, Up, Missed
  <2> QED  BY <2>1, <2>2 DEF Placed
<1> QED  BY <1>1, <1>2, <1>3, <1>4, <1>5, <1>6 DEF Next

-----------------------------------------------------------------------------
(* The theorems *)

\* The host and its workers stay as IInv says, whatever crashes, is recycled,
\* reloaded or killed.
THEOREM HostInvariant == Spec => []IInv
BY InitInv, NextInv, PTL DEF Spec

\* The variables of RscWorker keep the values the code gives them; in particular
\* no restart timer is left when kill() has come.
THEOREM TypeCorrect == Spec => []TypeOK
<1>1. IInv => TypeOK
  BY TypesFollow DEF IInv
<1> QED  BY <1>1, HostInvariant, PTL

\* No worker process is forgotten: what is up is the current worker or the one
\* a rolling recycle keeps, and nothing is up after kill(), but for the workers
\* that a restart timer, set by the exit of an earlier one, found current and
\* replaced.
THEOREM NoStrayCorrect == Spec => []NoStrayWorker
<1>1. IInv => NoStrayWorker
  BY DEF IInv
<1> QED  BY <1>1, HostInvariant, PTL

\* The host's status, what waits and what is served agree with what the current
\* worker does, whatever was asked, reloaded, recycled or lost: reloads that carry
\* no bundle, readies read after an exit and spawns that fail included.
THEOREM HostPlaces == Spec => [](IInv /\ Placed)
<1>1. Init => IInv /\ Placed
  BY InitInv, InitPlaced
<1>2. IInv /\ Placed /\ [Next]_vars => IInv' /\ Placed'
  BY NextInv, NextPlaced
<1> QED  BY <1>1, <1>2, PTL DEF Spec

\* A worker that serves has the latest pages bundle or imports it, but for one
\* that cannot be imported and for the one this worker missed, because its reload
\* came while hello's bundle was imported or was superseded by a reload without one.
THEOREM ServesCorrect == Spec => []ServesLatest
<1>1. IInv /\ Placed => ServesLatest
  BY PlacedServes
<1> QED  BY <1>1, HostPlaces, PTL

\* Every render and every reload that waits is owed an answer by the worker, by
\* the one that comes or by the exit to be handled, but for the cases that the
\* property names.
THEOREM WaitsCorrect == Spec => []EveryWaitIsOwed
<1>1. IInv /\ Placed => EveryWaitIsOwed
  BY PlacedOwes
<1> QED  BY <1>1, HostPlaces, PTL

=============================================================================
