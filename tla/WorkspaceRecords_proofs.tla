----------------------- MODULE WorkspaceRecords_proofs -----------------------
(***************************************************************************)
(* What a workspace keeps of its work: the process registry                *)
(* (process_registry.py) for any number of restarts and of questions to    *)
(* the workers, the turns of connected models (model_execution.py) for any *)
(* set of endpoints and of turns, the plan and its deltas                  *)
(* (plan_delta_governance.py) for any set of sources, the outputs and the  *)
(* acceptances in the folder of a brain (selected_brain_state.py,          *)
(* review_qualification.py) for any set of texts and of continuations.     *)
(*                                                                         *)
(* A worker enters itself in three steps, and any worker may write back a  *)
(* table that it read before.  The one that was entered stays, because     *)
(* nobody is then between reading and writing a table without it: a sample *)
(* holds the entries it will write back, and of two workers that enter     *)
(* themselves at the same time both count as overlapped.                   *)
(* A turn writes a record at each of its steps, so that the step it is at  *)
(* tells which records there are, and a step that fails which are missing. *)
(* A command on the plan writes a delta, the prompt, its file and the      *)
(* pointer one after the other; the invariant says which of them are there.*)
(* An output is written as a file, a receipt and a row, and all three are  *)
(* copied with the folder: the invariant says it of every folder there is, *)
(* and of what a command has done so far.                                  *)
(* What the desktop is shown of it is at the end: the progress of a build  *)
(* (pipeline_state.py), the brains of the catalog (brain_delete.py) and    *)
(* the graphs (telemetry_overlay.py).  A reader or a query takes its time  *)
(* while others write; the invariants say of what it holds how old it may  *)
(* be.                                                                     *)
(***************************************************************************)
EXTENDS ProcessRegistry, ModelExecution, PlanDeltas, SessionEvidence, PipelineProgress,
        BrainCatalog, TelemetryViews,
        FiniteSetTheorems, SequenceTheorems, WellFoundedInduction, TLAPS

-----------------------------------------------------------------------------
(* The table of processes.                                                *)

\* There are finitely many workers, so that those that ended are counted.
LEMMA WorkersFinite == IsFiniteSet(Workers)
<1> DEFINE Rest == {"command", "metrics"} \X (1..(MaxEnds + 1))
           S == Apps \X Rest
           f == [x \in S |-> [app |-> x[1], kind |-> x[2][1], number |-> x[2][2]]]
<1>1. MaxEnds + 1 \in Int /\ 1 \in Int
  BY RegistryAssumption
<1>2. IsFiniteSet(Apps) /\ IsFiniteSet(1..(MaxEnds + 1))
  BY <1>1, FS_Interval DEF Apps
<1>3. IsFiniteSet({"command", "metrics"})
  <2>1. {"command", "metrics"} = {"command"} \cup {"metrics"}
    OBVIOUS
  <2>2. IsFiniteSet({"command"}) /\ IsFiniteSet({"metrics"})
    BY FS_Singleton
  <2> QED
    BY <2>1, <2>2, FS_Union
<1>4. IsFiniteSet(S)
  BY <1>2, <1>3, FS_Product
<1>5. f \in Surjection(S, Workers)
  <2>1. \A x \in S : f[x] \in Workers
    BY DEF Workers
  <2>2. ASSUME NEW w \in Workers PROVE \E x \in S : f[x] = w
    <3>1. <<w.app, <<w.kind, w.number>>>> \in S
      BY DEF Workers
    <3>2. f[<<w.app, <<w.kind, w.number>>>>] = w
      BY <3>1 DEF Workers
    <3> QED
      BY <3>1, <3>2
  <2> QED
    BY <2>1, <2>2 DEF Surjection
<1> HIDE DEF f, S
<1> QED
  BY <1>4, <1>5, FS_Surjection

LEMMA EndsTyped == ASSUME app \in Apps PROVE Ends < MaxEnds => app + 1 \in Apps
<1> DEFINE Again == {w \in Workers : w.number > 1 /\ ~WorkerIs(w, "unborn")}
<1>1. Again \in SUBSET Workers
  OBVIOUS
<1>2. Cardinality(Again) \in Nat
  BY <1>1, WorkersFinite, FS_Subset, FS_CardinalityType
<1> HIDE DEF Again
<1> QED
  BY <1>2, RegistryAssumption DEF Ends, Apps, Again

-----------------------------------------------------------------------------
(* What the operators on the entries keep.                                 *)

EntryLists == SUBSET [process : Processes, role : Roles]

LEMMA ProcessesTyped ==
    /\ \A w \in Workers : w \in Processes /\ w.app \in Apps /\ w.number \in 1..(MaxEnds + 1)
    /\ \A a \in Apps : /\ AppProcess(a) \in Processes /\ AppProcess(a).app = a
                       /\ AppProcess(a).kind = "app"
    /\ \A p \in Processes : p.app \in Apps
BY DEF Workers, Processes, AppProcess

LEMMA TablesTyped ==
    ASSUME RegistryTypeOK
    PROVE  /\ Loaded \in Table /\ Loaded.records = table.records
           /\ NoTable.records = {} /\ NewTable \in Table /\ NoTable \notin Table
           /\ NoProcess \notin Workers
<1>1. NewTable \in Table /\ NewTable.records = {}
  BY DEF NewTable, Table
<1>2. NoTable.records = {} /\ NoTable.tauri = MaxEnds + 2
  BY DEF NewTable, NoTable
<1>3. NoTable \notin Table
  BY <1>2, RegistryAssumption DEF Table, Apps
<1>4. NoProcess \notin Workers
  BY DEF NoProcess, Workers
<1> QED
  BY <1>1, <1>2, <1>3, <1>4 DEF RegistryTypeOK, Loaded

LEMMA UpsertTyped ==
    ASSUME NEW records \in EntryLists, NEW p \in Processes, NEW role \in Roles
    PROVE  /\ Upsert(records, p, role) \in EntryLists
           /\ [process |-> p, role |-> role] \in Upsert(records, p, role)
           /\ \A r \in Upsert(records, p, role) :
                  r \in records \/ (r.process = p /\ r.role = role)
           /\ \A r \in records : r.process # p => r \in Upsert(records, p, role)
BY DEF Upsert, EntryLists

LEMMA SnapshotTyped ==
    ASSUME RegistryTypeOK, NEW records \in EntryLists
    PROVE  /\ Pruned(records) \in EntryLists /\ Discovered(Pruned(records)) \in EntryLists
           /\ \A r \in Discovered(Pruned(records)) :
                  (r \in records /\ Alive(r.process)) \/ r.role = "CHILD"
           /\ \A r \in records : Alive(r.process) => r \in Discovered(Pruned(records))
BY ProcessesTyped DEF Pruned, Discovered, EntryLists, Roles

\* _refresh_derived_fields names processes that are entered,
LEMMA DerivedTyped ==
    ASSUME NEW t \in Table, EntriesFit(t.records)
    PROVE  /\ Derived(t) \in Table
           /\ Derived(t).records = t.records
           /\ Derived(t).context = t.context /\ Derived(t).peak = t.peak
<1> DEFINE python == Latest(t.records, "PYTHON_WORKER")
           tauri  == Latest(t.records, "TAURI_APP")
           p == IF python = {} THEN NoProcess ELSE CHOOSE q \in python : TRUE
           a == IF tauri = {} THEN 0 ELSE (CHOOSE q \in tauri : TRUE).app
<1>1. python \subseteq Workers
  BY DEF Latest, OfRole, EntriesFit
<1>2. \A q \in tauri : q.app \in Apps
  BY ProcessesTyped DEF Latest, OfRole, Table
<1>3. p \in Workers \cup {NoProcess}
  BY <1>1
<1>4. a \in Apps \cup {0}
  BY <1>2
<1>5. Derived(t) = [t EXCEPT !.python = p, !.tauri = a]
  BY DEF Derived
<1> HIDE DEF p, a
<1> QED
  BY <1>3, <1>4, <1>5 DEF Table

\* among them the worker for commands that was started last, and its app.
LEMMA DerivedNames ==
    ASSUME app \in Nat, OneAfterTheOther, NEW t \in Table, EntriesFit(t.records),
           NEW w \in Workers, w.kind = "command", w.app = app, workerAt[w] # "dead",
           Holds(t.records, w)
    PROVE  Derived(t).python = w /\ Derived(t).tauri = w.app
<1> DEFINE python == Latest(t.records, "PYTHON_WORKER")
           tauri  == Latest(t.records, "TAURI_APP")
<1>1. w.app \in Nat /\ w.number \in Nat
  BY RegistryAssumption DEF Workers, Apps
<1>2. w \in OfRole(t.records, "PYTHON_WORKER") /\ AppProcess(w.app) \in OfRole(t.records, "TAURI_APP")
  BY DEF Holds, OfRole
<1>3. \A q \in OfRole(t.records, "PYTHON_WORKER") :
          /\ q \in Workers /\ q.kind = "command" /\ q.app \in Nat /\ q.number \in Nat
          /\ q.app < w.app \/ (q.app = w.app /\ q.number <= w.number)
  BY RegistryAssumption, <1>1 DEF OfRole, EntriesFit, Workers, Apps, OneAfterTheOther
<1>4. python = {w}
  BY <1>1, <1>2, <1>3 DEF Latest, Workers
<1>5. \A q \in OfRole(t.records, "TAURI_APP") : q = AppProcess(q.app) /\ q.app <= app /\ q.app \in Nat
  BY ProcessesTyped, RegistryAssumption DEF OfRole, EntriesFit, Table, Apps
<1>6. tauri # {} /\ \A q \in tauri : q.app = w.app
  BY <1>5, <1>1, <1>2 DEF AppProcess, Latest
<1>7. /\ Derived(t).python = IF python = {} THEN NoProcess ELSE CHOOSE q \in python : TRUE
      /\ Derived(t).tauri = IF tauri = {} THEN 0 ELSE (CHOOSE q \in tauri : TRUE).app
  BY DEF Derived, Table
<1> HIDE DEF python, tauri
<1> QED
  BY <1>4, <1>6, <1>7

-----------------------------------------------------------------------------
(* The workers.                                                            *)

\* A worker that lives goes on, or ends.
WorkerGoesOn(w) ==
    /\ workerAt[w] \notin {"unborn", "dead"}
    /\ \E step \in WorkerSteps \ {"unborn"} : Moves(w, step)
    /\ app' = app

WorkersFit == OneAfterTheOther /\ KnownIsServed

LEMMA GoesOnOrdered ==
    ASSUME RegistryTypeOK, OneAfterTheOther, NEW w \in Workers, WorkerGoesOn(w)
    PROVE  /\ workerAt' \in [Workers -> WorkerSteps]
           /\ OneAfterTheOther'
           /\ \A v \in Workers : v # w => workerAt'[v] = workerAt[v]
           /\ \A v \in Workers : workerAt[v] # "unborn" => workerAt'[v] # "unborn"
<1> PICK step \in WorkerSteps \ {"unborn"} : Moves(w, step)
  BY DEF WorkerGoesOn
<1>1. workerAt' = [workerAt EXCEPT ![w] = step] /\ workerAt[w] \notin {"unborn", "dead"} /\ app' = app
  BY DEF Moves, WorkerGoesOn
<1>2. /\ workerAt' \in [Workers -> WorkerSteps] /\ workerAt'[w] = step
      /\ \A v \in Workers : v # w => workerAt'[v] = workerAt[v]
  BY <1>1 DEF RegistryTypeOK
<1> QED
  BY <1>1, <1>2 DEF OneAfterTheOther

\* Who was entered was started, and is so for good.
LEMMA EntriesStayFit ==
    ASSUME app \in Nat, app' \in Nat, app' >= app,
           \A v \in Workers : workerAt[v] # "unborn" => workerAt'[v] # "unborn"
    PROVE  \A records \in EntryLists : EntriesFit(records) => EntriesFit(records)'
  BY ProcessesTyped, RegistryAssumption DEF EntryLists, Apps, EntriesFit

\* No other worker of the app and the kind lives.
LEMMA OneLives ==
    ASSUME OneAfterTheOther, NEW v \in Workers, NEW w \in Workers, v # w,
           v.app = w.app, v.kind = w.kind,
           workerAt[v] \notin {"unborn", "dead"}, workerAt[w] \notin {"unborn", "dead"}
    PROVE  FALSE
  BY RegistryAssumption DEF Workers, Apps, OneAfterTheOther

\* A worker ends and its successor is started.
LEMMA DiesOrdered ==
    ASSUME RegistryTypeOK, WorkersFit, NEW w \in Workers, WorkerDies(w)
    PROVE  /\ workerAt' \in [Workers -> WorkerSteps] /\ WorkersFit'
           /\ \A v \in Workers : workerAt[v] # "unborn" => workerAt'[v] # "unborn"
           /\ \A v \in Workers : \/ workerAt'[v] = workerAt[v]
                                 \/ workerAt'[v] \in {"idle", "dead"} /\ ~known[v] /\ workerAt[v] = "unborn"
                                 \/ workerAt'[v] = "dead"
<1> DEFINE s == Successor(w)
<1>1. /\ workerAt[w] \notin {"unborn", "dead"} /\ app' = app /\ known' = known
      /\ workerAt' = [workerAt EXCEPT ![w] = "dead", ![s] = "idle"]
  BY DEF WorkerDies, Alive, Workers
<1>2. s.app = w.app /\ s.kind = w.kind /\ s.number = w.number + 1 /\ w.number \in Nat /\ s # w
  BY RegistryAssumption DEF Successor, Workers
<1>3. s \in Workers => workerAt[s] = "unborn" /\ ~known[s]
  BY <1>1, <1>2 DEF WorkersFit, OneAfterTheOther, KnownIsServed
<1> HIDE DEF s
<1>4. /\ workerAt' \in [Workers -> WorkerSteps]
      /\ workerAt'[w] = "dead"
      /\ s \in Workers => workerAt'[s] = "idle"
      /\ \A v \in Workers : v # w /\ v # s => workerAt'[v] = workerAt[v]
  BY <1>1, <1>2 DEF RegistryTypeOK, WorkerSteps
<1>5. OneAfterTheOther'
  <2>1. \A v \in Workers : workerAt'[v] # "unborn" => v.app <= app
    BY <1>1, <1>2, <1>4 DEF WorkersFit, OneAfterTheOther
  <2>2. ASSUME NEW v \in Workers, NEW x \in Workers,
               v.app = x.app, v.kind = x.kind, v.number < x.number, workerAt'[x] # "unborn"
        PROVE  workerAt'[v] = "dead"
    <3>0. v.number \in Nat /\ x.number \in Nat
      BY RegistryAssumption DEF Workers
    <3>1. CASE x = s
      <4>1. v = w \/ v.number < w.number
        BY <1>2, <2>2, <3>0, <3>1 DEF Workers
      <4>2. v # w => workerAt[v] = "dead" /\ v # s
        BY <1>1, <1>2, <2>2, <3>0, <3>1, <4>1 DEF WorkersFit, OneAfterTheOther
      <4> QED
        BY <1>4, <4>2
    <3>2. CASE x # s
      BY <1>1, <1>4, <2>2, <3>2, <1>3 DEF WorkersFit, OneAfterTheOther
    <3> QED
      BY <3>1, <3>2
  <2> QED
    BY <1>1, <2>1, <2>2 DEF OneAfterTheOther
<1>6. KnownIsServed'
  BY <1>1, <1>3, <1>4 DEF WorkersFit, KnownIsServed
<1> QED
  BY <1>1, <1>3, <1>4, <1>5, <1>6 DEF WorkersFit

\* The app is started again.
LEMMA RestartOrdered ==
    ASSUME RegistryTypeOK, WorkersFit, Restart
    PROVE  /\ workerAt' \in [Workers -> WorkerSteps] /\ app' \in Apps /\ app' = app + 1
           /\ WorkersFit'
           /\ \A v \in Workers : workerAt[v] # "unborn" => workerAt'[v] # "unborn"
           /\ \A v \in Workers : workerAt'[v] \in {workerAt[v], "idle", "dead"}
           /\ \A v \in Workers : v.app = app' => workerAt[v] = "unborn" /\ ~known[v]
                                                 /\ workerAt'[v] \in {"idle", "unborn"}
<1>1. app' = app + 1 /\ app' \in Apps /\ app \in Nat /\ known' = known
  BY EndsTyped, RegistryAssumption DEF Restart, RegistryTypeOK, Apps
<1>2. \A v \in Workers : /\ v.app \in Nat /\ v.number \in Nat /\ v.number >= 1
                         /\ workerAt[v] \in WorkerSteps
  <2>1. \A v \in Workers : v.app \in 1..(MaxEnds + 1) /\ v.number \in 1..(MaxEnds + 1)
    BY DEF Workers, Apps
  <2> QED
    BY <2>1, RegistryAssumption DEF RegistryTypeOK
<1>3. \A v \in Workers : v.app > app => workerAt[v] = "unborn" /\ ~known[v]
  BY <1>1, <1>2 DEF WorkersFit, OneAfterTheOther, KnownIsServed
<1>4. /\ workerAt' = [v \in Workers |->
             IF v.app = app + 1 /\ v.number = 1 THEN "idle"
             ELSE IF v.app = app /\ WorkerIs(v, "idle") THEN "dead" ELSE workerAt[v]]
  BY DEF Restart
<1>5. /\ workerAt' \in [Workers -> WorkerSteps]
      /\ \A v \in Workers :
            workerAt'[v] = IF v.app = app + 1 /\ v.number = 1 THEN "idle"
                           ELSE IF v.app = app /\ workerAt[v] = "idle" THEN "dead" ELSE workerAt[v]
  BY <1>2, <1>4 DEF WorkerIs, WorkerSteps
<1>6. OneAfterTheOther'
  BY <1>1, <1>2, <1>5 DEF WorkersFit, OneAfterTheOther
<1>7. KnownIsServed'
  BY <1>1, <1>2, <1>3, <1>5 DEF WorkersFit, KnownIsServed
<1> QED
  BY <1>1, <1>2, <1>3, <1>5, <1>6, <1>7 DEF WorkersFit

-----------------------------------------------------------------------------
(* The table.                                                              *)

TypedRegistry == RegistryTypeOK /\ RegistryInvariant

SeenLists == [Workers -> EntryLists]

LEMMA EnteredBefore ==
    ASSUME TypedRegistry, NEW v \in Workers, WorkerGoesOn(v), workerAt'[v] # "prune",
           overlapped \subseteq overlapped',
           \/ known' = known
           \/ known' = [known EXCEPT ![v] = TRUE] /\ workerAt[v] = "prune",
           NEW w \in Workers, EnteredAlone(w)'
    PROVE  EnteredAlone(w)
  BY GoesOnOrdered DEF WorkerGoesOn, TypedRegistry, RegistryInvariant, RegistryTypeOK,
     EnteredAlone

LEMMA EnteredTyped ==
    ASSUME TypedRegistry, NEW w \in Workers, EnteredAlone(w)
    PROVE  /\ workerAt[w] \notin {"unborn", "dead", "initialize", "read", "unlink"}
           /\ w.kind = "command" /\ w.app = app /\ Alive(w) /\ Alive(AppProcess(w.app))
           /\ InTheTable(w) /\ table # NoTable /\ Loaded = table
  BY TablesTyped DEF TypedRegistry, RegistryInvariant, InTheTable, Holds, EnteredAlone,
     KnownIsServed, Alive, AppProcess, Loaded

\* What has to be shown of a step in which one worker goes on.
LEMMA GoesOnKeeps ==
    ASSUME TypedRegistry, NEW v \in Workers, WorkerGoesOn(v),
           table' \in Table \cup {NoTable}, EntriesFit(table'.records),
           seen' \in SeenLists, \A w \in Workers : EntriesFit(seen'[w]),
           asked' \in 0..MaxAsked, told' \in [context : Nat, peak : Nat],
           overlapped' \subseteq Workers,
           \/ known' = known /\ (known[v] => workerAt'[v] \in {"idle", "serve", "sample", "dead"})
           \/ known' = [known EXCEPT ![v] = TRUE] /\ workerAt'[v] = "serve",
           \A w \in Workers : EnteredAlone(w)' => InTheTable(w)',
           ContextAndPeaksAreKept'
    PROVE  TypedRegistry'
<1>1. /\ workerAt' \in [Workers -> WorkerSteps] /\ OneAfterTheOther'
      /\ \A x \in Workers : x # v => workerAt'[x] = workerAt[x]
      /\ \A x \in Workers : workerAt[x] # "unborn" => workerAt'[x] # "unborn"
      /\ app' = app /\ app \in Apps /\ app \in Nat
  BY GoesOnOrdered, RegistryAssumption DEF WorkerGoesOn, TypedRegistry, RegistryInvariant, RegistryTypeOK, Apps
<1>2. /\ known' \in [Workers -> BOOLEAN]
      /\ \A x \in Workers : known'[x] =>
             \/ x # v /\ known[x]
             \/ x = v /\ workerAt'[v] \in {"idle", "serve", "sample", "dead"}
  BY DEF TypedRegistry, RegistryTypeOK
<1>3. KnownIsServed'
  BY <1>1, <1>2 DEF KnownIsServed, TypedRegistry, RegistryInvariant
<1>4. NoTable.records \in EntryLists
  BY TablesTyped DEF TypedRegistry, EntryLists
<1>5. table'.records \in EntryLists /\ \A w \in Workers : seen'[w] \in EntryLists
  BY <1>4 DEF Table, EntryLists, SeenLists
<1>6. \A records \in EntryLists : EntriesFit(records) => EntriesFit(records)'
  BY <1>1, EntriesStayFit
<1>7. EntriesFit(table.records)' /\ \A w \in Workers : EntriesFit(seen[w])'
  BY <1>5, <1>6 DEF EntriesFit
<1>8. RegistryTypeOK'
  BY <1>1, <1>2 DEF RegistryTypeOK, SeenLists, EntryLists
<1> QED
  BY <1>1, <1>3, <1>7, <1>8 DEF TypedRegistry, RegistryInvariant

\* The parts of the invariant that the steps need.
LEMMA TypedRegistryParts ==
    ASSUME TypedRegistry
    PROVE  /\ RegistryTypeOK /\ OneAfterTheOther /\ KnownIsServed /\ ContextAndPeaksAreKept
           /\ EntriesFit(table.records) /\ \A w \in Workers : EntriesFit(seen[w])
           /\ table \in Table \cup {NoTable} /\ table.records \in EntryLists
           /\ Loaded \in Table /\ Loaded.records = table.records
           /\ seen \in SeenLists /\ app \in Apps /\ app \in Nat
           /\ asked \in 0..MaxAsked /\ told \in [context : Nat, peak : Nat]
           /\ overlapped \subseteq Workers /\ known \in [Workers -> BOOLEAN]
  BY TablesTyped, RegistryAssumption DEF TypedRegistry, Table, EntryLists, RegistryTypeOK,
     Apps, RegistryInvariant, SeenLists

LEMMA AskKeeps ==
    ASSUME TypedRegistry, NEW v \in Workers, Ask(v)
    PROVE  TypedRegistry'
<1>1. /\ workerAt[v] = "idle" /\ v.app = app
      /\ \E step \in {"serve", "read"} : Moves(v, step) /\ (known[v] => step = "serve")
      /\ UNCHANGED <<table, app, known, seen, told, overlapped>>
  BY DEF Ask, WorkerIs
<1> PICK step \in {"serve", "read"} : Moves(v, step) /\ (known[v] => step = "serve")
  BY <1>1
<1>2. WorkerGoesOn(v) /\ workerAt'[v] = step
  BY <1>1, TypedRegistryParts DEF WorkerGoesOn, WorkerSteps, Moves, RegistryTypeOK
<1>3. \A x \in Workers : x # v => workerAt'[x] = workerAt[x]
  BY <1>2, GoesOnOrdered, TypedRegistryParts
<1>4. ASSUME NEW w \in Workers, EnteredAlone(w)' PROVE InTheTable(w)'
  BY <1>1, <1>2, <1>4, EnteredBefore, EnteredTyped, <1>3 DEF InTheTable, Holds
<1>5. asked' \in 0..MaxAsked
  BY TypedRegistryParts, RegistryAssumption DEF Ask
<1>6. ContextAndPeaksAreKept'
  BY <1>1, TypedRegistryParts DEF ContextAndPeaksAreKept, Loaded
<1> QED
  BY <1>1, <1>2, <1>4, <1>5, <1>6, GoesOnKeeps, TypedRegistryParts

LEMMA ReadOwnerKeeps ==
    ASSUME TypedRegistry, NEW v \in Workers, ReadOwner(v)
    PROVE  TypedRegistry'
<1>1. /\ workerAt[v] = "read"
      /\ \E step \in {"unlink", "initialize"} :
             /\ Moves(v, step)
             /\ step = "unlink" => table # NoTable /\ table.tauri \notin {0, v.app}
      /\ UNCHANGED <<table, app, known, asked, seen, told, overlapped>>
  BY DEF ReadOwner, WorkerIs
<1> PICK step \in {"unlink", "initialize"} :
             /\ Moves(v, step)
             /\ step = "unlink" => table # NoTable /\ table.tauri \notin {0, v.app}
  BY <1>1
<1>2. WorkerGoesOn(v) /\ workerAt'[v] = step
  BY <1>1, TypedRegistryParts DEF WorkerGoesOn, WorkerSteps, Moves, RegistryTypeOK
<1>3. \A x \in Workers : x # v => workerAt'[x] = workerAt[x]
  BY <1>2, GoesOnOrdered, TypedRegistryParts
<1>4. ASSUME NEW w \in Workers, EnteredAlone(w)' PROVE InTheTable(w)'
  BY <1>1, <1>2, <1>4, EnteredBefore, EnteredTyped, <1>3 DEF InTheTable, Holds
<1>5. ~known[v]
  BY <1>1, TypedRegistryParts DEF KnownIsServed
<1>6. ContextAndPeaksAreKept'
  BY <1>1, TypedRegistryParts DEF ContextAndPeaksAreKept, Loaded
<1> QED
  BY <1>1, <1>2, <1>4, <1>5, <1>6, GoesOnKeeps, TypedRegistryParts

\* A table is removed only where no worker of its app has entered itself alone.
LEMMA UnlinkKeeps ==
    ASSUME TypedRegistry, NEW v \in Workers, Unlink(v)
    PROVE  TypedRegistry'
<1>1. /\ workerAt[v] = "unlink" /\ Moves(v, "initialize") /\ table' = NoTable
      /\ told' = [context |-> 0, peak |-> 0]
      /\ UNCHANGED <<app, known, asked, seen, overlapped>>
  BY DEF Unlink, WorkerIs
<1>2. WorkerGoesOn(v) /\ workerAt'[v] = "initialize"
  BY <1>1, TypedRegistryParts DEF WorkerGoesOn, WorkerSteps, Moves, RegistryTypeOK
<1>4. ASSUME NEW w \in Workers, EnteredAlone(w)' PROVE FALSE
  <2>1. EnteredAlone(w)
    BY <1>1, <1>2, <1>4, EnteredBefore
  <2> QED
    BY <1>1, <2>1, EnteredTyped DEF InTheTable
<1>5. ~known[v]
  BY <1>1, TypedRegistryParts DEF KnownIsServed
<1>6. ContextAndPeaksAreKept'
  BY <1>1 DEF ContextAndPeaksAreKept, Loaded, NewTable
<1>7. EntriesFit(table'.records)
  BY <1>1, TypedRegistryParts, TablesTyped DEF EntriesFit
<1>8. told' \in [context : Nat, peak : Nat] /\ table' \in Table \cup {NoTable}
  BY <1>1
<1> QED
  BY <1>1, <1>2, <1>4, <1>5, <1>6, <1>7, <1>8, GoesOnKeeps, TypedRegistryParts

\* A worker enters itself; it is alone where no other one is about to write.
LEMMA InitializeKeeps ==
    ASSUME TypedRegistry, NEW v \in Workers, Initialize(v)
    PROVE  TypedRegistry'
<1> DEFINE owned == Upsert(Loaded.records, AppProcess(v.app), "TAURI_APP")
           entries == Registered(v, owned)
           t == [Loaded EXCEPT !.records = entries]
<1>1. /\ workerAt[v] = "initialize" /\ Moves(v, "prune") /\ table' = Derived(t)
      /\ overlapped' = IF Busy \ {v} # {} THEN overlapped \cup {v} ELSE overlapped
      /\ UNCHANGED <<app, known, asked, seen, told>>
  BY DEF Initialize, WorkerIs
<1>2. WorkerGoesOn(v) /\ workerAt'[v] = "prune"
  BY <1>1, TypedRegistryParts DEF WorkerGoesOn, WorkerSteps, Moves, RegistryTypeOK
<1>3. \A x \in Workers : x # v => workerAt'[x] = workerAt[x]
  BY <1>2, GoesOnOrdered, TypedRegistryParts
<1>4. ~known[v] /\ workerAt[v] # "unborn" /\ v.app <= app
  BY <1>1, TypedRegistryParts DEF KnownIsServed, OneAfterTheOther
<1>5. /\ owned \in EntryLists /\ [process |-> AppProcess(v.app), role |-> "TAURI_APP"] \in owned
      /\ \A r \in owned : r \in table.records \/ (r.process = AppProcess(v.app) /\ r.role = "TAURI_APP")
      /\ \A r \in table.records : r.process # AppProcess(v.app) => r \in owned
  <2>1. /\ AppProcess(v.app) \in Processes /\ "TAURI_APP" \in Roles
        /\ table.records \in EntryLists /\ Loaded.records = table.records
    BY ProcessesTyped, TypedRegistryParts DEF Roles
  <2>2. owned = Upsert(table.records, AppProcess(v.app), "TAURI_APP")
    BY <2>1
  <2> QED
    BY <2>1, <2>2, UpsertTyped
<1> HIDE DEF owned
<1>6. /\ entries \in EntryLists
      /\ v.kind = "command" => [process |-> v, role |-> "PYTHON_WORKER"] \in entries
      /\ \A r \in entries : r \in owned \/ (r.process = v /\ r.role = "PYTHON_WORKER" /\ v.kind = "command")
      /\ \A r \in owned : r.process # v => r \in entries
  <2>1. v \in Processes /\ "PYTHON_WORKER" \in Roles
    BY ProcessesTyped DEF Roles
  <2>2. CASE v.kind = "command"
    <3>1. entries = Upsert(owned, v, "PYTHON_WORKER")
      BY <2>2 DEF Registered
    <3> HIDE DEF entries
    <3> QED
      BY <1>5, <2>1, <2>2, <3>1, UpsertTyped
  <2>3. CASE v.kind # "command"
    BY <1>5, <2>3 DEF Registered
  <2> QED
    BY <2>2, <2>3
<1> HIDE DEF entries
<1>7. EntriesFit(entries)
  <2>1. AppProcess(v.app).app = v.app
    BY DEF AppProcess
  <2> QED
    BY <1>4, <1>5, <1>6, <2>1, TypedRegistryParts DEF EntriesFit
<1>8. t \in Table /\ t.records = entries /\ t.context = Loaded.context /\ t.peak = Loaded.peak
  BY <1>6, TypedRegistryParts DEF Table, EntryLists
<1> HIDE DEF t
<1>9. /\ table' \in Table /\ table'.records = entries
      /\ table'.context = Loaded.context /\ table'.peak = Loaded.peak
  BY <1>1, <1>7, <1>8, DerivedTyped
<1>10. ASSUME NEW w \in Workers, EnteredAlone(w)' PROVE InTheTable(w)'
  <2>1. w.kind = "command" /\ w.app = app /\ app' = app /\ workerAt[w] # "dead"
    BY <1>1, <1>3, <1>10, TypedRegistryParts DEF EnteredAlone, KnownIsServed
  <2>2. /\ Holds(entries, w)
        /\ \A x \in Workers : x # v =>
              /\ workerAt[x] = "read" => x.app = w.app
              /\ workerAt[x] # "unlink"
              /\ workerAt[x] = "sample" => Holds(seen[x], w)
    <3>1. CASE w = v
      BY <1>1, <1>10, <3>1, <1>5, <1>6, <2>1 DEF EnteredAlone, Busy, AppProcess, Workers,
         Holds
    <3>2. CASE w # v
      <4>1. EnteredAlone(w)
        BY <1>1, <1>3, <1>10, <3>2 DEF EnteredAlone
      <4>2. InTheTable(w) /\ w.app = app /\ w.kind = "command"
            /\ workerAt[w] \notin {"unborn", "dead"}
        BY <4>1, EnteredTyped
      <4>3. ~(v.app = w.app /\ v.kind = w.kind)
        BY <1>1, <3>2, <4>2, TypedRegistryParts, OneLives
      <4>4. AppProcess(w.app) # v /\ AppProcess(v.app) # w /\ AppProcess(w.app).app = w.app
        BY DEF AppProcess, Workers
      <4>5. [process |-> AppProcess(w.app), role |-> "TAURI_APP"] \in owned
        BY <1>5, <4>2 DEF InTheTable, Holds, AppProcess
      <4>6. [process |-> w, role |-> "PYTHON_WORKER"] \in owned
        BY <1>5, <4>2, <4>4 DEF InTheTable, Holds
      <4> QED
        BY <1>6, <3>2, <4>2, <4>4, <4>5, <4>6 DEF Holds, InTheTable
    <3> QED
      BY <3>1, <3>2
  <2>3. table'.python = w /\ table'.tauri = w.app
    BY <1>1, <1>7, <1>8, <2>1, <2>2, DerivedNames, TypedRegistryParts
  <2>4. Holds(table'.records, w) /\ \A x \in Workers : Holds(seen'[x], w) <=> Holds(seen[x], w)
    BY <1>1, <1>9, <2>2
  <2> QED
    BY <1>1, <1>2, <1>3, <2>2, <2>3, <2>4 DEF InTheTable, Holds
<1>11. overlapped' \subseteq Workers
  BY <1>1, TypedRegistryParts
<1>12. ContextAndPeaksAreKept'
  BY <1>1, <1>9, TypedRegistryParts, TablesTyped DEF ContextAndPeaksAreKept, Loaded
<1>13. EntriesFit(table'.records)
  BY <1>7, <1>9
<1> QED
  BY <1>1, <1>2, <1>4, <1>9, <1>10, <1>11, <1>12, <1>13, GoesOnKeeps, TypedRegistryParts

\* A snapshot keeps the entries of what lives.
LEMMA SnapshotKeeps ==
    ASSUME TypedRegistry, Snapshot
    PROVE  /\ table' \in Table /\ EntriesFit(table'.records)
           /\ table'.context = Loaded.context /\ table'.peak = Loaded.peak
           /\ \A w \in Workers : EnteredAlone(w) =>
                 Holds(table'.records, w) /\ table'.python = w /\ table'.tauri = w.app
<1> DEFINE entries == Discovered(Pruned(Loaded.records))
           t == [Loaded EXCEPT !.records = entries]
<1>1. table' = Derived(t)
  BY DEF Snapshot
<1>2. /\ entries \in EntryLists
      /\ \A r \in entries : (r \in table.records /\ Alive(r.process)) \/ r.role = "CHILD"
      /\ \A r \in table.records : Alive(r.process) => r \in entries
  <2>1. Loaded.records = table.records /\ table.records \in EntryLists /\ RegistryTypeOK
    BY TypedRegistryParts
  <2>2. entries = Discovered(Pruned(table.records))
    BY <2>1
  <2> HIDE DEF entries
  <2> QED
    BY <2>1, <2>2, SnapshotTyped
<1> HIDE DEF entries
<1>3. EntriesFit(entries)
  BY <1>2, TypedRegistryParts DEF EntriesFit
<1>4. t \in Table /\ t.records = entries /\ t.context = Loaded.context /\ t.peak = Loaded.peak
  BY <1>2, TypedRegistryParts DEF Table, EntryLists
<1> HIDE DEF t
<1>5. ASSUME NEW w \in Workers, EnteredAlone(w)
      PROVE  Holds(entries, w) /\ table'.python = w /\ table'.tauri = w.app
  BY <1>5, EnteredTyped, <1>2, <1>1, <1>3, <1>4, DerivedNames, TypedRegistryParts DEF
     InTheTable, Holds
<1> QED
  BY <1>1, <1>3, <1>4, <1>5, DerivedTyped

LEMMA PruneKeeps ==
    ASSUME TypedRegistry, NEW v \in Workers, Prune(v)
    PROVE  TypedRegistry'
<1>1. /\ workerAt[v] = "prune" /\ Moves(v, "serve") /\ Snapshot
      /\ known' = [known EXCEPT ![v] = TRUE]
      /\ UNCHANGED <<app, asked, seen, told, overlapped>>
  BY DEF Prune, WorkerIs
<1>2. WorkerGoesOn(v) /\ workerAt'[v] = "serve"
  BY <1>1, TypedRegistryParts DEF WorkerGoesOn, WorkerSteps, Moves, RegistryTypeOK
<1>3. \A x \in Workers : x # v => workerAt'[x] = workerAt[x]
  BY <1>2, GoesOnOrdered, TypedRegistryParts
<1>4. ASSUME NEW w \in Workers, EnteredAlone(w)' PROVE InTheTable(w)'
  <2>1. EnteredAlone(w)
    BY <1>1, <1>2, <1>4, EnteredBefore
  <2>2. InTheTable(w)
    BY <2>1, EnteredTyped
  <2>3. Holds(table'.records, w) /\ table'.python = w /\ table'.tauri = w.app
    BY <1>1, <2>1, SnapshotKeeps
  <2> QED
    BY <1>1, <1>2, <1>3, <2>2, <2>3 DEF InTheTable, Holds
<1>5. /\ table' \in Table /\ EntriesFit(table'.records)
      /\ table'.context = Loaded.context /\ table'.peak = Loaded.peak
  BY <1>1, SnapshotKeeps
<1>6. ContextAndPeaksAreKept'
  BY <1>1, <1>5, TypedRegistryParts, TablesTyped DEF ContextAndPeaksAreKept, Loaded
<1> QED
  BY <1>1, <1>2, <1>4, <1>5, <1>6, GoesOnKeeps, TypedRegistryParts

\* The answer of a worker.
LEMMA AnswerMoves ==
    ASSUME TypedRegistry, NEW v \in Workers, workerAt[v] \in {"serve", "sample"}, Answers(v), app' = app
    PROVE  /\ WorkerGoesOn(v) /\ workerAt'[v] \in {"idle", "dead"}
           /\ \A x \in Workers : x # v => workerAt'[x] = workerAt[x]
  BY TypedRegistryParts, GoesOnOrdered DEF Answers, WorkerGoesOn, WorkerSteps, Moves,
     RegistryTypeOK

LEMMA ServeCommandKeeps ==
    ASSUME TypedRegistry, NEW v \in Workers, ServeCommand(v)
    PROVE  TypedRegistry'
<1>1. /\ workerAt[v] = "serve" /\ Answers(v) /\ (Snapshot \/ UNCHANGED table)
      /\ UNCHANGED <<app, known, asked, seen, told, overlapped>>
  BY DEF ServeCommand, WorkerIs
<1>2. /\ WorkerGoesOn(v) /\ workerAt'[v] \in {"idle", "dead"}
      /\ \A x \in Workers : x # v => workerAt'[x] = workerAt[x]
  BY <1>1, AnswerMoves
<1>3. /\ table' \in Table \cup {NoTable} /\ EntriesFit(table'.records)
      /\ \A w \in Workers : EnteredAlone(w) =>
             Holds(table'.records, w) /\ table'.python = w /\ table'.tauri = w.app
  BY <1>1, SnapshotKeeps, TypedRegistryParts, EnteredTyped DEF InTheTable
<1>4. ASSUME NEW w \in Workers, EnteredAlone(w)' PROVE InTheTable(w)'
  BY <1>1, <1>2, <1>4, EnteredBefore, EnteredTyped, <1>3 DEF InTheTable, Holds
<1>5. ContextAndPeaksAreKept'
  BY <1>1, SnapshotKeeps, TypedRegistryParts, TablesTyped DEF ContextAndPeaksAreKept, Loaded
<1> QED
  BY <1>1, <1>2, <1>3, <1>4, <1>5, GoesOnKeeps, TypedRegistryParts

LEMMA SetContextKeeps ==
    ASSUME TypedRegistry, NEW v \in Workers, SetContext(v)
    PROVE  TypedRegistry'
<1>1. /\ workerAt[v] = "serve" /\ Answers(v)
      /\ table' = [Loaded EXCEPT !.context = told.context + 1]
      /\ told' = [told EXCEPT !.context = @ + 1]
      /\ UNCHANGED <<app, known, asked, seen, overlapped>>
  BY DEF SetContext, WorkerIs
<1>2. /\ WorkerGoesOn(v) /\ workerAt'[v] \in {"idle", "dead"}
      /\ \A x \in Workers : x # v => workerAt'[x] = workerAt[x]
  BY <1>1, AnswerMoves
<1>3. /\ table' \in Table /\ table'.records = table.records /\ table'.context = told.context + 1
      /\ table'.peak = Loaded.peak /\ table'.python = Loaded.python /\ table'.tauri = Loaded.tauri
  BY <1>1, TypedRegistryParts DEF Table
<1>4. ASSUME NEW w \in Workers, EnteredAlone(w)' PROVE InTheTable(w)'
  BY <1>1, <1>2, <1>4, EnteredBefore, EnteredTyped, <1>3 DEF InTheTable, Holds
<1>5. told' \in [context : Nat, peak : Nat] /\ told'.context = told.context + 1 /\ told'.peak = told.peak
  BY <1>1, TypedRegistryParts
<1>6. ContextAndPeaksAreKept'
  BY <1>3, <1>5, TypedRegistryParts, TablesTyped DEF ContextAndPeaksAreKept, Loaded
<1> QED
  BY <1>1, <1>2, <1>3, <1>4, <1>5, <1>6, GoesOnKeeps, TypedRegistryParts

LEMMA BeginSampleKeeps ==
    ASSUME TypedRegistry, NEW v \in Workers, BeginSample(v)
    PROVE  TypedRegistry'
<1>1. /\ workerAt[v] = "serve" /\ Moves(v, "sample")
      /\ seen' = [seen EXCEPT ![v] = Loaded.records]
      /\ UNCHANGED <<table, app, known, asked, told, overlapped>>
  BY DEF BeginSample, WorkerIs
<1>2. WorkerGoesOn(v) /\ workerAt'[v] = "sample"
  BY <1>1, TypedRegistryParts DEF WorkerGoesOn, WorkerSteps, Moves, RegistryTypeOK
<1>3. \A x \in Workers : x # v => workerAt'[x] = workerAt[x]
  BY <1>2, GoesOnOrdered, TypedRegistryParts
<1>4. /\ seen' \in SeenLists /\ seen'[v] = table.records
      /\ \A x \in Workers : x # v => seen'[x] = seen[x]
  BY <1>1, TypedRegistryParts DEF SeenLists
<1>5. ASSUME NEW w \in Workers, EnteredAlone(w)' PROVE InTheTable(w)'
  BY <1>1, <1>2, <1>5, EnteredBefore, EnteredTyped, <1>3, <1>4 DEF InTheTable, Holds
<1>6. \A x \in Workers : EntriesFit(seen'[x])
  BY <1>4, TypedRegistryParts
<1>7. ContextAndPeaksAreKept'
  BY <1>1, TypedRegistryParts DEF ContextAndPeaksAreKept, Loaded
<1> QED
  BY <1>1, <1>2, <1>4, <1>5, <1>6, <1>7, GoesOnKeeps, TypedRegistryParts

\* A sample writes back the processes it read, and no worker has entered itself alone
\* in the meantime.
LEMMA EndSampleKeeps ==
    ASSUME TypedRegistry, NEW v \in Workers, EndSample(v)
    PROVE  TypedRegistry'
<1> PICK load \in Loads(v) : /\ table' = Sampled(v, load)
                             /\ told' = [told EXCEPT !.peak = HigherOf(@, load)]
  BY DEF EndSample
<1>1. /\ workerAt[v] = "sample" /\ Answers(v) /\ seen' = [seen EXCEPT ![v] = {}]
      /\ UNCHANGED <<app, known, asked, overlapped>>
  BY DEF EndSample, WorkerIs
<1>2. /\ WorkerGoesOn(v) /\ workerAt'[v] \in {"idle", "dead"}
      /\ \A x \in Workers : x # v => workerAt'[x] = workerAt[x]
  BY <1>1, AnswerMoves
<1>3. load \in Nat
  BY RegistryAssumption DEF Loads
<1>4. told.peak \in Nat /\ Loaded.peak = told.peak /\ HigherOf(told.peak, load) \in Nat
  BY <1>3, TypedRegistryParts DEF ContextAndPeaksAreKept, HigherOf
<1>5. /\ table' \in Table /\ table'.records = seen[v] /\ table'.context = Loaded.context
      /\ table'.peak = HigherOf(told.peak, load)
      /\ table'.python = Loaded.python /\ table'.tauri = Loaded.tauri
  BY <1>4, TypedRegistryParts DEF Sampled, Table, SeenLists, EntryLists
<1>6. /\ seen' \in SeenLists /\ seen'[v] = {}
      /\ \A x \in Workers : x # v => seen'[x] = seen[x]
  BY <1>1, TypedRegistryParts DEF SeenLists, EntryLists
<1>7. ASSUME NEW w \in Workers, EnteredAlone(w)' PROVE InTheTable(w)'
  BY <1>1, <1>2, <1>7, EnteredBefore, EnteredTyped, <1>5, <1>6 DEF InTheTable, Holds
<1>8. told' \in [context : Nat, peak : Nat] /\ told'.context = told.context
      /\ told'.peak = HigherOf(told.peak, load)
  BY <1>4, TypedRegistryParts
<1>9. ContextAndPeaksAreKept'
  BY <1>5, <1>8, TypedRegistryParts, TablesTyped DEF ContextAndPeaksAreKept, Loaded
<1>10. \A x \in Workers : EntriesFit(seen'[x])
  BY <1>6, TypedRegistryParts DEF EntriesFit
<1>11. EntriesFit(table'.records)
  BY <1>5, TypedRegistryParts
<1> QED
  BY <1>1, <1>2, <1>5, <1>6, <1>7, <1>8, <1>9, <1>10, <1>11, GoesOnKeeps, TypedRegistryParts

-----------------------------------------------------------------------------
\* What has to be shown of a step in which processes end and others are started.
LEMMA EndKeeps ==
    ASSUME TypedRegistry, UNCHANGED <<table, known, asked, told, overlapped>>,
           workerAt' \in [Workers -> WorkerSteps], WorkersFit', app' \in Apps, app' >= app,
           \A v \in Workers : workerAt[v] # "unborn" => workerAt'[v] # "unborn",
           seen' \in SeenLists, \A w \in Workers : seen'[w] \in {seen[w], {}},
           \A w \in Workers : EnteredAlone(w)' => InTheTable(w)'
    PROVE  TypedRegistry'
<1>1. app' \in Nat
  BY RegistryAssumption DEF Apps
<1>2. \A records \in EntryLists : EntriesFit(records) => EntriesFit(records)'
  BY <1>1, EntriesStayFit, TypedRegistryParts
<1>3. EntriesFit(table.records) /\ \A w \in Workers : EntriesFit(seen'[w])
  BY TypedRegistryParts DEF EntriesFit
<1>4. \A w \in Workers : seen'[w] \in EntryLists
  BY DEF SeenLists
<1>5. EntriesFit(table.records)' /\ \A w \in Workers : EntriesFit(seen[w])'
  BY <1>2, <1>3, <1>4, TypedRegistryParts DEF EntriesFit
<1>6. RegistryTypeOK'
  BY TypedRegistryParts DEF RegistryTypeOK, SeenLists, EntryLists
<1>7. ContextAndPeaksAreKept'
  BY TypedRegistryParts DEF ContextAndPeaksAreKept, Loaded
<1> QED
  BY <1>5, <1>6, <1>7 DEF TypedRegistry, RegistryInvariant, WorkersFit

LEMMA WorkerDiesKeeps ==
    ASSUME TypedRegistry, NEW v \in Workers, WorkerDies(v)
    PROVE  TypedRegistry'
<1>1. /\ app' = app /\ seen' = [seen EXCEPT ![v] = {}]
      /\ UNCHANGED <<table, known, asked, told, overlapped>>
  BY DEF WorkerDies
<1>2. /\ workerAt' \in [Workers -> WorkerSteps] /\ WorkersFit'
      /\ \A x \in Workers : workerAt[x] # "unborn" => workerAt'[x] # "unborn"
      /\ \A x \in Workers : \/ workerAt'[x] = workerAt[x]
                            \/ workerAt'[x] \in {"idle", "dead"} /\ ~known[x] /\ workerAt[x] = "unborn"
                            \/ workerAt'[x] = "dead"
  BY DiesOrdered, TypedRegistryParts DEF WorkersFit
<1>3. /\ seen' \in SeenLists /\ seen'[v] = {}
      /\ \A x \in Workers : x # v => seen'[x] = seen[x]
  BY <1>1, TypedRegistryParts DEF SeenLists, EntryLists
<1>4. workerAt'[v] # "sample"
  BY TypedRegistryParts DEF WorkerDies, RegistryTypeOK
<1>5. ASSUME NEW w \in Workers, EnteredAlone(w)' PROVE InTheTable(w)'
  BY <1>1, <1>2, <1>5, EnteredTyped, <1>3, <1>4 DEF EnteredAlone, InTheTable, Holds
<1> QED
  BY <1>1, <1>2, <1>3, <1>5, EndKeeps, TypedRegistryParts

LEMMA RestartKeeps ==
    ASSUME TypedRegistry, Restart
    PROVE  TypedRegistry'
<1>1. UNCHANGED <<table, known, asked, seen, told, overlapped>>
  BY DEF Restart
<1>2. /\ workerAt' \in [Workers -> WorkerSteps] /\ app' \in Apps /\ app' = app + 1
      /\ WorkersFit'
      /\ \A v \in Workers : workerAt[v] # "unborn" => workerAt'[v] # "unborn"
      /\ \A v \in Workers : v.app = app' => workerAt[v] = "unborn" /\ ~known[v]
                                            /\ workerAt'[v] \in {"idle", "unborn"}
  BY RestartOrdered, TypedRegistryParts DEF WorkersFit
<1>3. \A w \in Workers : ~EnteredAlone(w)'
  BY <1>1, <1>2 DEF EnteredAlone
<1>4. app' >= app /\ seen' \in SeenLists
  BY <1>1, <1>2, TypedRegistryParts
<1> QED
  BY <1>1, <1>2, <1>3, <1>4, EndKeeps, TypedRegistryParts

-----------------------------------------------------------------------------
LEMMA RegistryStarts == RegistryInit => TypedRegistry
<1> SUFFICES ASSUME RegistryInit PROVE TypedRegistry
  OBVIOUS
<1>1. NoTable.records = {}
  BY DEF NoTable, NewTable
<1>2. \A w \in Workers : workerAt[w] = IF w.app = 1 /\ w.number = 1 THEN "idle" ELSE "unborn"
  BY DEF RegistryInit
<1>3. RegistryTypeOK
  BY RegistryAssumption DEF RegistryInit, RegistryTypeOK, Apps, WorkerSteps
<1>4. OneAfterTheOther
  BY RegistryAssumption, <1>2 DEF Workers, RegistryInit, OneAfterTheOther
<1>5. ContextAndPeaksAreKept
  BY DEF RegistryInit, ContextAndPeaksAreKept, Loaded, NewTable
<1>6. \A w \in Workers : ~known[w] /\ ~EnteredAlone(w) /\ seen[w] = {}
  BY <1>2 DEF RegistryInit, EnteredAlone
<1>7. EntriesFit(table.records) /\ \A w \in Workers : EntriesFit(seen[w])
  BY <1>1, <1>6 DEF RegistryInit, EntriesFit
<1> QED
  BY <1>3, <1>4, <1>5, <1>6, <1>7 DEF TypedRegistry, RegistryInvariant, KnownIsServed

LEMMA RegistrySteps == TypedRegistry /\ [RegistryNext]_registryVars => TypedRegistry'
<1> SUFFICES ASSUME TypedRegistry, [RegistryNext]_registryVars PROVE TypedRegistry'
  OBVIOUS
<1>1. CASE UNCHANGED registryVars
  <2>1. UNCHANGED <<table, app, workerAt, known, asked, seen, told, overlapped>>
    BY <1>1 DEF registryVars
  <2>2. RegistryTypeOK'
    BY <2>1, TypedRegistryParts DEF RegistryTypeOK
  <2>3. RegistryInvariant'
    BY <2>1 DEF TypedRegistry, RegistryInvariant, OneAfterTheOther, KnownIsServed, EntriesFit,
                EnteredAlone, InTheTable, Holds, ContextAndPeaksAreKept, Loaded
  <2> QED
    BY <2>2, <2>3 DEF TypedRegistry
<1>2. ASSUME NEW w \in Workers,
             \/ Ask(w) \/ ReadOwner(w) \/ Unlink(w) \/ Initialize(w) \/ Prune(w)
             \/ ServeCommand(w) \/ SetContext(w) \/ BeginSample(w) \/ EndSample(w)
             \/ WorkerDies(w)
      PROVE  TypedRegistry'
  BY <1>2, AskKeeps, ReadOwnerKeeps, UnlinkKeeps, InitializeKeeps, PruneKeeps,
     ServeCommandKeeps, SetContextKeeps, BeginSampleKeeps, EndSampleKeeps, WorkerDiesKeeps
<1> QED
  BY <1>1, <1>2, RestartKeeps DEF RegistryNext

LEMMA ToldIsKept == TypedRegistry => RegistryKeepsWhatItWasTold
  BY EnteredTyped, TypedRegistryParts DEF Alive, EnteredAlone, InTheTable, Holds,
     RegistryKeepsWhatItWasTold, RegisteredWorkerStays

\* The types of the table and of what the workers do.
THEOREM RegistryTypeCorrect == RegistrySpec => []RegistryTypeOK
<1>1. TypedRegistry => RegistryTypeOK
  BY DEF TypedRegistry
<1> QED
  BY <1>1, RegistryStarts, RegistrySteps, PTL DEF RegistrySpec

\* A worker that entered itself while no other one was about to write stays, as the one
\* the table names, and no sample loses the context or the peaks.
THEOREM RegistryKept == RegistrySpec => []RegistryKeepsWhatItWasTold
BY RegistryStarts, RegistrySteps, ToldIsKept, PTL DEF RegistrySpec

-----------------------------------------------------------------------------
(* The turns of connected models.                                          *)

TypedTurns == TurnTypeOK /\ TurnInvariant

Outcomes == Running \cup Ended

TurnWith(turn, step, more) == [turn EXCEPT !.at = step, !.records = @ \cup more]

LEMMA TurnWithFields ==
    ASSUME NEW turn \in Turn, NEW step \in Outcomes, NEW more \in SUBSET Records
    PROVE  /\ TurnWith(turn, step, more) \in Turn
           /\ TurnWith(turn, step, more).at = step
           /\ TurnWith(turn, step, more).records = turn.records \cup more
           /\ TurnWith(turn, step, more).endpoint = turn.endpoint
           /\ TurnWith(turn, step, more).consent = turn.consent
           /\ TurnWith(turn, step, more).slip = turn.slip
BY DEF TurnWith, Turn, Outcomes

LEMMA TurnWithNothing ==
    ASSUME NEW turn \in Turn, NEW step \in Outcomes
    PROVE  /\ TurnWith(turn, step, {}) \in Turn
           /\ TurnWith(turn, step, {}).at = step
           /\ TurnWith(turn, step, {}).records = turn.records
           /\ TurnWith(turn, step, {}).endpoint = turn.endpoint
           /\ TurnWith(turn, step, {}).consent = turn.consent
           /\ TurnWith(turn, step, {}).slip = turn.slip
  BY DEF TurnWith, Turn, Outcomes

LEMMA WritesIs ==
    ASSUME TurnTypeOK, NEW t \in Turns, NEW record \in Records, NEW step \in Outcomes,
           Writes(t, record, step)
    PROVE  turns' = [turns EXCEPT ![t] = TurnWith(turns[t], step, {record})]
BY DEF Writes, TurnWith, TurnTypeOK, Turn

LEMMA GoesIs ==
    ASSUME TurnTypeOK, NEW t \in Turns, NEW step \in Outcomes, Goes(t, step)
    PROVE  turns' = [turns EXCEPT ![t] = TurnWith(turns[t], step, {})]
  BY DEF Goes, TurnWith, TurnTypeOK, Turn

\* What is known of each turn.
LEMMA TurnParts ==
    ASSUME TypedTurns
    PROVE  /\ connectors \in [Endpoints -> Connector]
           /\ chosen \in Endpoints \cup {NoEndpoint} /\ discovering \in Endpoints \cup {NoEndpoint}
           /\ turns \in [Turns -> Turn] /\ sent \in [Turns -> Endpoints \cup {NoEndpoint}]
           /\ stale \subseteq Turns /\ lost \subseteq Turns /\ changes \in Nat /\ turnFaults \in Nat
           /\ \A e, f \in Endpoints : connectors[e].active /\ connectors[f].active => e = f
           /\ \A t \in Turns : /\ turns[t].at # "none" => turns[t].endpoint # NoEndpoint
                               /\ turns[t].at = "none" => sent[t] = NoEndpoint
                               /\ GoesWell(turns[t]) /\ GoesWrong(t, turns[t])
                               /\ WasPrepared(t, turns[t]) /\ IsConnected(t, turns[t])
BY DEF TypedTurns, TurnTypeOK, TurnInvariant

\* What has to be shown of a step of one turn.
LEMMA TurnKeeps ==
    ASSUME TypedTurns, NEW t \in Turns, NEW new \in Turn, StillSame,
           turns' = [turns EXCEPT ![t] = new],
           sent' \in [Turns -> Endpoints \cup {NoEndpoint}],
           \A u \in Turns : u # t => sent'[u] = sent[u],
           lost' \subseteq Turns, lost \subseteq lost', turnFaults' \in Nat,
           new.at # "none", new.endpoint # NoEndpoint,
           GoesWell(new), GoesWrong(t, new)', WasPrepared(t, new)', IsConnected(t, new)'
    PROVE  TypedTurns'
<1>1. /\ turns' \in [Turns -> Turn] /\ turns'[t] = new
      /\ \A u \in Turns : u # t => turns'[u] = turns[u]
  BY TurnParts
<1>2. UNCHANGED <<connectors, chosen, discovering, stale, changes>>
  BY DEF StillSame
<1>3. TurnTypeOK'
  BY <1>1, <1>2, TurnParts DEF TurnTypeOK
<1>4. ASSUME NEW u \in Turns
      PROVE  /\ turns'[u].at # "none" => turns'[u].endpoint # NoEndpoint
             /\ turns'[u].at = "none" => sent'[u] = NoEndpoint
             /\ GoesWell(turns[u])' /\ GoesWrong(u, turns[u])'
             /\ WasPrepared(u, turns[u])' /\ IsConnected(u, turns[u])'
  <2>1. CASE u = t
    BY <1>1, <2>1 DEF GoesWell, GoesWrong, WasPrepared, IsConnected
  <2>2. CASE u # t
    BY <1>1, <2>2, TurnParts, <1>2 DEF GoesWell, GoesWrong, WasPrepared, IsConnected
  <2> QED
    BY <2>1, <2>2
<1>5. TurnInvariant'
  BY <1>2, <1>4, TurnParts DEF TurnInvariant
<1> QED
  BY <1>3, <1>5 DEF TypedTurns

\* A step to a failure, or a death.
LEMMA TurnFails ==
    ASSUME TypedTurns, NEW t \in Turns, StillSame, turns[t].at \in Running,
           NEW step \in {"failing", "died"}, NEW more \in SUBSET {"ENTRY", "EXIT"},
           turns' = [turns EXCEPT ![t] = TurnWith(turns[t], step, more)],
           sent' \in [Turns -> Endpoints \cup {NoEndpoint}],
           \A u \in Turns : u # t => sent'[u] = sent[u],
           sent'[t] = sent[t] \/ (turns[t].at = "send" /\ sent'[t] = turns[t].endpoint),
           lost' \subseteq Turns, lost \subseteq lost', turnFaults' \in Nat,
           "ENTRY" \in more => t \in lost'
    PROVE  TypedTurns'
<1> DEFINE old == turns[t]
<1> PICK new \in {TurnWith(old, step, more)} : TRUE
  OBVIOUS
<1>0. new = TurnWith(old, step, more)
  OBVIOUS
<1>1. old \in Turn /\ old.at \in Running /\ old.at # "none"
  BY TurnParts DEF Running
<1>2. step \in Outcomes /\ more \in SUBSET Records
  BY DEF Outcomes, Running, Ended, Records
<1>3. /\ new \in Turn /\ new.at = step /\ new.records = old.records \cup more
      /\ new.endpoint = old.endpoint /\ new.consent = old.consent /\ new.slip = old.slip
  BY <1>0, <1>1, <1>2, TurnWithFields
<1>4. /\ GoesWell(old) /\ GoesWrong(t, old) /\ WasPrepared(t, old) /\ IsConnected(t, old)
      /\ old.endpoint # NoEndpoint /\ connectors' = connectors /\ stale' = stale
  BY <1>1, TurnParts DEF StillSame
<1>5. sent'[t] = sent[t] \/ (old.at = "send" /\ sent'[t] = old.endpoint)
  OBVIOUS
<1>6. turns' = [turns EXCEPT ![t] = new]
  BY <1>0
<1> HIDE DEF old
<1>7. GoesWell(new)
  BY <1>3 DEF GoesWell, FromSeal, FromExit, FromLineage, FromSources, FromTask, FromReply,
              FromSend, FromReady, FromPrepare
<1>8. GoesWrong(t, new)'
  BY <1>3, <1>4 DEF GoesWrong
<1>9. WasPrepared(t, new)'
  BY <1>3, <1>4, <1>5 DEF WasPrepared, GoesWell, FromSeal, FromExit, FromLineage,
     FromSources, FromTask, FromReply, FromSend, FromReady, FromPrepare
<1>10. IsConnected(t, new)'
  BY <1>1, <1>3, <1>4, <1>5 DEF IsConnected, WasPrepared, FromSeal, FromExit, FromLineage,
     FromSources, FromTask, FromReply, FromSend, FromReady, FromPrepare
<1> QED
  BY <1>3, <1>4, <1>6, <1>7, <1>8, <1>9, <1>10, TurnKeeps

\* The record that is written at each step, and the step behind it.
GoodStep(step, record, next) ==
    <<step, record, next>> \in
       { <<"prepare", "RUN", "ready">>, <<"ready", "REQUEST_READY", "send">>,
         <<"reply", "OUTPUT", "output">>, <<"output", "RESPONSE_RECEIVED", "task">>,
         <<"task", "TASK_RUN", "receipts">>, <<"receipts", "RECEIPTS", "research">>,
         <<"research", "RESEARCH", "lineage">>, <<"lineage", "LINEAGE", "exit">>,
         <<"exit", "EXIT", "seal">> }

LEMMA GoodSteps ==
    ASSUME NEW step, NEW record, NEW next, GoodStep(step, record, next)
    PROVE  \/ step = "prepare" /\ record = "RUN" /\ next = "ready"
           \/ step = "ready" /\ record = "REQUEST_READY" /\ next = "send"
           \/ step = "reply" /\ record = "OUTPUT" /\ next = "output"
           \/ step = "output" /\ record = "RESPONSE_RECEIVED" /\ next = "task"
           \/ step = "task" /\ record = "TASK_RUN" /\ next = "receipts"
           \/ step = "receipts" /\ record = "RECEIPTS" /\ next = "research"
           \/ step = "research" /\ record = "RESEARCH" /\ next = "lineage"
           \/ step = "lineage" /\ record = "LINEAGE" /\ next = "exit"
           \/ step = "exit" /\ record = "EXIT" /\ next = "seal"
BY DEF GoodStep

LEMMA TurnGoesOn ==
    ASSUME TypedTurns, NEW t \in Turns, StillSame, UNCHANGED <<sent, lost, turnFaults>>,
           NEW record \in Records, NEW next \in Outcomes,
           GoodStep(turns[t].at, record, next),
           turns[t].at = "prepare" =>
               (turns[t].endpoint \in Remote => turns[t].consent),
           Writes(t, record, next)
    PROVE  TypedTurns'
<1> DEFINE old == turns[t]
<1> PICK new \in {TurnWith(old, next, {record})} : TRUE
  OBVIOUS
<1>0. new = TurnWith(old, next, {record})
  OBVIOUS
<1>1. turns' = [turns EXCEPT ![t] = new]
  BY <1>0, WritesIs DEF TypedTurns
<1>2. /\ new \in Turn /\ new.at = next /\ new.records = old.records \cup {record}
      /\ new.endpoint = old.endpoint /\ new.consent = old.consent /\ new.slip = old.slip
  BY <1>0, TurnParts, TurnWithFields
<1>3. /\ GoesWell(old) /\ GoesWrong(t, old) /\ WasPrepared(t, old) /\ IsConnected(t, old)
      /\ connectors' = connectors /\ stale' = stale /\ sent' = sent /\ lost' = lost
      /\ GoodStep(old.at, record, next)
      /\ old.at = "prepare" => (old.endpoint \in Remote => old.consent)
      /\ old.at # "none" => old.endpoint # NoEndpoint
  BY TurnParts DEF StillSame
<1> HIDE DEF old
<1>4. GoesWell(new)
  BY <1>2, <1>3, GoodSteps DEF GoesWell, FromSeal, FromExit, FromLineage, FromSources, FromTask, FromReply,
              FromSend, FromReady, FromPrepare
<1>5. GoesWrong(t, new)'
  BY <1>2, <1>3, GoodSteps DEF GoesWrong
<1>6. WasPrepared(t, new)'
  BY <1>2, <1>3, GoodSteps DEF WasPrepared
<1>7. IsConnected(t, new)'
  BY <1>2, <1>3, GoodSteps DEF IsConnected, Running, FromSeal, FromExit, FromLineage,
     FromSources, FromTask, FromReply, FromSend, FromReady, FromPrepare
<1>8. old.at # "none" /\ next # "none"
  BY <1>3, GoodSteps
<1> QED
  BY <1>1, <1>2, <1>3, <1>4, <1>5, <1>6, <1>7, <1>8, TurnKeeps, TurnParts

LEMMA WritesOrFailsKeeps ==
    ASSUME TypedTurns, NEW t \in Turns, StillSame, UNCHANGED <<sent, lost>>,
           NEW record \in Records, NEW next \in Outcomes,
           GoodStep(turns[t].at, record, next),
           turns[t].at = "prepare" =>
               (turns[t].endpoint \in Remote => turns[t].consent),
           WritesOrFails(t, record, next)
    PROVE  TypedTurns'
  BY TurnGoesOn, GoesIs, GoodSteps, TurnParts, TurnFails DEF TypedTurns, Outcomes, Running,
     WriteFails, WritesOrFails

LEMMA GoesToFailing ==
    ASSUME TypedTurns, NEW t \in Turns, StillSame, UNCHANGED <<sent, lost, turnFaults>>,
           turns[t].at \in Running, Goes(t, "failing")
    PROVE  TypedTurns'
  BY GoesIs, TurnFails, TurnParts DEF TypedTurns, Outcomes, Running

-----------------------------------------------------------------------------
(* The connectors.                                                         *)

LEMMA ConnectorsChange ==
    ASSUME TypedTurns, NEW new \in [Endpoints -> Connector], Changed(new),
           chosen' \in Endpoints \cup {NoEndpoint},
           discovering' \in Endpoints \cup {NoEndpoint},
           \A e, f \in Endpoints : new[e].active /\ new[f].active => e = f
    PROVE  TypedTurns'
<1>1. /\ connectors' = new /\ changes' \in Nat /\ stale' = stale \cup {t \in Turns : Runs(t)}
      /\ UNCHANGED <<turns, sent, lost, turnFaults>>
  BY TurnParts DEF Changed
<1>2. TurnTypeOK'
  BY <1>1, TurnParts DEF TurnTypeOK
<1>3. ASSUME NEW t \in Turns
      PROVE  /\ turns'[t].at # "none" => turns'[t].endpoint # NoEndpoint
             /\ turns'[t].at = "none" => sent'[t] = NoEndpoint
             /\ GoesWell(turns[t])' /\ GoesWrong(t, turns[t])'
             /\ WasPrepared(t, turns[t])' /\ IsConnected(t, turns[t])'
  BY <1>1, TurnParts DEF Runs, GoesWell, GoesWrong, WasPrepared, IsConnected
<1>4. TurnInvariant'
  BY <1>1, <1>3 DEF TurnInvariant
<1> QED
  BY <1>2, <1>4 DEF TypedTurns

LEMMA InactiveTyped ==
    ASSUME TypedTurns
    PROVE  /\ Inactive \in [Endpoints -> Connector]
           /\ \A e \in Endpoints : ~Inactive[e].active
BY TurnParts DEF Inactive, Connector

LEMMA OthersTyped ==
    ASSUME TypedTurns, NEW e \in Endpoints, NEW active \in BOOLEAN
    PROVE  /\ Others(e, active) \in [Endpoints -> Connector]
           /\ active => \A f \in Endpoints : ~Others(e, active)[f].active
           /\ ~active => Others(e, active) = connectors
BY InactiveTyped, TurnParts DEF Others

LEMMA UpsertConnectorKeeps ==
    ASSUME TypedTurns, NEW e \in Endpoints, UpsertConnector(e)
    PROVE  TypedTurns'
<1> PICK enabled \in BOOLEAN, active \in BOOLEAN :
         Changed([Others(e, active) EXCEPT
                    ![e] = [exists |-> TRUE, enabled |-> enabled, active |-> active,
                            cached |-> @.cached]])
  BY DEF UpsertConnector
<1> DEFINE row == [exists |-> TRUE, enabled |-> enabled, active |-> active,
                   cached |-> Others(e, active)[e].cached]
           new == [Others(e, active) EXCEPT ![e] = row]
<1>1. Changed(new)
  OBVIOUS
<1>2. row \in Connector /\ row.active = active
  BY OthersTyped DEF Connector
<1> HIDE DEF row
<1>3. /\ new \in [Endpoints -> Connector] /\ new[e].active = active
      /\ \A f \in Endpoints : f # e => new[f] = Others(e, active)[f]
  BY <1>2, OthersTyped
<1>4. \A f, g \in Endpoints : new[f].active /\ new[g].active => f = g
  BY <1>3, OthersTyped, TurnParts
<1>5. chosen' = chosen /\ discovering' = discovering
  BY DEF UpsertConnector
<1> HIDE DEF new
<1> QED
  BY <1>1, <1>3, <1>4, <1>5, ConnectorsChange, TurnParts

LEMMA SetActiveKeeps ==
    ASSUME TypedTurns, SetActive
    PROVE  TypedTurns'
<1> DEFINE new == [Inactive EXCEPT ![chosen].active = connectors[chosen].exists]
<1>1. /\ Changed(new) /\ chosen \in Endpoints /\ chosen' = NoEndpoint
      /\ discovering' = discovering
  BY TurnParts DEF SetActive
<1>2. connectors[chosen].exists \in BOOLEAN
  BY <1>1, TurnParts DEF Connector
<1>3. /\ new \in [Endpoints -> Connector]
      /\ \A f \in Endpoints : f # chosen => new[f] = Inactive[f]
  BY <1>1, <1>2, InactiveTyped DEF Connector
<1>4. \A f, g \in Endpoints : new[f].active /\ new[g].active => f = g
  BY <1>3, InactiveTyped
<1> HIDE DEF new
<1> QED
  BY <1>1, <1>3, <1>4, ConnectorsChange, TurnParts

LEMMA DisableConnectorKeeps ==
    ASSUME TypedTurns, NEW e \in Endpoints, DisableConnector(e)
    PROVE  TypedTurns'
<1> DEFINE new == [connectors EXCEPT ![e].enabled = FALSE, ![e].active = FALSE]
<1>1. Changed(new) /\ chosen' = chosen /\ discovering' = discovering
  BY DEF DisableConnector
<1>2. /\ new \in [Endpoints -> Connector] /\ ~new[e].active
      /\ \A f \in Endpoints : f # e => new[f] = connectors[f]
  BY TurnParts DEF Connector
<1>3. \A f, g \in Endpoints : new[f].active /\ new[g].active => f = g
  BY <1>2, TurnParts
<1> HIDE DEF new
<1> QED
  BY <1>1, <1>2, <1>3, ConnectorsChange, TurnParts

LEMMA DeleteConnectorKeeps ==
    ASSUME TypedTurns, NEW e \in Endpoints, DeleteConnector(e)
    PROVE  TypedTurns'
<1> DEFINE new == [connectors EXCEPT ![e] = NoConnector]
<1>1. Changed(new) /\ chosen' = chosen /\ discovering' = discovering
  BY DEF DeleteConnector
<1>2. NoConnector \in Connector /\ ~NoConnector.active
  BY DEF NoConnector, Connector
<1>3. /\ new \in [Endpoints -> Connector] /\ ~new[e].active
      /\ \A f \in Endpoints : f # e => new[f] = connectors[f]
  BY <1>2, TurnParts
<1>4. \A f, g \in Endpoints : new[f].active /\ new[g].active => f = g
  BY <1>3, TurnParts
<1> HIDE DEF new
<1> QED
  BY <1>1, <1>3, <1>4, ConnectorsChange, TurnParts

\* A step of the connectors that no turn depends on.
LEMMA TurnsRest ==
    ASSUME TypedTurns, UNCHANGED <<turns, sent, stale, lost, changes, turnFaults>>,
           chosen' \in Endpoints \cup {NoEndpoint},
           discovering' \in Endpoints \cup {NoEndpoint},
           connectors' \in [Endpoints -> Connector],
           \A e \in Endpoints : /\ connectors'[e].active = connectors[e].active
                                 /\ connectors'[e].enabled = connectors[e].enabled
    PROVE  TypedTurns'
<1>1. TurnTypeOK'
  BY TurnParts DEF TurnTypeOK
<1>2. \A e, f \in Endpoints : connectors'[e].active /\ connectors'[f].active => e = f
  BY TurnParts
<1>3. ASSUME NEW t \in Turns PROVE IsConnected(t, turns[t])'
  BY TurnParts DEF Turn, IsConnected, Running
<1>4. ASSUME NEW t \in Turns
      PROVE  /\ turns'[t].at # "none" => turns'[t].endpoint # NoEndpoint
             /\ turns'[t].at = "none" => sent'[t] = NoEndpoint
             /\ GoesWell(turns[t])' /\ GoesWrong(t, turns[t])'
             /\ WasPrepared(t, turns[t])'
  BY TurnParts DEF GoesWell, GoesWrong, WasPrepared
<1>5. TurnInvariant'
  <2>1. \A t \in Turns : IsConnected(t, turns[t])'
    BY <1>3
  <2> HIDE DEF IsConnected, GoesWell, GoesWrong, WasPrepared
  <2> QED
    BY <1>2, <1>4, <2>1 DEF TurnInvariant
<1> QED
  BY <1>1, <1>5 DEF TypedTurns

LEMMA DiscoveryKeeps ==
    ASSUME TypedTurns,
           \/ \E e \in Endpoints : ReadForActive(e) \/ AskForModels(e)
           \/ CacheModels
    PROVE  TypedTurns'
<1>1. ASSUME NEW e \in Endpoints, ReadForActive(e) \/ AskForModels(e) PROVE TypedTurns'
  BY <1>1, TurnsRest, TurnParts DEF ReadForActive, AskForModels
<1>2. CASE CacheModels
  <2>1. /\ discovering \in Endpoints /\ discovering' = NoEndpoint /\ chosen' = chosen
        /\ UNCHANGED <<turns, sent, stale, lost, changes, turnFaults>>
    BY <1>2, TurnParts DEF CacheModels
  <2>2. \/ connectors' = [connectors EXCEPT ![discovering].cached = TRUE]
        \/ connectors' = connectors
    BY <1>2 DEF CacheModels
  <2>3. /\ connectors' \in [Endpoints -> Connector]
        /\ \A e \in Endpoints : /\ connectors'[e].active = connectors[e].active
                                 /\ connectors'[e].enabled = connectors[e].enabled
    <3> DEFINE row == [connectors[discovering] EXCEPT !.cached = TRUE]
    <3>1. /\ row \in Connector /\ row.active = connectors[discovering].active
          /\ row.enabled = connectors[discovering].enabled
      BY <2>1, TurnParts DEF Connector
    <3>2. \/ connectors' = [connectors EXCEPT ![discovering] = row]
          \/ connectors' = connectors
      BY <2>2
    <3> HIDE DEF row
    <3> QED
      BY <2>1, <3>1, <3>2, TurnParts
  <2> QED
    BY <2>1, <2>3, TurnsRest, TurnParts
<1> QED
  BY <1>1, <1>2

-----------------------------------------------------------------------------
(* The steps of a turn.                                                    *)

LEMMA BeginTurnKeeps ==
    ASSUME TypedTurns, NEW t \in Turns, NEW e \in Endpoints, NEW consent \in BOOLEAN,
           BeginTurn(t, e, consent)
    PROVE  TypedTurns'
<1> PICK at \in {"entry", "failing"} :
         /\ at = "entry" => connectors[e].enabled /\ connectors[e].active
         /\ turns' = [turns EXCEPT ![t] =
                [NoTurn EXCEPT !.at = at, !.endpoint = e, !.consent = consent]]
  BY DEF BeginTurn
<1> PICK new \in {[NoTurn EXCEPT !.at = at, !.endpoint = e, !.consent = consent]} : TRUE
  OBVIOUS
<1>1. turns' = [turns EXCEPT ![t] = new]
  OBVIOUS
<1>2. /\ new \in Turn /\ new.at = at /\ new.endpoint = e /\ new.consent = consent
      /\ new.slip = FALSE /\ new.records = {}
  BY DEF NoTurn, Turn, Running
<1>3. /\ StillSame /\ UNCHANGED <<sent, lost, turnFaults>> /\ turns[t].at = "none"
  BY DEF BeginTurn, Does
<1>4. /\ sent'[t] = NoEndpoint /\ connectors' = connectors /\ sent' = sent /\ lost' = lost
      /\ turnFaults' = turnFaults
  BY <1>3, TurnParts DEF StillSame
<1>5. GoesWell(new)
  BY <1>2 DEF GoesWell, FromSeal, FromExit, FromLineage, FromSources, FromTask,
     FromReply, FromSend, FromReady, FromPrepare
<1>6. GoesWrong(t, new)'
  BY <1>2 DEF GoesWrong
<1>7. WasPrepared(t, new)'
  BY <1>4 DEF WasPrepared
<1>8. IsConnected(t, new)'
  BY <1>2, <1>4 DEF IsConnected, FromSeal, FromExit, FromLineage, FromSources, FromTask,
     FromReply, FromSend, FromReady, FromPrepare
<1>9. new.at # "none" /\ new.endpoint # NoEndpoint
  BY <1>2, TurnAssumption
<1> QED
  BY ZenonT(60), <1>1, <1>2, <1>3, <1>4, <1>5, <1>6, <1>7, <1>8, <1>9, TurnKeeps, TurnParts

LEMMA SlipFails ==
    ASSUME TypedTurns, NEW t \in Turns, StillSame, NEW record \in {"ENTRY", "EXIT"},
           turns[t].at \in Running, Goes(t, "failing") \/ Writes(t, record, "failing"),
           WriteFails, lost' = lost \cup {t}, UNCHANGED sent
    PROVE  TypedTurns'
<1>1. turnFaults' \in Nat /\ record \in Records /\ "failing" \in Outcomes
  BY TurnParts DEF WriteFails, Records, Outcomes, Running
<1>2. PICK more \in SUBSET {"ENTRY", "EXIT"} :
          turns' = [turns EXCEPT ![t] = TurnWith(turns[t], "failing", more)]
  <2>1. CASE Goes(t, "failing")
    BY <1>1, <2>1, GoesIs DEF TypedTurns
  <2>2. CASE Writes(t, record, "failing")
    BY <1>1, <2>2, WritesIs DEF TypedTurns
  <2> QED
    BY <2>1, <2>2
<1>3. /\ sent' = sent /\ lost' \subseteq Turns /\ lost \subseteq lost' /\ t \in lost'
  BY TurnParts
<1> QED
  BY <1>1, <1>2, <1>3, TurnFails, TurnParts

LEMMA WriteEntryKeeps ==
    ASSUME TypedTurns, NEW t \in Turns, WriteEntry(t)
    PROVE  TypedTurns'
<1>1. turns[t].at = "entry" /\ turns[t].at \in Running /\ StillSame /\ sent' = sent
  BY DEF WriteEntry, Does, Running
<1>2. CASE /\ Goes(t, "failing") \/ Writes(t, "ENTRY", "failing")
           /\ WriteFails /\ lost' = lost \cup {t}
  BY <1>1, <1>2, SlipFails
<1>3. CASE /\ turns' = [turns EXCEPT ![t].at = "prepare", ![t].slip = TRUE,
                                    ![t].records = @ \cup {"ENTRY"}]
           /\ UNCHANGED <<lost, turnFaults>>
  <2> DEFINE old == turns[t]
  <2> PICK new \in {[old EXCEPT !.at = "prepare", !.slip = TRUE,
                                !.records = @ \cup {"ENTRY"}]} : TRUE
    OBVIOUS
  <2>1. turns' = [turns EXCEPT ![t] = new]
    BY <1>3, TurnParts
  <2>2. /\ new \in Turn /\ new.at = "prepare" /\ new.records = old.records \cup {"ENTRY"}
        /\ new.endpoint = old.endpoint /\ new.consent = old.consent /\ new.slip = TRUE
    <3>1. old \in Turn /\ "ENTRY" \in Records /\ "prepare" \in Running
      BY TurnParts DEF Records, Running
    <3> QED
      BY <3>1 DEF Turn
  <2>3. /\ GoesWell(old) /\ GoesWrong(t, old) /\ WasPrepared(t, old) /\ IsConnected(t, old)
        /\ connectors' = connectors /\ stale' = stale /\ old.at = "entry"
        /\ old.endpoint # NoEndpoint /\ lost' = lost /\ turnFaults' = turnFaults
    BY <1>1, <1>3, TurnParts DEF StillSame
  <2> HIDE DEF old
  <2>4. GoesWell(new)
    BY <2>2, <2>3 DEF GoesWell, FromSeal, FromExit, FromLineage, FromSources, FromTask,
       FromReply, FromSend, FromReady, FromPrepare
  <2>5. GoesWrong(t, new)'
    BY <2>2, <2>3 DEF GoesWrong
  <2>6. WasPrepared(t, new)'
    BY <1>1, <2>2, <2>3 DEF WasPrepared
  <2>7. IsConnected(t, new)'
    BY <1>1, <2>2, <2>3 DEF IsConnected, Running, FromSeal, FromExit, FromLineage, FromSources, FromTask,
       FromReply, FromSend, FromReady, FromPrepare
  <2> QED
    BY <1>1, <2>1, <2>2, <2>3, <2>4, <2>5, <2>6, <2>7, TurnKeeps, TurnParts
<1> QED
  BY <1>2, <1>3 DEF WriteEntry

\* The steps that write one record or fail.
LEMMA WritingKeeps ==
    ASSUME TypedTurns, NEW t \in Turns,
           \/ Prepare(t) \/ RequestReady(t) \/ ResponseReceived(t)
           \/ PromptReceipts(t) \/ StateTravel(t)
    PROVE  TypedTurns'
<1>1. {"RUN", "REQUEST_READY", "RESPONSE_RECEIVED", "TASK_RUN", "RECEIPTS", "RESEARCH", "LINEAGE"}
          \subseteq Records
  BY DEF Records
<1>2. {"ready", "send", "task", "receipts", "research", "lineage", "exit"} \subseteq Outcomes
  BY DEF Outcomes, Running
<1>3. CASE Prepare(t)
  BY <1>3, GoesToFailing, <1>1, <1>2, WritesOrFailsKeeps DEF Prepare, Does, Running,
     GoodStep
<1>4. CASE RequestReady(t)
  BY <1>4, <1>1, <1>2, WritesOrFailsKeeps DEF RequestReady, Does, GoodStep
<1>5. CASE ResponseReceived(t)
  BY <1>5, <1>1, <1>2, WritesOrFailsKeeps DEF ResponseReceived, Does, GoodStep
<1>6. CASE PromptReceipts(t) \/ StateTravel(t)
  <2>1. StillSame /\ UNCHANGED <<sent, lost>>
    BY <1>6 DEF PromptReceipts, StateTravel
  <2>2. \/ turns[t].at = "task" /\ WritesOrFails(t, "TASK_RUN", "receipts")
        \/ turns[t].at = "receipts" /\ WritesOrFails(t, "RECEIPTS", "research")
        \/ turns[t].at = "research" /\ WritesOrFails(t, "RESEARCH", "lineage")
        \/ turns[t].at = "lineage" /\ WritesOrFails(t, "LINEAGE", "exit")
    BY <1>6 DEF PromptReceipts, StateTravel, Does
  <2>3. CASE turns[t].at = "task" /\ WritesOrFails(t, "TASK_RUN", "receipts")
    BY <2>3, <1>1, <1>2, <2>1, WritesOrFailsKeeps DEF GoodStep
  <2>4. CASE turns[t].at = "receipts" /\ WritesOrFails(t, "RECEIPTS", "research")
    BY <2>4, <1>1, <1>2, <2>1, WritesOrFailsKeeps DEF GoodStep
  <2>5. CASE turns[t].at = "research" /\ WritesOrFails(t, "RESEARCH", "lineage")
    BY <2>5, <1>1, <1>2, <2>1, WritesOrFailsKeeps DEF GoodStep
  <2>6. CASE turns[t].at = "lineage" /\ WritesOrFails(t, "LINEAGE", "exit")
    BY <2>6, <1>1, <1>2, <2>1, WritesOrFailsKeeps DEF GoodStep
  <2> QED
    BY <2>2, <2>3, <2>4, <2>5, <2>6
<1> QED
  BY <1>3, <1>4, <1>5, <1>6

\* A step on that writes nothing, or sends the request.
LEMMA PlainStepKeeps ==
    ASSUME TypedTurns, NEW t \in Turns, StillSame, UNCHANGED <<lost, turnFaults>>,
           NEW next \in {"reply", "output", "answered"}, Goes(t, next),
           \/ turns[t].at = "send" /\ next = "reply"
              /\ sent' = [sent EXCEPT ![t] = turns[t].endpoint]
           \/ turns[t].at = "reply" /\ next = "output" /\ sent' = sent
           \/ turns[t].at = "seal" /\ next = "answered" /\ sent' = sent
    PROVE  TypedTurns'
<1>1. next \in Outcomes
  BY DEF Outcomes, Running, Ended
<1>2. turns' = [turns EXCEPT ![t] = TurnWith(turns[t], next, {})]
  BY <1>1, GoesIs DEF TypedTurns
<1> DEFINE old == turns[t]
<1> PICK new \in {TurnWith(old, next, {})} : TRUE
  OBVIOUS
<1>3. new = TurnWith(old, next, {}) /\ old \in Turn
  BY TurnParts
<1>4. turns' = [turns EXCEPT ![t] = new]
  BY <1>3, <1>2
<1> HIDE DEF old
<1>5. /\ new \in Turn /\ new.at = next /\ new.records = old.records
      /\ new.endpoint = old.endpoint /\ new.consent = old.consent /\ new.slip = old.slip
  BY <1>3, <1>1, TurnWithNothing
<1> USE DEF old
<1>6. /\ new \in Turn /\ turns' = [turns EXCEPT ![t] = new]
      /\ new.at = next /\ new.records = old.records
      /\ new.endpoint = old.endpoint /\ new.consent = old.consent /\ new.slip = old.slip
  BY <1>4, <1>5
<1>7. /\ GoesWell(old) /\ GoesWrong(t, old) /\ WasPrepared(t, old) /\ IsConnected(t, old)
      /\ connectors' = connectors /\ stale' = stale /\ new.records = old.records
      /\ new.endpoint = old.endpoint /\ new.consent = old.consent /\ new.slip = old.slip
      /\ old.at # "none" /\ old.endpoint # NoEndpoint /\ old \in Turn
  BY <1>6, TurnParts DEF StillSame
<1>8. old.endpoint \in Endpoints
  BY <1>7 DEF Turn
<1>9. /\ sent' \in [Turns -> Endpoints \cup {NoEndpoint}]
      /\ \A u \in Turns : u # t => sent'[u] = sent[u]
      /\ \/ old.at = "send" /\ next = "reply" /\ sent'[t] = old.endpoint
         \/ old.at = "reply" /\ next = "output" /\ sent'[t] = sent[t]
         \/ old.at = "seal" /\ next = "answered" /\ sent'[t] = sent[t]
  BY <1>8, TurnParts
<1> HIDE DEF old
<1>10. GoesWell(new)
  BY <1>6, <1>7, <1>9 DEF GoesWell, FromSeal, FromExit, FromLineage, FromSources, FromTask,
     FromReply, FromSend, FromReady, FromPrepare
<1>11. GoesWrong(t, new)'
  BY <1>6, <1>7, <1>9 DEF GoesWrong
<1>12. WasPrepared(t, new)'
  BY <1>6, <1>7, <1>9 DEF WasPrepared, GoesWell, FromSeal, FromExit, FromLineage, FromSources, FromTask,
     FromReply, FromSend, FromReady, FromPrepare
<1>13. IsConnected(t, new)'
  BY <1>6, <1>7, <1>9 DEF IsConnected, Running, FromSeal, FromExit, FromLineage, FromSources, FromTask,
     FromReply, FromSend, FromReady, FromPrepare
<1> QED
  BY <1>6, <1>7, <1>9, <1>10, <1>11, <1>12, <1>13, TurnKeeps, TurnParts

LEMMA SendKeeps ==
    ASSUME TypedTurns, NEW t \in Turns, Send(t)
    PROVE  TypedTurns'
<1>1. turns[t].at = "send" /\ StillSame /\ UNCHANGED <<lost, turnFaults>>
  BY DEF Send, Does
<1>2. CASE sent' = [sent EXCEPT ![t] = turns[t].endpoint] /\ Goes(t, "reply")
  BY <1>1, <1>2, PlainStepKeeps
<1>3. CASE sent' = [sent EXCEPT ![t] = turns[t].endpoint] /\ Goes(t, "failing")
  BY <1>3, GoesIs, <1>1, TurnParts, TurnFails DEF TypedTurns, Outcomes, Running, Turn
<1>4. CASE Goes(t, "failing") /\ UNCHANGED sent
  BY <1>1, <1>4, GoesToFailing DEF Running
<1> QED
  BY <1>2, <1>3, <1>4 DEF Send

LEMMA ReadReplyKeeps ==
    ASSUME TypedTurns, NEW t \in Turns, ReadReply(t)
    PROVE  TypedTurns'
<1>1. turns[t].at = "reply" /\ StillSame /\ UNCHANGED <<sent, lost>>
  BY DEF ReadReply, Does
<1>2. CASE Goes(t, "output") /\ UNCHANGED turnFaults
  BY <1>1, <1>2, PlainStepKeeps
<1>3. CASE WritesOrFails(t, "OUTPUT", "output")
  BY <1>1, <1>3, WritesOrFailsKeeps DEF GoodStep, Records, Outcomes, Running
<1>4. CASE Goes(t, "failing") /\ UNCHANGED turnFaults
  BY <1>1, <1>4, GoesToFailing DEF Running
<1> QED
  BY <1>2, <1>3, <1>4 DEF ReadReply

LEMMA WriteExitKeeps ==
    ASSUME TypedTurns, NEW t \in Turns, WriteExit(t)
    PROVE  TypedTurns'
<1>1. turns[t].at = "exit" /\ turns[t].at \in Running /\ StillSame /\ UNCHANGED sent
  BY DEF WriteExit, Does, Running
<1>2. CASE Writes(t, "EXIT", "seal") /\ UNCHANGED <<lost, turnFaults>>
  BY <1>1, <1>2, TurnGoesOn DEF GoodStep, Records, Outcomes, Running
<1>3. CASE /\ Goes(t, "failing") \/ Writes(t, "EXIT", "failing")
           /\ WriteFails /\ lost' = lost \cup {t}
  BY <1>1, <1>3, SlipFails
<1> QED
  BY <1>2, <1>3 DEF WriteExit

LEMMA SealSourceKeeps ==
    ASSUME TypedTurns, NEW t \in Turns, SealSource(t)
    PROVE  TypedTurns'
<1>1. turns[t].at = "seal" /\ turns[t].at \in Running /\ StillSame /\ UNCHANGED <<sent, lost>>
  BY DEF SealSource, Does, Running
<1>2. CASE Goes(t, "answered") /\ UNCHANGED turnFaults
  BY <1>1, <1>2, PlainStepKeeps
<1>3. CASE Goes(t, "failing") /\ WriteFails
  BY <1>3, GoesIs, <1>1, TurnParts, TurnFails DEF TypedTurns, Outcomes, Running, WriteFails
<1> QED
  BY <1>2, <1>3 DEF SealSource

LEMMA TurnDiesKeeps ==
    ASSUME TypedTurns, NEW t \in Turns, TurnDies(t)
    PROVE  TypedTurns'
<1>1. turns[t].at \in Running /\ StillSame /\ sent' = sent /\ lost' = lost
  BY DEF TurnDies, Runs
<1>2. turns' = [turns EXCEPT ![t] = TurnWith(turns[t], "died", {})]
  BY GoesIs DEF TurnDies, TypedTurns, Outcomes, Ended
<1>3. turnFaults' \in Nat /\ {} \in SUBSET {"ENTRY", "EXIT"}
  BY TurnParts DEF TurnDies, WriteFails
<1> QED
  BY <1>1, <1>2, <1>3, TurnFails, TurnParts

-----------------------------------------------------------------------------
(* The except clauses.                                                     *)

\* What has to be shown of their steps.
LEMMA ReportKeeps ==
    ASSUME TypedTurns, NEW t \in Turns, StillSame, sent' = sent,
           lost' \subseteq Turns, lost \subseteq lost', turnFaults' \in Nat,
           turns[t].at \in {"failing", "event", "report"},
           NEW step \in {"event", "report", "failed", "broken"},
           NEW more \in SUBSET {"EXIT_FAILED", "REQUEST_FAILED", "FAILURE"},
           turns' = [turns EXCEPT ![t] = TurnWith(turns[t], step, more)],
           turns[t].at = "failing" =>
               t \in lost' \/ ~turns[t].slip \/ "EXIT_FAILED" \in more,
           (step \in {"report", "failed"} /\ "RUN" \in turns[t].records) =>
               turns[t].at = "report" \/ "REQUEST_FAILED" \in more,
           step = "failed" => "FAILURE" \in more
    PROVE  TypedTurns'
<1>1. step \in Outcomes /\ more \in SUBSET Records
  BY DEF Outcomes, Running, Ended, Records
<1> DEFINE old == turns[t]
<1> PICK new \in {TurnWith(old, step, more)} : TRUE
  OBVIOUS
<1>0. new = TurnWith(old, step, more) /\ more \in SUBSET Records /\ old \in Turn
  BY <1>1, TurnParts
<1>2. /\ new \in Turn /\ turns' = [turns EXCEPT ![t] = new]
      /\ new.at = step /\ new.records = old.records \cup more
      /\ new.endpoint = old.endpoint /\ new.consent = old.consent /\ new.slip = old.slip
  BY <1>0, <1>1, TurnWithFields
<1>3. /\ GoesWell(old) /\ GoesWrong(t, old) /\ WasPrepared(t, old) /\ IsConnected(t, old)
      /\ connectors' = connectors /\ stale' = stale
      /\ old.at # "none" /\ old.endpoint # NoEndpoint
      /\ old.at \in {"failing", "event", "report"}
      /\ old.at = "failing" => t \in lost' \/ ~old.slip \/ "EXIT_FAILED" \in more
      /\ (step \in {"report", "failed"} /\ "RUN" \in old.records) =>
               old.at = "report" \/ "REQUEST_FAILED" \in more
      /\ step = "failed" => "FAILURE" \in more
      /\ new.at = step /\ new.records = old.records \cup more
      /\ new.endpoint = old.endpoint /\ new.consent = old.consent /\ new.slip = old.slip
  BY <1>2, TurnParts DEF StillSame
<1> HIDE DEF old
<1>4. GoesWell(new)
  BY <1>2 DEF GoesWell, FromSeal, FromExit, FromLineage, FromSources, FromTask,
     FromReply, FromSend, FromReady, FromPrepare
<1>5. GoesWrong(t, new)'
  BY <1>2, <1>3 DEF GoesWrong
<1>6. WasPrepared(t, new)'
  BY <1>2, <1>3 DEF WasPrepared
<1>7. IsConnected(t, new)'
  BY <1>2, <1>3 DEF IsConnected, Running, FromSeal, FromExit, FromLineage, FromSources, FromTask,
     FromReply, FromSend, FromReady, FromPrepare
<1>8. new.at # "none" /\ new.endpoint # NoEndpoint
  BY <1>2, <1>3
<1> QED
  BY <1>2, <1>4, <1>5, <1>6, <1>7, <1>8, TurnKeeps, TurnParts

LEMMA FailSlipKeeps ==
    ASSUME TypedTurns, NEW t \in Turns, FailSlip(t)
    PROVE  TypedTurns'
<1>1. turns[t].at = "failing" /\ StillSame /\ sent' = sent
  BY DEF FailSlip, Does
<1>2. {"event"} \subseteq Outcomes /\ {"EXIT_FAILED"} \subseteq Records
  BY DEF Outcomes, Running, Records
<1>3. CASE turns[t].slip /\ Writes(t, "EXIT_FAILED", "event") /\ UNCHANGED <<lost, turnFaults>>
  <2>1. turns' = [turns EXCEPT ![t] = TurnWith(turns[t], "event", {"EXIT_FAILED"})]
    BY <1>2, <1>3, WritesIs DEF TypedTurns
  <2>2. {"EXIT_FAILED"} \in SUBSET {"EXIT_FAILED", "REQUEST_FAILED", "FAILURE"}
    OBVIOUS
  <2> QED
    BY <1>1, <1>3, <2>1, <2>2, ReportKeeps, TurnParts
<1>4. CASE ~turns[t].slip /\ Goes(t, "event") /\ UNCHANGED <<lost, turnFaults>>
  BY <1>2, <1>4, GoesIs, <1>1, ReportKeeps, TurnParts DEF TypedTurns
<1>5. CASE turns[t].slip /\ Goes(t, "event") /\ WriteFails /\ lost' = lost \cup {t}
  BY <1>2, <1>5, GoesIs, TurnParts, <1>1, ReportKeeps DEF TypedTurns, WriteFails
<1> QED
  BY <1>3, <1>4, <1>5 DEF FailSlip

LEMMA ReportFailureKeeps ==
    ASSUME TypedTurns, NEW t \in Turns, ReportFailure(t)
    PROVE  TypedTurns'
<1>1. StillSame /\ sent' = sent /\ lost' = lost /\ turnFaults' \in Nat
  BY TurnParts DEF ReportFailure, WriteFails
<1>2. /\ {"report", "failed", "broken"} \subseteq Outcomes
      /\ {"REQUEST_FAILED", "FAILURE"} \subseteq Records
      /\ {} \in SUBSET {"EXIT_FAILED", "REQUEST_FAILED", "FAILURE"}
      /\ {"REQUEST_FAILED"} \in SUBSET {"EXIT_FAILED", "REQUEST_FAILED", "FAILURE"}
      /\ {"FAILURE"} \in SUBSET {"EXIT_FAILED", "REQUEST_FAILED", "FAILURE"}
  BY DEF Outcomes, Running, Ended, Records
<1>3. CASE /\ turns[t].at = "event"
           /\ IF "RUN" \in turns[t].records
              THEN Writes(t, "REQUEST_FAILED", "report") ELSE Goes(t, "report")
  <2>1. CASE "RUN" \in turns[t].records
    BY <1>2, <1>3, <2>1, WritesIs, <1>1, ReportKeeps, TurnParts DEF TypedTurns
  <2>2. CASE "RUN" \notin turns[t].records
    BY <1>2, <1>3, <2>2, GoesIs, <1>1, ReportKeeps, TurnParts DEF TypedTurns
  <2> QED
    BY <2>1, <2>2
<1>4. CASE turns[t].at = "report" /\ Writes(t, "FAILURE", "failed")
  BY <1>2, <1>4, WritesIs, <1>1, ReportKeeps, TurnParts DEF TypedTurns
<1>5. CASE turns[t].at \in {"event", "report"} /\ Goes(t, "broken")
  BY <1>2, <1>5, GoesIs, <1>1, ReportKeeps, TurnParts DEF TypedTurns
<1> QED
  BY <1>3, <1>4, <1>5 DEF ReportFailure, Does

-----------------------------------------------------------------------------
LEMMA TurnsStart == TurnInit => TypedTurns
<1> SUFFICES ASSUME TurnInit PROVE TypedTurns
  OBVIOUS
<1>1. NoConnector \in Connector /\ ~NoConnector.active /\ NoTurn \in Turn
      /\ NoTurn.at = "none" /\ NoTurn.records = {} /\ ~NoTurn.slip
  BY DEF NoConnector, Connector, NoTurn, Turn
<1>2. TurnTypeOK
  BY <1>1 DEF TurnInit, TurnTypeOK
<1>3. \A t \in Turns : turns[t] = NoTurn /\ sent[t] = NoEndpoint
  BY DEF TurnInit
<1>4. GoesWell(NoTurn) /\ \A t \in Turns : GoesWrong(t, NoTurn)
  BY <1>1 DEF GoesWell, GoesWrong, FromSeal, FromExit, FromLineage, FromSources, FromTask,
     FromReply, FromSend, FromReady, FromPrepare
<1>5. \A t \in Turns : WasPrepared(t, NoTurn) /\ IsConnected(t, NoTurn)
  BY <1>1, <1>3 DEF WasPrepared, IsConnected, Running
<1>6. \A e \in Endpoints : ~connectors[e].active
  BY <1>1 DEF TurnInit
<1> QED
  BY <1>1, <1>2, <1>3, <1>4, <1>5, <1>6 DEF TypedTurns, TurnInvariant

LEMMA TurnSteps == TypedTurns /\ [TurnNext]_turnVars => TypedTurns'
<1> SUFFICES ASSUME TypedTurns, [TurnNext]_turnVars PROVE TypedTurns'
  OBVIOUS
<1>1. CASE UNCHANGED turnVars
  BY <1>1, TurnsRest, TurnParts DEF turnVars
<1>2. ASSUME NEW e \in Endpoints,
             \/ UpsertConnector(e) \/ ReadForActive(e) \/ DisableConnector(e)
             \/ DeleteConnector(e) \/ AskForModels(e)
             \/ \E t \in Turns, consent \in BOOLEAN : BeginTurn(t, e, consent)
      PROVE  TypedTurns'
  BY <1>2, UpsertConnectorKeeps, DisableConnectorKeeps, DeleteConnectorKeeps,
     DiscoveryKeeps, BeginTurnKeeps
<1>3. ASSUME NEW t \in Turns,
             \/ WriteEntry(t) \/ Prepare(t) \/ RequestReady(t) \/ Send(t) \/ ReadReply(t)
             \/ ResponseReceived(t) \/ PromptReceipts(t) \/ StateTravel(t) \/ WriteExit(t)
             \/ SealSource(t) \/ FailSlip(t) \/ ReportFailure(t) \/ TurnDies(t)
      PROVE  TypedTurns'
  BY <1>3, WriteEntryKeeps, WritingKeeps, SendKeeps, ReadReplyKeeps, WriteExitKeeps,
     SealSourceKeeps, FailSlipKeeps, ReportFailureKeeps, TurnDiesKeeps
<1> QED
  BY <1>1, <1>2, <1>3, SetActiveKeeps, DiscoveryKeeps DEF TurnNext

\* The types of the connectors and of the turns.
THEOREM TurnTypeCorrect == TurnSpec => []TurnTypeOK
<1>1. TypedTurns => TurnTypeOK
  BY DEF TypedTurns
<1> QED
  BY <1>1, TurnsStart, TurnSteps, PTL DEF TurnSpec

\* No endpoint gets a prompt that is not recorded, that the user did not consent to, or
\* that is for another connector (model_execution.py).
THEOREM NothingUnrecorded == TurnSpec => []NothingIsSentUnrecorded
<1>1. TypedTurns => NothingIsSentUnrecorded
  BY TurnParts DEF NothingIsSentUnrecorded, WasPrepared, IsConnected, Runs
<1> QED
  BY <1>1, TurnsStart, TurnSteps, PTL DEF TurnSpec

\* A turn that answered has all its records, and a failure is told (model_execution.py).
THEOREM TurnsClose == TurnSpec => []TurnsAreClosed
<1>1. TypedTurns => TurnsAreClosed
  BY TurnParts DEF TurnsAreClosed, Does, GoesWell, GoesWrong, FromSeal, FromExit,
     FromLineage, FromSources, FromTask, FromReply, FromSend, FromReady, FromPrepare
<1> QED
  BY <1>1, TurnsStart, TurnSteps, PTL DEF TurnSpec

-----------------------------------------------------------------------------
(* The plan: what the operators on the deltas keep.                        *)

\* A set of numbers of deltas has a highest one.
LEMMA HighestThere ==
    ASSUME NEW len \in Nat, NEW S \in SUBSET (1..len), S # {}
    PROVE  \E n \in S : \A m \in S : m <= n
<1> DEFINE T == {len - n : n \in S}
           Less == {pair \in Nat \X Nat : pair[1] < pair[2]}
<1>1. Less = OpToRel(<, Nat)
  BY DEF OpToRel
<1>2. IsWellFoundedOn(Less, Nat)
  BY <1>1, NatLessThanWellFounded
<1> HIDE DEF Less
<1>3. T \subseteq Nat /\ T # {}
  OBVIOUS
<1>4. PICK x \in T : \A y \in T : <<y, x>> \notin Less
  BY <1>2, <1>3, WFMin
<1>5. \A y \in T : ~(y < x)
  BY <1>3, <1>4 DEF Less
<1>6. PICK n \in S : x = len - n
  OBVIOUS
<1>7. \A m \in S : len - m \in T
  OBVIOUS
<1>8. \A m \in S : m <= n
  BY <1>5, <1>6, <1>7
<1> QED
  BY <1>8

LEMMA HighestTyped ==
    ASSUME NEW len \in Nat, NEW S \in SUBSET (1..len)
    PROVE  HighestOf(S) \in Nat
<1>1. CASE S = {}
  BY <1>1 DEF HighestOf
<1>2. CASE S # {}
  <2>1. \E n \in S : \A m \in S : m <= n
    BY <1>2, HighestThere
  <2>2. HighestOf(S) \in S
    BY <1>2, <2>1 DEF HighestOf
  <2>3. \A n \in 1..len : n \in Nat
    OBVIOUS
  <2> QED
    BY <2>2, <2>3
<1> QED
  BY <1>1, <1>2

\* The last one is the highest.
LEMMA HighestOfMore ==
    ASSUME NEW len \in Nat, NEW S \in SUBSET (1..len)
    PROVE  HighestOf(S \cup {len + 1}) = len + 1
<1>1. \A n \in S \cup {len + 1} : (\A m \in S \cup {len + 1} : m <= n) => n = len + 1
  OBVIOUS
<1>2. \A m \in S \cup {len + 1} : m <= len + 1
  OBVIOUS
<1> QED
  BY <1>1, <1>2 DEF HighestOf

\* A row, its lane links and its events tell the same.
RowFits(row) ==
    /\ row.events # <<>>
    /\ row.links = row.disposition
    /\ row.events[Len(row.events)][2] = row.disposition
    /\ \A k \in 2..Len(row.events) : row.events[k][1] = row.events[k - 1][2]

LEMMA NewRowFits ==
    ASSUME NEW source \in Sources, NEW d \in Dispositions, NEW supersedes \in Nat
    PROVE  /\ NewRow(source, d, supersedes) \in DeltaRow
           /\ RowFits(NewRow(source, d, supersedes))
           /\ NewRow(source, d, supersedes).source = source
           /\ NewRow(source, d, supersedes).supersedes = supersedes
<1> DEFINE e == <<<<"NONE", d>>>>
<1>1. /\ e \in Seq((Dispositions \cup {"NONE"}) \X Dispositions)
      /\ e # <<>> /\ Len(e) = 1 /\ e[1][2] = d
  OBVIOUS
<1> HIDE DEF e
<1>2. NewRow(source, d, supersedes) =
          [source |-> source, disposition |-> d, links |-> d, events |-> e, supersedes |-> supersedes]
  BY DEF NewRow, e
<1>3. \A k \in 2..Len(e) : FALSE
  BY <1>1
<1> QED
  BY <1>1, <1>2, <1>3 DEF DeltaRow, RowFits

LEMMA ChangedRowFits ==
    ASSUME NEW row \in DeltaRow, RowFits(row), NEW d \in Dispositions
    PROVE  /\ WithDisposition(row, d) \in DeltaRow
           /\ RowFits(WithDisposition(row, d))
           /\ WithDisposition(row, d).source = row.source
           /\ WithDisposition(row, d).supersedes = row.supersedes
           /\ WithDisposition(row, d).disposition = d
           /\ Len(WithDisposition(row, d).events) > 1
<1> DEFINE E == (Dispositions \cup {"NONE"}) \X Dispositions
           old == row.events
           pair == <<row.disposition, d>>
           e == Append(old, pair)
<1>1. old \in Seq(E) /\ old # <<>> /\ row.disposition \in Dispositions /\ pair \in E
  BY DEF DeltaRow, RowFits
<1>2. pair[1] = row.disposition /\ pair[2] = d
  OBVIOUS
<1>3. old[Len(old)][2] = row.disposition /\ \A k \in 2..Len(old) : old[k][1] = old[k - 1][2]
  BY DEF RowFits
<1>4. WithDisposition(row, d) = [row EXCEPT !.disposition = d, !.links = d, !.events = e]
  BY DEF WithDisposition
<1> HIDE DEF E, old, pair
<1>5. Len(old) \in Nat /\ Len(old) >= 1
  BY <1>1
<1>6. /\ e \in Seq(E) /\ Len(e) = Len(old) + 1 /\ e[Len(e)] = pair /\ e # <<>>
      /\ \A k \in 1..Len(old) : e[k] = old[k]
  BY <1>1, <1>5
<1>7. \A k \in 2..Len(e) : e[k][1] = e[k - 1][2]
  BY <1>3, <1>5, <1>6, <1>2
<1> HIDE DEF e
<1>8. e \in Seq((Dispositions \cup {"NONE"}) \X Dispositions)
  BY <1>6 DEF E
<1>9. /\ WithDisposition(row, d) \in DeltaRow
      /\ WithDisposition(row, d).events = e /\ WithDisposition(row, d).links = d
      /\ WithDisposition(row, d).disposition = d
      /\ WithDisposition(row, d).source = row.source
      /\ WithDisposition(row, d).supersedes = row.supersedes
  BY <1>4, <1>8 DEF DeltaRow
<1> QED
  BY <1>2, <1>5, <1>6, <1>7, <1>9 DEF RowFits

\* The deltas of a plan.
Continued(s, n) ==
    (n + 1 \in DOMAIN s /\ s[n].disposition = "PENDING") =>
        s[n + 1].source \in Plans \/ s[n + 1].supersedes # 0 \/ Len(s[n].events) > 1

DeltasFit(s) ==
    /\ s \in Seq(DeltaRow)
    /\ \A n \in DOMAIN s : RowFits(s[n]) /\ Continued(s, n)
    /\ \A m, n \in DOMAIN s : s[m].source = s[n].source => m = n

Disposed(s, n, d) == [s EXCEPT ![n] = WithDisposition(@, d)]

LEMMA ChangedDeltasFit ==
    ASSUME NEW s, DeltasFit(s), NEW n \in DOMAIN s, NEW d \in Dispositions
    PROVE  LET new == Disposed(s, n, d)
           IN  /\ DeltasFit(new) /\ Len(new) = Len(s) /\ DOMAIN new = DOMAIN s
               /\ \A m \in DOMAIN s : new[m].source = s[m].source
               /\ new[n].disposition = d /\ Len(new[n].events) > 1
<1> DEFINE new == Disposed(s, n, d)
<1>1. s \in Seq(DeltaRow) /\ s[n] \in DeltaRow /\ RowFits(s[n])
  BY DEF DeltasFit
<1>2. PICK row \in DeltaRow : row = WithDisposition(s[n], d)
  BY <1>1, ChangedRowFits
<1>3. /\ RowFits(row) /\ row.source = s[n].source /\ row.supersedes = s[n].supersedes
      /\ row.disposition = d /\ Len(row.events) > 1
  BY <1>1, <1>2, ChangedRowFits
<1>4. new = [s EXCEPT ![n] = row]
  BY <1>2 DEF Disposed
<1> HIDE DEF new
<1>5. /\ new \in Seq(DeltaRow) /\ Len(new) = Len(s) /\ DOMAIN new = DOMAIN s
      /\ new[n] = row /\ \A m \in DOMAIN s : m # n => new[m] = s[m]
  BY <1>1, <1>4, ExceptSeq
<1>6. \A m \in DOMAIN s : new[m].source = s[m].source /\ new[m].supersedes = s[m].supersedes
  BY <1>3, <1>5
<1>7. ASSUME NEW m \in DOMAIN new PROVE RowFits(new[m]) /\ Continued(new, m)
  BY <1>5, <1>7, <1>3, <1>6 DEF DeltasFit, Continued
<1>8. \A m, k \in DOMAIN new : new[m].source = new[k].source => m = k
  BY <1>5, <1>6 DEF DeltasFit
<1>9. DeltasFit(new)
  BY <1>5, <1>7, <1>8 DEF DeltasFit
<1>10. /\ DeltasFit(new) /\ Len(new) = Len(s) /\ DOMAIN new = DOMAIN s
       /\ \A m \in DOMAIN s : new[m].source = s[m].source
       /\ new[n].disposition = d /\ Len(new[n].events) > 1
  BY <1>3, <1>5, <1>6, <1>9
<1> QED
  BY <1>10 DEF new

LEMMA MoreDeltasFit ==
    ASSUME NEW s, DeltasFit(s), NEW row \in DeltaRow, RowFits(row),
           \A n \in DOMAIN s : s[n].source # row.source,
           (s # <<>> /\ s[Len(s)].disposition = "PENDING") =>
               row.source \in Plans \/ row.supersedes # 0 \/ Len(s[Len(s)].events) > 1
    PROVE  /\ DeltasFit(Append(s, row)) /\ Len(Append(s, row)) = Len(s) + 1
           /\ Append(s, row)[Len(s) + 1] = row
           /\ \A n \in DOMAIN s : Append(s, row)[n] = s[n]
<1> DEFINE new == Append(s, row)
<1>1. s \in Seq(DeltaRow) /\ DOMAIN s = 1..Len(s) /\ Len(s) \in Nat
  BY DEF DeltasFit
<1>2. /\ new \in Seq(DeltaRow) /\ Len(new) = Len(s) + 1 /\ new[Len(s) + 1] = row
      /\ \A n \in 1..Len(s) : new[n] = s[n]
      /\ DOMAIN new = 1..(Len(s) + 1)
  BY <1>1, AppendProperties
<1> HIDE DEF new
<1>3. ASSUME NEW n \in DOMAIN new PROVE RowFits(new[n]) /\ Continued(new, n)
  BY <1>1, <1>2, <1>3 DEF Continued, DeltasFit
<1>4. \A m, n \in DOMAIN new : new[m].source = new[n].source => m = n
  BY <1>1, <1>2 DEF DeltasFit
<1>5. DeltasFit(new)
  BY <1>2, <1>3, <1>4 DEF DeltasFit
<1> QED
  BY <1>1, <1>2, <1>5 DEF new

-----------------------------------------------------------------------------
(* The plan: its commands.                                                 *)

TypedPlan == PlanTypeOK /\ PlanInvariant

OfPlan(s) == {n \in DOMAIN s : InPlan(s[n].source)}

PointerFits(p, s) ==
    p.latest = Len(s) /\ p.current = Len(s) /\ p.plan = HighestOf(OfPlan(s))

LEMMA PlanParts ==
    ASSUME TypedPlan
    PROVE  /\ sector \in {"none", "files", "ready"}
           /\ pointer \in Pointer /\ pointerFile \in Pointer
           /\ prompts \subseteq Goal /\ currents \subseteq Goal /\ promptFile \in Goal
           /\ doing \in [step : PlanSteps, command : Commands, source : Sources \cup {0},
                         target : Nat, choice : Dispositions]
           /\ settings \in Nat /\ interruptions \in Nat
           /\ settled \in BOOLEAN /\ recurred \in BOOLEAN
           /\ DeltasFit(rows) /\ PointerFits(pointer, rows)
           /\ CommandFits /\ PromptInPlace
<1>1. PlanTypeOK /\ PlanInvariant
  BY DEF TypedPlan
<1>2. \A n \in DOMAIN rows : RowFits(rows[n]) /\ Continued(rows, n)
  BY <1>1 DEF PlanInvariant, DeltasAreConsistent, ContinuedIsApproved, RowFits, Continued
<1>3. DeltasFit(rows)
  BY <1>1, <1>2 DEF PlanInvariant, DeltasAreConsistent, DeltasFit, PlanTypeOK
<1>4. PointerFits(pointer, rows)
  BY <1>1 DEF PlanInvariant, DeltasAreConsistent, PointerFits, OfPlan
<1> QED
  BY <1>1, <1>3, <1>4 DEF PlanTypeOK, PlanInvariant

\* What has to be shown of a step.
LEMMA PlanKeeps ==
    ASSUME sector' \in {"none", "files", "ready"},
           pointer' \in Pointer, pointerFile' \in Pointer,
           prompts' \subseteq Goal, currents' \subseteq Goal, promptFile' \in Goal,
           doing' \in [step : PlanSteps, command : Commands, source : Sources \cup {0},
                       target : Nat, choice : Dispositions],
           settings' \in Nat, interruptions' \in Nat,
           settled' \in BOOLEAN, recurred' \in BOOLEAN,
           DeltasFit(rows'), PointerFits(pointer', rows'), CommandFits', PromptInPlace'
    PROVE  TypedPlan'
<1>1. PlanTypeOK'
  BY DEF PlanTypeOK, DeltasFit
<1>2. \A n \in DOMAIN rows' : RowFits(rows'[n]) /\ Continued(rows', n)
  BY DEF DeltasFit
<1>3. ContinuedIsApproved' /\ \A n \in DOMAIN rows' : rows'[n].events # <<>>
  BY <1>2 DEF ContinuedIsApproved, Continued, RowFits
<1>4. DeltasAreConsistent'
  BY <1>2 DEF DeltasFit, PointerFits, OfPlan, DeltasAreConsistent, RowFits
<1> QED
  BY <1>1, <1>3, <1>4 DEF TypedPlan, PlanInvariant

LEMMA GoalTyped ==
    ASSUME DeltasFit(rows)
    PROVE  GoalText \in Goal
<1> DEFINE active == {n \in DOMAIN rows : Active(n)}
           chain  == {n \in active : InPlan(rows[n].source)}
           c == {<<n, rows[n].disposition>> : n \in chain}
           f == IF chain # {} THEN HighestOf(chain) ELSE HighestOf(active)
           g == \E n \in active : rows[n].source \in Gated
<1>1. rows \in Seq(DeltaRow) /\ DOMAIN rows = 1..Len(rows) /\ Len(rows) \in Nat
  BY DEF DeltasFit
<1>2. \A n \in DOMAIN rows : n \in Nat /\ rows[n].disposition \in Dispositions
  <2>1. \A n \in DOMAIN rows : n \in Nat /\ rows[n] \in DeltaRow
    BY <1>1
  <2> QED
    BY <2>1 DEF DeltaRow
<1>3. c \in SUBSET (Nat \X Dispositions)
  BY <1>2
<1>4. chain \in SUBSET (1..Len(rows)) /\ active \in SUBSET (1..Len(rows))
  BY <1>1
<1>5. HighestOf(chain) \in Nat /\ HighestOf(active) \in Nat
  BY <1>1, <1>4, HighestTyped
<1>6. f \in Nat
  BY <1>5
<1>7. g \in BOOLEAN
  OBVIOUS
<1>8. GoalText = [chain |-> c, from |-> f, gate |-> g]
  BY DEF GoalText
<1> HIDE DEF c, f, g
<1> QED
  BY <1>3, <1>6, <1>7, <1>8 DEF Goal

LEMMA GoalStays ==
    ASSUME rows' = rows
    PROVE  GoalText' = GoalText
BY DEF GoalText, Active

\* A step that leaves the deltas and their pointer alone.
LEMMA PlanRests ==
    ASSUME TypedPlan, UNCHANGED <<rows, pointer, prompts, currents, promptFile, recurred>>,
           sector' \in {"none", "files", "ready"}, pointerFile' \in Pointer,
           doing' \in [step : PlanSteps, command : Commands, source : Sources \cup {0},
                       target : Nat, choice : Dispositions],
           settings' \in Nat, interruptions' \in Nat, settled' = FALSE,
           doing'.step \notin {"file", "project"}, CommandFits'
    PROVE  TypedPlan'
<1>1. PromptInPlace'
  BY PlanParts DEF PromptInPlace, AtStep
<1> QED
  BY <1>1, PlanParts, PlanKeeps

LEMMA ToStepTyped ==
    ASSUME TypedPlan, NEW step \in PlanSteps, ToStep(step), ~AtStep("idle")
    PROVE  /\ doing' \in [step : PlanSteps, command : Commands, source : Sources \cup {0},
                         target : Nat, choice : Dispositions]
           /\ doing'.step = step /\ CommandFits'
  BY PlanParts DEF ToStep, CommandFits

LEMMA NoCommandTyped ==
    /\ NoCommand \in [step : PlanSteps, command : Commands, source : Sources \cup {0},
                      target : Nat, choice : Dispositions]
    /\ NoCommand.step = "idle"
BY DEF NoCommand, PlanSteps, Commands, Dispositions

LEMMA BeginKeeps ==
    ASSUME TypedPlan, NEW which \in Commands, NEW source \in Sources \cup {0},
           NEW target \in Nat, NEW choice \in Dispositions, settings' \in Nat,
           which = "plan" => source \in Plans, which = "steer" => source \in Steers,
           BeginCommand(which, source, target, choice)
    PROVE  TypedPlan'
<1> DEFINE step == IF sector = "none" THEN "ensure"
                   ELSE IF which = "read" THEN "prompt" ELSE "write"
<1>1. /\ doing' = [step |-> step, command |-> which, source |-> source,
                   target |-> target, choice |-> choice]
      /\ settled' = FALSE
      /\ UNCHANGED <<sector, rows, pointer, prompts, currents, promptFile, pointerFile,
                     interruptions, recurred>>
  BY DEF BeginCommand
<1>2. step \in PlanSteps /\ step \notin {"file", "project"}
  BY DEF PlanSteps
<1> HIDE DEF step
<1>3. /\ doing' \in [step : PlanSteps, command : Commands, source : Sources \cup {0},
                      target : Nat, choice : Dispositions]
      /\ doing'.step = step /\ doing'.command = which /\ doing'.source = source
  BY <1>1, <1>2
<1>4. CommandFits'
  BY <1>3 DEF CommandFits
<1> QED
  BY <1>1, <1>2, <1>3, <1>4, PlanRests, PlanParts

LEMMA CommandsKeep ==
    ASSUME TypedPlan,
           \/ \E source \in Plans : PlanCommand(source)
           \/ \E source \in Steers : SteerCommand(source)
           \/ SetCommand \/ ReadPrompt
    PROVE  TypedPlan'
<1>1. /\ {"plan", "steer", "set", "read"} \subseteq Commands /\ "PENDING" \in Dispositions
      /\ Plans \subseteq Sources /\ Steers \subseteq Sources
  BY DEF Commands, Dispositions, Sources
<1>2. Targets \subseteq Nat
  BY PlanParts DEF Targets, DeltasFit
<1>3. ASSUME NEW source \in Plans, PlanCommand(source) PROVE TypedPlan'
  BY <1>1, <1>3, BeginKeeps, PlanParts DEF PlanCommand
<1>4. ASSUME NEW source \in Steers, SteerCommand(source) PROVE TypedPlan'
  BY <1>1, <1>2, <1>4, BeginKeeps, PlanParts DEF SteerCommand
<1>5. CASE SetCommand
  BY <1>5, PlanParts, <1>1, <1>2, BeginKeeps, PlanAssumption DEF SetCommand
<1>6. CASE ReadPrompt
  BY <1>1, <1>6, BeginKeeps, PlanParts DEF ReadPrompt
<1> QED
  BY <1>3, <1>4, <1>5, <1>6

LEMMA SectorSteps ==
    ASSUME TypedPlan, CreateSector \/ RegisterSector
    PROVE  TypedPlan'
<1>1. ~AtStep("idle") /\ settled = FALSE
  BY PlanParts DEF CreateSector, RegisterSector, AtStep, PromptInPlace
<1>2. EmptyPointer \in Pointer
  BY DEF EmptyPointer, NoGoal, Pointer, Goal, Dispositions
<1>3. CASE CreateSector
  BY <1>1, <1>3, ToStepTyped, <1>2, PlanRests, PlanParts DEF CreateSector, PlanSteps
<1>4. CASE RegisterSector
  BY <1>4, <1>1, ToStepTyped, PlanRests, PlanParts DEF RegisterSector, PlanSteps
<1> QED
  BY <1>3, <1>4

LEMMA InterruptedKeeps ==
    ASSUME TypedPlan, Interrupted
    PROVE  TypedPlan'
<1>1. /\ ~AtStep("idle") /\ doing' = NoCommand /\ interruptions' = interruptions + 1
      /\ sector' \in {sector, "files"}
      /\ UNCHANGED <<rows, pointer, prompts, currents, promptFile, pointerFile, settings,
                     settled, recurred>>
  BY DEF Interrupted
<1>2. settled' = FALSE
  BY <1>1, PlanParts DEF PromptInPlace
<1>3. CommandFits' /\ doing'.step = "idle"
  BY <1>1, NoCommandTyped DEF CommandFits, AtStep
<1>4. /\ doing' \in [step : PlanSteps, command : Commands, source : Sources \cup {0},
                      target : Nat, choice : Dispositions]
      /\ doing'.step \notin {"file", "project"}
  BY <1>1, NoCommandTyped
<1>5. interruptions' \in Nat /\ sector' \in {"none", "files", "ready"}
  BY <1>1, PlanParts
<1> QED
  BY <1>1, <1>2, <1>3, <1>4, <1>5, PlanRests, PlanParts

-----------------------------------------------------------------------------
(* The plan: its writes.                                                   *)

LEMMA HighestAfter ==
    ASSUME NEW s, DeltasFit(s), NEW row \in DeltaRow, NEW new, DeltasFit(new),
           Len(new) = Len(s) + 1, new[Len(s) + 1] = row,
           \A n \in DOMAIN s : new[n].source = s[n].source
    PROVE  HighestOf(OfPlan(new)) =
               IF InPlan(row.source) THEN Len(s) + 1 ELSE HighestOf(OfPlan(s))
<1>1. /\ DOMAIN s = 1..Len(s) /\ Len(s) \in Nat /\ DOMAIN new = 1..(Len(s) + 1)
  BY DEF DeltasFit
<1>2. OfPlan(s) \in SUBSET (1..Len(s))
  BY <1>1 DEF OfPlan
<1>3. OfPlan(new) = IF InPlan(row.source) THEN OfPlan(s) \cup {Len(s) + 1} ELSE OfPlan(s)
  BY <1>1 DEF OfPlan
<1> QED
  BY <1>1, <1>2, <1>3, HighestOfMore

\* A step that adds a row to the deltas, or leaves their number, and goes on to the prompt.
LEMMA WriteKeeps ==
    ASSUME TypedPlan, AtStep("write"), Kept, DeltasFit(rows'),
           pointer' \in Pointer, PointerFits(pointer', rows'), pointer'.prompt = pointer.prompt,
           ToStep("prompt") \/ doing' = NoCommand
    PROVE  TypedPlan'
<1>1. settled = FALSE /\ ~AtStep("idle")
  BY PlanParts DEF AtStep, PromptInPlace
<1>2. UNCHANGED <<sector, prompts, currents, promptFile, pointerFile, settings, interruptions,
                  settled, recurred>>
  BY DEF Kept
<1>3. /\ doing' \in [step : PlanSteps, command : Commands, source : Sources \cup {0},
                      target : Nat, choice : Dispositions]
      /\ doing'.step \in {"prompt", "idle"} /\ CommandFits'
  BY <1>1, ToStepTyped, NoCommandTyped DEF PlanSteps, CommandFits, AtStep
<1>4. PromptInPlace'
  BY <1>1, <1>2, <1>3, PlanParts DEF PromptInPlace, AtStep
<1> QED
  BY <1>2, <1>3, <1>4, PlanParts, PlanKeeps

\* A row is recorded behind deltas that differ from those before in dispositions alone.
LEMMA RecordKeeps ==
    ASSUME TypedPlan, AtStep("write"), Kept, ToStep("prompt"),
           NEW new, DeltasFit(new), Len(new) = Len(rows), DOMAIN new = DOMAIN rows,
           \A n \in DOMAIN rows : new[n].source = rows[n].source,
           NEW source \in Sources, NEW d \in Dispositions, NEW supersedes \in Nat,
           ~Known(source),
           (new # <<>> /\ new[Len(new)].disposition = "PENDING") =>
               source \in Plans \/ supersedes # 0 \/ Len(new[Len(new)].events) > 1,
           Record(new, NewRow(source, d, supersedes))
    PROVE  TypedPlan'
<1> PICK row \in DeltaRow : row = NewRow(source, d, supersedes)
  BY NewRowFits
<1>1. RowFits(row) /\ row.source = source /\ row.supersedes = supersedes
  BY NewRowFits
<1>2. \A n \in DOMAIN new : new[n].source # row.source
  BY <1>1 DEF Known
<1>3. (new # <<>> /\ new[Len(new)].disposition = "PENDING") =>
          row.source \in Plans \/ row.supersedes # 0 \/ Len(new[Len(new)].events) > 1
  BY <1>1
<1>4. /\ rows' = Append(new, row)
      /\ pointer' = [pointer EXCEPT
                      !.current = Len(new) + 1, !.latest = Len(new) + 1,
                      !.plan = IF InPlan(row.source) THEN Len(new) + 1 ELSE @]
  BY DEF Record
<1>5. /\ DeltasFit(rows') /\ Len(rows') = Len(new) + 1 /\ rows'[Len(new) + 1] = row
      /\ \A n \in DOMAIN new : rows'[n] = new[n]
  BY SMTT(30), <1>1, <1>2, <1>3, <1>4, MoreDeltasFit
<1>6. Len(new) \in Nat /\ DeltasFit(rows) /\ PointerFits(pointer, rows) /\ pointer \in Pointer
  BY PlanParts DEF DeltasFit
<1>7. HighestOf(OfPlan(rows')) =
          IF InPlan(row.source) THEN Len(rows) + 1 ELSE HighestOf(OfPlan(rows))
  BY <1>5, <1>6, HighestAfter
<1> PICK plan \in Nat : plan = IF InPlan(row.source) THEN Len(new) + 1 ELSE pointer.plan
  BY <1>6 DEF Pointer
<1>4a. pointer' = [pointer EXCEPT !.current = Len(new) + 1, !.latest = Len(new) + 1, !.plan = plan]
  BY <1>4
<1>8. /\ pointer' \in Pointer /\ pointer'.prompt = pointer.prompt
      /\ pointer'.latest = Len(new) + 1 /\ pointer'.current = Len(new) + 1
      /\ pointer'.plan = IF InPlan(row.source) THEN Len(new) + 1 ELSE pointer.plan
  <2>1. /\ pointer' \in Pointer /\ pointer'.prompt = pointer.prompt
        /\ pointer'.latest = Len(new) + 1 /\ pointer'.current = Len(new) + 1
        /\ pointer'.plan = plan
    <3>1. Len(new) + 1 \in Nat
      BY <1>6
    <3> QED
      BY <1>4a, <1>6, <3>1 DEF Pointer
  <2> QED
    BY <2>1
<1>9. PointerFits(pointer', rows')
  BY <1>5, <1>6, <1>7, <1>8 DEF PointerFits
<1> QED
  BY <1>5, <1>8, <1>9, WriteKeeps

LEMMA RegisterPlanKeeps ==
    ASSUME TypedPlan, RegisterPlan
    PROVE  TypedPlan'
<1>1. AtStep("write") /\ Kept /\ ToStep("prompt") /\ doing.source \in Plans
  BY PlanParts DEF RegisterPlan, CommandFits, AtStep
<1>2. CASE Known(doing.source)
  BY <1>2, <1>1, WriteKeeps, PlanParts DEF RegisterPlan
<1>3. CASE ~Known(doing.source)
  BY <1>3, <1>1, PlanParts, RecordKeeps DEF RegisterPlan, Sources, Dispositions
<1> QED
  BY <1>2, <1>3

LEMMA AppendSteerKeeps ==
    ASSUME TypedPlan, AppendSteer
    PROVE  TypedPlan'
<1> DEFINE target == doing.target
           prior  == pointer.current
<1>1. AtStep("write") /\ Kept /\ doing.source \in Steers /\ doing.source \in Sources
  BY PlanParts DEF AppendSteer, CommandFits, AtStep, Sources
<1>2. /\ DeltasFit(rows) /\ prior = Len(rows) /\ target \in Nat
      /\ {"PENDING", "APPROVED", "SUPERSEDED"} \subseteq Dispositions
      /\ DOMAIN rows = 1..Len(rows) /\ Len(rows) \in Nat
  BY PlanParts DEF PointerFits, Dispositions, DeltasFit
<1>3. CASE UNCHANGED <<rows, pointer>> /\ (ToStep("prompt") \/ doing' = NoCommand)
  BY <1>1, <1>3, WriteKeeps, PlanParts
<1>4. CASE /\ ~Known(doing.source) /\ target \in DOMAIN rows
           /\ Record([rows EXCEPT ![target] = WithDisposition(@, "SUPERSEDED")],
                     NewRow(doing.source, "PENDING", target))
           /\ ToStep("prompt")
  <2> DEFINE changed == Disposed(rows, target, "SUPERSEDED")
  <2>0. "SUPERSEDED" \in Dispositions
    BY <1>2
  <2>1. /\ DeltasFit(changed) /\ Len(changed) = Len(rows) /\ DOMAIN changed = DOMAIN rows
        /\ \A m \in DOMAIN rows : changed[m].source = rows[m].source
    <3>1. DeltasFit(rows) /\ doing.target \in DOMAIN rows
      BY <1>2, <1>4
    <3> QED
      BY <2>0, <3>1, ChangedDeltasFit
  <2>2. target # 0
    BY <1>2, <1>4
  <2>3. Record(changed, NewRow(doing.source, "PENDING", target))
    BY <1>4 DEF Disposed
  <2> HIDE DEF changed
  <2> QED
    BY <1>1, <1>2, <1>4, <2>1, <2>2, <2>3, RecordKeeps
<1>5. CASE /\ ~Known(doing.source) /\ prior # 0 /\ rows[prior].disposition = "PENDING"
           /\ Record([rows EXCEPT ![prior] = WithDisposition(@, "APPROVED")],
                     NewRow(doing.source, "PENDING", 0))
           /\ ToStep("prompt")
  <2> DEFINE changed == Disposed(rows, prior, "APPROVED")
  <2>1. prior \in DOMAIN rows
    BY <1>2, <1>5
  <2>0. "APPROVED" \in Dispositions
    BY <1>2
  <2>2. /\ DeltasFit(changed) /\ Len(changed) = Len(rows) /\ DOMAIN changed = DOMAIN rows
        /\ \A m \in DOMAIN rows : changed[m].source = rows[m].source
        /\ changed[prior].disposition = "APPROVED"
    <3>1. DeltasFit(rows) /\ pointer.current \in DOMAIN rows
      BY <1>2, <2>1
    <3> QED
      BY <2>0, <3>1, ChangedDeltasFit
  <2>3. Record(changed, NewRow(doing.source, "PENDING", 0))
    BY <1>5 DEF Disposed
  <2>4. changed[Len(changed)].disposition # "PENDING"
    BY <1>2, <2>2
  <2> HIDE DEF changed
  <2> QED
    BY <1>1, <1>2, <1>5, <2>2, <2>3, <2>4, RecordKeeps
<1>6. CASE /\ ~Known(doing.source) /\ ~(prior # 0 /\ rows[prior].disposition = "PENDING")
           /\ Record(rows, NewRow(doing.source, "PENDING", 0))
           /\ ToStep("prompt")
  BY <1>2, <1>6, <1>1, RecordKeeps DEF DeltasFit
<1> QED
  BY <1>3, <1>4, <1>5, <1>6 DEF AppendSteer

LEMMA SetDispositionKeeps ==
    ASSUME TypedPlan, SetDisposition
    PROVE  TypedPlan'
<1>1. AtStep("write") /\ Kept /\ pointer' = pointer /\ (ToStep("prompt") \/ doing' = NoCommand)
  BY DEF SetDisposition
<1>2. DeltasFit(rows) /\ PointerFits(pointer, rows) /\ doing.choice \in Dispositions
  BY PlanParts
<1>3. CASE rows' = rows
  BY <1>1, <1>2, <1>3, WriteKeeps, PlanParts
<1>4. CASE /\ doing.target \in DOMAIN rows
           /\ rows' = [rows EXCEPT ![doing.target] = WithDisposition(@, doing.choice)]
  <2> DEFINE changed == Disposed(rows, doing.target, doing.choice)
  <2>1. /\ DeltasFit(changed) /\ Len(changed) = Len(rows) /\ DOMAIN changed = DOMAIN rows
        /\ \A m \in DOMAIN rows : changed[m].source = rows[m].source
    BY <1>2, <1>4, ChangedDeltasFit
  <2>2. rows' = changed
    BY <1>4 DEF Disposed
  <2> HIDE DEF changed
  <2>3. PointerFits(pointer', rows')
    BY <2>1, <2>2, <1>1, <1>2 DEF OfPlan, PointerFits
  <2> QED
    BY <1>1, <2>1, <2>2, <2>3, WriteKeeps, PlanParts
<1> QED
  BY <1>3, <1>4 DEF SetDisposition

LEMMA WritePromptKeeps ==
    ASSUME TypedPlan, WritePrompt
    PROVE  TypedPlan'
<1>1. /\ AtStep("prompt") /\ ToStep("file")
      /\ UNCHANGED <<sector, rows, promptFile, pointerFile, settings, interruptions, settled>>
  BY DEF WritePrompt
<1>2. ~AtStep("idle") /\ settled' = FALSE
  BY <1>1, PlanParts DEF AtStep, PromptInPlace
<1>3. /\ doing' \in [step : PlanSteps, command : Commands, source : Sources \cup {0},
                      target : Nat, choice : Dispositions]
      /\ doing'.step = "file" /\ CommandFits'
  BY <1>1, <1>2, ToStepTyped DEF PlanSteps
<1>4. GoalText \in Goal /\ GoalText' = GoalText
  BY <1>1, GoalTyped, GoalStays, PlanParts
<1>5. pointer' \in {pointer, [pointer EXCEPT !.prompt = GoalText]}
  BY DEF WritePrompt
<1>6. /\ pointer' \in Pointer
      /\ pointer'.latest = pointer.latest /\ pointer'.current = pointer.current
      /\ pointer'.plan = pointer.plan
  BY <1>4, <1>5, PlanParts DEF Pointer
<1>7. PointerFits(pointer', rows')
  BY <1>1, <1>6, PlanParts DEF PointerFits
<1>8. pointer'.prompt = GoalText /\ GoalText \in prompts'
  BY PlanParts DEF Pointer, WritePrompt
<1>9. /\ prompts' \subseteq Goal /\ currents' \subseteq Goal /\ recurred' \in BOOLEAN
  BY <1>4, PlanParts DEF WritePrompt
<1>10. recurred' \/ currents' = {pointer'.prompt}
  BY <1>8, PlanParts DEF WritePrompt, PromptInPlace
<1>11. PromptInPlace'
  BY <1>2, <1>3, <1>4, <1>8, <1>10 DEF PromptInPlace, AtStep
<1> QED
  BY <1>1, <1>2, <1>3, <1>6, <1>7, <1>9, <1>11, PlanKeeps, PlanParts

LEMMA FilesKeep ==
    ASSUME TypedPlan, WritePromptFile \/ ProjectPointer
    PROVE  TypedPlan'
<1>1. /\ UNCHANGED <<sector, rows, pointer, prompts, currents, settings, interruptions, recurred>>
      /\ ~AtStep("idle") /\ settled = FALSE
  BY PlanParts DEF WritePromptFile, ProjectPointer, AtStep, PromptInPlace
<1>2. GoalText \in Goal /\ GoalText' = GoalText
  BY <1>1, GoalTyped, GoalStays, PlanParts
<1>3. CASE WritePromptFile
  BY <1>3, <1>1, ToStepTyped, <1>2, PlanParts, PlanKeeps DEF WritePromptFile, PlanSteps,
     PromptInPlace, AtStep
<1>4. CASE ProjectPointer
  BY <1>4, NoCommandTyped, <1>1, <1>2, PlanParts, PlanKeeps DEF ProjectPointer,
     CommandFits, AtStep, PromptInPlace
<1> QED
  BY <1>3, <1>4

-----------------------------------------------------------------------------
LEMMA PlanStarts == PlanInit => TypedPlan
<1> SUFFICES ASSUME PlanInit PROVE TypedPlan
  OBVIOUS
<1>1. EmptyPointer \in Pointer /\ NoGoal \in Goal
  BY DEF EmptyPointer, NoGoal, Pointer, Goal, Dispositions
<1>2. PlanTypeOK
  <2>1. rows \in Seq(DeltaRow)
    BY DEF PlanInit
  <2> QED
    BY <1>1, <2>1, NoCommandTyped DEF PlanInit, PlanTypeOK
<1>3. /\ rows = <<>> /\ DOMAIN rows = {} /\ Len(rows) = 0
      /\ pointer.latest = 0 /\ pointer.current = 0 /\ pointer.plan = 0
  BY DEF PlanInit, EmptyPointer
<1>4. {n \in DOMAIN rows : InPlan(rows[n].source)} = {} /\ HighestOf({}) = 0
  BY <1>3 DEF HighestOf
<1>5. DeltasAreConsistent
  BY <1>3, <1>4 DEF DeltasAreConsistent
<1>6. ContinuedIsApproved /\ \A n \in DOMAIN rows : rows[n].events # <<>>
  BY <1>3 DEF ContinuedIsApproved
<1>7. CommandFits /\ PromptInPlace
  BY NoCommandTyped DEF PlanInit, CommandFits, PromptInPlace, AtStep
<1> QED
  BY <1>2, <1>5, <1>6, <1>7 DEF TypedPlan, PlanInvariant

LEMMA PlanMoves == TypedPlan /\ [PlanNext]_planVars => TypedPlan'
<1> SUFFICES ASSUME TypedPlan, [PlanNext]_planVars PROVE TypedPlan'
  OBVIOUS
<1>1. CASE UNCHANGED planVars
  BY <1>1, GoalStays, PlanParts, PlanKeeps DEF planVars, CommandFits, PromptInPlace, AtStep
<1> QED
  BY <1>1, CommandsKeep, SectorSteps, RegisterPlanKeeps, AppendSteerKeeps,
     SetDispositionKeeps, WritePromptKeeps, FilesKeep, InterruptedKeeps DEF PlanNext

\* The types of the deltas, the prompts and the running command.
THEOREM PlanTypeCorrect == PlanSpec => []PlanTypeOK
<1>1. TypedPlan => PlanTypeOK
  BY DEF TypedPlan
<1> QED
  BY <1>1, PlanStarts, PlanMoves, PTL DEF PlanSpec

\* The deltas are consistent, a delta that was gone on from is approved, and a command
\* that came to its end leaves the prompt of the deltas (plan_delta_governance.py).
THEOREM PlanKept == PlanSpec => []PlanIsKept
<1>1. TypedPlan => PlanIsKept
  BY PlanParts DEF TypedPlan, PlanInvariant, PlanIsKept, PromptInPlace, PromptFollowsDeltas
<1> QED
  BY <1>1, PlanStarts, PlanMoves, PTL DEF PlanSpec

-----------------------------------------------------------------------------
(* The session evidence: folders of outputs.                               *)

TypedEvidence == EvidenceTypeOK /\ EvidenceInvariant

ObjectStates == {"absent", "open", "sealed", "edited"}

PutObject(o, k, state) == [o EXCEPT !.objects = [@ EXCEPT ![k] = state]]
PutReceipt(o, text, receipt) == [o EXCEPT !.receipts = [@ EXCEPT ![text] = receipt]]
PutRow(o, b, row) == [o EXCEPT !.owner = b, !.index = Append(@, row)]

LEMMA PutObjectFields ==
    ASSUME NEW o \in Outputs, NEW k \in ObjectKeys, NEW state \in ObjectStates
    PROVE  /\ PutObject(o, k, state) \in Outputs
           /\ PutObject(o, k, state).objects = [o.objects EXCEPT ![k] = state]
           /\ PutObject(o, k, state).owner = o.owner
           /\ PutObject(o, k, state).receipts = o.receipts
           /\ PutObject(o, k, state).index = o.index
BY DEF PutObject, Outputs, ObjectStates

LEMMA PutReceiptFields ==
    ASSUME NEW o \in Outputs, NEW text \in OutputTexts, NEW receipt \in Receipt
    PROVE  /\ PutReceipt(o, text, receipt) \in Outputs
           /\ PutReceipt(o, text, receipt).receipts = [o.receipts EXCEPT ![text] = receipt]
           /\ PutReceipt(o, text, receipt).owner = o.owner
           /\ PutReceipt(o, text, receipt).objects = o.objects
           /\ PutReceipt(o, text, receipt).index = o.index
BY DEF PutReceipt, Outputs

LEMMA PutRowFields ==
    ASSUME NEW o \in Outputs, NEW b \in BrainsSeen, NEW row \in IndexRow
    PROVE  /\ PutRow(o, b, row) \in Outputs
           /\ PutRow(o, b, row).index = Append(o.index, row)
           /\ PutRow(o, b, row).owner = b
           /\ PutRow(o, b, row).objects = o.objects
           /\ PutRow(o, b, row).receipts = o.receipts
<1>1. Append(o.index, row) \in Seq(IndexRow)
  BY DEF Outputs
<1> QED
  BY <1>1 DEF PutRow, Outputs

\* A hand touches more objects, and the workspace moves on: a folder stays sound.
LEMMA SoundStays ==
    ASSUME handled \subseteq handled', place \in Nat, place' \in Nat, place <= place'
    PROVE  \A o \in Outputs : FolderSound(o) => FolderSound(o)'
<1> SUFFICES ASSUME NEW o \in Outputs, FolderSound(o) PROVE FolderSound(o)'
  OBVIOUS
<1>1. \A i \in DOMAIN o.index : o.index[i] \in IndexRow
  BY DEF Outputs
<1>2. \A i \in DOMAIN o.index : o.index[i].place \in Nat
  BY <1>1 DEF IndexRow
<1> QED
  BY <1>2 DEF FolderSound

\* Writing or touching an object of a folder.
LEMMA ObjectSound ==
    ASSUME NEW o \in Outputs, NEW k \in ObjectKeys, NEW state \in ObjectStates,
           FolderSound(o), handled \subseteq handled', place' = place,
           state \in {"absent", "edited"} => k \in handled'
    PROVE  FolderSound(PutObject(o, k, state))'
<1> PICK new \in {PutObject(o, k, state)} : TRUE
  OBVIOUS
<1>1. /\ new \in Outputs /\ new.objects = [o.objects EXCEPT ![k] = state]
      /\ new.receipts = o.receipts /\ new.index = o.index
  BY PutObjectFields
<1>2. o.objects \in [ObjectKeys -> ObjectStates]
  BY DEF Outputs, ObjectStates
<1>3. \A x \in ObjectKeys : new.objects[x] = IF x = k THEN state ELSE o.objects[x]
  BY <1>1, <1>2
<1>4. \A i \in DOMAIN o.index : <<o.index[i].text, o.index[i].media>> \in ObjectKeys
  <2>1. \A i \in DOMAIN o.index : o.index[i] \in IndexRow
    BY DEF Outputs
  <2> QED
    BY <2>1 DEF IndexRow, ObjectKeys
<1>5. \A x \in ObjectKeys : o.objects[x] = "edited" => x \in handled
  BY DEF FolderSound
<1>6. \A x \in ObjectKeys : new.objects[x] = "edited" => x \in handled'
  BY <1>3, <1>5
<1>7. ASSUME NEW i \in DOMAIN o.index
      PROVE  \/ <<o.index[i].text, o.index[i].media>> \in handled'
             \/ new.objects[<<o.index[i].text, o.index[i].media>>] \in {"open", "sealed"}
  <2> DEFINE x == <<o.index[i].text, o.index[i].media>>
  <2>1. x \in handled \/ o.objects[x] \in {"open", "sealed"}
    BY <1>7 DEF FolderSound
  <2>2. x \in ObjectKeys
    BY <1>4, <1>7
  <2> HIDE DEF x
  <2>3. x \in handled' \/ new.objects[x] \in {"open", "sealed"}
    BY <1>3, <2>1, <2>2 DEF ObjectStates
  <2> QED
    BY <2>3 DEF x
<1>8. FolderSound(new)'
  BY <1>1, <1>6, <1>7 DEF FolderSound
<1> QED
  BY <1>8

\* The first receipt of a text, which is in no row.
LEMMA ReceiptSound ==
    ASSUME NEW o \in Outputs, NEW text \in OutputTexts, NEW receipt \in Receipt,
           FolderSound(o), o.receipts[text] = NoOutput
    PROVE  FolderSound(PutReceipt(o, text, receipt))
<1> PICK new \in {PutReceipt(o, text, receipt)} : TRUE
  OBVIOUS
<1>1. /\ new.receipts = [o.receipts EXCEPT ![text] = receipt]
      /\ new.objects = o.objects /\ new.index = o.index
  BY PutReceiptFields
<1>2. o.receipts \in [OutputTexts -> Receipt \cup {NoOutput}]
  BY DEF Outputs
<1>3. ASSUME NEW i \in DOMAIN o.index
      PROVE  new.receipts[o.index[i].text] = o.receipts[o.index[i].text]
  <2>1. o.index[i] \in IndexRow
    BY <1>3 DEF Outputs
  <2>2. o.receipts[o.index[i].text] \in Receipt
    <3>1. o.receipts[o.index[i].text] =
              [media |-> o.index[i].media, proposal |-> o.index[i].proposal]
      BY <1>3 DEF FolderSound
    <3> QED
      BY <2>1, <3>1 DEF IndexRow, Receipt
  <2>3. o.index[i].text # text
    BY <2>2, AbsentIsNoOutput
  <2> QED
    BY <1>1, <1>2, <2>1, <2>3 DEF IndexRow
<1>4. FolderSound(new)
  BY <1>1, <1>3 DEF FolderSound
<1> QED
  BY <1>4

\* The first row of a text, as its receipt says.
LEMMA RowSound ==
    ASSUME NEW o \in Outputs, NEW b \in BrainsSeen, NEW row \in IndexRow,
           FolderSound(o), place \in Nat,
           \A i \in DOMAIN o.index : o.index[i].text # row.text,
           o.receipts[row.text] = [media |-> row.media, proposal |-> row.proposal],
           \/ <<row.text, row.media>> \in handled
           \/ o.objects[<<row.text, row.media>>] \in {"open", "sealed"},
           row.place = place
    PROVE  FolderSound(PutRow(o, b, row))
<1> PICK new \in {PutRow(o, b, row)} : TRUE
  OBVIOUS
<1>1. /\ new.receipts = o.receipts /\ new.objects = o.objects
      /\ new.index = Append(o.index, row)
  BY PutRowFields
<1>2. o.index \in Seq(IndexRow)
  BY DEF Outputs
<1>3. /\ DOMAIN new.index = 1..(Len(o.index) + 1) /\ DOMAIN o.index = 1..Len(o.index)
      /\ Len(o.index) \in Nat
      /\ \A i \in 1..Len(o.index) : new.index[i] = o.index[i]
      /\ new.index[Len(o.index) + 1] = row
  BY <1>1, <1>2
<1>4. \A i \in DOMAIN new.index :
         \/ i \in DOMAIN o.index /\ new.index[i] = o.index[i]
         \/ i = Len(o.index) + 1 /\ new.index[i] = row
  BY <1>3
<1>5. \A i, j \in DOMAIN new.index : new.index[i].text = new.index[j].text => i = j
  BY <1>4 DEF FolderSound
<1>6. ASSUME NEW i \in DOMAIN new.index, NEW r \in {new.index[i]}
      PROVE  /\ new.receipts[r.text] = [media |-> r.media, proposal |-> r.proposal]
             /\ \/ <<r.text, r.media>> \in handled
                \/ new.objects[<<r.text, r.media>>] \in {"open", "sealed"}
             /\ r.place <= place
  <2>1. CASE i \in DOMAIN o.index /\ new.index[i] = o.index[i]
    <3> PICK q \in {o.index[i]} : TRUE
      OBVIOUS
    <3>1. /\ o.receipts[q.text] = [media |-> q.media, proposal |-> q.proposal]
          /\ \/ <<q.text, q.media>> \in handled
             \/ o.objects[<<q.text, q.media>>] \in {"open", "sealed"}
          /\ q.place <= place
      BY <2>1 DEF FolderSound
    <3>2. r = q
      BY <1>6, <2>1
    <3> QED
      BY <1>1, <3>1, <3>2
  <2>2. CASE i = Len(o.index) + 1 /\ new.index[i] = row
    BY <1>1, <1>6, <2>2
  <2> QED
    BY <1>4, <1>6, <2>1, <2>2
<1>7. FolderSound(new)
  BY <1>1, <1>5, <1>6 DEF FolderSound
<1> QED
  BY <1>7

-----------------------------------------------------------------------------
(* The session evidence: what a step leaves alone.                         *)

LEMMA EvidenceParts ==
    TypedEvidence =>
        /\ outputs \in [BrainsSeen -> Outputs \cup {NoCopy}]
        /\ command \in [BrainsSeen -> SessionCommand]
        /\ reported \in [BrainsSeen -> SUBSET IndexRow]
        /\ refused \in [BrainsSeen -> SUBSET Refusal]
        /\ confirmed \in [BrainsSeen -> SUBSET Confirmation]
        /\ accepts \in [BrainsSeen -> Seq(Acceptance)]
        /\ versioned \in Outputs \cup {NoCopy} /\ inCandidate \in Outputs \cup {NoCopy}
        /\ place \in Nat /\ clock \in Nat
        /\ FoldersFit /\ AcceptancesFit /\ SelectionFits
BY DEF TypedEvidence, EvidenceTypeOK, EvidenceInvariant, AnswersTyped

\* What fits a brain still fits when hands have touched more, more was copied and the
\* workspace has moved on.
LEMMA BrainStays ==
    ASSUME handled \subseteq handled', loosened \subseteq loosened',
           place \in Nat, place' \in Nat, place <= place'
    PROVE  \A b \in BrainsSeen, o \in Outputs, c \in SessionCommand,
              said \in SUBSET IndexRow, no \in SUBSET Refusal :
              BrainFits(b, o, c, said, no) => BrainFits(b, o, c, said, no)'
<1> SUFFICES ASSUME NEW b \in BrainsSeen, NEW o \in Outputs, NEW c \in SessionCommand,
                    NEW said \in SUBSET IndexRow, NEW no \in SUBSET Refusal,
                    BrainFits(b, o, c, said, no)
             PROVE  BrainFits(b, o, c, said, no)'
  OBVIOUS
<1>1. FolderSound(o)'
  BY SoundStays DEF BrainFits
<1>2. StepFits(o, c)'
  BY DEF BrainFits, StepFits
<1>3. ASSUME NEW r \in no PROVE RefusedRightly(b, o, r)'
  BY DEF BrainFits, RefusedRightly
<1> QED
  BY <1>1, <1>2, <1>3 DEF BrainFits

LEMMA CopyStays ==
    ASSUME handled \subseteq handled', place \in Nat, place' \in Nat, place <= place'
    PROVE  \A o \in Outputs \cup {NoCopy} : CopyFits(o) => CopyFits(o)'
  BY AbsentIsNoOutput, SoundStays DEF CopyFits

\* The copies, where none is made.
LEMMA CopiesStay ==
    ASSUME TypedEvidence, UNCHANGED <<versioned, inCandidate>>, handled \subseteq handled',
           place' \in Nat, place <= place'
    PROVE  CopyFits(versioned)' /\ CopyFits(inCandidate)'
<1>1. CopyFits(versioned) /\ CopyFits(inCandidate)
  BY EvidenceParts DEF FoldersFit
<1>2. /\ versioned \in Outputs \cup {NoCopy} /\ inCandidate \in Outputs \cup {NoCopy}
      /\ place \in Nat
  BY EvidenceParts
<1>3. \A o \in Outputs \cup {NoCopy} : CopyFits(o) => CopyFits(o)'
  BY <1>2, CopyStays
<1> QED
  BY <1>1, <1>2, <1>3 DEF CopyFits, FolderSound

\* What fits the outputs, the command and the answers a step gives a brain fits the brain.
LEMMA GivenFits ==
    ASSUME NEW b \in BrainsSeen, NEW o, NEW c, NEW said, NEW no,
           outputs'[b] = o, command'[b] = c, reported'[b] = said, refused'[b] = no,
           BrainFits(b, o, c, said, no)'
    PROVE  BrainFits(b, outputs[b], command[b], reported[b], refused[b])'
<1>1. FolderSound(outputs[b])'
  BY DEF BrainFits, FolderSound
<1>2. StepFits(outputs[b], command[b])'
  BY DEF BrainFits, StepFits
<1>3. \A r \in refused'[b] : RefusedRightly(b, outputs[b], r)'
  BY DEF BrainFits, RefusedRightly
<1> QED
  BY <1>1, <1>2, <1>3 DEF BrainFits

\* The brains, where nothing runs on them and nothing replaces them.
LEMMA FoldersStay ==
    ASSUME TypedEvidence, UNCHANGED <<outputs, command, reported, refused>>,
           handled \subseteq handled', loosened \subseteq loosened',
           place' \in Nat, place <= place',
           CopyFits(versioned)', CopyFits(inCandidate)'
    PROVE  FoldersFit'
<1>1. ASSUME NEW x \in BrainsSeen
      PROVE  /\ IsThere(x)' => BrainFits(x, outputs[x], command[x], reported[x], refused[x])'
             /\ ~IsThere(x)' => command'[x].step = "idle" /\ reported'[x] = {}
                                    /\ refused'[x] = {}
  <2>1. CASE IsThere(x)
    <3>1. BrainFits(x, outputs[x], command[x], reported[x], refused[x])
      BY <2>1, EvidenceParts DEF FoldersFit
    <3>2. /\ outputs[x] \in Outputs /\ command[x] \in SessionCommand
          /\ reported[x] \in SUBSET IndexRow /\ refused[x] \in SUBSET Refusal
      BY <2>1, EvidenceParts DEF IsThere
    <3> PICK o \in {outputs[x]}, d \in {command[x]}, t \in {reported[x]}, n \in {refused[x]} :
               TRUE
      OBVIOUS
    <3>3. BrainFits(x, o, d, t, n)'
      BY <3>1, <3>2, EvidenceParts, BrainStays
    <3>4. outputs'[x] = o /\ command'[x] = d /\ reported'[x] = t /\ refused'[x] = n
      OBVIOUS
    <3>5. BrainFits(x, outputs[x], command[x], reported[x], refused[x])'
      BY <3>3, <3>4, GivenFits
    <3> QED
      BY <2>1, <3>5 DEF IsThere
  <2>2. CASE ~IsThere(x)
    BY <2>2, EvidenceParts DEF FoldersFit, IsThere
  <2> QED
    BY <2>1, <2>2
<1> QED
  BY <1>1 DEF FoldersFit

\* A step of a brain that leaves the other brain alone.
LEMMA BrainMoves ==
    ASSUME TypedEvidence, NEW b \in BrainsSeen,
           NEW new \in Outputs, NEW c \in SessionCommand,
           NEW said \in SUBSET IndexRow, NEW no \in SUBSET Refusal,
           outputs' = [outputs EXCEPT ![b] = new],
           command' = [command EXCEPT ![b] = c],
           reported' = [reported EXCEPT ![b] = said],
           refused' = [refused EXCEPT ![b] = no],
           handled \subseteq handled', loosened \subseteq loosened', place' = place,
           CopyFits(versioned)', CopyFits(inCandidate)',
           BrainFits(b, new, c, said, no)'
    PROVE  /\ FoldersFit'
           /\ outputs' \in [BrainsSeen -> Outputs \cup {NoCopy}]
           /\ command' \in [BrainsSeen -> SessionCommand]
           /\ reported' \in [BrainsSeen -> SUBSET IndexRow]
           /\ refused' \in [BrainsSeen -> SUBSET Refusal]
<1>1. /\ outputs' \in [BrainsSeen -> Outputs \cup {NoCopy}]
      /\ command' \in [BrainsSeen -> SessionCommand]
      /\ reported' \in [BrainsSeen -> SUBSET IndexRow]
      /\ refused' \in [BrainsSeen -> SUBSET Refusal]
  BY EvidenceParts
<1>2. place \in Nat /\ place' = place /\ place <= place'
  BY EvidenceParts
<1>4. ASSUME NEW x \in BrainsSeen
      PROVE  /\ IsThere(x)' => BrainFits(x, outputs[x], command[x], reported[x], refused[x])'
             /\ ~IsThere(x)' => command'[x].step = "idle" /\ reported'[x] = {}
                                    /\ refused'[x] = {}
  <2>1. CASE x = b
    BY <2>1, EvidenceParts, AbsentIsNoOutput, GivenFits DEF IsThere
  <2>2. CASE x # b
    <3>1. /\ outputs'[x] = outputs[x] /\ command'[x] = command[x]
          /\ reported'[x] = reported[x] /\ refused'[x] = refused[x]
      BY <2>2, EvidenceParts
    <3>2. CASE IsThere(x)
      <4>1. BrainFits(x, outputs[x], command[x], reported[x], refused[x])
        BY <3>2, EvidenceParts DEF FoldersFit
      <4>2. /\ outputs[x] \in Outputs /\ command[x] \in SessionCommand
            /\ reported[x] \in SUBSET IndexRow /\ refused[x] \in SUBSET Refusal
        BY <3>2, EvidenceParts DEF IsThere
      <4> PICK o \in {outputs[x]}, d \in {command[x]}, t \in {reported[x]}, n \in {refused[x]} :
                 TRUE
        OBVIOUS
      <4>3. BrainFits(x, o, d, t, n)'
        BY <1>2, <4>1, <4>2, BrainStays
      <4>4. outputs'[x] = o /\ command'[x] = d /\ reported'[x] = t /\ refused'[x] = n
        BY <3>1
      <4>5. BrainFits(x, outputs[x], command[x], reported[x], refused[x])'
        BY <4>3, <4>4, GivenFits
      <4> QED
        BY <3>1, <3>2, <4>5 DEF IsThere
    <3>3. CASE ~IsThere(x)
      BY <3>1, <3>3, EvidenceParts DEF FoldersFit, IsThere
    <3> QED
      BY <3>2, <3>3
  <2> QED
    BY <2>1, <2>2
<1>5. FoldersFit'
  BY <1>4 DEF FoldersFit
<1> QED
  BY <1>1, <1>5

\* The receipts, where none is written and none fused away.
LEMMA AcceptancesStay ==
    AcceptancesFit /\ UNCHANGED <<accepts, confirmed, clock, unchained, fusedAway>>
        => AcceptancesFit'
BY DEF AcceptancesFit, Receipts

\* The selection, where no selection runs or ends.
LEMMA SelectionStays ==
    ASSUME TypedEvidence, UNCHANGED <<selection, committed>>,
           handled \subseteq handled',
           \A b \in BrainsSeen :
              /\ IsThere(b) => IsThere(b)'
              /\ (IsThere(b) /\ Inherited(b)) => Inherited(b)'
              /\ command[b].step \in {"context", "commit"} => command'[b] = command[b]
    PROVE  SelectionFits'
<1> SUFFICES ASSUME selection # NoCopy, selection \notin committed
             PROVE  /\ IsThere(selection)'
                    /\ \/ command'[selection].step \in {"context", "commit"}
                       \/ handled' # {} \/ Inherited(selection)'
  BY DEF SelectionFits, IsThere, Inherited
<1>1. selection \in BrainsSeen
  BY DEF TypedEvidence, EvidenceTypeOK
<1>2. /\ IsThere(selection)
      /\ \/ command[selection].step \in {"context", "commit"}
         \/ handled # {} \/ Inherited(selection)
  BY EvidenceParts DEF SelectionFits
<1>3. IsThere(selection)' /\ (Inherited(selection) => Inherited(selection)')
  BY <1>1, <1>2 DEF IsThere, Inherited
<1>4. command[selection].step \in {"context", "commit"} =>
          command'[selection] = command[selection]
  BY <1>1
<1> QED
  BY <1>2, <1>3, <1>4

-----------------------------------------------------------------------------
(* The session evidence: the steps of a proposal.                          *)

AtOf(d, step) == [d EXCEPT !.step = step]

LEMMA AtOfFields ==
    ASSUME NEW d \in SessionCommand, NEW step \in EvidenceSteps
    PROVE  /\ AtOf(d, step) \in SessionCommand
           /\ AtOf(d, step).step = step /\ AtOf(d, step).text = d.text
           /\ AtOf(d, step).media = d.media /\ AtOf(d, step).proposal = d.proposal
BY DEF AtOf, SessionCommand

LEMMA NothingRunsTyped == NothingRuns \in SessionCommand /\ NothingRuns.step = "idle"
  BY EvidenceAssumption DEF EvidenceSteps, NothingRuns, SessionCommand

\* What is known of a brain that is there.
LEMMA BrainThere ==
    ASSUME TypedEvidence, NEW b \in BrainsSeen, IsThere(b)
    PROVE  /\ outputs[b] \in Outputs /\ command[b] \in SessionCommand
           /\ reported[b] \in SUBSET IndexRow /\ refused[b] \in SUBSET Refusal
           /\ BrainFits(b, outputs[b], command[b], reported[b], refused[b])
BY EvidenceParts DEF FoldersFit, IsThere

\* A command runs on a brain that is there.
LEMMA RunsWhereItIs ==
    ASSUME TypedEvidence, NEW b \in BrainsSeen, command[b].step # "idle"
    PROVE  IsThere(b)
BY EvidenceParts DEF FoldersFit

\* A command that does not seal goes on to another step that fits.
LEMMA GoesOn ==
    ASSUME NEW b \in BrainsSeen, NEW o \in Outputs, NEW c \in SessionCommand,
           NEW said \in SUBSET IndexRow, NEW no \in SUBSET Refusal,
           BrainFits(b, o, c, said, no), c.step # "seal" \/ b \in loosened,
           NEW d \in SessionCommand, StepFits(o, d)
    PROVE  BrainFits(b, o, d, said, no)
BY DEF BrainFits

LEMMA BrainStepKeeps ==
    ASSUME TypedEvidence, NEW b \in BrainsSeen, IsThere(b),
           command[b].step \in {"idle"} \cup Proposals,
           NEW new \in Outputs, NEW c \in SessionCommand,
           NEW said \in SUBSET IndexRow, NEW no \in SUBSET Refusal,
           outputs' = [outputs EXCEPT ![b] = new],
           command' = [command EXCEPT ![b] = c],
           reported' = [reported EXCEPT ![b] = said],
           refused' = [refused EXCEPT ![b] = no],
           handled \subseteq handled', loosened \subseteq loosened',
           FoldersRest, SelectionRests, AcceptancesRest,
           sessionCommands' \in 0..MaxSessionCommands,
           evidenceFaults' \in 0..MaxEvidenceFaults,
           Inherited(b) => new.owner = MainBrain,
           BrainFits(b, new, c, said, no)'
    PROVE  TypedEvidence'
<1>1. UNCHANGED <<versioned, inCandidate, place, fusedAway, selection, committed, accepts,
                  confirmed, unchained, clock>>
  BY DEF FoldersRest, SelectionRests, AcceptancesRest
<1>2. /\ FoldersFit'
      /\ outputs' \in [BrainsSeen -> Outputs \cup {NoCopy}]
      /\ command' \in [BrainsSeen -> SessionCommand]
      /\ reported' \in [BrainsSeen -> SUBSET IndexRow]
      /\ refused' \in [BrainsSeen -> SUBSET Refusal]
  <2>1. place' = place /\ place' \in Nat /\ place <= place'
    BY <1>1, EvidenceParts
  <2>2. CopyFits(versioned)' /\ CopyFits(inCandidate)'
    BY <1>1, <2>1, CopiesStay
  <2> QED
    BY <2>1, <2>2, BrainMoves
<1>3. AcceptancesFit'
  BY <1>1, EvidenceParts, AcceptancesStay
<1>4. ASSUME NEW x \in BrainsSeen
      PROVE  /\ IsThere(x) => IsThere(x)'
             /\ Inherited(x) => Inherited(x)'
             /\ command[x].step \in {"context", "commit"} => command'[x] = command[x]
  BY EvidenceParts, AbsentIsNoOutput DEF Proposals, IsThere, Inherited
<1>5. SelectionFits'
  BY <1>1, <1>4, SelectionStays
<1>6. EvidenceTypeOK'
  BY <1>2, <1>1 DEF SessionCommand, TypedEvidence, EvidenceTypeOK
<1>7. AnswersTyped'
  BY <1>1, <1>2, EvidenceParts DEF AnswersTyped
<1> QED
  BY <1>2, <1>3, <1>5, <1>6, <1>7 DEF TypedEvidence, EvidenceInvariant

LEMMA ProposeKeeps ==
    ASSUME TypedEvidence, NEW b \in BrainsSeen, NEW text \in OutputTexts,
           NEW media \in MediaTypes, Propose(b, text, media)
    PROVE  TypedEvidence'
<1>1. /\ IsThere(b) /\ command[b].step = "idle" /\ sessionCommands < MaxSessionCommands
      /\ sessionCommands' = sessionCommands + 1
      /\ FoldersRest /\ SelectionRests /\ AcceptancesRest
      /\ UNCHANGED <<outputs, reported, refused, handled, loosened, evidenceFaults>>
  BY DEF Propose, Rests, Begins
<1>2. /\ sessionCommands \in 0..MaxSessionCommands /\ MaxSessionCommands \in Nat
      /\ evidenceFaults \in 0..MaxEvidenceFaults
  BY EvidenceAssumption DEF TypedEvidence, EvidenceTypeOK
<1>3. sessionCommands + 1 \in 1..MaxSessionCommands
  BY <1>1, <1>2
<1> PICK c \in {[step |-> "object", text |-> text, media |-> media,
                 proposal |-> sessionCommands + 1]} : TRUE
  OBVIOUS
<1>4. command' = [command EXCEPT ![b] = c]
  BY DEF Propose
<1>5. c \in SessionCommand /\ c.step = "object" /\ c.text = text /\ c.media = media
      /\ c.proposal # 0
  BY <1>2, <1>3 DEF SessionCommand, EvidenceSteps
<1> PICK o \in {outputs[b]}, d \in {command[b]}, said \in {reported[b]}, no \in {refused[b]} :
           TRUE
  OBVIOUS
<1>6. /\ o \in Outputs /\ d \in SessionCommand /\ said \in SUBSET IndexRow
      /\ no \in SUBSET Refusal /\ BrainFits(b, o, d, said, no) /\ d.step = "idle"
  BY <1>1, BrainThere
<1>7. StepFits(o, c)
  BY <1>5 DEF StepFits
<1>8. BrainFits(b, o, c, said, no)
  BY <1>5, <1>6, <1>7, GoesOn
<1>9. BrainFits(b, o, c, said, no)'
  BY <1>1, EvidenceParts, <1>5, <1>6, <1>8, BrainStays DEF FoldersRest
<1>10. /\ outputs' = [outputs EXCEPT ![b] = o] /\ reported' = [reported EXCEPT ![b] = said]
       /\ refused' = [refused EXCEPT ![b] = no]
  BY <1>1, EvidenceParts
<1>11. Inherited(b) => o.owner = MainBrain
  BY DEF Inherited
<1>12. /\ command[b].step \in {"idle"} \cup Proposals /\ IsThere(b)
       /\ handled \subseteq handled' /\ loosened \subseteq loosened'
       /\ sessionCommands' \in 0..MaxSessionCommands
       /\ evidenceFaults' \in 0..MaxEvidenceFaults
  BY <1>1, <1>2, <1>3
<1> QED
  BY <1>1, <1>4, <1>5, <1>6, <1>9, <1>10, <1>11, <1>12, BrainStepKeeps

LEMMA ProposingKeeps ==
    ASSUME TypedEvidence, NEW b \in BrainsSeen, command[b].step \in Proposals, Proposing,
           NEW new \in Outputs, NEW c \in SessionCommand,
           NEW said \in SUBSET IndexRow, NEW no \in SUBSET Refusal,
           outputs' = [outputs EXCEPT ![b] = new],
           command' = [command EXCEPT ![b] = c],
           reported' = [reported EXCEPT ![b] = said],
           refused' = [refused EXCEPT ![b] = no],
           Inherited(b) => new.owner = MainBrain,
           BrainFits(b, new, c, said, no)
    PROVE  TypedEvidence'
<1>1. /\ FoldersRest /\ SelectionRests /\ AcceptancesRest
      /\ UNCHANGED <<sessionCommands, evidenceFaults, handled, loosened>>
  BY DEF Proposing
<1>2. IsThere(b)
  BY RunsWhereItIs DEF Proposals
<1>3. BrainFits(b, new, c, said, no)'
  BY <1>1, EvidenceParts, BrainStays DEF FoldersRest
<1>4. sessionCommands' \in 0..MaxSessionCommands /\ evidenceFaults' \in 0..MaxEvidenceFaults
  BY <1>1 DEF TypedEvidence, EvidenceTypeOK
<1> QED
  BY <1>1, <1>2, <1>3, <1>4, BrainStepKeeps

\* A step that leaves the outputs, what was told and what was refused.
LEMMA ProposalGoesOn ==
    ASSUME TypedEvidence, NEW b \in BrainsSeen, command[b].step \in Proposals \ {"seal"},
           Proposing, UNCHANGED <<outputs, reported, refused>>,
           NEW step \in EvidenceSteps, StepTo(b, step),
           StepFits(outputs[b], AtOf(command[b], step))
    PROVE  TypedEvidence'
<1> PICK o \in {outputs[b]}, d \in {command[b]}, said \in {reported[b]}, no \in {refused[b]},
         c \in {AtOf(command[b], step)} : TRUE
  OBVIOUS
<1>1. /\ o \in Outputs /\ d \in SessionCommand /\ said \in SUBSET IndexRow
      /\ no \in SUBSET Refusal /\ BrainFits(b, o, d, said, no)
  BY RunsWhereItIs, BrainThere DEF Proposals
<1>2. c \in SessionCommand
  BY <1>1, AtOfFields
<1>3. BrainFits(b, o, c, said, no)
  BY <1>1, <1>2, GoesOn
<1>4. /\ outputs' = [outputs EXCEPT ![b] = o] /\ reported' = [reported EXCEPT ![b] = said]
      /\ refused' = [refused EXCEPT ![b] = no]
  BY EvidenceParts
<1>5. command' = [command EXCEPT ![b] = c]
  BY DEF StepTo, AtOf
<1>6. Inherited(b) => o.owner = MainBrain
  BY DEF Inherited
<1> QED
  BY <1>1, <1>2, <1>3, <1>4, <1>5, <1>6, ProposingKeeps

\* A proposal that is refused for a reason that is so.
LEMMA RefusalKeeps ==
    ASSUME TypedEvidence, NEW b \in BrainsSeen, command[b].step \in Proposals \ {"seal"},
           Proposing, NEW why \in {"object", "receipt", "owner", "index"}, Refuse(b, why),
           RefusedRightly(b, outputs[b], [text |-> command[b].text,
                                          media |-> command[b].media, why |-> why])
    PROVE  TypedEvidence'
<1> PICK o \in {outputs[b]}, d \in {command[b]}, said \in {reported[b]}, no \in {refused[b]},
         r \in {[text |-> command[b].text, media |-> command[b].media, why |-> why]} : TRUE
  OBVIOUS
<1>1. /\ o \in Outputs /\ d \in SessionCommand /\ said \in SUBSET IndexRow
      /\ no \in SUBSET Refusal /\ BrainFits(b, o, d, said, no)
  BY RunsWhereItIs, BrainThere DEF Proposals
<1>2. r \in Refusal
  BY <1>1 DEF BrainFits, StepFits, Refusal
<1>3. no \cup {r} \in SUBSET Refusal
  BY <1>1, <1>2
<1>4. NothingRuns \in SessionCommand /\ StepFits(o, NothingRuns)
  BY NothingRunsTyped DEF StepFits, Proposals
<1>5. BrainFits(b, o, NothingRuns, said, no)
  BY <1>1, <1>4, GoesOn
<1>6. BrainFits(b, o, NothingRuns, said, no \cup {r})
  BY <1>5 DEF BrainFits
<1>7. /\ outputs' = [outputs EXCEPT ![b] = o] /\ reported' = [reported EXCEPT ![b] = said]
      /\ refused' = [refused EXCEPT ![b] = no \cup {r}]
      /\ command' = [command EXCEPT ![b] = NothingRuns]
  BY EvidenceParts DEF Refuse, EndsOn
<1>8. Inherited(b) => o.owner = MainBrain
  BY DEF Inherited
<1> QED
  BY <1>1, <1>3, <1>4, <1>6, <1>7, <1>8, ProposingKeeps

LEMMA WriteOutputKeeps ==
    ASSUME TypedEvidence, NEW b \in BrainsSeen, WriteOutput(b)
    PROVE  TypedEvidence'
<1> PICK o \in {outputs[b]}, d \in {command[b]}, said \in {reported[b]}, no \in {refused[b]},
         k \in {Key(b)} : TRUE
  OBVIOUS
<1>1. d.step = "object" /\ command[b].step \in Proposals \ {"seal"} /\ Proposing
  BY DEF WriteOutput, DoesOn, Proposals
<1>2. /\ o \in Outputs /\ d \in SessionCommand /\ said \in SUBSET IndexRow
      /\ no \in SUBSET Refusal /\ BrainFits(b, o, d, said, no)
  BY <1>1, RunsWhereItIs, BrainThere DEF Proposals
<1>3. d.text \in OutputTexts /\ d.media \in MediaTypes /\ d.proposal # 0
      /\ k = <<d.text, d.media>> /\ k \in ObjectKeys
  BY <1>1, <1>2 DEF BrainFits, StepFits, Proposals, Key, ObjectKeys
<1>4. o.objects \in [ObjectKeys -> ObjectStates]
  BY <1>2 DEF Outputs, ObjectStates
<1>5. CASE o.objects[k] = "absent"
  <2> PICK new \in {PutObject(o, k, "open")}, c \in {AtOf(d, "seal")} : TRUE
    OBVIOUS
  <2>1. "open" \in ObjectStates /\ "seal" \in EvidenceSteps
    BY DEF ObjectStates, EvidenceSteps
  <2>2. /\ new \in Outputs /\ new.objects = [o.objects EXCEPT ![k] = "open"]
        /\ new.owner = o.owner /\ new.receipts = o.receipts /\ new.index = o.index
    BY <1>2, <1>3, <2>1, PutObjectFields
  <2>3. /\ c \in SessionCommand /\ c.step = "seal" /\ c.text = d.text /\ c.media = d.media
        /\ c.proposal = d.proposal
    BY <1>2, <2>1, AtOfFields
  <2>4. handled' = handled /\ place' = place
    BY <1>1 DEF Proposing, FoldersRest
  <2>5. FolderSound(new)
    <3>1. FolderSound(new)'
      BY <1>2, <1>3, <2>1, <2>4, ObjectSound DEF BrainFits
    <3> QED
      BY <2>4, <3>1 DEF FolderSound
  <2>6. \A x \in ObjectKeys : new.objects[x] = IF x = k THEN "open" ELSE o.objects[x]
    BY <1>4, <2>2
  <2>7. StepFits(new, c)
    BY <1>3, <2>3, <2>6 DEF StepFits
  <2>8. \A x \in ObjectKeys : new.objects[x] = "open" =>
            b \in loosened \/ (c.step = "seal" /\ x = <<c.text, c.media>>)
    BY <1>1, <1>2, <1>3, <2>3, <2>6 DEF BrainFits
  <2>9. BrainFits(b, new, c, said, no)
    BY <1>2, <2>2, <2>5, <2>7, <2>8 DEF BrainFits, RefusedRightly
  <2>10. /\ outputs' = [outputs EXCEPT ![b] = new] /\ command' = [command EXCEPT ![b] = c]
         /\ reported' = [reported EXCEPT ![b] = said] /\ refused' = [refused EXCEPT ![b] = no]
    <3>1. ObjectIs(b, "open") /\ StepTo(b, "seal") /\ UNCHANGED <<reported, refused>>
      BY <1>5 DEF WriteOutput
    <3> QED
      BY <3>1, EvidenceParts DEF ObjectIs, StepTo, PutObject, AtOf
  <2>11. Inherited(b) => new.owner = MainBrain
    BY <2>2 DEF Inherited
  <2> QED
    BY <1>1, <1>2, <2>2, <2>3, <2>9, <2>10, <2>11, ProposingKeeps
<1>6. CASE o.objects[k] = "edited"
  BY <1>6, <1>2, <1>3, <1>1, RefusalKeeps DEF WriteOutput, BrainFits, FolderSound,
     RefusedRightly
<1>7. CASE o.objects[k] \notin {"absent", "edited"}
  <2>1. StepTo(b, "receipt") /\ UNCHANGED <<outputs, reported, refused>>
    BY <1>7 DEF WriteOutput
  <2>2. "receipt" \in EvidenceSteps
    BY DEF EvidenceSteps
  <2>3. o.objects[k] \in {"open", "sealed"}
    BY <1>3, <1>4, <1>7 DEF ObjectStates
  <2>4. StepFits(outputs[b], AtOf(command[b], "receipt"))
    BY <1>2, <1>3, <2>2, <2>3, AtOfFields DEF StepFits
  <2> QED
    BY <1>1, <2>1, <2>2, <2>4, ProposalGoesOn
<1> QED
  BY <1>5, <1>6, <1>7

LEMMA SealOutputKeeps ==
    ASSUME TypedEvidence, NEW b \in BrainsSeen, SealOutput(b)
    PROVE  TypedEvidence'
<1> PICK o \in {outputs[b]}, d \in {command[b]}, said \in {reported[b]}, no \in {refused[b]},
         k \in {Key(b)}, new \in {PutObject(outputs[b], Key(b), "sealed")},
         c \in {AtOf(command[b], "receipt")} : TRUE
  OBVIOUS
<1>1. d.step = "seal" /\ command[b].step \in Proposals /\ Proposing
  BY DEF SealOutput, DoesOn, Proposals
<1>2. /\ o \in Outputs /\ d \in SessionCommand /\ said \in SUBSET IndexRow
      /\ no \in SUBSET Refusal /\ BrainFits(b, o, d, said, no)
  BY <1>1, RunsWhereItIs, BrainThere DEF Proposals
<1>3. d.text \in OutputTexts /\ d.media \in MediaTypes /\ d.proposal # 0
      /\ k = <<d.text, d.media>> /\ k \in ObjectKeys
  BY <1>1, <1>2 DEF BrainFits, StepFits, Proposals, Key, ObjectKeys
<1>4. o.objects \in [ObjectKeys -> ObjectStates]
  BY <1>2 DEF Outputs, ObjectStates
<1>5. "sealed" \in ObjectStates /\ "receipt" \in EvidenceSteps
  BY DEF ObjectStates, EvidenceSteps
<1>6. /\ new \in Outputs /\ new.objects = [o.objects EXCEPT ![k] = "sealed"]
      /\ new.owner = o.owner /\ new.receipts = o.receipts /\ new.index = o.index
  BY <1>2, <1>3, <1>5, PutObjectFields
<1>7. /\ c \in SessionCommand /\ c.step = "receipt" /\ c.text = d.text /\ c.media = d.media
      /\ c.proposal = d.proposal
  BY <1>2, <1>5, AtOfFields
<1>8. handled' = handled /\ place' = place
  BY <1>1 DEF Proposing, FoldersRest
<1>9. FolderSound(new)
  <2>1. FolderSound(new)'
    BY <1>2, <1>3, <1>5, <1>8, ObjectSound DEF BrainFits
  <2> QED
    BY <1>8, <2>1 DEF FolderSound
<1>10. \A x \in ObjectKeys : new.objects[x] = IF x = k THEN "sealed" ELSE o.objects[x]
  BY <1>4, <1>6
<1>11. StepFits(new, c)
  BY <1>3, <1>7, <1>10 DEF StepFits
<1>12. \A x \in ObjectKeys : new.objects[x] = "open" => b \in loosened
  BY <1>1, <1>2, <1>3, <1>10 DEF BrainFits
<1>13. BrainFits(b, new, c, said, no)
  BY <1>2, <1>6, <1>9, <1>11, <1>12 DEF BrainFits, RefusedRightly
<1>14. /\ outputs' = [outputs EXCEPT ![b] = new] /\ command' = [command EXCEPT ![b] = c]
       /\ reported' = [reported EXCEPT ![b] = said] /\ refused' = [refused EXCEPT ![b] = no]
  BY EvidenceParts DEF SealOutput, ObjectIs, StepTo, PutObject, AtOf
<1>15. Inherited(b) => new.owner = MainBrain
  BY <1>6 DEF Inherited
<1> QED
  BY <1>1, <1>2, <1>6, <1>7, <1>13, <1>14, <1>15, ProposingKeeps

LEMMA WriteOutputReceiptKeeps ==
    ASSUME TypedEvidence, NEW b \in BrainsSeen, WriteOutputReceipt(b)
    PROVE  TypedEvidence'
<1> PICK o \in {outputs[b]}, d \in {command[b]}, said \in {reported[b]}, no \in {refused[b]},
         first \in {outputs[b].receipts[command[b].text]} : TRUE
  OBVIOUS
<1>1. d.step = "receipt" /\ command[b].step \in Proposals \ {"seal"} /\ Proposing
  BY DEF WriteOutputReceipt, DoesOn, Proposals
<1>2. /\ o \in Outputs /\ d \in SessionCommand /\ said \in SUBSET IndexRow
      /\ no \in SUBSET Refusal /\ BrainFits(b, o, d, said, no)
  BY <1>1, RunsWhereItIs, BrainThere DEF Proposals
<1>3. d.text \in OutputTexts /\ d.media \in MediaTypes /\ d.proposal # 0
      /\ o.objects[<<d.text, d.media>>] \in {"open", "sealed"}
  BY <1>1, <1>2 DEF BrainFits, StepFits, Proposals
<1>4. o.receipts \in [OutputTexts -> Receipt \cup {NoOutput}] /\ first = o.receipts[d.text]
  BY <1>2 DEF Outputs
<1>5. "index" \in EvidenceSteps
  BY DEF EvidenceSteps
<1>6. CASE first = NoOutput
  <2> PICK receipt \in {[media |-> d.media, proposal |-> d.proposal]} : TRUE
    OBVIOUS
  <2>1. receipt \in Receipt /\ receipt # NoOutput /\ receipt.media = d.media
    BY <1>2, <1>3, EvidenceAssumption, AbsentIsNoOutput DEF SessionCommand, Receipt
  <2> PICK new \in {PutReceipt(o, d.text, receipt)}, c \in {AtOf(d, "index")} : TRUE
    OBVIOUS
  <2>2. /\ new \in Outputs /\ new.receipts = [o.receipts EXCEPT ![d.text] = receipt]
        /\ new.owner = o.owner /\ new.objects = o.objects /\ new.index = o.index
    BY <1>2, <1>3, <2>1, PutReceiptFields
  <2>3. /\ c \in SessionCommand /\ c.step = "index" /\ c.text = d.text /\ c.media = d.media
        /\ c.proposal = d.proposal
    BY <1>2, <1>5, AtOfFields
  <2>4. FolderSound(new)
    BY <1>2, <1>3, <1>4, <1>6, <2>1, ReceiptSound DEF BrainFits
  <2>5. StepFits(new, c)
    BY <1>3, <1>4, <2>1, <2>2, <2>3 DEF StepFits
  <2>6. ASSUME NEW r \in no PROVE RefusedRightly(b, new, r)
    BY <1>2, <1>4, <1>6, <2>2 DEF BrainFits, Refusal, RefusedRightly
  <2>7. \A x \in ObjectKeys : new.objects[x] = "open" => b \in loosened
    BY <1>1, <1>2, <2>2 DEF BrainFits
  <2>8. BrainFits(b, new, c, said, no)
    BY <1>2, <2>2, <2>4, <2>5, <2>6, <2>7 DEF BrainFits
  <2>9. /\ outputs' = [outputs EXCEPT ![b] = new] /\ command' = [command EXCEPT ![b] = c]
        /\ reported' = [reported EXCEPT ![b] = said] /\ refused' = [refused EXCEPT ![b] = no]
    <3>1. /\ outputs' = [outputs EXCEPT ![b].receipts[command[b].text] =
                 [media |-> command[b].media, proposal |-> command[b].proposal]]
          /\ StepTo(b, "index") /\ UNCHANGED <<reported, refused>>
      BY <1>6 DEF WriteOutputReceipt
    <3> QED
      BY <3>1, EvidenceParts DEF StepTo, PutReceipt, AtOf
  <2>10. Inherited(b) => new.owner = MainBrain
    BY <2>2 DEF Inherited
  <2> QED
    BY <1>1, <1>2, <2>2, <2>3, <2>8, <2>9, <2>10, ProposingKeeps
<1>7. CASE first # NoOutput /\ first.media # d.media
  BY <1>7, <1>4, <1>1, RefusalKeeps DEF WriteOutputReceipt, RefusedRightly
<1>8. CASE first # NoOutput /\ first.media = d.media
  <2>1. StepTo(b, "index") /\ UNCHANGED <<outputs, reported, refused>>
    BY <1>8 DEF WriteOutputReceipt
  <2>2. StepFits(outputs[b], AtOf(command[b], "index"))
    BY <1>2, <1>3, <1>4, <1>5, <1>8, AtOfFields DEF StepFits
  <2> QED
    BY <1>1, <1>5, <2>1, <2>2, ProposalGoesOn
<1> QED
  BY <1>6, <1>7, <1>8

LEMMA IndexOutputKeeps ==
    ASSUME TypedEvidence, NEW b \in BrainsSeen, IndexOutput(b)
    PROVE  TypedEvidence'
<1> PICK o \in {outputs[b]}, d \in {command[b]}, said \in {reported[b]}, no \in {refused[b]},
         row \in {RowOf(b)} : TRUE
  OBVIOUS
<1>1. d.step = "index" /\ command[b].step \in Proposals \ {"seal"} /\ Proposing
  BY DEF IndexOutput, DoesOn, Proposals
<1>2. /\ o \in Outputs /\ d \in SessionCommand /\ said \in SUBSET IndexRow
      /\ no \in SUBSET Refusal /\ BrainFits(b, o, d, said, no)
  BY <1>1, RunsWhereItIs, BrainThere DEF Proposals
<1>3. /\ d.text \in OutputTexts /\ d.media \in MediaTypes /\ d.proposal # 0
      /\ o.objects[<<d.text, d.media>>] \in {"open", "sealed"}
      /\ o.receipts[d.text] # NoOutput /\ o.receipts[d.text].media = d.media
  BY <1>1, <1>2 DEF BrainFits, StepFits, Proposals
<1>4. o.receipts[d.text] \in Receipt /\ place \in Nat
  BY <1>2, <1>3, EvidenceParts DEF Outputs
<1>5. /\ row = [text |-> d.text, media |-> d.media, proposal |-> o.receipts[d.text].proposal,
                place |-> place]
      /\ row \in IndexRow
      /\ o.receipts[row.text] = [media |-> row.media, proposal |-> row.proposal]
  BY <1>3, <1>4 DEF RowOf, IndexRow, Receipt
<1>6. NothingRuns \in SessionCommand /\ NothingRuns.step = "idle" /\ StepFits(o, NothingRuns)
  BY NothingRunsTyped DEF StepFits, Proposals
<1>7. \A r \in OutputRows(b) : \E i \in DOMAIN o.index : o.index[i] = r
  BY DEF OutputRows
<1>8. CASE ~IndexIsOwn(b)
  BY <1>8, <1>2, <1>1, RefusalKeeps DEF IndexOutput, BrainFits, IndexIsOwn, RefusedRightly
<1>9. CASE IndexIsOwn(b) /\ RowsOfText(b, d.text) = {}
  <2> PICK new \in {PutRow(o, b, row)} : TRUE
    OBVIOUS
  <2>1. /\ new \in Outputs /\ new.index = Append(o.index, row) /\ new.owner = b
        /\ new.receipts = o.receipts /\ new.objects = o.objects
    BY <1>2, <1>5, PutRowFields
  <2>2. \A i \in DOMAIN o.index : o.index[i].text # row.text
    BY <1>5, <1>9 DEF RowsOfText, OutputRows
  <2>3. FolderSound(new)
    BY <1>2, <1>3, <1>4, <1>5, <2>2, RowSound DEF BrainFits
  <2>4. \A r \in said \cup {row} : \E i \in DOMAIN new.index : new.index[i] = r
    <3>1. o.index \in Seq(IndexRow)
      BY <1>2 DEF Outputs
    <3>2. /\ DOMAIN new.index = 1..(Len(o.index) + 1) /\ DOMAIN o.index = 1..Len(o.index)
          /\ Len(o.index) \in Nat
          /\ \A i \in 1..Len(o.index) : new.index[i] = o.index[i]
          /\ new.index[Len(o.index) + 1] = row
      BY <1>5, <2>1, <3>1
    <3>3. \A r \in said : \E i \in DOMAIN o.index : o.index[i] = r
      BY <1>2 DEF BrainFits
    <3>4. \A i \in DOMAIN o.index : i \in DOMAIN new.index /\ new.index[i] = o.index[i]
      BY <3>2
    <3>5. Len(o.index) + 1 \in DOMAIN new.index
      BY <3>2
    <3> QED
      BY <3>2, <3>3, <3>4, <3>5
  <2>5. ASSUME NEW r \in no PROVE RefusedRightly(b, new, r)
    BY <1>2, <1>9, EvidenceAssumption, <2>1 DEF BrainFits, IndexIsOwn, RefusedRightly
  <2>6. \A x \in ObjectKeys : new.objects[x] = "open" => b \in loosened
    BY <1>1, <1>2, <2>1 DEF BrainFits
  <2>7. StepFits(new, NothingRuns)
    BY NothingRunsTyped DEF StepFits, Proposals
  <2>8. BrainFits(b, new, NothingRuns, said \cup {row}, no)
    BY <2>1, <2>3, <2>4, <2>5, <2>6, <2>7 DEF BrainFits
  <2>9. /\ outputs' = [outputs EXCEPT ![b] = new]
        /\ command' = [command EXCEPT ![b] = NothingRuns]
        /\ reported' = [reported EXCEPT ![b] = said \cup {row}]
        /\ refused' = [refused EXCEPT ![b] = no]
    <3>1. /\ outputs' = [outputs EXCEPT ![b].owner = b, ![b].index = Append(@, RowOf(b))]
          /\ reported' = [reported EXCEPT ![b] = @ \cup {RowOf(b)}]
          /\ EndsOn(b) /\ UNCHANGED refused
      BY <1>9 DEF IndexOutput
    <3> QED
      BY <3>1, EvidenceParts DEF EndsOn, PutRow
  <2>10. Inherited(b) => new.owner = MainBrain
    BY <1>9, EvidenceAssumption DEF Inherited, IndexIsOwn
  <2>11. said \cup {row} \in SUBSET IndexRow
    BY <1>2, <1>5
  <2> QED
    BY <1>1, <1>2, <1>6, <2>1, <2>8, <2>9, <2>10, <2>11, ProposingKeeps
<1>10. CASE IndexIsOwn(b) /\ RowsOfText(b, d.text) # {} /\ RowsOfText(b, d.text) = {row}
  <2>1. row \in OutputRows(b)
    BY <1>10 DEF RowsOfText
  <2>2. \A r \in said \cup {row} : \E i \in DOMAIN o.index : o.index[i] = r
    BY <1>2, <1>7, <2>1 DEF BrainFits
  <2>3. BrainFits(b, o, NothingRuns, said, no)
    BY <1>1, <1>2, <1>6, GoesOn
  <2>4. BrainFits(b, o, NothingRuns, said \cup {row}, no)
    BY <2>2, <2>3 DEF BrainFits
  <2>5. /\ outputs' = [outputs EXCEPT ![b] = o]
        /\ command' = [command EXCEPT ![b] = NothingRuns]
        /\ reported' = [reported EXCEPT ![b] = said \cup {row}]
        /\ refused' = [refused EXCEPT ![b] = no]
    BY <1>10, EvidenceParts DEF IndexOutput, EndsOn
  <2>6. said \cup {row} \in SUBSET IndexRow
    BY <1>2, <1>5
  <2>7. Inherited(b) => o.owner = MainBrain
    BY DEF Inherited
  <2> QED
    BY <1>1, <1>2, <1>6, <2>4, <2>5, <2>6, <2>7, ProposingKeeps
<1>11. CASE IndexIsOwn(b) /\ RowsOfText(b, d.text) # {} /\ RowsOfText(b, d.text) # {row}
  <2>1. Refuse(b, "index")
    BY <1>11 DEF IndexOutput
  <2>2. PICK r \in OutputRows(b) : r.text = d.text /\ r # row
    BY <1>11 DEF RowsOfText
  <2>3. PICK i \in DOMAIN o.index : o.index[i] = r
    BY <1>7, <2>2
  <2>4. r \in IndexRow
    BY <1>2, <2>3 DEF Outputs
  <2>5. /\ o.receipts[d.text] = [media |-> r.media, proposal |-> r.proposal]
        /\ r.place <= place
    BY <1>2, <2>2, <2>3 DEF BrainFits, FolderSound
  <2>6. r.media = d.media /\ r.proposal = o.receipts[d.text].proposal
    BY <1>3, <2>5
  <2>7. r = [text |-> r.text, media |-> r.media, proposal |-> r.proposal, place |-> r.place]
        /\ r.place \in Nat
    BY <2>4 DEF IndexRow
  <2>8. r.place # place
    BY <1>5, <2>2, <2>6, <2>7
  <2>9. place > 0
    BY <1>4, <2>5, <2>7, <2>8
  <2>10. RefusedRightly(b, outputs[b], [text |-> command[b].text, media |-> command[b].media,
                                        why |-> "index"])
    BY <2>9 DEF RefusedRightly
  <2> QED
    BY <1>1, <2>1, <2>10, RefusalKeeps
<1> QED
  BY <1>8, <1>9, <1>10, <1>11

LEMMA StopProposalKeeps ==
    ASSUME TypedEvidence, NEW b \in BrainsSeen, StopProposal(b)
    PROVE  TypedEvidence'
<1> PICK o \in {outputs[b]}, d \in {command[b]}, said \in {reported[b]}, no \in {refused[b]} :
           TRUE
  OBVIOUS
<1>1. /\ command[b].step \in {"idle"} \cup Proposals /\ command[b].step # "idle"
      /\ FoldersRest /\ SelectionRests /\ AcceptancesRest
      /\ UNCHANGED <<outputs, reported, refused, handled, sessionCommands>>
      /\ evidenceFaults' = evidenceFaults + 1 /\ evidenceFaults < MaxEvidenceFaults
      /\ loosened' = IF d.step = "seal" THEN loosened \cup {b} ELSE loosened
      /\ command' = [command EXCEPT ![b] = NothingRuns]
  BY DEF StopProposal, Proposals, EvidenceFault, EndsOn, DoesOn
<1>2. /\ o \in Outputs /\ d \in SessionCommand /\ said \in SUBSET IndexRow
      /\ no \in SUBSET Refusal /\ BrainFits(b, o, d, said, no) /\ IsThere(b)
  BY <1>1, RunsWhereItIs, BrainThere
<1>3. NothingRuns \in SessionCommand /\ NothingRuns.step = "idle" /\ StepFits(o, NothingRuns)'
  BY NothingRunsTyped DEF StepFits, Proposals
<1>4. BrainFits(b, o, d, said, no)' /\ loosened \subseteq loosened'
  <2>1. place \in Nat /\ place' = place /\ place <= place'
    BY <1>1, EvidenceParts DEF FoldersRest
  <2> QED
    BY <1>1, <1>2, <2>1, BrainStays
<1>5. d.step = "seal" => b \in loosened'
  BY <1>1
<1>6. BrainFits(b, o, NothingRuns, said, no)'
  BY <1>3, <1>4, <1>5 DEF BrainFits
<1>7. /\ outputs' = [outputs EXCEPT ![b] = o] /\ reported' = [reported EXCEPT ![b] = said]
      /\ refused' = [refused EXCEPT ![b] = no]
  BY <1>1, EvidenceParts
<1>8. Inherited(b) => o.owner = MainBrain
  BY DEF Inherited
<1>9. sessionCommands' \in 0..MaxSessionCommands /\ evidenceFaults' \in 0..MaxEvidenceFaults
  BY <1>1, EvidenceAssumption DEF TypedEvidence, EvidenceTypeOK
<1>10. handled \subseteq handled'
  BY <1>1
<1> QED
  BY <1>1, <1>2, <1>3, <1>4, <1>6, <1>7, <1>8, <1>9, <1>10, BrainStepKeeps

LEMMA TouchOutputKeeps ==
    ASSUME TypedEvidence, NEW b \in BrainsSeen, NEW key \in ObjectKeys, TouchOutput(b, key)
    PROVE  TypedEvidence'
<1> PICK o \in {outputs[b]}, d \in {command[b]}, said \in {reported[b]}, no \in {refused[b]} :
           TRUE
  OBVIOUS
<1>1. /\ IsThere(b) /\ d.step = "idle"
      /\ FoldersRest /\ SelectionRests /\ AcceptancesRest
      /\ UNCHANGED <<command, reported, refused, loosened, sessionCommands>>
      /\ evidenceFaults' = evidenceFaults + 1 /\ evidenceFaults < MaxEvidenceFaults
      /\ handled' = handled \cup {key}
  BY DEF TouchOutput, Rests, EvidenceFault
<1>2. PICK state \in {"absent", "edited"} :
         outputs' = [outputs EXCEPT ![b].objects[key] = state]
  BY DEF TouchOutput
<1>3. /\ o \in Outputs /\ d \in SessionCommand /\ said \in SUBSET IndexRow
      /\ no \in SUBSET Refusal /\ BrainFits(b, o, d, said, no)
  BY <1>1, BrainThere
<1> PICK new \in {PutObject(o, key, state)} : TRUE
  OBVIOUS
<1>4. state \in ObjectStates /\ state # "open"
  BY DEF ObjectStates
<1>5. /\ new \in Outputs /\ new.objects = [o.objects EXCEPT ![key] = state]
      /\ new.owner = o.owner /\ new.receipts = o.receipts /\ new.index = o.index
  BY <1>3, <1>4, PutObjectFields
<1>6. handled \subseteq handled' /\ loosened \subseteq loosened' /\ place' = place
      /\ place \in Nat /\ place <= place'
  BY <1>1, EvidenceParts DEF FoldersRest
<1>7. FolderSound(new)'
  BY <1>1, <1>3, <1>4, <1>6, ObjectSound DEF BrainFits
<1>8. BrainFits(b, o, d, said, no)'
  BY <1>3, <1>6, BrainStays
<1>9. StepFits(new, d)'
  BY <1>1 DEF StepFits, Proposals
<1>10. o.objects \in [ObjectKeys -> ObjectStates]
  BY <1>3 DEF Outputs, ObjectStates
<1>11. \A x \in ObjectKeys : new.objects[x] = "open" => o.objects[x] = "open"
  BY <1>4, <1>5, <1>10
<1>12. BrainFits(b, new, d, said, no)'
  BY <1>5, <1>7, <1>8, <1>9, <1>11 DEF BrainFits, RefusedRightly
<1>13. /\ outputs' = [outputs EXCEPT ![b] = new] /\ command' = [command EXCEPT ![b] = d]
       /\ reported' = [reported EXCEPT ![b] = said] /\ refused' = [refused EXCEPT ![b] = no]
  BY <1>1, <1>2, EvidenceParts DEF PutObject
<1>14. Inherited(b) => new.owner = MainBrain
  BY <1>5 DEF Inherited
<1>15. sessionCommands' \in 0..MaxSessionCommands /\ evidenceFaults' \in 0..MaxEvidenceFaults
  BY <1>1, EvidenceAssumption DEF TypedEvidence, EvidenceTypeOK
<1> QED
  BY <1>1, <1>3, <1>5, <1>6, <1>12, <1>13, <1>14, <1>15, BrainStepKeeps

-----------------------------------------------------------------------------
(* The session evidence: the selection.                                    *)

\* Outputs that cannot be read were touched, or are those of another brain.
LEMMA UnreadableHasCause ==
    ASSUME TypedEvidence, NEW b \in BrainsSeen, IsThere(b), ~OutputsCanBeRead(b)
    PROVE  handled # {} \/ Inherited(b)
<1>1. BrainFits(b, outputs[b], command[b], reported[b], refused[b]) /\ outputs[b] \in Outputs
  BY BrainThere
<1>2. CASE ~IndexIsOwn(b)
  BY <1>1, <1>2 DEF BrainFits, IndexIsOwn, Inherited
<1>3. CASE IndexIsOwn(b)
  <2>1. PICK r \in OutputRows(b) : outputs[b].objects[<<r.text, r.media>>] \notin {"open", "sealed"}
    BY <1>3 DEF OutputsCanBeRead
  <2>2. PICK i \in DOMAIN outputs[b].index : outputs[b].index[i] = r
    BY <2>1 DEF OutputRows
  <2>3. <<r.text, r.media>> \in handled
    BY <1>1, <2>1, <2>2 DEF BrainFits, FolderSound
  <2> QED
    BY <2>3
<1> QED
  BY <1>2, <1>3

LEMMA SelectingKeeps ==
    ASSUME TypedEvidence, NEW b \in BrainsSeen, IsThere(b),
           command[b].step \in {"idle", "context", "commit"},
           NEW c \in SessionCommand, c.step \in {"idle", "context", "commit"},
           command' = [command EXCEPT ![b] = c],
           FoldersRest, AcceptancesRest, ProposalRests,
           selection' \in BrainsSeen \cup {NoCopy},
           sessionCommands' \in 0..MaxSessionCommands,
           evidenceFaults' \in 0..MaxEvidenceFaults,
           SelectionFits'
    PROVE  TypedEvidence'
<1> PICK o \in {outputs[b]}, d \in {command[b]}, said \in {reported[b]}, no \in {refused[b]} :
           TRUE
  OBVIOUS
<1>1. /\ o \in Outputs /\ d \in SessionCommand /\ said \in SUBSET IndexRow
      /\ no \in SUBSET Refusal /\ BrainFits(b, o, d, said, no)
  BY BrainThere
<1>2. UNCHANGED <<outputs, reported, refused, handled, loosened, versioned, inCandidate, place,
                  fusedAway, accepts, confirmed, unchained, clock>>
  BY DEF FoldersRest, AcceptancesRest, ProposalRests
<1>3. /\ outputs' = [outputs EXCEPT ![b] = o] /\ reported' = [reported EXCEPT ![b] = said]
      /\ refused' = [refused EXCEPT ![b] = no]
  BY <1>2, EvidenceParts
<1>4. BrainFits(b, o, c, said, no)
  <2>1. StepFits(o, c)
    BY DEF StepFits, Proposals
  <2> QED
    BY <1>1, <2>1, GoesOn
<1>5. place' = place /\ place \in Nat /\ place' \in Nat /\ place <= place'
      /\ handled \subseteq handled' /\ loosened \subseteq loosened'
  BY <1>2, EvidenceParts
<1>6. BrainFits(b, o, c, said, no)'
  BY <1>1, <1>4, <1>5, BrainStays
<1>7. CopyFits(versioned)' /\ CopyFits(inCandidate)'
  BY <1>2, <1>5, CopiesStay
<1>8. /\ FoldersFit'
      /\ outputs' \in [BrainsSeen -> Outputs \cup {NoCopy}]
      /\ command' \in [BrainsSeen -> SessionCommand]
      /\ reported' \in [BrainsSeen -> SUBSET IndexRow]
      /\ refused' \in [BrainsSeen -> SUBSET Refusal]
  BY <1>1, <1>3, <1>5, <1>6, <1>7, BrainMoves
<1>9. AcceptancesFit'
  BY <1>2, EvidenceParts, AcceptancesStay
<1>10. EvidenceTypeOK'
  BY <1>8, <1>2 DEF SessionCommand, TypedEvidence, EvidenceTypeOK
<1>11. AnswersTyped'
  BY <1>2, <1>8, EvidenceParts DEF AnswersTyped
<1> QED
  BY <1>8, <1>9, <1>10, <1>11 DEF TypedEvidence, EvidenceInvariant

LEMMA SelectionKeeps ==
    ASSUME TypedEvidence, NEW b \in BrainsSeen,
           StoreSelection(b) \/ ReadContext(b) \/ CommitSelection(b) \/ StopSelection(b)
    PROVE  TypedEvidence'
<1> PICK d \in {command[b]} : TRUE
  OBVIOUS
<1>1. /\ selection \in BrainsSeen \cup {NoCopy} /\ command[b] \in SessionCommand
      /\ sessionCommands \in 0..MaxSessionCommands /\ evidenceFaults \in 0..MaxEvidenceFaults
      /\ MaxSessionCommands \in Nat /\ MaxEvidenceFaults \in Nat
  BY EvidenceParts, EvidenceAssumption DEF TypedEvidence, EvidenceTypeOK
<1>2. SelectionFits
  BY EvidenceParts
<1>3. b # NoCopy /\ command \in [BrainsSeen -> SessionCommand]
  BY EvidenceAssumption, EvidenceParts DEF BrainsSeen
<1>4. "context" \in EvidenceSteps /\ "commit" \in EvidenceSteps
  BY DEF EvidenceSteps
<1>5. CASE StoreSelection(b)
  <2> PICK c \in {AtOf(d, "context")} : TRUE
    OBVIOUS
  <2>1. c \in SessionCommand /\ c.step = "context"
    BY <1>1, <1>4, AtOfFields
  <2>2. /\ IsThere(b) /\ d.step = "idle" /\ sessionCommands < MaxSessionCommands
        /\ sessionCommands' = sessionCommands + 1
        /\ selection' = b /\ FoldersRest /\ AcceptancesRest /\ ProposalRests
        /\ evidenceFaults' = evidenceFaults
    BY <1>5 DEF StoreSelection, Rests, Begins, Selecting
  <2>3. command' = [command EXCEPT ![b] = c]
    BY <1>5 DEF StoreSelection, StepTo, AtOf
  <2>4. SelectionFits'
    BY <1>3, <2>1, <2>2, <2>3 DEF SelectionFits, IsThere, ProposalRests
  <2>5. sessionCommands' \in 0..MaxSessionCommands
    BY <1>1, <2>2
  <2> QED
    BY <1>1, <2>1, <2>2, <2>3, <2>4, <2>5, SelectingKeeps
<1>6. CASE ReadContext(b)
  <2> PICK c \in SessionCommand :
         /\ command' = [command EXCEPT ![b] = c]
         /\ \/ c.step = "commit"
            \/ c.step = "idle" /\ ~OutputsCanBeRead(b)
    <3>1. CASE OutputsCanBeRead(b) /\ StepTo(b, "commit")
      BY <1>1, <1>4, AtOfFields, <3>1 DEF StepTo, AtOf
    <3>2. CASE ~OutputsCanBeRead(b) /\ EndsOn(b)
      BY <3>2, NothingRunsTyped DEF EndsOn
    <3> QED
      BY <1>6, <3>1, <3>2 DEF ReadContext
  <2>1. /\ d.step = "context" /\ UNCHANGED <<selection, committed, sessionCommands>>
        /\ FoldersRest /\ AcceptancesRest /\ ProposalRests
        /\ evidenceFaults' = evidenceFaults
    BY <1>6 DEF ReadContext, DoesOn, Selecting
  <2>2. IsThere(b)
    BY <2>1, RunsWhereItIs
  <2>3. UNCHANGED <<outputs, handled>>
    BY <2>1 DEF ProposalRests
  <2>4. SelectionFits'
    BY <2>2, UnreadableHasCause, <1>3, <2>1, <2>3, <1>1, <1>2 DEF SelectionFits, IsThere,
       Inherited
  <2> QED
    BY <1>1, <2>1, <2>2, <2>4, SelectingKeeps
<1>7. CASE CommitSelection(b) \/ StopSelection(b)
  <2>1. /\ d.step \in {"context", "commit"} /\ selection' = selection
        /\ committed' = committed \cup {b}
        /\ FoldersRest /\ AcceptancesRest /\ ProposalRests
        /\ command' = [command EXCEPT ![b] = NothingRuns]
    BY <1>7 DEF CommitSelection, StopSelection, DoesOn, Selecting, EndsOn
  <2>2. sessionCommands' \in 0..MaxSessionCommands /\ evidenceFaults' \in 0..MaxEvidenceFaults
    BY <1>1, <1>7 DEF CommitSelection, StopSelection, Selecting, EvidenceFault
  <2>3. IsThere(b)
    BY <2>1, RunsWhereItIs
  <2>4. UNCHANGED <<outputs, handled>>
    BY <2>1 DEF ProposalRests
  <2>5. SelectionFits'
    BY <2>1, <1>1, <1>2, <1>3, <2>4 DEF SelectionFits, IsThere, Inherited
  <2>6. NothingRuns \in SessionCommand /\ NothingRuns.step \in {"idle", "context", "commit"}
    BY NothingRunsTyped
  <2>7. command[b].step \in {"idle", "context", "commit"}
    BY <2>1
  <2> QED
    BY <1>1, <2>1, <2>2, <2>3, <2>5, <2>6, <2>7, SelectingKeeps
<1> QED
  BY <1>5, <1>6, <1>7

-----------------------------------------------------------------------------
(* The session evidence: the receipts of acceptances.                      *)

LEMMA AcceptingKeeps ==
    ASSUME TypedEvidence, FoldersRest, SelectionRests, ProposalRests, UNCHANGED command,
           accepts' \in [BrainsSeen -> Seq(Acceptance)],
           confirmed' \in [BrainsSeen -> SUBSET Confirmation],
           clock' \in Nat, AcceptancesFit',
           sessionCommands' \in 0..MaxSessionCommands,
           evidenceFaults' \in 0..MaxEvidenceFaults
    PROVE  TypedEvidence'
<1>1. UNCHANGED <<versioned, inCandidate, place, fusedAway, selection, committed, outputs,
                  reported, refused, handled, loosened, command>>
  BY DEF FoldersRest, SelectionRests, ProposalRests
<1>2. place' \in Nat /\ place <= place' /\ handled \subseteq handled'
      /\ loosened \subseteq loosened'
  BY <1>1, EvidenceParts
<1>3. CopyFits(versioned)' /\ CopyFits(inCandidate)'
  BY <1>1, <1>2, CopiesStay
<1>4. FoldersFit'
  BY <1>1, <1>2, <1>3, FoldersStay
<1>5. SelectionFits'
  BY <1>1, <1>2, SelectionStays DEF IsThere, Inherited
<1>6. EvidenceTypeOK'
  BY <1>1 DEF TypedEvidence, EvidenceTypeOK
<1>7. AnswersTyped'
  BY <1>1, EvidenceParts DEF AnswersTyped
<1> QED
  BY <1>4, <1>5, <1>6, <1>7 DEF TypedEvidence, EvidenceInvariant

\* A new receipt follows the last one, when the times tell which that is.
LEMMA LatestIsLast ==
    ASSUME NEW b \in BrainsSeen, NEW c \in ContinuationKeys,
           accepts[b] \in Seq(Acceptance), ReceiptOf(b, c) = {},
           \A i, j \in DOMAIN accepts[b] : i < j => accepts[b][i].at < accepts[b][j].at
    PROVE  LatestOf(b, c) = IF accepts[b] = <<>> THEN {} ELSE {accepts[b][Len(accepts[b])]}
<1> PICK s \in {accepts[b]} : TRUE
  OBVIOUS
<1>1. /\ s \in Seq(Acceptance) /\ DOMAIN s = 1..Len(s) /\ Len(s) \in Nat
      /\ \A i \in DOMAIN s : s[i] \in Acceptance
  OBVIOUS
<1>2. \A i \in DOMAIN s : s[i].at \in Nat /\ s[i].continuation # c
  BY <1>1 DEF Acceptance, ReceiptOf, Receipts
<1> PICK all \in {Receipts(b)} : TRUE
  OBVIOUS
<1>3. all = {s[i] : i \in DOMAIN s}
  BY DEF Receipts
<1>4. \A a \in all : a.continuation # c
  BY <1>2, <1>3
<1>5. LatestOf(b, c) = {a \in all : \A x \in all : x.at <= a.at}
  BY <1>4 DEF LatestOf
<1>6. CASE s = <<>>
  <2>1. all = {}
    BY <1>1, <1>3, <1>6
  <2> QED
    BY <1>5, <1>6, <2>1
<1>7. CASE s # <<>>
  <2>1. Len(s) \in DOMAIN s /\ s[Len(s)] \in all
    BY <1>1, <1>3, <1>7
  <2>2. \A i \in DOMAIN s : i # Len(s) => s[i].at < s[Len(s)].at
    BY <1>1, <2>1
  <2>3. \A x \in all : x.at <= s[Len(s)].at
    BY <1>2, <1>3, <2>1, <2>2
  <2>4. ASSUME NEW a \in all, \A x \in all : x.at <= a.at PROVE a = s[Len(s)]
    BY <1>3, <2>1, <2>4, <1>2, <2>2
  <2>5. LatestOf(b, c) = {s[Len(s)]}
    BY <1>5, <2>1, <2>3, <2>4
  <2> QED
    BY <1>7, <2>5
<1> QED
  BY <1>6, <1>7

LEMMA AcceptContinuationKeeps ==
    ASSUME TypedEvidence, NEW b \in BrainsSeen, NEW c \in ContinuationKeys,
           NEW scope \in Scopes, NEW given \in {NoContinuation, OtherReceipt},
           AcceptContinuation(b, c, scope, given)
    PROVE  TypedEvidence'
<1> PICK prior \in IF given # NoContinuation THEN {given}
                   ELSE IF LatestOf(b, c) = {} THEN {NoContinuation}
                   ELSE {a.continuation : a \in LatestOf(b, c)} :
           LET r == [continuation |-> c, scope |-> scope, prior |-> prior, at |-> clock]
           IN accepts' = [accepts EXCEPT ![b] = Append(@, r)] /\ Confirm(b, scope, r)
  BY DEF AcceptContinuation
<1> PICK receipt \in {[continuation |-> c, scope |-> scope, prior |-> prior, at |-> clock]} :
           /\ accepts' = [accepts EXCEPT ![b] = Append(@, receipt)]
           /\ Confirm(b, scope, receipt)
  OBVIOUS
<1> PICK s \in {accepts[b]} : TRUE
  OBVIOUS
<1>1. /\ accepts \in [BrainsSeen -> Seq(Acceptance)] /\ s \in Seq(Acceptance)
      /\ confirmed \in [BrainsSeen -> SUBSET Confirmation]
      /\ clock \in Nat /\ DOMAIN s = 1..Len(s) /\ Len(s) \in Nat
      /\ AcceptancesFit
  BY EvidenceParts
<1>2. /\ ReceiptOf(b, c) = {} /\ clock' = clock + 1
      /\ unchained' = unchained \cup (IF given = NoContinuation THEN {} ELSE {<<b, c>>})
      /\ FoldersRest /\ SelectionRests /\ ProposalRests
      /\ UNCHANGED <<command, evidenceFaults>>
      /\ sessionCommands < MaxSessionCommands /\ sessionCommands' = sessionCommands + 1
  BY DEF AcceptContinuation, Accepting, Begins
<1>3. prior \in ContinuationKeys \cup {NoContinuation, OtherReceipt}
  <2>1. \A a \in LatestOf(b, c) : a \in Acceptance
    BY <1>1 DEF LatestOf, Receipts
  <2> QED
    BY <2>1 DEF Acceptance
<1>4. /\ receipt \in Acceptance /\ receipt.continuation = c /\ receipt.scope = scope
      /\ receipt.prior = prior /\ receipt.at = clock
  BY <1>1, <1>3 DEF Acceptance
<1> PICK new \in {Append(s, receipt)}, x0 \in {[asked |-> scope, receipt |-> receipt]} : TRUE
  OBVIOUS
<1>5. /\ new \in Seq(Acceptance) /\ DOMAIN new = 1..(Len(s) + 1)
      /\ \A i \in 1..Len(s) : new[i] = s[i]
      /\ new[Len(s) + 1] = receipt
  <2>1. new = Append(s, receipt) /\ receipt \in Acceptance
    BY <1>4
  <2>2. /\ Append(s, receipt) \in Seq(Acceptance) /\ Len(Append(s, receipt)) = Len(s) + 1
        /\ \A i \in 1..Len(s) : Append(s, receipt)[i] = s[i]
        /\ Append(s, receipt)[Len(s) + 1] = receipt
    BY <1>1, <2>1, AppendProperties
  <2> QED
    BY <2>1, <2>2
<1>6. \A i \in DOMAIN new : \/ i \in DOMAIN s /\ new[i] = s[i]
                            \/ i = Len(s) + 1 /\ new[i] = receipt
  BY <1>1, <1>5
<1>7. x0 \in Confirmation /\ x0.asked = scope /\ x0.receipt = receipt
  BY <1>4 DEF Confirmation
<1>8. /\ accepts' \in [BrainsSeen -> Seq(Acceptance)] /\ accepts'[b] = new
      /\ \A y \in BrainsSeen : y # b => accepts'[y] = accepts[y]
  BY <1>1, <1>5
<1>9. /\ confirmed' \in [BrainsSeen -> SUBSET Confirmation]
      /\ confirmed'[b] = confirmed[b] \cup {x0}
      /\ \A y \in BrainsSeen : y # b => confirmed'[y] = confirmed[y]
  BY <1>1, <1>7 DEF Confirm
<1>10. fusedAway' = fusedAway /\ unchained \subseteq unchained'
  BY <1>2 DEF FoldersRest
<1>11. Receipts(b) = {s[i] : i \in DOMAIN s} /\ Receipts(b)' = {new[i] : i \in DOMAIN new}
       /\ \A y \in BrainsSeen : y # b => Receipts(y)' = Receipts(y)
  <2>1. Receipts(b) = {s[i] : i \in DOMAIN s}
    BY DEF Receipts
  <2>2. Receipts(b)' = {new[i] : i \in DOMAIN new}
    <3>1. accepts'[b] = new
      BY <1>8
    <3>2. Receipts(b)' = {accepts'[b][i] : i \in DOMAIN accepts'[b]}
      BY DEF Receipts
    <3> QED
      BY <3>1, <3>2
  <2>3. ASSUME NEW y \in BrainsSeen, y # b PROVE Receipts(y)' = Receipts(y)
    BY <1>8, <2>3 DEF Receipts
  <2> QED
    BY <2>1, <2>2, <2>3
<1>12. Receipts(b) \subseteq Receipts(b)' /\ receipt \in Receipts(b)'
  <2>1. \A i \in DOMAIN s : i \in DOMAIN new /\ new[i] = s[i]
    BY <1>1, <1>5
  <2>2. Len(s) + 1 \in DOMAIN new
    BY <1>1, <1>5
  <2> QED
    BY <1>5, <1>11, <2>1, <2>2
<1>13. ASSUME NEW y \in BrainsSeen, NEW x \in confirmed'[y]
       PROVE  /\ x.asked = x.receipt.scope
              /\ x.receipt \in Receipts(y)' \/ x.receipt.continuation \in fusedAway'
  <2>1. CASE x \in confirmed[y]
    <3>1. /\ x.asked = x.receipt.scope
          /\ x.receipt \in Receipts(y) \/ x.receipt.continuation \in fusedAway
      BY <1>1, <2>1 DEF AcceptancesFit
    <3> QED
      BY <1>10, <1>11, <1>12, <3>1
  <2>2. CASE y = b /\ x = x0
    BY <1>4, <1>7, <1>12, <2>2
  <2> QED
    BY <1>9, <1>13, <2>1, <2>2
<1>14. \A i \in DOMAIN s : s[i].continuation # c
  BY <1>2 DEF ReceiptOf, Receipts
<1>15. ASSUME NEW y \in BrainsSeen
       PROVE  \A i, j \in DOMAIN accepts'[y] :
                 accepts'[y][i].continuation = accepts'[y][j].continuation => i = j
  <2>1. \A i, j \in DOMAIN accepts[y] :
           accepts[y][i].continuation = accepts[y][j].continuation => i = j
    BY <1>1 DEF AcceptancesFit
  <2>2. CASE y = b
    BY <2>1, <2>2, <1>4, <1>6, <1>14, <1>8
  <2>3. CASE y # b
    BY <1>8, <2>1, <2>3
  <2> QED
    BY <2>2, <2>3
<1>16. \/ BrainsSeen \X ContinuationKeys \subseteq unchained
       \/ \A y \in BrainsSeen : \A i \in DOMAIN accepts[y] :
              /\ accepts[y][i].at < clock
              /\ \A j \in DOMAIN accepts[y] : i < j => accepts[y][i].at < accepts[y][j].at
  BY <1>1 DEF AcceptancesFit
<1>17. \A y \in BrainsSeen : \A i \in DOMAIN accepts[y] : accepts[y][i].at \in Nat
  <2>1. \A y \in BrainsSeen : \A i \in DOMAIN accepts[y] : accepts[y][i] \in Acceptance
    BY <1>1
  <2> QED
    BY <2>1 DEF Acceptance
<1>18. ASSUME <<b, c>> \notin unchained'
       PROVE  prior = IF s = <<>> THEN NoContinuation ELSE s[Len(s)].continuation
  <2>1. given = NoContinuation /\ <<b, c>> \notin unchained
    BY <1>2, <1>18
  <2>2. \A i, j \in DOMAIN s : i < j => s[i].at < s[j].at
    BY <1>16, <2>1
  <2>3. LatestOf(b, c) = IF s = <<>> THEN {} ELSE {s[Len(s)]}
    BY <1>1, <1>2, <2>2, LatestIsLast
  <2>4. CASE s = <<>>
    BY <2>1, <2>3, <2>4
  <2>5. CASE s # <<>>
    BY <2>3, <2>5, <2>1
  <2> QED
    BY <2>4, <2>5
<1>19. ASSUME NEW y \in BrainsSeen, NEW i \in DOMAIN accepts'[y],
              <<y, accepts'[y][i].continuation>> \notin unchained'
       PROVE  accepts'[y][i].prior = IF i = 1 THEN NoContinuation
                                     ELSE accepts'[y][i - 1].continuation
  <2>1. \A k \in DOMAIN accepts[y] : <<y, accepts[y][k].continuation>> \notin unchained =>
           accepts[y][k].prior = IF k = 1 THEN NoContinuation
                                 ELSE accepts[y][k - 1].continuation
    BY <1>1 DEF AcceptancesFit
  <2>2. CASE y # b
    BY <1>8, <2>2, <1>10, <1>19, <2>1
  <2>3. CASE y = b /\ i \in DOMAIN s
    <3>1. i \in 1..Len(s) /\ new[i] = s[i] /\ (i # 1 => new[i - 1] = s[i - 1])
      BY <1>1, <1>5, <2>3
    <3>2. <<y, s[i].continuation>> \notin unchained
      BY <1>8, <1>10, <1>19, <2>3, <3>1
    <3>3. s[i].prior = IF i = 1 THEN NoContinuation ELSE s[i - 1].continuation
      BY <2>1, <2>3, <3>2
    <3> QED
      BY <1>8, <2>3, <3>1, <3>3
  <2>4. CASE y = b /\ i = Len(s) + 1
    <3>1. accepts'[y][i] = receipt
      BY <1>5, <1>8, <2>4
    <3>2. <<b, c>> \notin unchained'
      BY <1>4, <1>19, <2>4, <3>1
    <3>3. prior = IF s = <<>> THEN NoContinuation ELSE s[Len(s)].continuation
      BY <1>18, <3>2
    <3>4. (i = 1) <=> (s = <<>>)
      BY <1>1, <2>4
    <3>5. ASSUME i # 1 PROVE accepts'[y][i - 1] = s[Len(s)]
      <4>1. i - 1 = Len(s) /\ Len(s) \in 1..Len(s)
        BY <1>1, <2>4, <3>5
      <4>2. new[Len(s)] = s[Len(s)]
        BY <1>5, <4>1
      <4> QED
        BY <1>8, <2>4, <4>1, <4>2
    <3> QED
      BY <1>4, <3>1, <3>3, <3>4, <3>5
  <2> QED
    BY <1>6, <1>8, <1>19, <2>2, <2>3, <2>4
<1>20. \/ BrainsSeen \X ContinuationKeys \subseteq unchained'
       \/ \A y \in BrainsSeen : \A i \in DOMAIN accepts'[y] :
              /\ accepts'[y][i].at < clock'
              /\ \A j \in DOMAIN accepts'[y] : i < j => accepts'[y][i].at < accepts'[y][j].at
  <2>1. CASE BrainsSeen \X ContinuationKeys \subseteq unchained
    BY <1>10, <2>1
  <2>2. CASE ~(BrainsSeen \X ContinuationKeys \subseteq unchained)
    <3>1. \A y \in BrainsSeen : \A i \in DOMAIN accepts[y] :
             /\ accepts[y][i].at < clock /\ accepts[y][i].at < clock'
             /\ \A j \in DOMAIN accepts[y] : i < j => accepts[y][i].at < accepts[y][j].at
      BY <1>1, <1>2, <1>16, <1>17, <2>2
    <3>2. ASSUME NEW i \in DOMAIN new
          PROVE  /\ new[i].at < clock'
                 /\ \A j \in DOMAIN new : i < j => new[i].at < new[j].at
      <4>1. clock < clock'
        BY <1>1, <1>2
      <4>2. CASE i \in DOMAIN s
        <5>1. /\ new[i] = s[i] /\ s[i].at < clock /\ s[i].at < clock'
              /\ \A j \in DOMAIN s : i < j => s[i].at < s[j].at
          BY <1>1, <1>5, <3>1, <4>2
        <5> QED
          BY <1>4, <1>6, <5>1
      <4>3. CASE i = Len(s) + 1
        BY <1>1, <1>4, <1>5, <4>1, <4>3
      <4> QED
        BY <1>6, <3>2, <4>2, <4>3
    <3>3. ASSUME NEW y \in BrainsSeen, NEW i \in DOMAIN accepts'[y]
          PROVE  /\ accepts'[y][i].at < clock'
                 /\ \A j \in DOMAIN accepts'[y] : i < j => accepts'[y][i].at < accepts'[y][j].at
      BY <1>8, <3>2, <3>3, <3>1
    <3> QED
      BY <3>3
  <2> QED
    BY <2>1, <2>2
<1>21. AcceptancesFit'
  BY <1>13, <1>15, <1>19, <1>20 DEF AcceptancesFit
<1>22. /\ sessionCommands' \in 0..MaxSessionCommands
       /\ evidenceFaults' \in 0..MaxEvidenceFaults /\ clock' \in Nat
  BY <1>1, <1>2, EvidenceAssumption DEF TypedEvidence, EvidenceTypeOK
<1> QED
  BY <1>2, <1>8, <1>9, <1>21, <1>22, AcceptingKeeps

LEMMA AcceptAgainKeeps ==
    ASSUME TypedEvidence, NEW b \in BrainsSeen, NEW c \in ContinuationKeys,
           NEW scope \in Scopes, AcceptAgain(b, c, scope)
    PROVE  TypedEvidence'
<1>1. PICK a \in ReceiptOf(b, c) : a.scope = scope /\ Confirm(b, scope, a)
  BY DEF AcceptAgain
<1>2. /\ UNCHANGED <<accepts, clock, unchained, command, evidenceFaults>>
      /\ FoldersRest /\ SelectionRests /\ ProposalRests
      /\ sessionCommands < MaxSessionCommands /\ sessionCommands' = sessionCommands + 1
  BY DEF AcceptAgain, Accepting, Begins
<1>3. /\ accepts \in [BrainsSeen -> Seq(Acceptance)] /\ AcceptancesFit
      /\ confirmed \in [BrainsSeen -> SUBSET Confirmation] /\ clock \in Nat
  BY EvidenceParts
<1>4. a \in Receipts(b) /\ a \in Acceptance
  BY <1>3 DEF ReceiptOf, Receipts
<1> PICK x0 \in {[asked |-> scope, receipt |-> a]} : TRUE
  OBVIOUS
<1>5. x0 \in Confirmation /\ x0.asked = scope /\ x0.receipt = a
  BY <1>4 DEF Confirmation
<1>6. /\ confirmed' \in [BrainsSeen -> SUBSET Confirmation]
      /\ confirmed'[b] = confirmed[b] \cup {x0}
      /\ \A y \in BrainsSeen : y # b => confirmed'[y] = confirmed[y]
  BY <1>1, <1>3, <1>5 DEF Confirm
<1>7. fusedAway' = fusedAway /\ \A y \in BrainsSeen : Receipts(y)' = Receipts(y)
  BY <1>2 DEF FoldersRest, Receipts
<1>8. ASSUME NEW y \in BrainsSeen, NEW x \in confirmed'[y]
      PROVE  /\ x.asked = x.receipt.scope
             /\ x.receipt \in Receipts(y)' \/ x.receipt.continuation \in fusedAway'
  <2>1. CASE x \in confirmed[y]
    BY <1>3, <1>7, <2>1 DEF AcceptancesFit
  <2>2. CASE y = b /\ x = x0
    BY <1>1, <1>4, <1>5, <1>7, <2>2
  <2> QED
    BY <1>6, <1>8, <2>1, <2>2
<1>9. AcceptancesFit'
  BY <1>2, <1>3, <1>8 DEF AcceptancesFit
<1>10. /\ sessionCommands' \in 0..MaxSessionCommands
       /\ evidenceFaults' \in 0..MaxEvidenceFaults
  BY <1>2, EvidenceAssumption DEF TypedEvidence, EvidenceTypeOK
<1> QED
  BY <1>2, <1>3, <1>6, <1>9, <1>10, AcceptingKeeps

LEMMA SetClockBackKeeps ==
    ASSUME TypedEvidence, SetClockBack
    PROVE  TypedEvidence'
<1>1. /\ UNCHANGED <<command, accepts, confirmed, sessionCommands>>
      /\ clock' = 0 /\ unchained' = BrainsSeen \X ContinuationKeys
      /\ FoldersRest /\ SelectionRests /\ ProposalRests
      /\ evidenceFaults < MaxEvidenceFaults /\ evidenceFaults' = evidenceFaults + 1
  BY DEF SetClockBack, EvidenceFault
<1>2. /\ accepts \in [BrainsSeen -> Seq(Acceptance)] /\ AcceptancesFit
      /\ confirmed \in [BrainsSeen -> SUBSET Confirmation] /\ clock' \in Nat
  BY <1>1, EvidenceParts
<1>3. fusedAway' = fusedAway /\ \A y \in BrainsSeen : Receipts(y)' = Receipts(y)
  BY <1>1 DEF FoldersRest, Receipts
<1>4. \A y \in BrainsSeen : \A i \in DOMAIN accepts[y] :
         <<y, accepts[y][i].continuation>> \in unchained'
  <2>1. \A y \in BrainsSeen : \A i \in DOMAIN accepts[y] : accepts[y][i] \in Acceptance
    BY <1>2
  <2> QED
    BY <1>1, <2>1 DEF Acceptance
<1>5. AcceptancesFit'
  BY <1>1, <1>2, <1>3, <1>4 DEF AcceptancesFit
<1>6. /\ sessionCommands' \in 0..MaxSessionCommands
      /\ evidenceFaults' \in 0..MaxEvidenceFaults
  BY <1>1, EvidenceAssumption DEF TypedEvidence, EvidenceTypeOK
<1> QED
  BY <1>1, <1>2, <1>5, <1>6, AcceptingKeeps

-----------------------------------------------------------------------------
(* The session evidence: what copies the folder of a brain.                *)

\* A copy of a folder tells the same outputs, and is as sound.
LEMMA CopiedFields ==
    ASSUME NEW o \in Outputs
    PROVE  /\ Copied(o) \in Outputs
           /\ Copied(o).owner = o.owner /\ Copied(o).receipts = o.receipts
           /\ Copied(o).index = o.index
           /\ \A k \in ObjectKeys : Copied(o).objects[k] =
                 IF o.objects[k] = "sealed" THEN "open" ELSE o.objects[k]
<1> DEFINE objects == [k \in ObjectKeys |-> IF o.objects[k] = "sealed" THEN "open"
                                            ELSE o.objects[k]]
<1>1. o.objects \in [ObjectKeys -> ObjectStates]
  BY DEF Outputs, ObjectStates
<1>2. objects \in [ObjectKeys -> ObjectStates]
  BY <1>1 DEF ObjectStates
<1>3. Copied(o) = [o EXCEPT !.objects = objects]
  BY DEF Copied
<1> HIDE DEF objects
<1>4. /\ Copied(o) \in Outputs /\ Copied(o).owner = o.owner
      /\ Copied(o).receipts = o.receipts /\ Copied(o).index = o.index
      /\ Copied(o).objects = objects
  BY <1>2, <1>3 DEF Outputs, ObjectStates
<1> QED
  BY <1>4 DEF objects

LEMMA CopiedSound ==
    ASSUME NEW o \in Outputs, FolderSound(o)
    PROVE  FolderSound(Copied(o))
<1> PICK new \in {Copied(o)} : TRUE
  OBVIOUS
<1>1. /\ new.receipts = o.receipts /\ new.index = o.index
      /\ \A k \in ObjectKeys : new.objects[k] =
            IF o.objects[k] = "sealed" THEN "open" ELSE o.objects[k]
  BY CopiedFields
<1>2. ASSUME NEW i \in DOMAIN o.index
      PROVE  \/ <<o.index[i].text, o.index[i].media>> \in handled
             \/ new.objects[<<o.index[i].text, o.index[i].media>>] \in {"open", "sealed"}
  <2> PICK k \in {<<o.index[i].text, o.index[i].media>>} : TRUE
    OBVIOUS
  <2>1. k \in handled \/ o.objects[k] \in {"open", "sealed"}
    BY <1>2 DEF FolderSound
  <2>2. k \in ObjectKeys
    <3>1. o.index[i] \in IndexRow
      BY <1>2 DEF Outputs
    <3> QED
      BY <3>1 DEF IndexRow, ObjectKeys
  <2>3. k \in handled \/ new.objects[k] \in {"open", "sealed"}
    BY <1>1, <2>1, <2>2
  <2> QED
    BY <2>3
<1>3. \A k \in ObjectKeys : new.objects[k] = "edited" => k \in handled
  BY <1>1 DEF FolderSound
<1>4. FolderSound(new)
  BY <1>1, <1>2, <1>3 DEF FolderSound
<1> QED
  BY <1>4

\* A folder step that leaves the folders of the brains.
LEMMA CopyingKeeps ==
    ASSUME TypedEvidence, FolderStep, UNCHANGED <<outputs, accepts, fusedAway, loosened>>,
           versioned' \in Outputs \cup {NoCopy}, inCandidate' \in Outputs \cup {NoCopy},
           CopyFits(versioned)', CopyFits(inCandidate)', place' \in Nat, place <= place'
    PROVE  TypedEvidence'
<1>1. /\ UNCHANGED <<command, reported, refused, confirmed, clock, unchained, handled,
                     evidenceFaults, selection, committed>>
      /\ sessionCommands < MaxSessionCommands /\ sessionCommands' = sessionCommands + 1
  BY DEF FolderStep, Begins, SelectionRests
<1>2. FoldersFit'
  BY <1>1, FoldersStay
<1>3. AcceptancesFit'
  BY <1>1, EvidenceParts, AcceptancesStay
<1>4. SelectionFits'
  BY <1>1, SelectionStays DEF IsThere, Inherited
<1>5. sessionCommands' \in 0..MaxSessionCommands
  BY <1>1, EvidenceAssumption DEF TypedEvidence, EvidenceTypeOK
<1>6. EvidenceTypeOK'
  BY <1>1, <1>5 DEF TypedEvidence, EvidenceTypeOK
<1>7. AnswersTyped'
  BY <1>1, EvidenceParts DEF AnswersTyped
<1> QED
  BY <1>2, <1>3, <1>4, <1>6, <1>7 DEF TypedEvidence, EvidenceInvariant

\* A folder step that replaces the folder of a brain at rest.
LEMMA ReplacingKeeps ==
    ASSUME TypedEvidence, FolderStep, NEW b \in BrainsSeen, IsThere(b) => b = MainBrain,
           command[b].step = "idle", NEW new \in Outputs,
           outputs' = [outputs EXCEPT ![b] = new],
           loosened \subseteq loosened', place' = place,
           accepts' \in [BrainsSeen -> Seq(Acceptance)],
           versioned' \in Outputs \cup {NoCopy}, inCandidate' \in Outputs \cup {NoCopy},
           CopyFits(versioned)', CopyFits(inCandidate)', AcceptancesFit',
           NEW c \in {command[b]}, NEW said \in {reported[b]}, NEW no \in {refused[b]},
           BrainFits(b, new, c, said, no)'
    PROVE  TypedEvidence'
<1>1. /\ UNCHANGED <<command, reported, refused, confirmed, clock, unchained, handled,
                     evidenceFaults, selection, committed>>
      /\ sessionCommands < MaxSessionCommands /\ sessionCommands' = sessionCommands + 1
  BY DEF FolderStep, Begins, SelectionRests
<1>2. /\ c \in SessionCommand /\ said \in SUBSET IndexRow /\ no \in SUBSET Refusal
  BY EvidenceParts
<1>3. /\ command' = [command EXCEPT ![b] = c] /\ reported' = [reported EXCEPT ![b] = said]
      /\ refused' = [refused EXCEPT ![b] = no] /\ handled \subseteq handled'
  BY <1>1, EvidenceParts
<1>4. FoldersFit' /\ outputs' \in [BrainsSeen -> Outputs \cup {NoCopy}]
  BY <1>2, <1>3, BrainMoves
<1>5. SelectionFits'
  BY EvidenceParts, AbsentIsNoOutput, EvidenceAssumption, <1>1, <1>3, SelectionStays DEF
     Inherited, IsThere
<1>6. sessionCommands' \in 0..MaxSessionCommands
  BY <1>1, EvidenceAssumption DEF TypedEvidence, EvidenceTypeOK
<1>7. EvidenceTypeOK'
  BY <1>1, <1>4, <1>6 DEF TypedEvidence, EvidenceTypeOK
<1>8. AnswersTyped'
  BY <1>1, EvidenceParts DEF AnswersTyped
<1> QED
  BY <1>4, <1>5, <1>7, <1>8 DEF TypedEvidence, EvidenceInvariant

LEMMA CaptureOutputsKeeps ==
    ASSUME TypedEvidence, CaptureOutputs
    PROVE  TypedEvidence'
<1>1. /\ IsThere(MainBrain) /\ versioned' = Copied(outputs[MainBrain]) /\ FolderStep
      /\ UNCHANGED <<outputs, accepts, inCandidate, place, fusedAway, loosened>>
      /\ UNCHANGED handled
  BY DEF CaptureOutputs, Rests, FolderStep
<1>2. MainBrain \in BrainsSeen
  BY DEF BrainsSeen
<1> PICK o \in {outputs[MainBrain]}, new \in {Copied(outputs[MainBrain])} : TRUE
  OBVIOUS
<1>3. o \in Outputs /\ FolderSound(o) /\ o.owner \in {NoCopy, MainBrain}
  BY <1>1, <1>2, BrainThere, EvidenceAssumption DEF BrainFits
<1>4. new \in Outputs /\ FolderSound(new) /\ new.owner \in {NoCopy, MainBrain}
  BY <1>3, CopiedFields, CopiedSound
<1>5. versioned' = new /\ place' \in Nat /\ place <= place'
  BY <1>1, EvidenceParts
<1>6. CopyFits(versioned)'
  BY <1>1, <1>4, <1>5 DEF CopyFits, FolderSound
<1>7. CopyFits(inCandidate)'
  <2>1. CopyFits(inCandidate)
    BY EvidenceParts DEF FoldersFit
  <2> QED
    BY <1>1, <2>1 DEF CopyFits, FolderSound
<1>8. versioned' \in Outputs \cup {NoCopy} /\ inCandidate' \in Outputs \cup {NoCopy}
  BY <1>1, <1>4, <1>5, EvidenceParts
<1> QED
  BY <1>1, <1>5, <1>6, <1>7, <1>8, CopyingKeeps

LEMMA StartCandidateKeeps ==
    ASSUME TypedEvidence, StartCandidate
    PROVE  TypedEvidence'
<1>1. /\ inCandidate' = versioned /\ FolderStep
      /\ UNCHANGED <<outputs, accepts, versioned, place, fusedAway, loosened>>
      /\ UNCHANGED handled
  BY DEF StartCandidate, FolderStep
<1>2. CopyFits(versioned) /\ place' \in Nat /\ place <= place'
  BY <1>1, EvidenceParts DEF FoldersFit
<1>3. CopyFits(versioned)' /\ CopyFits(inCandidate)'
  BY <1>1, <1>2 DEF CopyFits, FolderSound
<1>4. versioned' \in Outputs \cup {NoCopy} /\ inCandidate' \in Outputs \cup {NoCopy}
  BY <1>1, EvidenceParts
<1> QED
  BY <1>1, <1>2, <1>3, <1>4, CopyingKeeps

LEMMA MoveWorkspaceKeeps ==
    ASSUME TypedEvidence, MoveWorkspace
    PROVE  TypedEvidence'
<1>1. /\ place = 0 /\ place' = 1 /\ FolderStep
      /\ UNCHANGED <<outputs, accepts, versioned, inCandidate, fusedAway, loosened>>
      /\ UNCHANGED handled
  BY DEF MoveWorkspace, FolderStep
<1>2. place' \in Nat /\ place <= place' /\ handled \subseteq handled'
  BY <1>1
<1>3. CopyFits(versioned)' /\ CopyFits(inCandidate)'
  BY <1>1, <1>2, CopiesStay
<1>4. versioned' \in Outputs \cup {NoCopy} /\ inCandidate' \in Outputs \cup {NoCopy}
  BY <1>1, EvidenceParts
<1> QED
  BY <1>1, <1>2, <1>3, <1>4, CopyingKeeps

\* A version, or a candidate, that is there.
LEMMA CopyThere ==
    ASSUME TypedEvidence, NEW o \in {versioned, inCandidate}, o # NoCopy
    PROVE  o \in Outputs /\ FolderSound(o) /\ o.owner \in {NoCopy, MainBrain}
BY EvidenceParts DEF FoldersFit, CopyFits

LEMMA RestoreOutputsKeeps ==
    ASSUME TypedEvidence, RestoreOutputs
    PROVE  TypedEvidence'
<1> PICK b \in BrainsSeen : b = RestoredBrain
  BY DEF BrainsSeen
<1> PICK new \in {versioned}, c \in {command[b]}, said \in {reported[b]}, no \in {refused[b]} :
           TRUE
  OBVIOUS
<1>1. /\ new # NoCopy /\ ~IsThere(b) /\ FolderStep
      /\ outputs' = [outputs EXCEPT ![b] = new]
      /\ loosened' = loosened \cup {b}
      /\ UNCHANGED <<accepts, versioned, inCandidate, place, fusedAway>>
      /\ UNCHANGED <<handled, confirmed, clock, unchained>>
  BY DEF RestoreOutputs, FolderStep
<1>2. new \in Outputs /\ FolderSound(new) /\ new.owner \in {NoCopy, MainBrain}
  BY <1>1, CopyThere
<1>3. c.step = "idle" /\ said = {} /\ no = {} /\ command[b].step = "idle"
  BY <1>1, EvidenceParts DEF FoldersFit
<1>4. FolderSound(new)' /\ StepFits(new, c)'
  BY <1>1, <1>2, <1>3 DEF FolderSound, StepFits, Proposals
<1>5. b \in loosened' /\ (new.owner \in {NoCopy, b} \/ (b = RestoredBrain /\ new.owner = MainBrain))
  BY <1>1, <1>2
<1>6. BrainFits(b, new, c, said, no)'
  BY <1>3, <1>4, <1>5 DEF BrainFits
<1>7. CopyFits(versioned)' /\ CopyFits(inCandidate)'
  BY <1>1, EvidenceParts, CopiesStay
<1>8. AcceptancesFit' /\ accepts' \in [BrainsSeen -> Seq(Acceptance)]
  BY <1>1, EvidenceParts, AcceptancesStay
<1>9. versioned' \in Outputs \cup {NoCopy} /\ inCandidate' \in Outputs \cup {NoCopy}
      /\ loosened \subseteq loosened' /\ place' = place /\ (IsThere(b) => b = MainBrain)
  BY <1>1, EvidenceParts
<1> QED
  BY <1>1, <1>2, <1>3, <1>6, <1>7, <1>8, <1>9, ReplacingKeeps

\* The receipts of the acceptances before a fuse are gone with the folder.
LEMMA FusedAcceptances ==
    ASSUME TypedEvidence, NEW b \in BrainsSeen,
           accepts' = [accepts EXCEPT ![b] = <<>>],
           fusedAway' = fusedAway \cup {a.continuation : a \in Receipts(b)},
           UNCHANGED <<confirmed, clock, unchained>>
    PROVE  AcceptancesFit' /\ accepts' \in [BrainsSeen -> Seq(Acceptance)]
<1>1. accepts \in [BrainsSeen -> Seq(Acceptance)] /\ AcceptancesFit
  BY EvidenceParts
<1>2. /\ accepts' \in [BrainsSeen -> Seq(Acceptance)]
      /\ accepts'[b] = <<>> /\ DOMAIN accepts'[b] = {}
      /\ \A y \in BrainsSeen : y # b => accepts'[y] = accepts[y]
  BY <1>1
<1>3. ASSUME NEW y \in BrainsSeen, NEW x \in confirmed'[y]
      PROVE  /\ x.asked = x.receipt.scope
             /\ x.receipt \in Receipts(y)' \/ x.receipt.continuation \in fusedAway'
  BY <1>1, <1>3, <1>2 DEF AcceptancesFit, Receipts
<1>4. ASSUME NEW y \in BrainsSeen
      PROVE  /\ \A i, j \in DOMAIN accepts'[y] :
                   accepts'[y][i].continuation = accepts'[y][j].continuation => i = j
             /\ \A i \in DOMAIN accepts'[y] :
                   <<y, accepts'[y][i].continuation>> \notin unchained' =>
                       accepts'[y][i].prior = IF i = 1 THEN NoContinuation
                                              ELSE accepts'[y][i - 1].continuation
  <2>1. CASE y = b
    BY <1>2, <2>1
  <2>2. CASE y # b
    <3>1. accepts'[y] = accepts[y]
      BY <1>2, <2>2
    <3>2. \A i, j \in DOMAIN accepts[y] :
             accepts[y][i].continuation = accepts[y][j].continuation => i = j
      BY <1>1 DEF AcceptancesFit
    <3>3. \A i \in DOMAIN accepts[y] :
             <<y, accepts[y][i].continuation>> \notin unchained =>
                 accepts[y][i].prior = IF i = 1 THEN NoContinuation
                                       ELSE accepts[y][i - 1].continuation
      BY <1>1 DEF AcceptancesFit
    <3> QED
      BY <3>1, <3>2, <3>3
  <2> QED
    BY <2>1, <2>2
<1>5. \/ BrainsSeen \X ContinuationKeys \subseteq unchained'
      \/ \A y \in BrainsSeen : \A i \in DOMAIN accepts'[y] :
             /\ accepts'[y][i].at < clock'
             /\ \A j \in DOMAIN accepts'[y] : i < j => accepts'[y][i].at < accepts'[y][j].at
  BY <1>2, <1>1 DEF AcceptancesFit
<1>6. AcceptancesFit'
  BY <1>3, <1>4, <1>5 DEF AcceptancesFit
<1> QED
  BY <1>2, <1>6

LEMMA FuseOutputsKeeps ==
    ASSUME TypedEvidence, FuseOutputs
    PROVE  TypedEvidence'
<1> PICK b \in BrainsSeen : b = MainBrain
  BY DEF BrainsSeen
<1> PICK o \in {outputs[b]}, new \in {inCandidate}, c \in {command[b]}, said \in {reported[b]},
         no \in {refused[b]} : TRUE
  OBVIOUS
<1>1. /\ new # NoCopy /\ IsThere(b) /\ c.step = "idle" /\ command[b].step = "idle" /\ FolderStep
      /\ Copied(o) = Copied(new)
      /\ outputs' = [outputs EXCEPT ![b] = new]
      /\ accepts' = [accepts EXCEPT ![b] = <<>>]
      /\ versioned' = new /\ inCandidate' = NoCopy
      /\ fusedAway' = fusedAway \cup {a.continuation : a \in Receipts(b)}
      /\ loosened' = loosened \cup {b} /\ place' = place
      /\ UNCHANGED <<handled, confirmed, clock, unchained>>
  BY DEF FuseOutputs, FolderStep, Rests, SameOutputs
<1>2. new \in Outputs /\ FolderSound(new) /\ new.owner \in {NoCopy, MainBrain}
  BY <1>1, CopyThere
<1>3. o \in Outputs /\ BrainFits(b, o, c, said, no)
  BY <1>1, BrainThere
<1>4. new.index = o.index /\ new.receipts = o.receipts /\ new.owner = o.owner
  BY <1>1, <1>2, <1>3, CopiedFields
<1>5. FolderSound(new)' /\ StepFits(new, c)'
  BY <1>1, <1>2 DEF FolderSound, StepFits, Proposals
<1>6. ASSUME NEW r \in no PROVE RefusedRightly(b, new, r)'
  <2>1. RefusedRightly(b, o, r)
    BY <1>3 DEF BrainFits
  <2> QED
    BY <1>1, <1>4, <2>1 DEF RefusedRightly
<1>7. \A r \in said : \E i \in DOMAIN new.index : new.index[i] = r
  BY <1>3, <1>4 DEF BrainFits
<1>8. b \in loosened' /\ new.owner \in {NoCopy, b}
  BY <1>1, <1>2
<1>9. BrainFits(b, new, c, said, no)'
  BY <1>5, <1>6, <1>7, <1>8 DEF BrainFits
<1>10. CopyFits(versioned)' /\ CopyFits(inCandidate)'
  BY <1>1, <1>2 DEF CopyFits, FolderSound
<1>11. AcceptancesFit' /\ accepts' \in [BrainsSeen -> Seq(Acceptance)]
  BY <1>1, FusedAcceptances
<1>12. versioned' \in Outputs \cup {NoCopy} /\ inCandidate' \in Outputs \cup {NoCopy}
       /\ loosened \subseteq loosened' /\ (IsThere(b) => b = MainBrain)
  BY <1>1, <1>2
<1> QED
  BY <1>1, <1>2, <1>9, <1>10, <1>11, <1>12, ReplacingKeeps

-----------------------------------------------------------------------------
(* The session evidence: what is kept.                                     *)

LEMMA EvidenceStarts == EvidenceInit => TypedEvidence
<1> SUFFICES ASSUME EvidenceInit PROVE TypedEvidence
  OBVIOUS
<1>1. NoOutputs \in Outputs /\ NoOutputs # NoCopy
  <2>1. /\ [k \in ObjectKeys |-> "absent"] \in [ObjectKeys -> ObjectStates]
        /\ [x \in OutputTexts |-> NoOutput] \in [OutputTexts -> Receipt \cup {NoOutput}]
        /\ <<>> \in Seq(IndexRow)
    BY DEF ObjectStates
  <2>2. NoOutputs \in Outputs
    BY <2>1 DEF NoOutputs, Outputs, ObjectStates
  <2> QED
    BY <2>2, AbsentIsNoOutput
<1>2. /\ NoOutputs.owner = NoCopy /\ NoOutputs.index = <<>> /\ DOMAIN NoOutputs.index = {}
      /\ \A k \in ObjectKeys : NoOutputs.objects[k] = "absent"
  BY DEF NoOutputs
<1>3. /\ \A b \in BrainsSeen :
            /\ outputs[b] \in {NoOutputs, NoCopy}
            /\ accepts[b] = <<>> /\ DOMAIN accepts[b] = {}
            /\ command[b] = NothingRuns /\ command[b].step = "idle"
            /\ reported[b] = {} /\ refused[b] = {} /\ confirmed[b] = {}
      /\ versioned = NoCopy /\ inCandidate = NoCopy /\ selection = NoCopy
  BY NothingRunsTyped DEF EvidenceInit
<1>4. /\ outputs \in [BrainsSeen -> Outputs \cup {NoCopy}]
      /\ accepts \in [BrainsSeen -> Seq(Acceptance)]
      /\ command \in [BrainsSeen -> SessionCommand]
      /\ reported \in [BrainsSeen -> SUBSET IndexRow]
      /\ refused \in [BrainsSeen -> SUBSET Refusal]
      /\ confirmed \in [BrainsSeen -> SUBSET Confirmation]
  BY NothingRunsTyped, <1>1 DEF EvidenceInit
<1>5. EvidenceTypeOK
  BY EvidenceAssumption, <1>3, <1>4 DEF EvidenceSteps, EvidenceInit, EvidenceTypeOK
<1>6. ASSUME NEW b \in BrainsSeen, IsThere(b)
      PROVE  BrainFits(b, outputs[b], command[b], reported[b], refused[b])
  BY <1>3, <1>6, <1>2 DEF IsThere, FolderSound, StepFits, Proposals, BrainFits
<1>7. FoldersFit
  BY <1>3, <1>6 DEF FoldersFit, CopyFits
<1>8. AcceptancesFit
  BY <1>3 DEF AcceptancesFit
<1>9. SelectionFits
  BY <1>3 DEF SelectionFits
<1> QED
  BY <1>4, <1>5, <1>7, <1>8, <1>9 DEF TypedEvidence, EvidenceInvariant, AnswersTyped

LEMMA EvidenceStepsKeep == TypedEvidence /\ [EvidenceNext]_evidenceVars => TypedEvidence'
<1> SUFFICES ASSUME TypedEvidence, [EvidenceNext]_evidenceVars PROVE TypedEvidence'
  OBVIOUS
<1>1. CASE UNCHANGED evidenceVars
  <2>1. EvidenceTypeOK'
    BY <1>1 DEF TypedEvidence, EvidenceTypeOK, evidenceVars
  <2>2. AnswersTyped'
    BY <1>1, EvidenceParts DEF AnswersTyped, evidenceVars
  <2>3. place' \in Nat /\ place <= place'
    BY <1>1, EvidenceParts DEF evidenceVars
  <2>4. CopyFits(versioned)' /\ CopyFits(inCandidate)'
    BY <1>1, <2>3, CopiesStay DEF evidenceVars
  <2>5. FoldersFit'
    BY <1>1, <2>3, <2>4, FoldersStay DEF evidenceVars
  <2>6. AcceptancesFit'
    BY <1>1, EvidenceParts, AcceptancesStay DEF evidenceVars
  <2>7. SelectionFits'
    BY <1>1, EvidenceParts DEF SelectionFits, IsThere, Inherited, evidenceVars
  <2> QED
    BY <2>1, <2>2, <2>5, <2>6, <2>7 DEF TypedEvidence, EvidenceInvariant
<1>2. ASSUME NEW b \in BrainsSeen, NEW text \in OutputTexts, NEW media \in MediaTypes,
             Propose(b, text, media)
      PROVE  TypedEvidence'
  BY <1>2, ProposeKeeps
<1>3. ASSUME NEW b \in BrainsSeen,
             \/ WriteOutput(b) \/ SealOutput(b) \/ WriteOutputReceipt(b) \/ IndexOutput(b)
             \/ StopProposal(b)
      PROVE  TypedEvidence'
  BY <1>3, WriteOutputKeeps, SealOutputKeeps, WriteOutputReceiptKeeps, IndexOutputKeeps,
     StopProposalKeeps
<1>4. ASSUME NEW b \in BrainsSeen, NEW key \in ObjectKeys, TouchOutput(b, key)
      PROVE  TypedEvidence'
  BY <1>4, TouchOutputKeeps
<1>5. ASSUME NEW b \in BrainsSeen, NEW c \in ContinuationKeys, NEW scope \in Scopes,
             \/ AcceptAgain(b, c, scope)
             \/ \E given \in {NoContinuation, OtherReceipt} :
                   AcceptContinuation(b, c, scope, given)
      PROVE  TypedEvidence'
  BY <1>5, AcceptAgainKeeps, AcceptContinuationKeeps
<1>6. ASSUME NEW b \in BrainsSeen,
             StoreSelection(b) \/ ReadContext(b) \/ CommitSelection(b) \/ StopSelection(b)
      PROVE  TypedEvidence'
  BY <1>6, SelectionKeeps
<1>7. CASE SetClockBack
  BY <1>7, SetClockBackKeeps
<1>8. CASE CaptureOutputs \/ StartCandidate \/ FuseOutputs \/ RestoreOutputs \/ MoveWorkspace
  BY <1>8, CaptureOutputsKeeps, StartCandidateKeeps, FuseOutputsKeeps, RestoreOutputsKeeps,
     MoveWorkspaceKeeps
<1> QED
  BY <1>1, <1>2, <1>3, <1>4, <1>5, <1>6, <1>7, <1>8 DEF EvidenceNext

LEMMA EvidenceHolds == EvidenceSpec => []TypedEvidence
<1> QED
  BY EvidenceStarts, EvidenceStepsKeep, PTL DEF EvidenceSpec

\* An index that has no text twice has as many rows as entries.
LEMMA RowsAreEntries ==
    ASSUME NEW s \in Seq(IndexRow), \A i, j \in DOMAIN s : s[i].text = s[j].text => i = j
    PROVE  Cardinality({s[i] : i \in DOMAIN s}) = Len(s)
<1> PICK T \in {{s[i] : i \in DOMAIN s}}, n \in {Len(s)} : TRUE
  OBVIOUS
<1>1. n \in Nat /\ DOMAIN s = 1..n
  OBVIOUS
<1>2. s \in [1..n -> T]
  BY <1>1
<1>3. s \in Surjection(1..n, T)
  BY <1>1, <1>2 DEF Surjection
<1>4. s \in Injection(1..n, T)
  BY <1>1, <1>2 DEF Injection, IsInjective
<1>5. IsFiniteSet(1..n) /\ Cardinality(1..n) = n
  BY <1>1, FS_Interval
<1>6. Cardinality(T) = Cardinality(1..n)
  BY <1>3, <1>4, <1>5, FS_Surjection
<1> QED
  BY <1>5, <1>6

LEMMA OutputsKept == TypedEvidence => OutputsAreKept
<1> SUFFICES ASSUME TypedEvidence, NEW b \in BrainsSeen, IsThere(b)
             PROVE  /\ \A r \in reported[b] : RowsOfText(b, r.text) = {r}
                    /\ \A r \in OutputRows(b) :
                          LET object == outputs[b].objects[<<r.text, r.media>>] IN
                          /\ outputs[b].receipts[r.text] =
                                 [media |-> r.media, proposal |-> r.proposal]
                          /\ <<r.text, r.media>> \notin handled => object \in {"open", "sealed"}
                          /\ object = "open" => b \in loosened \/ DoesOn(b, "seal")
                    /\ Cardinality(OutputRows(b)) = Len(outputs[b].index)
  BY DEF OutputsAreKept
<1> PICK o \in {outputs[b]} : TRUE
  OBVIOUS
<1>1. o \in Outputs /\ BrainFits(b, o, command[b], reported[b], refused[b])
  BY BrainThere
<1>2. /\ \A i, j \in DOMAIN o.index : o.index[i].text = o.index[j].text => i = j
      /\ o.index \in Seq(IndexRow) /\ \A i \in DOMAIN o.index : o.index[i] \in IndexRow
  BY <1>1 DEF BrainFits, FolderSound, Outputs
<1>3. OutputRows(b) = {o.index[i] : i \in DOMAIN o.index}
  BY DEF OutputRows
<1>4. ASSUME NEW r \in reported[b] PROVE RowsOfText(b, r.text) = {r}
  BY <1>1, <1>4, <1>2, <1>3 DEF BrainFits, RowsOfText
<1>5. ASSUME NEW r \in OutputRows(b), NEW k \in {<<r.text, r.media>>}
      PROVE  /\ o.receipts[r.text] = [media |-> r.media, proposal |-> r.proposal]
             /\ k \notin handled => o.objects[k] \in {"open", "sealed"}
             /\ o.objects[k] = "open" => b \in loosened \/ DoesOn(b, "seal")
  <2>1. PICK i \in DOMAIN o.index : o.index[i] = r
    BY <1>3, <1>5
  <2>2. k \in ObjectKeys
    BY <1>2, <1>5, <2>1 DEF IndexRow, ObjectKeys
  <2>3. FolderSound(o)
    BY <1>1 DEF BrainFits
  <2>4. /\ o.receipts[r.text] = [media |-> r.media, proposal |-> r.proposal]
        /\ k \notin handled => o.objects[k] \in {"open", "sealed"}
    BY <1>5, <2>1, <2>3 DEF FolderSound
  <2>5. o.objects[k] = "open" => b \in loosened \/ command[b].step = "seal"
    BY <1>1, <2>2 DEF BrainFits
  <2> QED
    BY <2>4, <2>5 DEF DoesOn
<1>6. Cardinality(OutputRows(b)) = Len(o.index)
  BY <1>2, <1>3, RowsAreEntries
<1> QED
  BY <1>4, <1>5, <1>6

LEMMA OutputsUsable == TypedEvidence => OutputsStayUsable
  BY BrainThere, UnreadableHasCause DEF OutputsStayUsable, BrainFits, Refusal,
     RefusedRightly, Inherited

LEMMA AcceptancesKept == TypedEvidence => AcceptancesAreKept
<1> SUFFICES ASSUME TypedEvidence, NEW b \in BrainsSeen
             PROVE  /\ \A x \in confirmed[b] :
                          /\ x.asked = x.receipt.scope
                          /\ x.receipt \in Receipts(b) \/ x.receipt.continuation \in fusedAway
                    /\ \A i \in DOMAIN accepts[b] : LET receipt == accepts[b][i] IN
                          /\ ReceiptOf(b, receipt.continuation) = {receipt}
                          /\ <<b, receipt.continuation>> \notin unchained =>
                                receipt.prior = IF i = 1 THEN NoContinuation
                                                ELSE accepts[b][i - 1].continuation
  BY DEF AcceptancesAreKept
<1>1. AcceptancesFit
  BY EvidenceParts
<1>2. /\ \A x \in confirmed[b] :
            /\ x.asked = x.receipt.scope
            /\ x.receipt \in Receipts(b) \/ x.receipt.continuation \in fusedAway
      /\ \A i, j \in DOMAIN accepts[b] :
            accepts[b][i].continuation = accepts[b][j].continuation => i = j
      /\ \A i \in DOMAIN accepts[b] :
            <<b, accepts[b][i].continuation>> \notin unchained =>
                accepts[b][i].prior = IF i = 1 THEN NoContinuation
                                      ELSE accepts[b][i - 1].continuation
  BY <1>1 DEF AcceptancesFit
<1>3. ASSUME NEW i \in DOMAIN accepts[b]
      PROVE  ReceiptOf(b, accepts[b][i].continuation) = {accepts[b][i]}
  BY <1>3, <1>2 DEF Receipts, ReceiptOf
<1> QED
  BY <1>2, <1>3

LEMMA SelectionKept == TypedEvidence => SelectionIsCommitted
BY EvidenceParts DEF SelectionFits, SelectionIsCommitted, Rests

\* What the sessions leave in the folder of a brain has its type.
THEOREM EvidenceTypeCorrect == EvidenceSpec => []EvidenceTypeOK
<1>1. TypedEvidence => EvidenceTypeOK
  BY DEF TypedEvidence
<1> QED
  BY <1>1, EvidenceHolds, PTL

\* The outputs that a turn was told of, the acceptances that were confirmed and the
\* selection stay as they were told, whatever was copied, restored or cut short.
THEOREM EvidenceKept == EvidenceSpec => []EvidenceIsKept
<1>1. TypedEvidence => EvidenceIsKept
  BY OutputsKept, OutputsUsable, AcceptancesKept, SelectionKept DEF EvidenceIsKept
<1> QED
  BY <1>1, EvidenceHolds, PTL

-----------------------------------------------------------------------------
(* The progress of a build.                                                *)

\* An event of a build that runs is before the end of the last stage.
BeforeTheEnd(e) ==
    e.status # "completed" =>
        /\ e.global < 100
        /\ e.stage = StageCount => e.percent < 100

\* What the file holds: the events of one build, in their order.
FileIsWhole ==
    /\ file.event = NoState <=> file.history = <<>>
    /\ file.event # NoState =>
         /\ file.history[Len(file.history)] = file.event
         /\ BeforeTheEnd(file.event)
         /\ file.event.pipeline <= latest

HistoryInOrder ==
    \A i, j \in DOMAIN file.history : i < j =>
        NotLater(file.history[i], file.history[j]) /\ ~HasEnded(file.history[i])

\* What the other worker has read is not later than the file.
ReadIsBehind ==
    reading.event # NoState => file.event # NoState /\ NotLater(reading.event, file.event)

ProgressInvariant ==
    /\ ProgressTypeOK /\ FileIsWhole /\ HistoryInOrder /\ ReadIsBehind
    /\ EndIsWritten /\ ShownGoesOn
    /\ latest > 0 => file.event # NoState
    /\ building # "no" => latest > 0

-----------------------------------------------------------------------------
LEMMA Division ==
    ASSUME NEW n \in Nat \ {0}, NEW x \in Nat
    PROVE  /\ x <= 100 * n => x \div n \in 0..100
           /\ x < 100 * n => x \div n < 100
<1> DEFINE q == x \div n
           r == x % n
<1>1. q \in Int /\ r \in 0..(n - 1) /\ x = n * q + r
  OBVIOUS
<1> HIDE DEF q, r
<1>2. q >= 0
  BY <1>1
<1>3. q >= 100 => n * q >= n * 100
  BY <1>1
<1>4. q >= 101 => n * q >= n * 101
  BY <1>1
<1> QED
  BY <1>1, <1>2, <1>3, <1>4 DEF q

\* How far the whole is when a stage is.
LEMMA WholeOf ==
    ASSUME NEW stage \in PipelineStages, NEW percent \in 0..100
    PROVE  /\ ((stage - 1) * 100 + percent) \div StageCount \in 0..100
           /\ (stage < StageCount \/ percent < 100) =>
                  ((stage - 1) * 100 + percent) \div StageCount < 100
<1>1. StageCount \in Nat \ {0} /\ stage \in 1..StageCount
  BY ProgressAssumption DEF PipelineStages
<1> DEFINE x == (stage - 1) * 100 + percent
<1>2. x \in Nat /\ x <= 100 * StageCount
  BY <1>1
<1>3. (stage < StageCount \/ percent < 100) => x < 100 * StageCount
  BY <1>1
<1> HIDE DEF x
<1>4. /\ x \div StageCount \in 0..100
      /\ x < 100 * StageCount => x \div StageCount < 100
  BY <1>1, <1>2, Division
<1> QED
  BY <1>3, <1>4 DEF x

\* An event that is built is an event.
LEMMA BuiltIsEvent ==
    ASSUME NEW pipeline \in 0..MaxPipelines, NEW stage \in PipelineStages,
           NEW percent \in 0..100, NEW previous \in 0..100, NEW count \in 0..MaxRows,
           NEW status \in PipelineStatuses
    PROVE  /\ Built(pipeline, stage, percent, previous, count, status) \in Event
           /\ Built(pipeline, stage, percent, previous, count, status).global >= previous
           /\ previous < 100 /\ (stage < StageCount \/ percent < 100) =>
                  BeforeTheEnd(Built(pipeline, stage, percent, previous, count, status))
<1> DEFINE whole == ((stage - 1) * 100 + percent) \div StageCount
<1>1. /\ whole \in 0..100
      /\ (stage < StageCount \/ percent < 100) => whole < 100
  BY WholeOf
<1> HIDE DEF whole
<1>2. Built(pipeline, stage, percent, previous, count, status)
        = [pipeline |-> pipeline, stage |-> stage, rows |-> count, status |-> status,
           percent |-> IF status = "completed" THEN 100 ELSE percent,
           global |-> IF status = "completed" THEN 100 ELSE LargerOf(previous, whole)]
  BY DEF Built, whole
<1>3. /\ LargerOf(previous, whole) \in 0..100 /\ LargerOf(previous, whole) >= previous
      /\ previous < 100 /\ whole < 100 => LargerOf(previous, whole) < 100
  BY <1>1 DEF LargerOf
<1>4. stage \in 1..StageCount /\ StageCount \in Nat
  BY ProgressAssumption DEF PipelineStages
<1> QED
  BY <1>1, <1>2, <1>3, <1>4 DEF Event, BeforeTheEnd

LEMMA OrderOfEvents ==
    /\ \A e \in Event : NotLater(e, e)
    /\ \A e, f, g \in Event : NotLater(e, f) /\ NotLater(f, g) => NotLater(e, g)
<1>0. ASSUME NEW e \in Event
      PROVE  /\ e.pipeline \in Int /\ e.stage \in Int /\ e.percent \in Int
             /\ e.global \in Int /\ e.rows \in Int
  BY <1>0, ProgressAssumption DEF Event, PipelineStages
<1>1. ASSUME NEW e \in Event PROVE NotLater(e, e)
  BY <1>0 DEF NotLater
<1>2. ASSUME NEW e \in Event, NEW f \in Event, NEW g \in Event,
             NotLater(e, f), NotLater(f, g)
      PROVE  NotLater(e, g)
  <2> DEFINE Follows(x, y) == /\ x.pipeline = y.pipeline
                              /\ x.global <= y.global /\ x.rows <= y.rows
                              /\ \/ x.stage < y.stage
                                 \/ x.stage = y.stage /\ x.percent <= y.percent
  <2>1. /\ e.pipeline < f.pipeline \/ Follows(e, f)
        /\ f.pipeline < g.pipeline \/ Follows(f, g)
    BY <1>2 DEF NotLater
  <2>2. ASSUME Follows(e, f), Follows(f, g) PROVE Follows(e, g)
    BY <1>0, <2>2
  <2>3. ASSUME e.pipeline < f.pipeline \/ f.pipeline < g.pipeline
        PROVE  e.pipeline < g.pipeline
    BY <1>0, <2>1, <2>3
  <2> QED
    BY <2>1, <2>2, <2>3 DEF NotLater
<1> QED
  BY <1>1, <1>2

LEMMA NextEventGoesOn ==
    ASSUME NEW stage \in PipelineStages, NEW percent \in 0..100, NEW count \in 0..MaxRows,
           NEW status \in PipelineStatuses, file.event \in Event,
           stage >= file.event.stage, ~HasEnded(file.event), BeforeTheEnd(file.event),
           status = "completed" \/ ~(stage = StageCount /\ percent = 100)
    PROVE  LET e == NextEvent(stage, percent, count, status)
           IN  /\ e \in Event /\ NotLater(file.event, e) /\ BeforeTheEnd(e)
               /\ e.pipeline = file.event.pipeline /\ e.status = status
<1> DEFINE before == file.event
           within == IF stage = before.stage THEN LargerOf(before.percent, percent) ELSE percent
           last == IF status = "completed" THEN StageCount ELSE stage
           more == LargerOf(before.rows, count)
           e == Built(before.pipeline, last, within, before.global, more, status)
<1>1. NextEvent(stage, percent, count, status) = e
  BY DEF NextEvent
<1>2. /\ before.pipeline \in 0..MaxPipelines /\ before.stage \in 1..StageCount
      /\ before.percent \in 0..100 /\ before.global \in 0..100 /\ before.rows \in 0..MaxRows
      /\ StageCount \in Nat \ {0} /\ MaxRows \in Nat /\ stage \in 1..StageCount
  BY ProgressAssumption DEF Event, PipelineStages
<1>3. /\ within \in 0..100 /\ last \in 1..StageCount /\ last \in PipelineStages
      /\ more \in 0..MaxRows /\ more >= before.rows
      /\ stage = before.stage => within >= before.percent
  BY SMTT(30), <1>2 DEF LargerOf, PipelineStages
<1>4. before.status # "completed" /\ before.status \in PipelineStatuses
  BY DEF HasEnded, TerminalStatuses, Event
<1>5. /\ before.global < 100
      /\ before.stage = StageCount => before.percent < 100
  BY <1>4 DEF BeforeTheEnd
<1>6. status # "completed" => last = stage /\ (last < StageCount \/ within < 100)
  BY <1>2, <1>3, <1>5 DEF LargerOf
<1>7. /\ e \in Event /\ e.global >= before.global
      /\ last < StageCount \/ within < 100 => BeforeTheEnd(e)
  BY ZenonT(30), <1>2, <1>3, <1>5, BuiltIsEvent
<1>8. /\ e.pipeline = before.pipeline /\ e.status = status /\ e.stage = last
      /\ e.rows = more /\ e.percent = (IF status = "completed" THEN 100 ELSE within)
  BY DEF Built
<1>9. BeforeTheEnd(e)
  BY <1>6, <1>7, <1>8 DEF BeforeTheEnd
<1>10. NotLater(before, e)
  <2>1. last >= before.stage /\ (last = before.stage => before.percent <= e.percent)
    BY <1>2, <1>3, <1>8
  <2> QED
    BY <1>2, <1>3, <1>7, <1>8, <2>1 DEF NotLater
<1> QED
  BY <1>1, <1>7, <1>8, <1>9, <1>10

\* The history that is kept is the end of the one there was, and the new event.
LEMMA RecentHistory ==
    ASSUME NEW h \in Seq(Event), NEW e \in Event
    PROVE  LET n == Recent(Append(h, e))
           IN  /\ n \in Seq(Event) /\ n # <<>> /\ n[Len(n)] = e
               /\ \E d \in Nat : /\ Len(n) + d = Len(h) + 1
                                 /\ \A i \in 1..Len(n) :
                                      n[i] = IF i = Len(n) THEN e ELSE h[i + d]
<1> DEFINE a == Append(h, e)
           m == LargerOf(1, Len(a) - HistoryLimit + 1)
           n == SubSeq(a, m, Len(a))
<1>1. /\ a \in Seq(Event) /\ Len(a) = Len(h) + 1 /\ Len(h) \in Nat
      /\ \A i \in 1..Len(h) : a[i] = h[i]
      /\ a[Len(h) + 1] = e
  OBVIOUS
<1>2. m \in 1..Len(a)
  BY <1>1, ProgressAssumption DEF LargerOf
<1> HIDE DEF a, m
<1>3. /\ n \in Seq(Event) /\ Len(n) = Len(a) - m + 1
      /\ \A i \in 1..Len(n) : n[i] = a[m + i - 1]
  BY <1>1, <1>2, SubSeqProperties
<1> HIDE DEF n
<1>4. Len(n) \in Nat /\ Len(n) + (m - 1) = Len(h) + 1 /\ m - 1 \in Nat /\ Len(n) > 0
  BY <1>1, <1>2, <1>3
<1>5. \A i \in 1..Len(n) : n[i] = IF i = Len(n) THEN e ELSE h[i + (m - 1)]
  <2> SUFFICES ASSUME NEW i \in 1..Len(n)
               PROVE  n[i] = IF i = Len(n) THEN e ELSE h[i + (m - 1)]
    OBVIOUS
  <2>1. CASE i = Len(n)
    <3>1. m + i - 1 = Len(h) + 1
      BY <1>1, <1>2, <1>4, <2>1
    <3> QED
      BY <1>1, <1>3, <2>1, <3>1
  <2>2. CASE i # Len(n)
    <3>1. Len(h) \in Nat /\ m \in Nat /\ m >= 1
      BY <1>1, <1>2
    <3>3. i \in Nat /\ i >= 1 /\ i < Len(n)
      BY <1>4, <2>2
    <3>2. i + (m - 1) \in 1..Len(h) /\ m + i - 1 = i + (m - 1)
      BY <1>4, <3>1, <3>3
    <3> QED
      BY <1>1, <1>3, <2>2, <3>2
  <2> QED
    BY <2>1, <2>2
<1>6. Recent(Append(h, e)) = n
  BY DEF Recent, a, m, n
<1>7. n # <<>> /\ n[Len(n)] = e
  BY <1>3, <1>4, <1>5
<1> QED
  BY <1>3, <1>4, <1>5, <1>6, <1>7

\* A call that appends an event keeps what the file is.
LEMMA AppendedProgress ==
    ASSUME ProgressTypeOK, FileIsWhole, HistoryInOrder, ReadIsBehind,
           NEW e \in Event, file.event # NoState, ~HasEnded(file.event),
           NotLater(file.event, e), BeforeTheEnd(e), e.pipeline = file.event.pipeline,
           file' = Append1(e), latest' = latest, reading' = reading
    PROVE  /\ file' \in [event : Event \cup {NoState}, history : Seq(Event)]
           /\ file'.event = e /\ file'.event # NoState
           /\ FileIsWhole' /\ HistoryInOrder' /\ ReadIsBehind'
<1>1. /\ file.event \in Event /\ file.history \in Seq(Event)
      /\ file \in [event : Event \cup {NoState}, history : Seq(Event)]
  BY DEF ProgressTypeOK
<1> DEFINE h == file.history
           n == Recent(Append(h, e))
<1>2. file' = [event |-> e, history |-> n]
  BY DEF Append1
<1>3. PICK d \in Nat : /\ Len(n) + d = Len(h) + 1
                       /\ \A i \in 1..Len(n) : n[i] = IF i = Len(n) THEN e ELSE h[i + d]
  BY <1>1, RecentHistory
<1>4. n \in Seq(Event) /\ n # <<>> /\ n[Len(n)] = e
  BY <1>1, RecentHistory
<1> HIDE DEF n
<1>5. e # NoState
  BY NoStateIsNoEvent
<1>6. FileIsWhole'
  BY <1>2, <1>4, <1>5 DEF FileIsWhole
<1>7. \A i \in 1..Len(h) : NotLater(h[i], e) /\ ~HasEnded(h[i]) /\ h[i] \in Event
  BY <1>1, OrderOfEvents DEF FileIsWhole, HistoryInOrder
<1>8. HistoryInOrder'
  <2> SUFFICES ASSUME NEW i \in 1..Len(n), NEW j \in 1..Len(n), i < j
               PROVE  NotLater(n[i], n[j]) /\ ~HasEnded(n[i])
    BY <1>2, <1>4 DEF HistoryInOrder
  <2>1. Len(n) \in Nat /\ Len(h) \in Nat
    BY <1>1, <1>4
  <2>2. i + d \in 1..Len(h) /\ n[i] = h[i + d]
    BY <1>3, <2>1
  <2>3. CASE j = Len(n)
    BY <1>4, <1>7, <2>2, <2>3
  <2>4. CASE j # Len(n)
    <3>1. j + d \in 1..Len(h) /\ n[j] = h[j + d] /\ i + d < j + d
      BY <1>3, <2>1, <2>4
    <3> QED
      BY <1>1, <2>2, <3>1 DEF HistoryInOrder
  <2> QED
    BY <2>3, <2>4
<1>9. ReadIsBehind'
  BY <1>2, <1>5, <1>1, OrderOfEvents DEF ReadIsBehind, ProgressTypeOK
<1> QED
  BY <1>2, <1>4, <1>5, <1>6, <1>8, <1>9

LEMMA ProgressInit_Invariant == ProgressInit => ProgressInvariant
<1> SUFFICES ASSUME ProgressInit PROVE ProgressInvariant
  OBVIOUS
<1>0. /\ 0 \in 0..MaxPipelines /\ 0 \in 0..MaxRows /\ MaxRows \in 0..MaxRows
      /\ 1 \in PipelineStages /\ StageCount \in PipelineStages
      /\ 0 \in 0..100 /\ 100 \in 0..100 /\ 0 \in 0..MaxProgressFaults
  BY ProgressAssumption DEF PipelineStages
<1>1. /\ FirstEvent(0) \in Event /\ FirstEvent(0).pipeline = 0
      /\ FirstEvent(0).global = 0 /\ FirstEvent(0).percent = 0
      /\ FirstEvent(0).status = "running"
  <2>1. FirstEvent(0) \in Event
    BY <1>0, BuiltIsEvent DEF FirstEvent, PipelineStatuses
  <2>2. ((1 - 1) * 100 + 0) \div StageCount = 0
    BY ProgressAssumption
  <2> QED
    BY <2>1, <2>2 DEF FirstEvent, Built, LargerOf
<1> DEFINE done == Built(0, StageCount, 100, 0, MaxRows, "completed")
           broken == [FirstEvent(0) EXCEPT !.status = "failed"]
<1>2. done \in Event /\ done.pipeline = 0 /\ done.status = "completed"
  <2>1. done \in Event
    BY <1>0, BuiltIsEvent DEF PipelineStatuses
  <2> QED
    BY <2>1 DEF Built
<1>3. /\ broken \in Event /\ broken.pipeline = 0 /\ broken.global = 0
      /\ broken.percent = 0 /\ broken.status = "failed"
  BY <1>1 DEF Event, PipelineStatuses
<1>4. file = Nothing \/ \E e \in {FirstEvent(0), done, broken} :
                            file = [event |-> e, history |-> <<e>>]
  BY DEF ProgressInit
<1> HIDE DEF done, broken
<1>5. \A e \in {FirstEvent(0), done, broken} :
        e \in Event /\ e.pipeline = 0 /\ BeforeTheEnd(e) /\ e # NoState
  BY <1>1, <1>2, <1>3, NoStateIsNoEvent DEF BeforeTheEnd
<1>6. /\ file \in [event : Event \cup {NoState}, history : Seq(Event)]
      /\ FileIsWhole /\ HistoryInOrder
  <2>1. CASE file = Nothing
    BY <2>1 DEF Nothing, FileIsWhole, HistoryInOrder
  <2>2. ASSUME NEW e \in {FirstEvent(0), done, broken},
               file = [event |-> e, history |-> <<e>>]
        PROVE  /\ file \in [event : Event \cup {NoState}, history : Seq(Event)]
               /\ FileIsWhole /\ HistoryInOrder
    BY <1>5, <2>2 DEF ProgressInit, FileIsWhole, HistoryInOrder
  <2> QED
    BY <1>4, <2>1, <2>2
<1>7. ProgressTypeOK
  BY <1>0, <1>6 DEF ProgressInit, ProgressTypeOK, NoTaskShown
<1>8. ReadIsBehind /\ EndIsWritten
  BY DEF ProgressInit, ReadIsBehind, EndIsWritten
<1>9. ShownGoesOn
  BY DEF ProgressInit, ShownGoesOn, StageRow, NoTaskShown
<1> QED
  BY <1>6, <1>7, <1>8, <1>9 DEF ProgressInvariant, ProgressInit
-----------------------------------------------------------------------------
LEMMA StartPipelineKeeps == ProgressInvariant /\ StartPipeline => ProgressInvariant'
<1> SUFFICES ASSUME ProgressInvariant, StartPipeline PROVE ProgressInvariant'
  OBVIOUS
<1> DEFINE e == FirstEvent(latest + 1)
<1>1. /\ latest' = latest + 1 /\ latest' \in 0..MaxPipelines /\ latest \in Nat
      /\ 0 \in 0..100 /\ 0 \in 0..MaxRows /\ 1 \in PipelineStages
      /\ "running" \in PipelineStatuses
  BY ProgressAssumption
     DEF ProgressInvariant, ProgressTypeOK, StartPipeline, PipelineStages, PipelineStatuses
<1>2. e \in Event /\ BeforeTheEnd(e)
  <2>1. latest + 1 \in 0..MaxPipelines /\ 0 < 100
    BY <1>1
  <2>2. /\ Built(latest + 1, 1, 0, 0, 0, "running") \in Event
        /\ BeforeTheEnd(Built(latest + 1, 1, 0, 0, 0, "running"))
    BY <1>1, <2>1, BuiltIsEvent
  <2> QED
    BY <2>2 DEF FirstEvent
<1>3. e.pipeline = latest + 1
  BY DEF FirstEvent, Built
<1>4. file' = [event |-> e, history |-> <<e>>]
  BY DEF StartPipeline
<1> HIDE DEF e
<1>5. e # NoState
  BY <1>2, NoStateIsNoEvent
<1>6. ProgressTypeOK'
  <2>1. file' \in [event : Event \cup {NoState}, history : Seq(Event)]
    BY <1>2, <1>4
  <2> QED
    BY <1>1, <2>1 DEF ProgressInvariant, ProgressTypeOK, StartPipeline
<1>7. FileIsWhole' /\ HistoryInOrder'
  BY <1>1, <1>2, <1>3, <1>4, <1>5 DEF FileIsWhole, HistoryInOrder
<1>8. ReadIsBehind'
  BY <1>4, <1>5, <1>1, <1>3 DEF ReadIsBehind, StartPipeline, ProgressInvariant,
     ProgressTypeOK, FileIsWhole, NotLater, Event
<1>9. EndIsWritten' /\ ShownGoesOn'
  BY DEF ProgressInvariant, EndIsWritten, ShownGoesOn, StageRow, StartPipeline
<1> QED
  BY <1>1, <1>4, <1>5, <1>6, <1>7, <1>8, <1>9 DEF ProgressInvariant

LEMMA UpdatePipelineKeeps == ProgressInvariant /\ UpdatePipeline => ProgressInvariant'
<1> SUFFICES ASSUME ProgressInvariant, UpdatePipeline PROVE ProgressInvariant'
  OBVIOUS
<1>1. PICK call \in Reports, count \in 0..MaxRows :
         /\ ~(call.stage = StageCount /\ call.percent = 100)
         /\ ~Refuses(call.stage)
         /\ file' = Append1(NextEvent(call.stage, call.percent, count, "running"))
  BY DEF UpdatePipeline
<1> DEFINE e == NextEvent(call.stage, call.percent, count, "running")
<1>2. call.stage \in PipelineStages /\ call.percent \in 0..100
  <2>1. file.event \in Event
    BY DEF ProgressInvariant, ProgressTypeOK, UpdatePipeline
  <2>2. /\ file.event.stage \in PipelineStages
        /\ Percents \subseteq 0..100 /\ 0 \in 0..100 /\ 100 \in 0..100
    BY <2>1, ProgressAssumption DEF Event
  <2> DEFINE next == {s \in PipelineStages : s = file.event.stage + 1
                                             /\ file.event.percent \in {0, 100}}
             further == {p \in Percents \cup {100} : p >= file.event.percent}
  <2>3. call \in [stage : {file.event.stage}, percent : further]
                  \cup [stage : next, percent : {0}]
    BY DEF Reports
  <2>4. next \subseteq PipelineStages /\ further \subseteq 0..100
    BY <2>2
  <2> HIDE DEF next, further
  <2> QED
    BY <2>2, <2>3, <2>4
<1>3. /\ file.event \in Event /\ file.event # NoState
      /\ call.stage >= file.event.stage /\ ~HasEnded(file.event)
  BY SMTT(30), <1>1, <1>2, ProgressAssumption
     DEF ProgressInvariant, ProgressTypeOK, Refuses, UpdatePipeline, Event, PipelineStages
<1>4. BeforeTheEnd(file.event) /\ "running" \in PipelineStatuses
  BY <1>3 DEF ProgressInvariant, FileIsWhole, PipelineStatuses
<1>5. /\ e \in Event /\ NotLater(file.event, e) /\ BeforeTheEnd(e)
      /\ e.pipeline = file.event.pipeline
  BY <1>1, <1>2, <1>3, <1>4, NextEventGoesOn
<1> HIDE DEF e
<1>6. file' = Append1(e) /\ latest' = latest /\ reading' = reading
  BY <1>1 DEF e, UpdatePipeline
<1>7. /\ file' \in [event : Event \cup {NoState}, history : Seq(Event)]
      /\ file'.event # NoState
      /\ FileIsWhole' /\ HistoryInOrder' /\ ReadIsBehind'
  BY <1>3, <1>5, <1>6, AppendedProgress DEF ProgressInvariant
<1>8. ProgressTypeOK'
  BY <1>7 DEF ProgressInvariant, ProgressTypeOK, UpdatePipeline
<1>9. EndIsWritten' /\ ShownGoesOn'
  BY DEF ProgressInvariant, EndIsWritten, ShownGoesOn, StageRow, UpdatePipeline
<1> QED
  BY <1>6, <1>7, <1>8, <1>9 DEF ProgressInvariant, UpdatePipeline

LEMMA CompletePipelineKeeps == ProgressInvariant /\ CompletePipeline => ProgressInvariant'
<1> SUFFICES ASSUME ProgressInvariant, CompletePipeline PROVE ProgressInvariant'
  OBVIOUS
<1> DEFINE e == NextEvent(StageCount, 100, file.event.rows, "completed")
<1>1. /\ file.event \in Event /\ file.event # NoState
      /\ StageCount >= file.event.stage /\ ~HasEnded(file.event)
      /\ file.event.rows \in 0..MaxRows
      /\ StageCount \in PipelineStages /\ 100 \in 0..100
  BY ProgressAssumption
     DEF ProgressInvariant, ProgressTypeOK, Refuses, CompletePipeline, Event, PipelineStages
<1>2. BeforeTheEnd(file.event) /\ "completed" \in PipelineStatuses
  BY <1>1 DEF ProgressInvariant, FileIsWhole, PipelineStatuses
<1>3. /\ e \in Event /\ NotLater(file.event, e) /\ BeforeTheEnd(e)
      /\ e.pipeline = file.event.pipeline /\ e.status = "completed"
  BY <1>1, <1>2, NextEventGoesOn
<1> HIDE DEF e
<1>4. file' = Append1(e) /\ latest' = latest /\ reading' = reading
  BY DEF e, CompletePipeline
<1>5. /\ file' \in [event : Event \cup {NoState}, history : Seq(Event)]
      /\ file'.event = e /\ file'.event # NoState
      /\ FileIsWhole' /\ HistoryInOrder' /\ ReadIsBehind'
  BY <1>1, <1>3, <1>4, AppendedProgress DEF ProgressInvariant
<1>6. ProgressTypeOK'
  BY <1>5 DEF ProgressInvariant, ProgressTypeOK, CompletePipeline
<1>7. EndIsWritten'
  BY <1>3, <1>5 DEF EndIsWritten, HasEnded, TerminalStatuses
<1>8. ShownGoesOn'
  BY DEF ProgressInvariant, ShownGoesOn, StageRow, CompletePipeline
<1> QED
  BY <1>4, <1>5, <1>6, <1>7, <1>8 DEF ProgressInvariant, CompletePipeline

LEMMA FailPipelineKeeps == ProgressInvariant /\ FailPipeline => ProgressInvariant'
<1> SUFFICES ASSUME ProgressInvariant, FailPipeline PROVE ProgressInvariant'
  OBVIOUS
<1>0. file.event # NoState /\ file.event \in Event
  BY DEF ProgressInvariant, ProgressTypeOK, FailPipeline
<1>1. CASE HasEnded(file.event)
  BY <1>1 DEF FailPipeline, ProgressInvariant, ProgressTypeOK, FileIsWhole, HistoryInOrder,
     ReadIsBehind, EndIsWritten, ShownGoesOn, StageRow
<1>2. CASE ~HasEnded(file.event)
  <2> DEFINE e == NextEvent(file.event.stage, file.event.percent, 0, "failed")
  <2>1. /\ file.event.stage \in PipelineStages /\ file.event.percent \in 0..100
        /\ file.event.stage >= file.event.stage
        /\ 0 \in 0..MaxRows /\ "failed" \in PipelineStatuses
    BY <1>0, ProgressAssumption DEF Event, PipelineStages, PipelineStatuses
  <2>2. BeforeTheEnd(file.event)
    BY <1>0 DEF ProgressInvariant, FileIsWhole
  <2>3. ~(file.event.stage = StageCount /\ file.event.percent = 100)
    BY <1>0, <1>2, <2>2 DEF BeforeTheEnd, HasEnded, TerminalStatuses
  <2>4. /\ e \in Event /\ NotLater(file.event, e) /\ BeforeTheEnd(e)
        /\ e.pipeline = file.event.pipeline /\ e.status = "failed"
    BY <1>0, <1>2, <2>1, <2>2, <2>3, NextEventGoesOn
  <2> HIDE DEF e
  <2>5. file' = Append1(e) /\ latest' = latest /\ reading' = reading
    BY <1>0, <1>2 DEF e, FailPipeline
  <2>6. /\ file' \in [event : Event \cup {NoState}, history : Seq(Event)]
        /\ file'.event = e /\ file'.event # NoState
        /\ FileIsWhole' /\ HistoryInOrder' /\ ReadIsBehind'
    BY <1>0, <1>2, <2>4, <2>5, AppendedProgress DEF ProgressInvariant
  <2>7. ProgressTypeOK'
    BY <2>6 DEF ProgressInvariant, ProgressTypeOK, FailPipeline
  <2>8. EndIsWritten'
    BY <2>4, <2>6 DEF EndIsWritten, HasEnded, TerminalStatuses
  <2>9. ShownGoesOn'
    BY DEF ProgressInvariant, ShownGoesOn, StageRow, FailPipeline
  <2> QED
    BY <2>5, <2>6, <2>7, <2>8, <2>9 DEF ProgressInvariant, FailPipeline
<1> QED
  BY <1>1, <1>2

LEMMA UnwrittenKeeps ==
    ProgressInvariant /\ (BuildRaises \/ FailUnwritten \/ KillBuild) => ProgressInvariant'
<1> SUFFICES ASSUME ProgressInvariant, BuildRaises \/ FailUnwritten \/ KillBuild
             PROVE  ProgressInvariant'
  OBVIOUS
<1>1. /\ UNCHANGED <<file, latest, taskFile, reading, displayed>>
      /\ building' \in {"no", "failing"} /\ building # "no"
      /\ faults' = faults + 1 /\ faults < MaxProgressFaults
      /\ building' = "no" => untold' = (file.event # NoState /\ ~HasEnded(file.event))
      /\ building' = "failing" => untold' = untold
  BY DEF BuildRaises, FailUnwritten, KillBuild
<1>2. ProgressTypeOK'
  <2>1. untold' \in BOOLEAN
    BY <1>1 DEF ProgressInvariant, ProgressTypeOK
  <2>2. faults' \in 0..MaxProgressFaults
    BY <1>1, ProgressAssumption DEF ProgressInvariant, ProgressTypeOK
  <2> QED
    BY <1>1, <2>1, <2>2 DEF ProgressInvariant, ProgressTypeOK
<1>3. FileIsWhole' /\ HistoryInOrder' /\ ReadIsBehind' /\ ShownGoesOn'
  BY <1>1 DEF ProgressInvariant, FileIsWhole, HistoryInOrder, ReadIsBehind, ShownGoesOn,
     StageRow
<1>4. EndIsWritten'
  BY <1>1 DEF ProgressInvariant, EndIsWritten
<1> QED
  BY <1>1, <1>2, <1>3, <1>4 DEF ProgressInvariant

-----------------------------------------------------------------------------
\* An event without an end, or none, has no receipt, and stages end in their order.
LEMMA ShownEvent ==
    ASSUME NEW e \in Event \cup {NoState}, NEW l \in Event \cup {NoState}, NEW t,
           e # NoState => NotLater(e, l), t \in {NoTaskShown, TaskOf(e)},
           displayed' = [event |-> e, last |-> l, task |-> t]
    PROVE  /\ ShownGoesOn'
           /\ displayed'.event \in Event \cup {NoState}
           /\ displayed'.last \in Event \cup {NoState}
           /\ displayed'.task \in [status : PipelineStatuses \cup {NoState}, receipt : BOOLEAN]
<1>1. t \in [status : PipelineStatuses \cup {NoState}, receipt : BOOLEAN]
      /\ (t.receipt => t.status \in TerminalStatuses)
  <2>1. CASE t = NoTaskShown
    BY <2>1 DEF NoTaskShown
  <2>2. CASE t # NoTaskShown
    <3>1. e \in Event /\ t = Translated(e)
      BY <2>2 DEF TaskOf
    <3>2. e.status \in PipelineStatuses
      BY <3>1 DEF Event
    <3> DEFINE ended == e.status \in TerminalStatuses
    <3>3. Translated(e) = [status |-> e.status, receipt |-> ended] /\ ended \in BOOLEAN
      BY DEF Translated
    <3> QED
      <4> HIDE DEF ended
      <4>1. t \in [status : PipelineStatuses \cup {NoState}, receipt : BOOLEAN]
        BY <3>1, <3>2, <3>3
      <4>2. t.receipt = ended /\ t.status = e.status
        BY <3>1, <3>3
      <4> QED
        BY <4>1, <4>2 DEF ended
  <2> QED
    BY <2>1, <2>2
<1>2. \A s \in PipelineStages : StageRow(e, s) = "completed" =>
         \A q \in 1..s : StageRow(e, q) = "completed"
  BY ProgressAssumption DEF StageRow, Event, PipelineStages
<1>3. ShownGoesOn'
  BY <1>1, <1>2 DEF ShownGoesOn, StageRow
<1> QED
  BY <1>1, <1>3

LEMMA LookingKeeps ==
    ProgressInvariant /\ (ShowRuntime \/ ReadEvent \/ ReadHistory) => ProgressInvariant'
<1> SUFFICES ASSUME ProgressInvariant, ShowRuntime \/ ReadEvent \/ ReadHistory
             PROVE  ProgressInvariant'
  OBVIOUS
<1>1. UNCHANGED <<file, building, latest, taskFile, untold, faults>>
  BY DEF ShowRuntime, ReadEvent, ReadHistory
<1>2. FileIsWhole' /\ HistoryInOrder' /\ EndIsWritten'
  BY <1>1 DEF ProgressInvariant, FileIsWhole, HistoryInOrder, EndIsWritten
<1>3. file.event \in Event \cup {NoState} /\ file.history \in Seq(Event)
      /\ reading.event \in Event \cup {NoState}
  BY DEF ProgressInvariant, ProgressTypeOK
<1>4. ASSUME UNCHANGED reading, ReadIsBehind PROVE ReadIsBehind'
  BY <1>1, <1>4 DEF ReadIsBehind
<1>5. CASE ShowRuntime
  BY <1>5, <1>3, OrderOfEvents, ShownEvent, <1>1, <1>2, <1>4 DEF ShowRuntime,
     ProgressInvariant, ProgressTypeOK
<1>6. CASE ReadEvent
  BY <1>6, <1>1, <1>3, OrderOfEvents, <1>2 DEF ReadEvent, ReadIsBehind, ProgressInvariant,
     ShownGoesOn, StageRow, ProgressTypeOK
<1>7. CASE ReadHistory
  <2> DEFINE l == IF reading.event = NoState THEN NoState ELSE Last(file.history)
  <2>1. PICK task \in {NoTaskShown, TaskOf(reading.event)} :
            displayed' = [event |-> reading.event, task |-> task, last |-> l]
    BY <1>7 DEF ReadHistory
  <2>2. reading.event # NoState => l = file.event
    BY DEF ProgressInvariant, ReadIsBehind, FileIsWhole, Last
  <2>3. /\ l \in Event \cup {NoState}
        /\ reading.event # NoState => NotLater(reading.event, l)
    BY <1>3, <2>2 DEF ProgressInvariant, ReadIsBehind
  <2>4. displayed' = [event |-> reading.event, last |-> l, task |-> task]
    BY <2>1
  <2> HIDE DEF l
  <2>5. /\ ShownGoesOn'
        /\ displayed'.event \in Event \cup {NoState}
        /\ displayed'.last \in Event \cup {NoState}
        /\ displayed'.task \in [status : PipelineStatuses \cup {NoState}, receipt : BOOLEAN]
    BY <1>3, <2>3, <2>4, ShownEvent
  <2>6. reading' = [event |-> NoState, open |-> FALSE] /\ ReadIsBehind'
    BY <1>7 DEF ReadHistory, ReadIsBehind
  <2> QED
    BY <1>1, <1>2, <2>5, <2>6 DEF ProgressInvariant, ProgressTypeOK
<1> QED
  BY <1>5, <1>6, <1>7

LEMMA ProgressInvariantCorrect == ProgressSpec => []ProgressInvariant
<1>1. ProgressInvariant /\ [ProgressNext]_progressVars => ProgressInvariant'
  <2>1. ProgressInvariant /\ UNCHANGED progressVars => ProgressInvariant'
    BY DEF ProgressInvariant, progressVars, ProgressTypeOK, FileIsWhole, HistoryInOrder,
       ReadIsBehind, EndIsWritten, ShownGoesOn, StageRow
  <2> QED
    BY <2>1, StartPipelineKeeps, UpdatePipelineKeeps, CompletePipelineKeeps,
       FailPipelineKeeps, UnwrittenKeeps, LookingKeeps DEF ProgressNext
<1> QED
  BY <1>1, ProgressInit_Invariant, PTL DEF ProgressSpec

\* The history of a build goes on, its end is in the file, and what is shown beside an
\* event is a history that has come as far.
THEOREM ProgressTrue == ProgressSpec => []ProgressIsTrue
<1>1. ProgressInvariant => ProgressIsTrue
  BY DEF ProgressInvariant, FileIsWhole, BeforeTheEnd, Last, HistoryInOrder, HistoryGoesOn,
     ProgressIsTrue
<1> QED
  BY <1>1, ProgressInvariantCorrect, PTL

-----------------------------------------------------------------------------
(* The brains of the catalog.                                              *)

ActiveIn(list) == {n \in DOMAIN list : list[n].status = "ACTIVE"}

\* The folder of a brain is on its way.
OnTheWay(x) == errand.step \in {"trashed", "moved"} /\ errand.name = x

\* A name that nothing excuses has one active row at most, the last, and its folder.
NewestIsActive ==
    \A x \in Names \ excused :
        /\ ActiveIn(brainRows[x]) \subseteq {Len(brainRows[x])}
        /\ ActiveIn(brainRows[x]) # {} => brainFolders[x] # "none" \/ OnTheWay(x)

\* Discovery leaves every removed brain alone.
RemovedAreBuried ==
    /\ removed \subseteq tombstones /\ revived = {}
    /\ errand.step = "removed" => errand.name \in tombstones
    /\ errand.step = "clear" => errand.name \notin removed

\* What a command on its way has done, and left to do.
ErrandFits ==
    /\ errand.step # "idle" => errand.name \in Names
    /\ errand.step \in {"insert", "clear", "built"} => brainFolders[errand.name] # "none"
    /\ errand.step \in {"trashed", "moved"} => errand.row \in DOMAIN brainRows[errand.name]
    /\ errand.step = "trashed" /\ errand.name \notin excused =>
           errand.row = Len(brainRows[errand.name])
    /\ errand.step = "moved" =>
           /\ errand.next \in Names \ {errand.name}
           /\ ActiveIn(brainRows[errand.next]) = {}
           /\ brainFolders[errand.next] # "none"
           /\ errand.name \notin excused =>
                /\ ActiveIn(brainRows[errand.name]) \subseteq {errand.row}
                /\ ~errand.moved => ActiveIn(brainRows[errand.name]) = {}

CatalogInvariant ==
    CatalogTypeOK /\ NewestIsActive /\ RemovedAreBuried /\ ErrandFits

-----------------------------------------------------------------------------
\* A row that is added is the last one.
LEMMA AddedRow ==
    ASSUME NEW list \in Seq(BrainRow), NEW row \in BrainRow
    PROVE  /\ Append(list, row) \in Seq(BrainRow)
           /\ ActiveIn(Append(list, row)) =
                ActiveIn(list) \cup (IF row.status = "ACTIVE" THEN {Len(Append(list, row))} ELSE {})
  BY DEF ActiveIn

\* What is left of a sequence that an element is taken out of.
LEMMA TakenOut ==
    ASSUME NEW S, NEW s \in Seq(S), NEW n \in 1..Len(s)
    PROVE  LET w == SubSeq(s, 1, n - 1) \o SubSeq(s, n + 1, Len(s))
           IN  /\ w \in Seq(S) /\ Len(w) = Len(s) - 1
               /\ \A i \in 1..Len(w) : w[i] = IF i < n THEN s[i] ELSE s[i + 1]
<1> DEFINE l == SubSeq(s, 1, n - 1)
           r == SubSeq(s, n + 1, Len(s))
           w == l \o r
<1>1. Len(s) \in Nat /\ n \in Nat /\ n >= 1 /\ n <= Len(s)
  OBVIOUS
<1>2. l \in Seq(S) /\ Len(l) = n - 1 /\ \A i \in 1..(n - 1) : l[i] = s[i]
  BY <1>1, SubSeqProperties
<1>3. r \in Seq(S) /\ Len(r) = Len(s) - n /\ \A i \in 1..(Len(s) - n) : r[i] = s[i + n]
  BY <1>1, SubSeqProperties
<1> HIDE DEF l, r
<1>4. /\ w \in Seq(S) /\ Len(w) = Len(l) + Len(r)
      /\ \A i \in 1..(Len(l) + Len(r)) : w[i] = IF i <= Len(l) THEN l[i] ELSE r[i - Len(l)]
  BY <1>2, <1>3, ConcatProperties
<1> HIDE DEF w
<1>5. Len(w) = Len(s) - 1
  BY <1>1, <1>2, <1>3, <1>4
<1>6. \A i \in 1..Len(w) : w[i] = IF i < n THEN s[i] ELSE s[i + 1]
  <2> SUFFICES ASSUME NEW i \in 1..Len(w)
               PROVE  w[i] = IF i < n THEN s[i] ELSE s[i + 1]
    OBVIOUS
  <2>1. CASE i < n
    <3>1. i \in 1..(n - 1) /\ i <= n - 1 /\ i \in 1..(Len(l) + Len(r))
      BY <1>1, <1>2, <1>3, <1>5, <2>1
    <3> QED
      BY <1>2, <1>4, <2>1, <3>1
  <2>2. CASE ~(i < n)
    <3>1. /\ i - (n - 1) \in 1..(Len(s) - n) /\ ~(i <= n - 1)
          /\ i - (n - 1) + n = i + 1 /\ i \in 1..(Len(l) + Len(r))
      BY SMTT(30), <1>1, <1>2, <1>3, <1>5, <2>2
    <3> QED
      BY <1>2, <1>3, <1>4, <2>2, <3>1
  <2> QED
    BY <2>1, <2>2
<1> QED
  BY <1>4, <1>5, <1>6 DEF w, l, r

\* A row is taken out.
LEMMA TakenRow ==
    ASSUME NEW x, brainRows[x] \in Seq(BrainRow), NEW n \in DOMAIN brainRows[x]
    PROVE  /\ WithoutRow(x, n) \in Seq(BrainRow)
           /\ ActiveIn(brainRows[x]) \subseteq {n} => ActiveIn(WithoutRow(x, n)) = {}
<1> DEFINE s == brainRows[x]
           w == WithoutRow(x, n)
<1>1. Len(s) \in Nat /\ n \in 1..Len(s) /\ DOMAIN s = 1..Len(s)
  OBVIOUS
<1>2. /\ w \in Seq(BrainRow) /\ Len(w) = Len(s) - 1
      /\ \A i \in 1..Len(w) : w[i] = IF i < n THEN s[i] ELSE s[i + 1]
  BY <1>1, TakenOut DEF WithoutRow
<1> HIDE DEF s, w
<1>3. ASSUME ActiveIn(s) \subseteq {n} PROVE ActiveIn(w) = {}
  <2> SUFFICES ASSUME NEW i \in 1..Len(w) PROVE w[i].status # "ACTIVE"
    BY <1>2 DEF ActiveIn
  <2>1. PICK j \in 1..Len(s) : j # n /\ w[i] = s[j]
    <3>1. i \in 1..Len(s) /\ i + 1 \in 1..Len(s)
      BY <1>1, <1>2
    <3>2. CASE i < n
      BY <1>1, <1>2, <3>1, <3>2
    <3>3. CASE ~(i < n)
      BY <1>1, <1>2, <3>1, <3>3
    <3> QED
      BY <3>2, <3>3
  <2>2. j \notin ActiveIn(s)
    BY <1>3, <2>1
  <2> QED
    BY <1>1, <2>1, <2>2 DEF ActiveIn
<1> QED
  BY <1>2, <1>3 DEF s, w

\* A row that is updated is the last one.
LEMMA RowUpdated ==
    ASSUME NEW x, brainRows[x] \in Seq(BrainRow), NEW n \in DOMAIN brainRows[x],
           NEW status \in BrainStatuses
    PROVE  /\ UpdatedRow(x, n, status) \in Seq(BrainRow)
           /\ ActiveIn(brainRows[x]) \subseteq {n} =>
                /\ ActiveIn(UpdatedRow(x, n, status)) \subseteq {Len(UpdatedRow(x, n, status))}
                /\ status # "ACTIVE" => ActiveIn(UpdatedRow(x, n, status)) = {}
<1>1. [status |-> status, local |-> FALSE] \in BrainRow
  BY DEF BrainRow
<1> DEFINE w == WithoutRow(x, n)
           row == [status |-> status, local |-> FALSE]
<1>2. w \in Seq(BrainRow) /\ (ActiveIn(brainRows[x]) \subseteq {n} => ActiveIn(w) = {})
  BY TakenRow
<1>3. row.status = status /\ UpdatedRow(x, n, status) = Append(w, row)
  BY DEF UpdatedRow
<1>4. row \in BrainRow
  BY <1>1
<1> HIDE DEF w, row
<1>5. /\ Append(w, row) \in Seq(BrainRow)
      /\ ActiveIn(Append(w, row)) =
           ActiveIn(w) \cup (IF row.status = "ACTIVE" THEN {Len(Append(w, row))} ELSE {})
  BY <1>2, <1>4, AddedRow
<1> QED
  BY <1>2, <1>3, <1>5

LEMMA BrainIsNew ==
    ASSUME NEW x, brainRows[x] \in Seq(BrainRow)
    PROVE  /\ NewBrain(x) \in Seq(BrainRow)
           /\ ActiveIn(brainRows[x]) = {} =>
                ActiveIn(NewBrain(x)) \subseteq {Len(NewBrain(x))}
  BY AddedRow DEF BrainRow, BrainStatuses, NewBrain

LEMMA NoRows == ActiveIn(<<>>) = {}
BY DEF ActiveIn

LEMMA CatalogStart == CatalogInit => CatalogInvariant
<1> SUFFICES ASSUME CatalogInit PROVE CatalogInvariant
  OBVIOUS
<1>1. CatalogTypeOK
  BY DEF CatalogInit, CatalogTypeOK, NoErrand, CatalogSteps, FolderKinds
<1>2. NewestIsActive
  BY NoRows DEF CatalogInit, NewestIsActive
<1>3. RemovedAreBuried /\ ErrandFits
  BY DEF CatalogInit, RemovedAreBuried, ErrandFits, NoErrand
<1> QED
  BY <1>1, <1>2, <1>3 DEF CatalogInvariant

LEMMA ErrandRecords ==
    /\ NoErrand.step = "idle"
    /\ \A step \in CatalogSteps, x \in Names :
          LET e == [NoErrand EXCEPT !.step = step, !.name = x]
          IN  /\ e.step = step /\ e.name = x
              /\ e \in [step : CatalogSteps, name : Names \cup {NoName},
                        next : Names \cup {NoName}, row : Nat, moved : BOOLEAN]
    /\ NoErrand \in [step : CatalogSteps, name : Names \cup {NoName},
                     next : Names \cup {NoName}, row : Nat, moved : BOOLEAN]
BY DEF NoErrand, CatalogSteps

LEMMA ActiveRowsIn == \A x : ActiveRows(x) = ActiveIn(brainRows[x]) /\ RowsOf(x) = DOMAIN brainRows[x]
BY DEF ActiveRows, ActiveIn, RowsOf

-----------------------------------------------------------------------------
LEMMA FolderMadeKeeps ==
    ASSUME CatalogInvariant, NEW x \in Names,
           CreateFolder(x) \/ BuildFolder(x) \/ ReturnFolder(x) \/ RecordTombstone(x)
    PROVE  CatalogInvariant'
<1>1. CatalogIdle /\ UNCHANGED <<brainRows, derivedIds, removed, revived, excused>>
  BY DEF CreateFolder, BuildFolder, ReturnFolder, RecordTombstone
<1>2. errand = NoErrand /\ errand.step = "idle"
  BY <1>1, ErrandRecords DEF CatalogIdle
<1>3. CASE CreateFolder(x) \/ BuildFolder(x)
  <2>1. /\ \E step \in {"insert", "built"} : errand' = [NoErrand EXCEPT !.step = step, !.name = x]
        /\ brainFolders' \in [Names -> FolderKinds] /\ brainFolders'[x] # "none"
        /\ \A y \in Names \ {x} : brainFolders'[y] = brainFolders[y]
        /\ UNCHANGED <<recycled, tombstones, mishaps>>
    BY <1>3 DEF CreateFolder, BuildFolder, Begin, CatalogInvariant, CatalogTypeOK, FolderKinds
  <2>2. /\ errand'.step \in {"insert", "built"} /\ errand'.name = x
        /\ errand' \in [step : CatalogSteps, name : Names \cup {NoName},
                        next : Names \cup {NoName}, row : Nat, moved : BOOLEAN]
    <3>1. PICK step \in {"insert", "built"} : errand' = [NoErrand EXCEPT !.step = step, !.name = x]
      BY <2>1
    <3>2. step \in CatalogSteps
      BY DEF CatalogSteps
    <3> QED
      BY <3>1, <3>2, ErrandRecords
  <2>3. CatalogTypeOK'
    BY <1>1, <2>1, <2>2 DEF CatalogInvariant, CatalogTypeOK
  <2>4. NewestIsActive'
    BY <1>1, <1>2, <2>1, <2>2 DEF CatalogInvariant, NewestIsActive, OnTheWay
  <2>5. RemovedAreBuried' /\ ErrandFits'
    BY <1>1, <2>1, <2>2 DEF CatalogInvariant, RemovedAreBuried, ErrandFits
  <2> QED
    BY <2>3, <2>4, <2>5 DEF CatalogInvariant
<1>4. CASE ReturnFolder(x)
  BY <1>4, <1>1, <1>2 DEF ReturnFolder, Mishap, CatalogInvariant, CatalogTypeOK,
     FolderKinds, NewestIsActive, OnTheWay, RemovedAreBuried, ErrandFits
<1>5. CASE RecordTombstone(x)
  <2>1. /\ errand' = [NoErrand EXCEPT !.step = "removed", !.name = x]
        /\ tombstones' = tombstones \cup {x}
        /\ UNCHANGED <<brainFolders, recycled, mishaps>>
    BY <1>5 DEF RecordTombstone, Begin
  <2>2. /\ errand'.step = "removed" /\ errand'.name = x
        /\ errand' \in [step : CatalogSteps, name : Names \cup {NoName},
                        next : Names \cup {NoName}, row : Nat, moved : BOOLEAN]
    BY <2>1, ErrandRecords DEF CatalogSteps
  <2>3. CatalogTypeOK'
    BY <1>1, <2>1, <2>2 DEF CatalogInvariant, CatalogTypeOK
  <2>4. NewestIsActive'
    BY <1>1, <1>2, <2>1, <2>2 DEF CatalogInvariant, NewestIsActive, OnTheWay
  <2>5. RemovedAreBuried' /\ ErrandFits'
    BY <1>1, <2>1, <2>2 DEF CatalogInvariant, RemovedAreBuried, ErrandFits
  <2> QED
    BY <2>3, <2>4, <2>5 DEF CatalogInvariant
<1> QED
  BY <1>3, <1>4, <1>5

LEMMA InsertBrainKeeps == CatalogInvariant /\ InsertBrain => CatalogInvariant'
<1> SUFFICES ASSUME CatalogInvariant, InsertBrain PROVE CatalogInvariant'
  OBVIOUS
<1> DEFINE x == errand.name
<1>1. errand.step = "insert" /\ x \in Names /\ brainFolders[x] # "none"
  BY DEF InsertBrain, InErrand, CatalogInvariant, ErrandFits
<1>2. /\ brainRows' = [brainRows EXCEPT ![x] = NewBrain(x)]
      /\ removed' = removed \ {x}
      /\ excused' = IF ActiveIn(brainRows[x]) = {} THEN excused ELSE excused \cup {x}
      /\ errand' = [NoErrand EXCEPT !.step = "clear", !.name = x]
      /\ UNCHANGED <<brainFolders, derivedIds, recycled, tombstones, mishaps, revived>>
  BY ActiveRowsIn DEF InsertBrain, Begin
<1> HIDE DEF x
<1>3. /\ errand'.step = "clear" /\ errand'.name = x
      /\ errand' \in [step : CatalogSteps, name : Names \cup {NoName},
                      next : Names \cup {NoName}, row : Nat, moved : BOOLEAN]
  BY <1>1, <1>2, ErrandRecords DEF CatalogSteps
<1>4. brainRows \in [Names -> Seq(BrainRow)] /\ excused \subseteq Names
  BY DEF CatalogInvariant, CatalogTypeOK
<1>5. /\ NewBrain(x) \in Seq(BrainRow)
      /\ ActiveIn(brainRows[x]) = {} => ActiveIn(NewBrain(x)) \subseteq {Len(NewBrain(x))}
  BY <1>1, <1>4, BrainIsNew
<1>6. CatalogTypeOK'
  BY <1>1, <1>2, <1>3, <1>5 DEF CatalogInvariant, CatalogTypeOK
<1>7. NewestIsActive'
  BY <1>2, <1>1, <1>4, <1>5 DEF NewestIsActive, CatalogInvariant, OnTheWay
<1>8. RemovedAreBuried' /\ ErrandFits'
  BY <1>1, <1>2, <1>3 DEF CatalogInvariant, RemovedAreBuried, ErrandFits
<1> QED
  BY <1>6, <1>7, <1>8 DEF CatalogInvariant

\* A command ends: what is left holds of an errand there is not.
LEMMA ErrandEnds ==
    ASSUME errand' = NoErrand, removed' \subseteq tombstones', revived' = {}
    PROVE  /\ RemovedAreBuried' /\ ErrandFits'
           /\ errand' \in [step : CatalogSteps, name : Names \cup {NoName},
                           next : Names \cup {NoName}, row : Nat, moved : BOOLEAN]
           /\ \A x : ~OnTheWay(x)'
BY ErrandRecords DEF RemovedAreBuried, ErrandFits, OnTheWay

LEMMA ClearTombstoneKeeps == CatalogInvariant /\ ClearTombstone => CatalogInvariant'
<1> SUFFICES ASSUME CatalogInvariant, ClearTombstone PROVE CatalogInvariant'
  OBVIOUS
<1>1. /\ errand.step = "clear" /\ errand' = NoErrand
      /\ tombstones' = tombstones \ {errand.name}
      /\ UNCHANGED <<brainRows, brainFolders, derivedIds, recycled, mishaps, removed,
                     revived, excused>>
  BY DEF ClearTombstone, InErrand
<1>2. removed' \subseteq tombstones' /\ revived' = {}
  BY <1>1 DEF CatalogInvariant, RemovedAreBuried
<1>3. /\ RemovedAreBuried' /\ ErrandFits'
      /\ errand' \in [step : CatalogSteps, name : Names \cup {NoName},
                           next : Names \cup {NoName}, row : Nat, moved : BOOLEAN]
  BY <1>1, <1>2, ErrandEnds
<1>4. CatalogTypeOK'
  BY <1>1, <1>3 DEF CatalogInvariant, CatalogTypeOK
<1>5. NewestIsActive'
  BY <1>1 DEF CatalogInvariant, NewestIsActive, OnTheWay
<1> QED
  BY <1>3, <1>4, <1>5 DEF CatalogInvariant

LEMMA RecordBuildKeeps == CatalogInvariant /\ RecordBuild => CatalogInvariant'
<1> SUFFICES ASSUME CatalogInvariant, RecordBuild PROVE CatalogInvariant'
  OBVIOUS
<1> DEFINE x == errand.name
<1>1. errand.step = "built" /\ x \in Names /\ brainFolders[x] # "none"
  BY DEF RecordBuild, InErrand, CatalogInvariant, ErrandFits
<1>2. /\ removed' = removed \ {x} /\ errand' = NoErrand
      /\ UNCHANGED <<brainFolders, derivedIds, recycled, tombstones, mishaps, revived>>
      /\ \/ /\ DOMAIN brainRows[x] = {} /\ excused' = excused
            /\ brainRows' = [brainRows EXCEPT ![x] = NewBrain(x)]
         \/ \E n \in DOMAIN brainRows[x] :
              /\ brainRows' = [brainRows EXCEPT ![x] = UpdatedRow(x, n, "ACTIVE")]
              /\ excused' = excused \cup Misled(x, n)
  BY DEF RecordBuild, RowsOf
<1>3. brainRows \in [Names -> Seq(BrainRow)] /\ excused \subseteq Names
  BY DEF CatalogInvariant, CatalogTypeOK
<1>4. PICK list : /\ brainRows' = [brainRows EXCEPT ![x] = list] /\ list \in Seq(BrainRow)
                  /\ excused \subseteq excused' /\ excused' \subseteq Names
                  /\ x \notin excused' => ActiveIn(list) \subseteq {Len(list)}
  <2>1. CASE /\ DOMAIN brainRows[x] = {} /\ excused' = excused
             /\ brainRows' = [brainRows EXCEPT ![x] = NewBrain(x)]
    BY <2>1, <1>1, <1>3, BrainIsNew DEF ActiveIn
  <2>2. ASSUME NEW n \in DOMAIN brainRows[x],
               brainRows' = [brainRows EXCEPT ![x] = UpdatedRow(x, n, "ACTIVE")],
               excused' = excused \cup Misled(x, n)
        PROVE  \E list : /\ brainRows' = [brainRows EXCEPT ![x] = list] /\ list \in Seq(BrainRow)
                         /\ excused \subseteq excused' /\ excused' \subseteq Names
                         /\ x \notin excused' => ActiveIn(list) \subseteq {Len(list)}
    <3>1. x \notin excused' => ActiveIn(brainRows[x]) \subseteq {n}
      BY <1>1, <2>2 DEF Misled, CatalogInvariant, NewestIsActive
    <3>2. "ACTIVE" \in BrainStatuses /\ brainRows[x] \in Seq(BrainRow)
      BY <1>1, <1>3 DEF BrainStatuses
    <3>3. /\ UpdatedRow(x, n, "ACTIVE") \in Seq(BrainRow)
          /\ ActiveIn(brainRows[x]) \subseteq {n} =>
               ActiveIn(UpdatedRow(x, n, "ACTIVE")) \subseteq {Len(UpdatedRow(x, n, "ACTIVE"))}
      BY <3>2, RowUpdated
    <3>4. excused' \subseteq Names
      BY <1>1, <1>3, <2>2 DEF Misled
    <3> QED
      BY <2>2, <3>1, <3>3, <3>4
  <2> QED
    BY <1>2, <2>1, <2>2
<1> HIDE DEF x
<1>5. removed' \subseteq tombstones' /\ revived' = {}
  BY <1>2 DEF CatalogInvariant, RemovedAreBuried
<1>6. /\ RemovedAreBuried' /\ ErrandFits'
      /\ errand' \in [step : CatalogSteps, name : Names \cup {NoName},
                           next : Names \cup {NoName}, row : Nat, moved : BOOLEAN]
  BY <1>2, <1>5, ErrandEnds
<1>7. CatalogTypeOK'
  BY <1>2, <1>4, <1>6 DEF CatalogInvariant, CatalogTypeOK
<1>8. NewestIsActive'
  BY <1>2, <1>1, <1>3, <1>4 DEF NewestIsActive, CatalogInvariant, OnTheWay
<1> QED
  BY <1>6, <1>7, <1>8 DEF CatalogInvariant

LEMMA DiscoverKeeps == CatalogInvariant /\ Discover => CatalogInvariant'
<1> SUFFICES ASSUME CatalogInvariant, Discover PROVE CatalogInvariant'
  OBVIOUS
<1> DEFINE new == {x \in Unlisted : RowsOf(x) = {}}
<1>1. PICK pick \in [Unlisted \ new -> 1..MaxBrainRows] :
         /\ \A x \in Unlisted \ new : pick[x] \in RowsOf(x)
         /\ brainRows' = [x \in Names |->
                       IF x \in new THEN NewBrain(x)
                       ELSE IF x \in Unlisted THEN UpdatedRow(x, pick[x], "ACTIVE")
                       ELSE brainRows[x]]
  BY DEF Discover
<1>2. /\ errand = NoErrand /\ errand.step = "idle"
      /\ derivedIds' = derivedIds \cup new
      /\ revived' = revived \cup (Unlisted \cap removed)
      /\ UNCHANGED <<brainFolders, recycled, tombstones, errand, mishaps, removed, excused>>
  BY ErrandRecords DEF Discover, CatalogIdle
<1>3. /\ Unlisted \subseteq Names /\ new \subseteq Unlisted
      /\ \A x \in Unlisted : /\ brainFolders[x] = "brain" /\ x \notin tombstones
                             /\ ActiveIn(brainRows[x]) = {}
  BY ActiveRowsIn DEF Unlisted, Discoverable, Complete
<1> HIDE DEF new
<1>4. revived' = {}
  BY <1>2, <1>3 DEF CatalogInvariant, RemovedAreBuried
<1>5. brainRows \in [Names -> Seq(BrainRow)]
  BY DEF CatalogInvariant, CatalogTypeOK
<1>6. \A x \in Unlisted : /\ brainRows'[x] \in Seq(BrainRow)
                          /\ ActiveIn(brainRows'[x]) \subseteq {Len(brainRows'[x])}
  BY <1>3, <1>5, <1>1, BrainIsNew, ActiveRowsIn, RowUpdated DEF BrainStatuses
<1>7. \A x \in Names \ Unlisted : brainRows'[x] = brainRows[x]
  BY <1>1, <1>3
<1>8. brainRows' \in [Names -> Seq(BrainRow)]
  BY <1>5, <1>6, <1>7, <1>1
<1>9. CatalogTypeOK'
  BY <1>2, <1>3, <1>4, <1>8 DEF CatalogInvariant, CatalogTypeOK
<1>10. NewestIsActive'
  BY <1>2, <1>3, <1>6, <1>7 DEF NewestIsActive, CatalogInvariant, OnTheWay
<1>11. RemovedAreBuried' /\ ErrandFits'
  BY <1>2, <1>4 DEF CatalogInvariant, RemovedAreBuried, ErrandFits
<1> QED
  BY <1>9, <1>10, <1>11 DEF CatalogInvariant

LEMMA RemoveRowsKeeps == CatalogInvariant /\ RemoveRows => CatalogInvariant'
<1> SUFFICES ASSUME CatalogInvariant, RemoveRows PROVE CatalogInvariant'
  OBVIOUS
<1> DEFINE x == errand.name
           gone == [n \in DOMAIN brainRows[x] |-> [status |-> "REMOVED", local |-> TRUE]]
<1>1. errand.step = "removed" /\ x \in Names /\ x \in tombstones
  BY DEF RemoveRows, InErrand, CatalogInvariant, ErrandFits, RemovedAreBuried
<1>2. /\ brainRows' = [brainRows EXCEPT ![x] = gone]
      /\ removed' = removed \cup {x} /\ errand' = NoErrand
      /\ UNCHANGED <<brainFolders, derivedIds, recycled, tombstones, mishaps, revived, excused>>
  BY DEF RemoveRows
<1>3. brainRows \in [Names -> Seq(BrainRow)]
  BY DEF CatalogInvariant, CatalogTypeOK
<1>4. gone \in Seq(BrainRow) /\ ActiveIn(gone) = {}
  <2>1. brainRows[x] \in Seq(BrainRow) /\ [status |-> "REMOVED", local |-> TRUE] \in BrainRow
    BY <1>1, <1>3 DEF BrainRow, BrainStatuses
  <2>2. gone = [n \in 1..Len(brainRows[x]) |-> [status |-> "REMOVED", local |-> TRUE]]
        /\ Len(brainRows[x]) \in Nat
    BY <2>1
  <2>3. gone \in Seq(BrainRow)
    <3> DEFINE row == [status |-> "REMOVED", local |-> TRUE]
               k == Len(brainRows[x])
    <3>1. gone = [n \in 1..k |-> row] /\ row \in BrainRow /\ k \in Nat
      BY <2>1, <2>2
    <3> HIDE DEF gone, row, k
    <3>2. gone \in [1..k -> BrainRow]
      BY <3>1
    <3> QED
      BY <3>1, <3>2, SeqDef
  <2>4. \A n \in DOMAIN gone : gone[n].status # "ACTIVE"
    BY <2>2
  <2> QED
    BY <2>3, <2>4 DEF ActiveIn
<1> HIDE DEF x, gone
<1>5. removed' \subseteq tombstones' /\ revived' = {}
  BY <1>1, <1>2 DEF CatalogInvariant, RemovedAreBuried
<1>6. /\ RemovedAreBuried' /\ ErrandFits'
      /\ errand' \in [step : CatalogSteps, name : Names \cup {NoName},
                           next : Names \cup {NoName}, row : Nat, moved : BOOLEAN]
  BY <1>2, <1>5, ErrandEnds
<1>7. CatalogTypeOK'
  BY <1>1, <1>2, <1>4, <1>6 DEF CatalogInvariant, CatalogTypeOK
<1>8. NewestIsActive'
  BY <1>1, <1>2, <1>3, <1>4 DEF CatalogInvariant, NewestIsActive, OnTheWay
<1> QED
  BY <1>6, <1>7, <1>8 DEF CatalogInvariant

LEMMA TrashFolderKeeps ==
    ASSUME CatalogInvariant, NEW x \in Names, TrashFolder(x)
    PROVE  CatalogInvariant'
<1>1. PICK n \in DOMAIN brainRows[x] :
         /\ errand' = [NoErrand EXCEPT !.step = "trashed", !.name = x, !.row = n]
         /\ excused' = excused \cup Misled(x, n)
  BY DEF TrashFolder, RowsOf
<1>2. /\ errand.step = "idle"
      /\ recycled' = [recycled EXCEPT ![x] = brainFolders[x]]
      /\ brainFolders' = [brainFolders EXCEPT ![x] = "none"]
      /\ UNCHANGED <<derivedIds, brainRows, tombstones, mishaps, removed, revived>>
  BY ErrandRecords DEF TrashFolder, CatalogIdle
<1>3. n \in Nat /\ excused \subseteq Names
  BY DEF CatalogInvariant, CatalogTypeOK
<1>4. /\ errand'.step = "trashed" /\ errand'.name = x /\ errand'.row = n
      /\ errand' \in [step : CatalogSteps, name : Names \cup {NoName},
                      next : Names \cup {NoName}, row : Nat, moved : BOOLEAN]
  BY <1>1, <1>3 DEF NoErrand, CatalogSteps
<1>5. excused \subseteq excused' /\ excused' \subseteq Names
      /\ (x \notin excused' => n = Len(brainRows[x]))
  BY <1>1, <1>3 DEF Misled
<1>6. CatalogTypeOK'
  BY <1>2, <1>4, <1>5 DEF CatalogInvariant, CatalogTypeOK, FolderKinds
<1>7. NewestIsActive'
  BY <1>2, <1>4, <1>5 DEF CatalogInvariant, CatalogTypeOK, NewestIsActive, OnTheWay
<1>8. RemovedAreBuried' /\ ErrandFits'
  BY <1>2, <1>4, <1>5 DEF CatalogInvariant, RemovedAreBuried, ErrandFits
<1> QED
  BY <1>6, <1>7, <1>8 DEF CatalogInvariant

LEMMA RecycleRowKeeps == CatalogInvariant /\ RecycleRow => CatalogInvariant'
<1> SUFFICES ASSUME CatalogInvariant, RecycleRow PROVE CatalogInvariant'
  OBVIOUS
<1> DEFINE x == errand.name
           list == UpdatedRow(x, errand.row, "RECYCLED")
<1>1. /\ errand.step = "trashed" /\ x \in Names /\ errand.row \in DOMAIN brainRows[x]
      /\ x \notin excused => errand.row = Len(brainRows[x])
  BY DEF RecycleRow, InErrand, CatalogInvariant, ErrandFits
<1>2. /\ brainRows' = [brainRows EXCEPT ![x] = list] /\ errand' = NoErrand
      /\ UNCHANGED <<brainFolders, derivedIds, recycled, tombstones, mishaps, removed,
                     revived, excused>>
  BY DEF RecycleRow
<1>3. brainRows \in [Names -> Seq(BrainRow)]
  BY DEF CatalogInvariant, CatalogTypeOK
<1>4. list \in Seq(BrainRow) /\ (x \notin excused => ActiveIn(list) = {})
  BY <1>1, <1>3, RowUpdated DEF CatalogInvariant, NewestIsActive, BrainStatuses
<1> HIDE DEF x, list
<1>5. removed' \subseteq tombstones' /\ revived' = {}
  BY <1>2 DEF CatalogInvariant, RemovedAreBuried
<1>6. /\ RemovedAreBuried' /\ ErrandFits'
      /\ errand' \in [step : CatalogSteps, name : Names \cup {NoName},
                           next : Names \cup {NoName}, row : Nat, moved : BOOLEAN]
  BY <1>2, <1>5, ErrandEnds
<1>7. CatalogTypeOK'
  BY <1>1, <1>2, <1>4, <1>6 DEF CatalogInvariant, CatalogTypeOK
<1>8. NewestIsActive'
  BY <1>1, <1>2, <1>3, <1>4 DEF CatalogInvariant, NewestIsActive, OnTheWay, x
<1> QED
  BY <1>6, <1>7, <1>8 DEF CatalogInvariant

LEMMA MoveFolderKeeps ==
    ASSUME CatalogInvariant, NEW x \in Names, NEW y \in Names, MoveFolder(x, y)
    PROVE  CatalogInvariant'
<1>1. PICK n \in Unremoved(x) :
         /\ errand' = [step |-> "moved", name |-> x, next |-> y, row |-> n,
                       moved |-> brainFolders[x] # "none"]
         /\ excused' = IF ActiveRows(x) \ {n} = {} THEN excused
                       ELSE excused \cup {x}
  BY DEF MoveFolder
<1>2. /\ errand.step = "idle" /\ x # y /\ Unremoved(y) = {}
      /\ brainFolders' = [brainFolders EXCEPT
                            ![y] = IF brainFolders[x] = "none" THEN "empty"
                                   ELSE brainFolders[x],
                            ![x] = "none"]
      /\ UNCHANGED <<brainRows, derivedIds, recycled, tombstones, mishaps, removed, revived>>
  BY ErrandRecords DEF MoveFolder, CatalogIdle
<1>3. n \in DOMAIN brainRows[x] /\ n \in Nat /\ excused \subseteq Names
  BY <1>1 DEF Unremoved, RowsOf, CatalogInvariant, CatalogTypeOK
<1>4. /\ errand'.step = "moved" /\ errand'.name = x /\ errand'.next = y /\ errand'.row = n
      /\ errand'.moved <=> brainFolders[x] # "none"
  BY <1>1
<1>5. errand' \in [step : CatalogSteps, name : Names \cup {NoName},
                   next : Names \cup {NoName}, row : Nat, moved : BOOLEAN]
  <2> DEFINE m == brainFolders[x] # "none"
  <2>1. m \in BOOLEAN
    OBVIOUS
  <2>2. errand' = [step |-> "moved", name |-> x, next |-> y, row |-> n, moved |-> m]
    BY <1>1
  <2> HIDE DEF m
  <2> QED
    BY <1>3, <2>1, <2>2 DEF CatalogSteps
<1>6. /\ excused \subseteq excused' /\ excused' \subseteq Names
      /\ x \notin excused' => ActiveIn(brainRows[x]) \subseteq {n}
  BY <1>1, <1>3, ActiveRowsIn
<1>7. ActiveIn(brainRows[y]) = {}
  BY <1>2 DEF Unremoved, ActiveIn, RowsOf
<1>8. /\ brainFolders' \in [Names -> FolderKinds] /\ brainFolders'[y] # "none"
      /\ \A z \in Names \ {x, y} : brainFolders'[z] = brainFolders[z]
  BY <1>2 DEF CatalogInvariant, CatalogTypeOK, FolderKinds
<1>9. CatalogTypeOK'
  BY <1>2, <1>5, <1>6, <1>8 DEF CatalogInvariant, CatalogTypeOK
<1>10. NewestIsActive'
  BY <1>2, <1>4, <1>6, <1>7, <1>8 DEF CatalogInvariant, NewestIsActive, OnTheWay
<1>11. RemovedAreBuried'
  BY <1>2, <1>4 DEF CatalogInvariant, RemovedAreBuried
<1>12. x \notin excused' /\ brainFolders[x] = "none" => ActiveIn(brainRows[x]) = {}
  BY <1>2, <1>6 DEF CatalogInvariant, NewestIsActive, OnTheWay
<1>13. ErrandFits'
  BY <1>2, <1>3, <1>4, <1>6, <1>7, <1>8, <1>12 DEF ErrandFits
<1> QED
  BY <1>9, <1>10, <1>11, <1>13 DEF CatalogInvariant

LEMMA RenameRowKeeps == CatalogInvariant /\ RenameRow => CatalogInvariant'
<1> SUFFICES ASSUME CatalogInvariant, RenameRow PROVE CatalogInvariant'
  OBVIOUS
<1> DEFINE x == errand.name
           y == errand.next
           n == errand.row
           row == [status |-> brainRows[x][n].status, local |-> TRUE]
           rest == WithoutRow(x, n)
           more == Append(brainRows[y], row)
<1>1. /\ errand.step = "moved" /\ x \in Names /\ y \in Names /\ x # y
      /\ n \in DOMAIN brainRows[x] /\ brainFolders[y] # "none"
      /\ ActiveIn(brainRows[y]) = {}
      /\ x \notin excused => ActiveIn(brainRows[x]) \subseteq {n}
  BY DEF RenameRow, InErrand, CatalogInvariant, ErrandFits
<1>2. brainRows \in [Names -> Seq(BrainRow)]
  BY DEF CatalogInvariant, CatalogTypeOK
<1>3. /\ brainRows' = [brainRows EXCEPT ![x] = rest, ![y] = more]
      /\ errand' = NoErrand /\ removed' = removed \ {y}
      /\ UNCHANGED <<brainFolders, derivedIds, recycled, tombstones, mishaps, revived, excused>>
  BY <1>1, <1>2 DEF RenameRow
<1>4. rest \in Seq(BrainRow) /\ (x \notin excused => ActiveIn(rest) = {})
  BY <1>1, <1>2, TakenRow
<1>5. more \in Seq(BrainRow) /\ ActiveIn(more) \subseteq {Len(more)}
  <2>1. brainRows[x][n] \in BrainRow /\ brainRows[y] \in Seq(BrainRow)
    BY <1>1, <1>2
  <2>2. row \in BrainRow
    BY <2>1 DEF BrainRow
  <2> HIDE DEF row
  <2> QED
    BY <1>1, <2>1, <2>2, AddedRow
<1> HIDE DEF x, y, n, rest, more
<1>6. removed' \subseteq tombstones' /\ revived' = {}
  BY <1>3 DEF CatalogInvariant, RemovedAreBuried
<1>7. /\ RemovedAreBuried' /\ ErrandFits'
      /\ errand' \in [step : CatalogSteps, name : Names \cup {NoName},
                           next : Names \cup {NoName}, row : Nat, moved : BOOLEAN]
  BY <1>3, <1>6, ErrandEnds
<1>8. CatalogTypeOK'
  BY <1>1, <1>2, <1>3, <1>4, <1>5, <1>7 DEF CatalogInvariant, CatalogTypeOK
<1>9. NewestIsActive'
  BY <1>3, <1>1, <1>2, <1>4, <1>5 DEF NewestIsActive, OnTheWay, x, CatalogInvariant
<1> QED
  BY <1>7, <1>8, <1>9 DEF CatalogInvariant

LEMMA RenameFailsKeeps == CatalogInvariant /\ RenameFails => CatalogInvariant'
<1> SUFFICES ASSUME CatalogInvariant, RenameFails PROVE CatalogInvariant'
  OBVIOUS
<1> DEFINE x == errand.name
           y == errand.next
<1>1. /\ errand.step = "moved" /\ x \in Names /\ y \in Names /\ x # y
      /\ brainFolders[y] # "none" /\ ActiveIn(brainRows[y]) = {}
      /\ x \notin excused /\ ~errand.moved => ActiveIn(brainRows[x]) = {}
  BY DEF RenameFails, InErrand, CatalogInvariant, ErrandFits
<1>2. /\ brainFolders' = IF errand.moved
                         THEN [brainFolders EXCEPT ![x] = brainFolders[y], ![y] = "none"]
                         ELSE brainFolders
      /\ errand' = NoErrand /\ mishaps' = mishaps + 1
      /\ UNCHANGED <<brainRows, derivedIds, recycled, tombstones, removed, revived, excused>>
  BY DEF RenameFails, Mishap
<1>3. brainFolders \in [Names -> FolderKinds] /\ mishaps \in Nat
  BY DEF CatalogInvariant, CatalogTypeOK
<1>4. removed' \subseteq tombstones' /\ revived' = {}
  BY <1>2 DEF CatalogInvariant, RemovedAreBuried
<1>5. /\ RemovedAreBuried' /\ ErrandFits'
      /\ errand' \in [step : CatalogSteps, name : Names \cup {NoName},
                           next : Names \cup {NoName}, row : Nat, moved : BOOLEAN]
  BY <1>2, <1>4, ErrandEnds
<1>6. /\ brainFolders' \in [Names -> FolderKinds]
      /\ \A z \in Names \ {x, y} : brainFolders'[z] = brainFolders[z]
      /\ errand.moved => brainFolders'[x] # "none"
  BY <1>1, <1>2, <1>3 DEF FolderKinds
<1>7. CatalogTypeOK'
  <2>1. mishaps' \in Nat
    BY <1>2, <1>3
  <2> QED
    BY <1>2, <1>5, <1>6, <2>1 DEF CatalogInvariant, CatalogTypeOK
<1>8. NewestIsActive'
  BY <1>2, <1>1, <1>6 DEF NewestIsActive, CatalogInvariant, OnTheWay
<1> QED
  BY <1>5, <1>7, <1>8 DEF CatalogInvariant

LEMMA CutShortKeeps == CatalogInvariant /\ CutShort => CatalogInvariant'
<1> SUFFICES ASSUME CatalogInvariant, CutShort PROVE CatalogInvariant'
  OBVIOUS
<1>1. /\ excused' = (IF errand.step \in {"trashed", "moved"} THEN excused \cup {errand.name}
                     ELSE excused)
      /\ errand' = NoErrand /\ mishaps' = mishaps + 1
      /\ UNCHANGED <<brainRows, brainFolders, derivedIds, recycled, tombstones, removed, revived>>
  BY DEF CutShort, Mishap
<1>2. removed' \subseteq tombstones' /\ revived' = {}
  BY <1>1 DEF CatalogInvariant, RemovedAreBuried
<1>3. /\ RemovedAreBuried' /\ ErrandFits'
      /\ errand' \in [step : CatalogSteps, name : Names \cup {NoName},
                           next : Names \cup {NoName}, row : Nat, moved : BOOLEAN]
  BY <1>1, <1>2, ErrandEnds
<1>4. CatalogTypeOK'
  BY <1>1, <1>3 DEF CatalogInvariant, CatalogTypeOK, ErrandFits
<1>5. NewestIsActive'
  BY <1>1 DEF CatalogInvariant, NewestIsActive, OnTheWay
<1> QED
  BY <1>3, <1>4, <1>5 DEF CatalogInvariant

LEMMA CatalogInvariantCorrect == CatalogSpec => []CatalogInvariant
<1>1. CatalogInvariant /\ [CatalogNext]_catalogVars => CatalogInvariant'
  <2>1. CatalogInvariant /\ UNCHANGED catalogVars => CatalogInvariant'
    BY DEF CatalogInvariant, catalogVars, CatalogTypeOK, NewestIsActive, OnTheWay,
       RemovedAreBuried, ErrandFits
  <2> QED
    BY <2>1, FolderMadeKeeps, InsertBrainKeeps, ClearTombstoneKeeps, RecordBuildKeeps,
       DiscoverKeeps, RemoveRowsKeeps, TrashFolderKeeps, RecycleRowKeeps, MoveFolderKeeps,
       RenameRowKeeps, RenameFailsKeeps, CutShortKeeps DEF CatalogNext
<1> QED
  BY <1>1, CatalogStart, PTL DEF CatalogSpec

\* The list of the brains is true, and discovery brings back no brain that was removed.
THEOREM CatalogTrue == CatalogSpec => []CatalogIsTrue
<1>1. CatalogInvariant => CatalogIsTrue
  <2> SUFFICES ASSUME CatalogInvariant, CatalogIdle, NEW x \in Names \ excused,
                      ActiveRows(x) # {}
               PROVE  /\ brainFolders[x] # "none" /\ \A m, n \in ActiveRows(x) : m = n
    BY DEF CatalogIsTrue, CatalogInvariant, RemovedAreBuried
  <2>1. ~OnTheWay(x)
    BY ErrandRecords DEF OnTheWay, CatalogIdle
  <2> QED
    BY <2>1, ActiveRowsIn DEF CatalogInvariant, NewestIsActive
<1> QED
  BY <1>1, CatalogInvariantCorrect, PTL

-----------------------------------------------------------------------------
(* The graphs that are shown.                                              *)

GraphQueries == [step : QuerySteps, entry : Graphs \cup {NoGraph}, unread : SUBSET Sectors,
            hit : BOOLEAN, delta : (1..MaxDeltas) \cup {NoDelta}]
ShownAnswers == [graph : Indexes \cup {NoGraph}, live : Indexes \cup {NoGraph}, hit : BOOLEAN,
            listed : Nat, told : Nat, overlay : (1..MaxDeltas) \cup {NoDelta},
            raced : BOOLEAN]

QueriesFit ==
    /\ memory \in [Viewers -> SUBSET Graphs]
    /\ query \in [Viewers -> GraphQueries] /\ shown \in [Viewers -> ShownAnswers]
    /\ \A s \in Sectors : index[s] <= indexEdits

\* What a graph tells of a version is so, whatever becomes of the brain.
TrueOf(made, g) ==
    /\ g.version \in DOMAIN made
    /\ ~g.raced => g.graph = g.key.index
    /\ ~g.raced /\ ~g.drifted => g.graph = made[g.version]

IsTrueGraph(g) == TrueOf(captures, g)

KeptIsTrue ==
    /\ \A w \in Viewers : \A g \in memory[w] : IsTrueGraph(g)
    /\ \A g \in {stored} \ {NoGraph} : IsTrueGraph(g)

\* A version that a worker verified is what the brain is, until an edit.
VerifiedIsIndex ==
    \A w \in Viewers :
        /\ verified[w] \subseteq DOMAIN captures
        /\ \A v \in verified[w] \ drift[w] : captures[v] = index

\* A graph that is being made is of the index as it is, until an edit or a capture.
QueryIsTrue ==
    \A w \in Viewers :
        LET e == query[w].entry
        IN  /\ query[w].step # "idle" => e \in Graphs
            /\ query[w].step \in {"verify", "read"} =>
                 /\ e.version \in DOMAIN captures
                 /\ ~e.raced => e.graph = index /\ e.key.index = index
            /\ query[w].step = "read" =>
                 (~e.raced /\ ~e.drifted => captures[e.version] = index)
            /\ query[w].step \in {"keep", "answer"} => IsTrueGraph(e)

ListsAreWhole == \A w \in Viewers : \A d \in deltaLists[w] : d.length = d.rows

AnswersAreTrue ==
    /\ HitIsFresh
    /\ \A w \in Viewers :
        /\ shown[w].listed = shown[w].told
        /\ shown[w].overlay # NoDelta =>
               shown[w].overlay \in DOMAIN refreshDeltas /\ refreshDeltas[shown[w].overlay]
        /\ query[w].delta # NoDelta => query[w].delta \in DOMAIN refreshDeltas

TelemetryInvariant ==
    /\ ViewTypeOK /\ QueriesFit /\ KeptIsTrue /\ VerifiedIsIndex /\ QueryIsTrue
    /\ ListsAreWhole /\ AnswersAreTrue

-----------------------------------------------------------------------------
LEMMA TelemetryStart == ViewInit => TelemetryInvariant
<1> SUFFICES ASSUME ViewInit PROVE TelemetryInvariant
  OBVIOUS
<1>0. 0 \in 0..MaxIndexEdits /\ 0 \in 0..MaxQueries /\ 0 \in 0..MaxViewFaults /\ MaxDeltas \in Nat /\ MaxCaptures \in Nat
  BY TelemetryAssumption
<1>1. NoQuery \in GraphQueries /\ NoAnswer \in ShownAnswers
  BY DEF NoQuery, NoAnswer, GraphQueries, ShownAnswers, QuerySteps
<1>2. ViewTypeOK
  <2>1. index \in Indexes
    BY <1>0 DEF ViewInit, Indexes
  <2>2. /\ captures \in Seq(Indexes) /\ Len(captures) <= MaxCaptures
        /\ refreshDeltas \in Seq(BOOLEAN) /\ Len(refreshDeltas) <= MaxDeltas
    BY <1>0 DEF ViewInit
  <2>3. /\ verified \in [Viewers -> SUBSET (1..MaxCaptures)]
        /\ drift \in [Viewers -> SUBSET (1..MaxCaptures)]
        /\ deltaLists \in [Viewers -> SUBSET [rows : 0..MaxDeltas, length : 0..MaxDeltas]]
    BY DEF ViewInit
  <2>4. \A w \in Viewers :
          /\ memory[w] = {} /\ query[w] = NoQuery /\ shown[w] = NoAnswer
    BY DEF ViewInit
  <2>5. /\ NoQuery.step = "idle" /\ NoQuery.entry = NoGraph /\ NoQuery.unread = {}
        /\ NoQuery.hit \in BOOLEAN /\ NoQuery.delta = NoDelta /\ NoAnswer.graph = NoGraph
    BY DEF NoQuery, NoAnswer
  <2>6. /\ stored \in Graphs \cup {NoGraph} /\ indexEdits \in 0..MaxIndexEdits
        /\ queries \in 0..MaxQueries /\ viewFaults \in 0..MaxViewFaults
    BY <1>0 DEF ViewInit
  <2> QED
    BY <2>1, <2>2, <2>3, <2>4, <2>5, <2>6 DEF ViewTypeOK, QuerySteps
<1>3. QueriesFit
  BY <1>0, <1>1 DEF ViewInit, QueriesFit
<1>4. KeptIsTrue /\ VerifiedIsIndex /\ QueryIsTrue /\ ListsAreWhole
  BY DEF ViewInit, KeptIsTrue, VerifiedIsIndex, QueryIsTrue, ListsAreWhole, NoQuery
<1>5. AnswersAreTrue
  BY DEF ViewInit, AnswersAreTrue, HitIsFresh, NoQuery, NoAnswer
<1> QED
  BY <1>2, <1>3, <1>4, <1>5 DEF TelemetryInvariant

\* A query that was told of an edit or a capture.
ToldOfEdit(q) == IF q.step \in {"verify", "read"} THEN [q EXCEPT !.entry.raced = TRUE] ELSE q

LEMMA ToldQuery ==
    ASSUME NEW q \in GraphQueries, q.step # "idle" => q.entry \in Graphs
    PROVE  /\ ToldOfEdit(q) \in GraphQueries /\ ToldOfEdit(q).step = q.step /\ ToldOfEdit(q).unread = q.unread
           /\ ToldOfEdit(q).hit = q.hit /\ ToldOfEdit(q).delta = q.delta
           /\ q.step \in {"verify", "read"} =>
                /\ ToldOfEdit(q).entry = [q.entry EXCEPT !.raced = TRUE]
                /\ ToldOfEdit(q).entry \in Graphs /\ ToldOfEdit(q).entry.raced
                /\ ToldOfEdit(q).entry.version = q.entry.version
           /\ q.step \notin {"verify", "read"} => ToldOfEdit(q) = q
<1>1. CASE q.step \in {"verify", "read"}
  <2>1. q.entry \in Graphs
    BY <1>1
  <2> DEFINE e == [q.entry EXCEPT !.raced = TRUE]
  <2>2. e \in Graphs /\ e.raced /\ e.version = q.entry.version
    BY <2>1 DEF Graphs
  <2>3. ToldOfEdit(q) = [q EXCEPT !.entry = e]
    BY <1>1 DEF ToldOfEdit, GraphQueries
  <2> HIDE DEF e
  <2> QED
    BY <1>1, <2>2, <2>3 DEF GraphQueries, e
<1>2. CASE q.step \notin {"verify", "read"}
  BY <1>2 DEF ToldOfEdit
<1> QED
  BY <1>1, <1>2

LEMMA EditIndexKeeps ==
    ASSUME TelemetryInvariant, NEW s \in Sectors, EditIndex(s)
    PROVE  TelemetryInvariant'
<1>1. /\ indexEdits < MaxIndexEdits /\ indexEdits' = indexEdits + 1
      /\ index' = [index EXCEPT ![s] = @ + 1]
      /\ drift' = [w \in Viewers |-> drift[w] \cup verified[w]]
      /\ query' = [w \in Viewers |-> ToldOfEdit(query[w])]
      /\ UNCHANGED <<captures, refreshDeltas, verified, memory, stored, deltaLists, shown,
                     queries, viewFaults>>
  BY DEF EditIndex, ToldOfEdit
<1>2. /\ index \in Indexes /\ indexEdits \in 0..MaxIndexEdits
      /\ query \in [Viewers -> GraphQueries]
      /\ \A w \in Viewers : query[w].step # "idle" => query[w].entry \in Graphs
  BY DEF TelemetryInvariant, ViewTypeOK, QueriesFit, QueryIsTrue
<1>3. /\ index' \in Indexes /\ indexEdits' \in 0..MaxIndexEdits
      /\ \A t \in Sectors : index'[t] <= indexEdits'
  BY <1>1, <1>2, TelemetryAssumption DEF TelemetryInvariant, QueriesFit, Indexes
<1>4. \A w \in Viewers :
        /\ query'[w] = ToldOfEdit(query[w]) /\ query'[w] \in GraphQueries
        /\ query'[w].step = query[w].step /\ query'[w].delta = query[w].delta
        /\ query[w].step \in {"verify", "read"} =>
              /\ query'[w].entry \in Graphs /\ query'[w].entry.raced
              /\ query'[w].entry.version = query[w].entry.version
        /\ query[w].step \notin {"verify", "read"} => query'[w] = query[w]
  BY <1>1, <1>2, ToldQuery
<1>5. QueriesFit'
  BY <1>1, <1>3, <1>4 DEF TelemetryInvariant, QueriesFit
<1>6. ViewTypeOK'
  BY <1>1, <1>3, <1>4 DEF TelemetryInvariant, ViewTypeOK, GraphQueries
<1>7. KeptIsTrue' /\ ListsAreWhole'
  BY <1>1 DEF TelemetryInvariant, KeptIsTrue, ListsAreWhole, IsTrueGraph
<1>8. VerifiedIsIndex'
  BY <1>1 DEF TelemetryInvariant, VerifiedIsIndex
<1>9. QueryIsTrue'
  BY <1>1, <1>4 DEF QueryIsTrue, IsTrueGraph, TelemetryInvariant
<1>10. AnswersAreTrue'
  BY <1>1, <1>4 DEF TelemetryInvariant, AnswersAreTrue, HitIsFresh
<1> QED
  BY <1>5, <1>6, <1>7, <1>8, <1>9, <1>10 DEF TelemetryInvariant

\* One more element leaves the others where they are.
LEMMA OneMore ==
    ASSUME NEW S, NEW s \in Seq(S), NEW e \in S
    PROVE  /\ Append(s, e) \in Seq(S) /\ Len(Append(s, e)) = Len(s) + 1
           /\ DOMAIN s \subseteq DOMAIN Append(s, e)
           /\ \A i \in DOMAIN s : Append(s, e)[i] = s[i]
OBVIOUS

LEMMA CaptureIndexKeeps == TelemetryInvariant /\ CaptureIndex => TelemetryInvariant'
<1> SUFFICES ASSUME TelemetryInvariant, CaptureIndex PROVE TelemetryInvariant'
  OBVIOUS
<1>1. /\ Len(captures) < MaxCaptures /\ captures' = Append(captures, index)
      /\ query' = [w \in Viewers |-> ToldOfEdit(query[w])]
      /\ UNCHANGED <<index, refreshDeltas, verified, memory, stored, deltaLists, shown,
                     indexEdits, queries, viewFaults, drift>>
  BY DEF CaptureIndex, ToldOfEdit
<1>2. /\ index \in Indexes /\ captures \in Seq(Indexes)
      /\ query \in [Viewers -> GraphQueries]
      /\ \A w \in Viewers : query[w].step # "idle" => query[w].entry \in Graphs
  BY DEF TelemetryInvariant, ViewTypeOK, QueriesFit, QueryIsTrue
<1>3. /\ captures' \in Seq(Indexes) /\ Len(captures') <= MaxCaptures
      /\ DOMAIN captures \subseteq DOMAIN captures'
      /\ \A v \in DOMAIN captures : captures'[v] = captures[v]
  BY <1>1, <1>2, TelemetryAssumption
<1>4. \A w \in Viewers :
        /\ query'[w] = ToldOfEdit(query[w]) /\ query'[w] \in GraphQueries
        /\ query'[w].step = query[w].step /\ query'[w].delta = query[w].delta
        /\ query[w].step \in {"verify", "read"} =>
              /\ query'[w].entry \in Graphs /\ query'[w].entry.raced
              /\ query'[w].entry.version = query[w].entry.version
        /\ query[w].step \notin {"verify", "read"} => query'[w] = query[w]
  BY <1>1, <1>2, ToldQuery
<1>5. QueriesFit'
  BY <1>1, <1>4 DEF TelemetryInvariant, QueriesFit
<1>6. ViewTypeOK'
  BY <1>1, <1>3, <1>4 DEF TelemetryInvariant, ViewTypeOK, GraphQueries
<1>7. \A g : IsTrueGraph(g) => TrueOf(captures', g)
  BY <1>3 DEF IsTrueGraph, TrueOf
<1>8. KeptIsTrue' /\ ListsAreWhole'
  BY <1>1, <1>7 DEF TelemetryInvariant, KeptIsTrue, ListsAreWhole, IsTrueGraph
<1>9. VerifiedIsIndex'
  BY <1>1, <1>3 DEF TelemetryInvariant, VerifiedIsIndex
<1>10. QueryIsTrue'
  BY <1>3, <1>4, <1>7 DEF QueryIsTrue, IsTrueGraph, TelemetryInvariant
<1>11. AnswersAreTrue'
  BY <1>1, <1>4 DEF TelemetryInvariant, AnswersAreTrue, HitIsFresh
<1> QED
  BY <1>5, <1>6, <1>8, <1>9, <1>10, <1>11 DEF TelemetryInvariant

LEMMA RecordDeltaKeeps == TelemetryInvariant /\ RecordDelta => TelemetryInvariant'
<1> SUFFICES ASSUME TelemetryInvariant, RecordDelta PROVE TelemetryInvariant'
  OBVIOUS
<1>1. PICK ready \in BOOLEAN : refreshDeltas' = Append(refreshDeltas, ready)
  BY DEF RecordDelta
<1>2. /\ Len(refreshDeltas) < MaxDeltas
      /\ UNCHANGED <<index, captures, verified, memory, stored, deltaLists, query, shown,
                     indexEdits, queries, viewFaults, drift>>
  BY DEF RecordDelta
<1>3. refreshDeltas \in Seq(BOOLEAN)
  BY DEF TelemetryInvariant, ViewTypeOK
<1>4. /\ refreshDeltas' \in Seq(BOOLEAN) /\ Len(refreshDeltas') <= MaxDeltas
      /\ DOMAIN refreshDeltas \subseteq DOMAIN refreshDeltas'
      /\ \A v \in DOMAIN refreshDeltas : refreshDeltas'[v] = refreshDeltas[v]
  BY <1>1, <1>2, <1>3, OneMore, TelemetryAssumption
<1>5. QueriesFit' /\ KeptIsTrue' /\ VerifiedIsIndex' /\ QueryIsTrue' /\ ListsAreWhole'
  BY <1>2 DEF TelemetryInvariant, QueriesFit, KeptIsTrue, VerifiedIsIndex, QueryIsTrue,
     ListsAreWhole, IsTrueGraph
<1>6. ViewTypeOK'
  BY <1>2, <1>4 DEF TelemetryInvariant, ViewTypeOK
<1>7. AnswersAreTrue'
  BY <1>2, <1>4 DEF TelemetryInvariant, AnswersAreTrue, HitIsFresh
<1> QED
  BY <1>5, <1>6, <1>7 DEF TelemetryInvariant

-----------------------------------------------------------------------------
\* A worker takes another step of its query, and keeps what else it has told.
LEMMA QueryMoves ==
    ASSUME TelemetryInvariant, NEW w \in Viewers, NEW q \in GraphQueries,
           query' = [query EXCEPT ![w] = q],
           UNCHANGED <<index, captures, refreshDeltas, deltaLists, shown, indexEdits,
                       viewFaults, drift>>,
           queries' \in 0..MaxQueries,
           memory' \in [Viewers -> SUBSET Graphs], stored' \in Graphs \cup {NoGraph},
           verified' \in [Viewers -> SUBSET (1..MaxCaptures)],
           KeptIsTrue', VerifiedIsIndex',
           q.step # "idle" => q.entry \in Graphs,
           q.step \in {"verify", "read"} =>
                 /\ q.entry.version \in DOMAIN captures
                 /\ ~q.entry.raced => q.entry.graph = index /\ q.entry.key.index = index,
           q.step = "read" =>
                 (~q.entry.raced /\ ~q.entry.drifted => captures[q.entry.version] = index),
           q.step \in {"keep", "answer"} => IsTrueGraph(q.entry),
           q.delta # NoDelta => q.delta \in DOMAIN refreshDeltas
    PROVE  TelemetryInvariant'
<1>1. query \in [Viewers -> GraphQueries] /\ query' \in [Viewers -> GraphQueries]
  BY DEF TelemetryInvariant, QueriesFit
<1>2. query'[w] = q /\ \A v \in Viewers \ {w} : query'[v] = query[v]
  BY <1>1
<1>3. QueriesFit' /\ ListsAreWhole'
  BY <1>1 DEF TelemetryInvariant, QueriesFit, ListsAreWhole
<1>4. ViewTypeOK'
  BY <1>1 DEF TelemetryInvariant, ViewTypeOK, GraphQueries
<1>5. QueryIsTrue'
  BY <1>2 DEF QueryIsTrue, IsTrueGraph, TelemetryInvariant
<1>6. AnswersAreTrue'
  BY <1>2 DEF TelemetryInvariant, AnswersAreTrue, HitIsFresh
<1> QED
  BY <1>3, <1>4, <1>5, <1>6 DEF TelemetryInvariant

LEMMA StartQueryKeeps ==
    ASSUME TelemetryInvariant, NEW w \in Viewers, NEW rebuild \in BOOLEAN,
           NEW delta \in DOMAIN refreshDeltas \cup {NoDelta}, StartQuery(w, rebuild, delta)
    PROVE  TelemetryInvariant'
<1> DEFINE hits == IF rebuild THEN {} ELSE Cached(w, ProbeKey)
<1>1. /\ queries < MaxQueries /\ queries' = queries + 1 /\ captures # <<>>
      /\ \A g \in hits :
           /\ query' = [query EXCEPT ![w] = [step |-> "answer", entry |-> g, unread |-> {},
                                             hit |-> TRUE, delta |-> delta]]
           /\ memory' = [memory EXCEPT ![w] = @ \cup {g}]
      /\ hits = {} =>
           /\ query' = [query EXCEPT ![w] =
                   [step |-> "verify", unread |-> Sectors, hit |-> FALSE, delta |-> delta,
                    entry |-> [key |-> ProbeKey, graph |-> index, version |-> NewestCapture,
                               raced |-> FALSE, drifted |-> FALSE]]]
           /\ UNCHANGED memory
      /\ UNCHANGED <<index, captures, refreshDeltas, verified, stored, deltaLists, shown,
                     indexEdits, viewFaults, drift>>
  BY DEF StartQuery
<1>2. /\ queries' \in 0..MaxQueries
      /\ delta \in (1..MaxDeltas) \cup {NoDelta}
      /\ delta # NoDelta => delta \in DOMAIN refreshDeltas
  BY <1>1, TelemetryAssumption DEF TelemetryInvariant, ViewTypeOK
<1>3. hits \subseteq memory[w] \cup ({stored} \ {NoGraph})
  BY DEF Cached, InMemory, OnDisk
<1> HIDE DEF hits
<1>4. VerifiedIsIndex' /\ verified' \in [Viewers -> SUBSET (1..MaxCaptures)]
      /\ stored' \in Graphs \cup {NoGraph}
  BY <1>1 DEF TelemetryInvariant, VerifiedIsIndex, ViewTypeOK
<1>5. memory \in [Viewers -> SUBSET Graphs]
  BY DEF TelemetryInvariant, QueriesFit
<1>6. \A g : IsTrueGraph(g)' <=> IsTrueGraph(g)
  BY <1>1 DEF IsTrueGraph
<1>7. ASSUME NEW g \in hits PROVE TelemetryInvariant'
  <2>1. g \in Graphs /\ IsTrueGraph(g)
    BY <1>3, <1>5, <1>7 DEF TelemetryInvariant, KeptIsTrue, ViewTypeOK
  <2> DEFINE q == [step |-> "answer", entry |-> g, unread |-> {}, hit |-> TRUE, delta |-> delta]
  <2>2. q \in GraphQueries
    BY <1>2, <2>1 DEF GraphQueries, QuerySteps
  <2>3. /\ query' = [query EXCEPT ![w] = q] /\ memory' = [memory EXCEPT ![w] = @ \cup {g}]
        /\ q.step = "answer" /\ q.entry = g /\ q.delta = delta
    BY <1>1, <1>7
  <2> HIDE DEF q
  <2>4. memory' \in [Viewers -> SUBSET Graphs]
    BY <1>5, <2>1, <2>3
  <2>5. KeptIsTrue'
    BY <1>1, <1>5, <1>6, <2>1, <2>3 DEF TelemetryInvariant, KeptIsTrue
  <2> QED
    BY <1>1, <1>2, <1>4, <2>1, <2>2, <2>3, <2>4, <2>5, QueryMoves
<1>8. CASE hits = {}
  <2> DEFINE e == [key |-> ProbeKey, graph |-> index, version |-> NewestCapture,
                   raced |-> FALSE, drifted |-> FALSE]
             q == [step |-> "verify", unread |-> Sectors, hit |-> FALSE, delta |-> delta,
                   entry |-> e]
  <2>1. NewestCapture \in 1..MaxCaptures /\ NewestCapture \in DOMAIN captures
    BY <1>1, TelemetryAssumption DEF NewestCapture, TelemetryInvariant, ViewTypeOK
  <2>2. e \in Graphs /\ ~e.raced /\ e.graph = index /\ e.key.index = index
        /\ e.version = NewestCapture
    BY <2>1 DEF Graphs, Keys, ProbeKey, TelemetryInvariant, ViewTypeOK
  <2> HIDE DEF e
  <2>3. /\ q \in GraphQueries /\ q.step = "verify" /\ q.entry = e /\ q.delta = delta
    BY <1>2, <2>2 DEF GraphQueries, QuerySteps
  <2>4. query' = [query EXCEPT ![w] = q] /\ memory' = memory
    BY <1>1, <1>8 DEF e
  <2> HIDE DEF q
  <2>5. memory' \in [Viewers -> SUBSET Graphs] /\ KeptIsTrue'
    BY <1>1, <1>5, <1>6, <2>4 DEF TelemetryInvariant, KeptIsTrue
  <2> QED
    BY <1>1, <1>2, <1>4, <2>1, <2>2, <2>3, <2>4, <2>5, QueryMoves
<1> QED
  BY <1>7, <1>8

\* The newest version is what the brain is, when a worker verifies it.
LEMMA VerifiedNow ==
    ASSUME TelemetryInvariant, NEW w \in Viewers, captures # <<>>, IsVerified(w),
           verified' = [verified EXCEPT ![w] = @ \cup {NewestCapture}],
           UNCHANGED <<index, captures, drift>>
    PROVE  /\ verified' \in [Viewers -> SUBSET (1..MaxCaptures)] /\ VerifiedIsIndex'
           /\ NewestCapture \in DOMAIN captures /\ NewestCapture \in 1..MaxCaptures
           /\ NewestCapture \notin drift[w] => captures[NewestCapture] = index
<1>1. NewestCapture \in 1..MaxCaptures /\ NewestCapture \in DOMAIN captures
  BY TelemetryAssumption DEF NewestCapture, TelemetryInvariant, ViewTypeOK
<1>2. NewestCapture \notin drift[w] => captures[NewestCapture] = index
  BY DEF IsVerified, TelemetryInvariant, VerifiedIsIndex
<1>3. verified \in [Viewers -> SUBSET (1..MaxCaptures)]
  BY DEF TelemetryInvariant, ViewTypeOK
<1>4. verified' \in [Viewers -> SUBSET (1..MaxCaptures)]
  BY <1>1, <1>3
<1>5. VerifiedIsIndex'
  BY <1>1, <1>2, <1>3 DEF TelemetryInvariant, VerifiedIsIndex
<1> QED
  BY <1>1, <1>2, <1>4, <1>5

LEMMA VerifyVersionKeeps ==
    ASSUME TelemetryInvariant, NEW w \in Viewers, VerifyVersion(w)
    PROVE  TelemetryInvariant'
<1>1. /\ query[w].step = "verify"
      /\ UNCHANGED <<index, captures, refreshDeltas, memory, stored, deltaLists, shown,
                     indexEdits, queries, viewFaults, drift>>
  BY DEF VerifyVersion
<1>2. /\ query[w] \in GraphQueries /\ query[w].entry \in Graphs
      /\ query[w].entry.version \in DOMAIN captures
      /\ ~query[w].entry.raced =>
            query[w].entry.graph = index /\ query[w].entry.key.index = index
      /\ query[w].delta # NoDelta => query[w].delta \in DOMAIN refreshDeltas
  BY <1>1 DEF TelemetryInvariant, QueriesFit, QueryIsTrue, AnswersAreTrue
<1>3. /\ queries' \in 0..MaxQueries /\ memory' \in [Viewers -> SUBSET Graphs]
      /\ stored' \in Graphs \cup {NoGraph} /\ KeptIsTrue'
  BY <1>1 DEF TelemetryInvariant, QueriesFit, ViewTypeOK, KeptIsTrue, IsTrueGraph
<1>4. CASE IsVerified(w)
  <2> DEFINE drifted == NewestCapture \in drift[w]
             e == [query[w].entry EXCEPT !.version = NewestCapture, !.drifted = drifted]
             q == [query[w] EXCEPT !.step = "read", !.entry = e]
  <2>1. /\ verified' = [verified EXCEPT ![w] = @ \cup {NewestCapture}]
        /\ query' = [query EXCEPT ![w].step = "read", ![w].entry.version = NewestCapture,
                                  ![w].entry.drifted = drifted]
    BY <1>4 DEF VerifyVersion
  <2>2. captures # <<>>
    BY <1>2
  <2>3. /\ verified' \in [Viewers -> SUBSET (1..MaxCaptures)] /\ VerifiedIsIndex'
        /\ NewestCapture \in DOMAIN captures /\ NewestCapture \in 1..MaxCaptures
        /\ NewestCapture \notin drift[w] => captures[NewestCapture] = index
    BY <1>1, <1>4, <2>1, <2>2, VerifiedNow
  <2>4. drifted \in BOOLEAN /\ (~drifted => captures[NewestCapture] = index)
    BY <2>3
  <2> HIDE DEF drifted
  <2>5. query' = [query EXCEPT ![w] = q]
    BY <1>2, <2>1 DEF TelemetryInvariant, QueriesFit, GraphQueries, Graphs
  <2>6. /\ e \in Graphs /\ e.version = NewestCapture /\ e.drifted = drifted
        /\ e.raced = query[w].entry.raced /\ e.graph = query[w].entry.graph
        /\ e.key = query[w].entry.key
    BY <1>2, <2>3, <2>4 DEF Graphs
  <2> HIDE DEF e
  <2>7. q \in GraphQueries /\ q.step = "read" /\ q.entry = e /\ q.delta = query[w].delta
    BY <1>2, <2>6 DEF GraphQueries, QuerySteps
  <2> HIDE DEF q
  <2> QED
    BY <1>1, <1>2, <1>3, <2>3, <2>4, <2>5, <2>6, <2>7, QueryMoves
<1>5. CASE ~IsVerified(w)
  <2>1. query' = [query EXCEPT ![w] = NoQuery] /\ verified' = verified
    BY <1>5 DEF VerifyVersion
  <2>2. NoQuery \in GraphQueries /\ NoQuery.step = "idle" /\ NoQuery.delta = NoDelta
    BY DEF NoQuery, GraphQueries, QuerySteps
  <2>3. VerifiedIsIndex' /\ verified' \in [Viewers -> SUBSET (1..MaxCaptures)]
    BY <1>1, <2>1 DEF TelemetryInvariant, VerifiedIsIndex, ViewTypeOK
  <2> QED
    BY <1>1, <1>3, <2>1, <2>2, <2>3, QueryMoves
<1> QED
  BY <1>4, <1>5

LEMMA ShowVersionsKeeps ==
    ASSUME TelemetryInvariant, NEW w \in Viewers, ShowVersions(w)
    PROVE  TelemetryInvariant'
<1>1. /\ captures # <<>> /\ IsVerified(w) /\ queries < MaxQueries /\ queries' = queries + 1
      /\ verified' = [verified EXCEPT ![w] = @ \cup {NewestCapture}]
      /\ UNCHANGED <<index, captures, refreshDeltas, memory, stored, deltaLists, query, shown,
                     indexEdits, viewFaults, drift>>
  BY DEF ShowVersions
<1>2. verified' \in [Viewers -> SUBSET (1..MaxCaptures)] /\ VerifiedIsIndex'
  BY <1>1, VerifiedNow
<1>3. queries' \in 0..MaxQueries
  BY <1>1, TelemetryAssumption DEF TelemetryInvariant, ViewTypeOK
<1>4. ViewTypeOK'
  BY <1>1, <1>2, <1>3 DEF TelemetryInvariant, ViewTypeOK
<1> QED
  BY <1>1, <1>2, <1>4 DEF TelemetryInvariant, QueriesFit, KeptIsTrue, IsTrueGraph, QueryIsTrue,
     ListsAreWhole, AnswersAreTrue, HitIsFresh

LEMMA ReadSectorKeeps ==
    ASSUME TelemetryInvariant, NEW w \in Viewers, NEW s \in Sectors, ReadSector(w, s)
    PROVE  TelemetryInvariant'
<1>1. /\ query[w].step = "read"
      /\ query' = [query EXCEPT ![w].entry.graph[s] = index[s], ![w].unread = @ \ {s},
                                ![w].step = IF query[w].unread = {s} THEN "keep" ELSE "read"]
      /\ UNCHANGED <<index, captures, refreshDeltas, verified, memory, stored, deltaLists, shown,
                     indexEdits, queries, viewFaults, drift>>
  BY DEF ReadSector
<1>2. /\ query[w] \in GraphQueries /\ query[w].entry \in Graphs
      /\ query[w].entry.version \in DOMAIN captures
      /\ ~query[w].entry.raced =>
            query[w].entry.graph = index /\ query[w].entry.key.index = index
      /\ ~query[w].entry.raced /\ ~query[w].entry.drifted =>
            captures[query[w].entry.version] = index
      /\ query[w].delta # NoDelta => query[w].delta \in DOMAIN refreshDeltas
  BY <1>1 DEF TelemetryInvariant, QueriesFit, QueryIsTrue, AnswersAreTrue
<1>3. /\ queries' \in 0..MaxQueries /\ memory' \in [Viewers -> SUBSET Graphs]
      /\ stored' \in Graphs \cup {NoGraph} /\ KeptIsTrue'
      /\ VerifiedIsIndex' /\ verified' \in [Viewers -> SUBSET (1..MaxCaptures)]
  BY <1>1 DEF TelemetryInvariant, QueriesFit, ViewTypeOK, KeptIsTrue, IsTrueGraph,
     VerifiedIsIndex
<1> DEFINE g == [query[w].entry.graph EXCEPT ![s] = index[s]]
           e == [query[w].entry EXCEPT !.graph = g]
           step == IF query[w].unread = {s} THEN "keep" ELSE "read"
           q == [query[w] EXCEPT !.entry = e, !.unread = @ \ {s}, !.step = step]
<1>4. index \in Indexes
  BY DEF TelemetryInvariant, ViewTypeOK
<1>5. g \in Indexes /\ (~query[w].entry.raced => g = index)
  BY <1>2, <1>4 DEF Graphs, Indexes
<1>6. query' = [query EXCEPT ![w] = q]
  BY <1>1, <1>2 DEF TelemetryInvariant, QueriesFit, GraphQueries, Graphs
<1> HIDE DEF g
<1>7. /\ e \in Graphs /\ e.graph = g /\ e.version = query[w].entry.version
      /\ e.raced = query[w].entry.raced /\ e.drifted = query[w].entry.drifted
      /\ e.key = query[w].entry.key
  BY <1>2, <1>5 DEF Graphs
<1> HIDE DEF e
<1>8. step \in {"keep", "read"}
  OBVIOUS
<1> HIDE DEF step
<1>9. q \in GraphQueries /\ q.step = step /\ q.entry = e /\ q.delta = query[w].delta
  BY <1>2, <1>7, <1>8 DEF GraphQueries, QuerySteps
<1> HIDE DEF q
<1>10. IsTrueGraph(e)
  BY <1>2, <1>5, <1>7 DEF IsTrueGraph, TrueOf
<1> QED
  BY SMTT(30), <1>1, <1>2, <1>3, <1>5, <1>6, <1>7, <1>8, <1>9, <1>10, QueryMoves

LEMMA KeepGraphKeeps ==
    ASSUME TelemetryInvariant, NEW w \in Viewers, KeepGraph(w)
    PROVE  TelemetryInvariant'
<1> DEFINE e == query[w].entry
           q == [query[w] EXCEPT !.step = "answer"]
<1>1. /\ query[w].step = "keep"
      /\ memory' = [memory EXCEPT ![w] = {g \in @ : g.key # e.key} \cup {e}]
      /\ stored' = e /\ query' = [query EXCEPT ![w].step = "answer"]
      /\ UNCHANGED <<index, captures, refreshDeltas, verified, deltaLists, shown, indexEdits,
                     queries, viewFaults, drift>>
  BY DEF KeepGraph
<1>2. /\ query[w] \in GraphQueries /\ e \in Graphs /\ IsTrueGraph(e)
      /\ query[w].delta # NoDelta => query[w].delta \in DOMAIN refreshDeltas
  BY <1>1 DEF TelemetryInvariant, QueriesFit, QueryIsTrue, AnswersAreTrue
<1>3. /\ q \in GraphQueries /\ q.step = "answer" /\ q.entry = e /\ q.delta = query[w].delta
      /\ query' = [query EXCEPT ![w] = q]
  BY <1>1, <1>2 DEF TelemetryInvariant, QueriesFit, GraphQueries, QuerySteps
<1> HIDE DEF q
<1>4. memory \in [Viewers -> SUBSET Graphs]
  BY DEF TelemetryInvariant, QueriesFit
<1>5. memory' \in [Viewers -> SUBSET Graphs] /\ stored' \in Graphs \cup {NoGraph}
  BY <1>1, <1>2, <1>4
<1>6. \A g : IsTrueGraph(g)' <=> IsTrueGraph(g)
  BY <1>1 DEF IsTrueGraph
<1> HIDE DEF e
<1>7. KeptIsTrue'
  BY <1>1, <1>2, <1>4, <1>6 DEF TelemetryInvariant, KeptIsTrue
<1>8. VerifiedIsIndex' /\ verified' \in [Viewers -> SUBSET (1..MaxCaptures)]
      /\ queries' \in 0..MaxQueries
  BY <1>1 DEF TelemetryInvariant, VerifiedIsIndex, ViewTypeOK
<1> QED
  BY <1>1, <1>2, <1>3, <1>5, <1>7, <1>8, QueryMoves

\* The list of the deltas has them all.
LEMMA ListedDeltas ==
    ASSUME TelemetryInvariant, NEW w \in Viewers
    PROVE  /\ DeltaList(w) \in [rows : 0..MaxDeltas, length : 0..MaxDeltas]
           /\ DeltaList(w).length = Len(refreshDeltas)
           /\ DeltaList(w).rows = Len(refreshDeltas)
<1> DEFINE lists == {d \in deltaLists[w] : d.rows = Len(refreshDeltas)}
<1>1. Len(refreshDeltas) \in 0..MaxDeltas
  BY TelemetryAssumption DEF TelemetryInvariant, ViewTypeOK
<1>2. CASE lists # {}
  <2>1. DeltaList(w) \in lists
    BY <1>2 DEF DeltaList
  <2> QED
    BY <2>1 DEF TelemetryInvariant, ViewTypeOK, ListsAreWhole
<1>3. CASE lists = {}
  BY <1>3, <1>1 DEF DeltaList
<1> QED
  BY <1>2, <1>3

LEMMA AnswerQueryKeeps ==
    ASSUME TelemetryInvariant, NEW w \in Viewers, AnswerQuery(w)
    PROVE  TelemetryInvariant'
<1> DEFINE e == query[w].entry
           raced == e.raced \/ index # e.key.index
           a == [graph |-> e.graph, live |-> index, hit |-> query[w].hit,
                 listed |-> DeltaList(w).length, told |-> Len(refreshDeltas),
                 overlay |-> query[w].delta, raced |-> raced]
<1>1. /\ query[w].step = "answer"
      /\ deltaLists' = [deltaLists EXCEPT ![w] = @ \cup {DeltaList(w)}]
      /\ shown' = IF ~Overlays(query[w].delta, DeltaList(w)) THEN shown
                  ELSE [shown EXCEPT ![w] = a]
      /\ query' = [query EXCEPT ![w] = NoQuery]
      /\ UNCHANGED <<index, captures, refreshDeltas, verified, memory, stored, indexEdits,
                     queries, viewFaults, drift>>
  BY DEF AnswerQuery
<1>2. /\ query[w] \in GraphQueries /\ e \in Graphs /\ IsTrueGraph(e)
      /\ query[w].delta # NoDelta => query[w].delta \in DOMAIN refreshDeltas
  BY <1>1 DEF TelemetryInvariant, QueriesFit, QueryIsTrue, AnswersAreTrue
<1>3. /\ DeltaList(w) \in [rows : 0..MaxDeltas, length : 0..MaxDeltas]
      /\ DeltaList(w).length = Len(refreshDeltas)
      /\ DeltaList(w).rows = Len(refreshDeltas)
  BY ListedDeltas
<1>4. /\ index \in Indexes /\ query \in [Viewers -> GraphQueries] /\ shown \in [Viewers -> ShownAnswers]
      /\ Len(refreshDeltas) \in Nat
      /\ deltaLists \in [Viewers -> SUBSET [rows : 0..MaxDeltas, length : 0..MaxDeltas]]
  BY DEF TelemetryInvariant, ViewTypeOK, QueriesFit
<1>5. NoQuery \in GraphQueries /\ NoQuery.step = "idle" /\ NoQuery.delta = NoDelta
  BY DEF NoQuery, GraphQueries, QuerySteps
<1>6. raced \in BOOLEAN /\ (~raced => e.graph = index)
  BY <1>2 DEF IsTrueGraph, TrueOf
<1>7. /\ a.graph = e.graph /\ a.live = index /\ a.hit = query[w].hit
      /\ a.listed = DeltaList(w).length /\ a.told = Len(refreshDeltas)
      /\ a.overlay = query[w].delta /\ a.raced = raced
  OBVIOUS
<1> HIDE DEF raced
<1>8. a \in ShownAnswers
  BY <1>2, <1>3, <1>4, <1>6 DEF ShownAnswers, GraphQueries, Graphs
<1>9. ~a.raced => a.graph = a.live
  BY <1>6, <1>7
<1>10. Overlays(query[w].delta, DeltaList(w)) /\ a.overlay # NoDelta =>
            a.overlay \in DOMAIN refreshDeltas /\ refreshDeltas[a.overlay]
  BY <1>2, <1>7 DEF Overlays
<1> HIDE DEF a
<1>11. /\ query'[w] = NoQuery /\ \A v \in Viewers \ {w} : query'[v] = query[v]
       /\ query' \in [Viewers -> GraphQueries] /\ shown' \in [Viewers -> ShownAnswers]
       /\ shown'[w] \in {a, shown[w]} /\ \A v \in Viewers \ {w} : shown'[v] = shown[v]
       /\ shown'[w] # shown[w] => Overlays(query[w].delta, DeltaList(w)) /\ shown'[w] = a
  BY <1>1, <1>4, <1>5, <1>8
<1>12. QueriesFit'
  BY <1>1, <1>11 DEF TelemetryInvariant, QueriesFit
<1>13. deltaLists' \in [Viewers -> SUBSET [rows : 0..MaxDeltas, length : 0..MaxDeltas]]
       /\ ListsAreWhole'
  BY <1>1, <1>3, <1>4 DEF TelemetryInvariant, ListsAreWhole
<1>14. ViewTypeOK'
  BY <1>1, <1>11, <1>13 DEF TelemetryInvariant, ViewTypeOK, GraphQueries, ShownAnswers
<1>15. KeptIsTrue' /\ VerifiedIsIndex'
  BY <1>1 DEF TelemetryInvariant, KeptIsTrue, IsTrueGraph, VerifiedIsIndex
<1>16. QueryIsTrue'
  BY <1>1, <1>5, <1>11 DEF TelemetryInvariant, QueryIsTrue, IsTrueGraph
<1>17. AnswersAreTrue'
  BY <1>1, <1>5, <1>11, <1>3, <1>7, <1>9, <1>10 DEF AnswersAreTrue, HitIsFresh,
     TelemetryInvariant
<1> QED
  BY <1>12, <1>13, <1>14, <1>15, <1>16, <1>17 DEF TelemetryInvariant

LEMMA RestartViewerKeeps ==
    ASSUME TelemetryInvariant, NEW w \in Viewers, RestartViewer(w)
    PROVE  TelemetryInvariant'
<1>1. /\ viewFaults < MaxViewFaults /\ viewFaults' = viewFaults + 1
      /\ verified' = [verified EXCEPT ![w] = {}]
      /\ memory' = [memory EXCEPT ![w] = {}]
      /\ deltaLists' = [deltaLists EXCEPT ![w] = {}]
      /\ query' = [query EXCEPT ![w] = NoQuery]
      /\ shown' = [shown EXCEPT ![w] = NoAnswer]
      /\ drift' = [drift EXCEPT ![w] = {}]
      /\ UNCHANGED <<index, captures, refreshDeltas, stored, indexEdits, queries>>
  BY DEF RestartViewer
<1>2. /\ NoQuery \in GraphQueries /\ NoQuery.step = "idle" /\ NoQuery.delta = NoDelta
      /\ NoAnswer \in ShownAnswers /\ ~NoAnswer.hit /\ NoAnswer.listed = NoAnswer.told
      /\ NoAnswer.overlay = NoDelta
  BY DEF NoQuery, GraphQueries, QuerySteps, NoAnswer, ShownAnswers
<1>3. /\ memory \in [Viewers -> SUBSET Graphs] /\ query \in [Viewers -> GraphQueries]
      /\ shown \in [Viewers -> ShownAnswers]
      /\ verified \in [Viewers -> SUBSET (1..MaxCaptures)]
      /\ drift \in [Viewers -> SUBSET (1..MaxCaptures)]
      /\ deltaLists \in [Viewers -> SUBSET [rows : 0..MaxDeltas, length : 0..MaxDeltas]]
  BY DEF TelemetryInvariant, ViewTypeOK, QueriesFit
<1>4. /\ memory' \in [Viewers -> SUBSET Graphs] /\ query' \in [Viewers -> GraphQueries]
      /\ shown' \in [Viewers -> ShownAnswers]
      /\ verified' \in [Viewers -> SUBSET (1..MaxCaptures)]
      /\ drift' \in [Viewers -> SUBSET (1..MaxCaptures)]
      /\ deltaLists' \in [Viewers -> SUBSET [rows : 0..MaxDeltas, length : 0..MaxDeltas]]
  BY <1>1, <1>2, <1>3
<1>5. /\ memory'[w] = {} /\ query'[w] = NoQuery /\ shown'[w] = NoAnswer /\ verified'[w] = {}
      /\ drift'[w] = {} /\ deltaLists'[w] = {}
      /\ \A v \in Viewers \ {w} :
           /\ memory'[v] = memory[v] /\ query'[v] = query[v] /\ shown'[v] = shown[v]
           /\ verified'[v] = verified[v] /\ drift'[v] = drift[v]
           /\ deltaLists'[v] = deltaLists[v]
  BY <1>1, <1>3
<1>6. viewFaults' \in 0..MaxViewFaults
  BY <1>1, TelemetryAssumption DEF TelemetryInvariant, ViewTypeOK
<1>7. QueriesFit' /\ ViewTypeOK'
  BY <1>1, <1>4, <1>6 DEF TelemetryInvariant, QueriesFit, ViewTypeOK, GraphQueries, ShownAnswers
<1>8. KeptIsTrue' /\ VerifiedIsIndex' /\ QueryIsTrue' /\ ListsAreWhole'
  BY <1>1, <1>2, <1>5 DEF TelemetryInvariant, KeptIsTrue, VerifiedIsIndex, QueryIsTrue,
     ListsAreWhole, IsTrueGraph
<1>9. AnswersAreTrue'
  BY <1>1, <1>2, <1>5 DEF TelemetryInvariant, AnswersAreTrue, HitIsFresh
<1> QED
  BY <1>7, <1>8, <1>9 DEF TelemetryInvariant

LEMMA TelemetryInvariantCorrect == ViewSpec => []TelemetryInvariant
<1>1. TelemetryInvariant /\ [ViewNext]_viewVars => TelemetryInvariant'
  <2>1. TelemetryInvariant /\ UNCHANGED viewVars => TelemetryInvariant'
    BY DEF TelemetryInvariant, viewVars, ViewTypeOK, QueriesFit, KeptIsTrue, IsTrueGraph,
       VerifiedIsIndex, QueryIsTrue, ListsAreWhole, AnswersAreTrue, HitIsFresh
  <2>2. ASSUME TelemetryInvariant, NEW w \in Viewers,
               \/ \E delta \in DOMAIN refreshDeltas \cup {NoDelta} : OpenGraph(w, delta)
               \/ MaterializeGraph(w)
        PROVE  TelemetryInvariant'
    BY <2>2, StartQueryKeeps DEF OpenGraph, MaterializeGraph
  <2> QED
    BY <2>1, <2>2, EditIndexKeeps, CaptureIndexKeeps, RecordDeltaKeeps, VerifyVersionKeeps,
       ShowVersionsKeeps, ReadSectorKeeps, KeepGraphKeeps, AnswerQueryKeeps,
       RestartViewerKeeps DEF ViewNext
<1> QED
  BY <1>1, TelemetryStart, PTL DEF ViewSpec

\* A graph that is kept is of its key and of its version, one that is served from a cache
\* is what would be made now, and the deltas beside it are complete.
THEOREM TelemetryTrue == ViewSpec => []TelemetryIsTrue
<1>1. TelemetryInvariant => TelemetryIsTrue
  BY DEF TelemetryInvariant, KeptIsTrue, KeptGraphs, SelectedGraph, GraphIsOfItsKey,
     GraphIsOfItsVersion, IsTrueGraph, TrueOf, AnswersAreTrue, OverlayIsComplete,
     TelemetryIsTrue
<1> QED
  BY <1>1, TelemetryInvariantCorrect, PTL
==============================================================================
