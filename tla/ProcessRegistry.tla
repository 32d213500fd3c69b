---------------------------- MODULE ProcessRegistry ----------------------------
(***************************************************************************)
(* The table of the processes of the application (process_registry.py) and *)
(* the workers that share its file (ipc_worker.py).                        *)
(*                                                                         *)
(* An app has a worker for commands and one for metrics.  The first        *)
(* request a worker serves makes it read whose table it is, remove a table *)
(* of another app, and enter the app and, if it serves commands, itself.   *)
(* Each of these is a step.  Reading, changing and replacing the file is   *)
(* one step, because it is done under the lock beside the file; taking a   *)
(* sample is two, because the table is read, the processes are watched for *)
(* a third of a second without the lock, and then parts of it are written. *)
(* An app can end while its workers still serve what it had asked for.     *)
(***************************************************************************)
EXTENDS Integers, FiniteSets

CONSTANTS
    MaxEnds,     \* bound: apps and workers that end and are started again
    MaxAsked,    \* bound: requests of the apps
    MaxContext,  \* bound: changes of the active context
    MaxLoad      \* the highest load a sample can measure

ASSUME RegistryAssumption ==
    /\ MaxEnds \in Nat /\ MaxAsked \in Nat
    /\ MaxContext \in Nat /\ MaxLoad \in Nat

Apps == 1..(MaxEnds + 1)

Workers == [app : Apps, kind : {"command", "metrics"}, number : 1..(MaxEnds + 1)]

\* An app has the process id of its number, a worker that of its record.
NoProcess == [app |-> 0, kind |-> "none", number |-> 0]

AppProcess(a) == [app |-> a, kind |-> "app", number |-> 0]

Processes == Workers \cup {AppProcess(a) : a \in Apps}

Roles == {"TAURI_APP", "PYTHON_WORKER", "CHILD"}

\* The table.  tauri and python are tauri_pid and python_worker_pid, peak stands
\* for the peaks, context for the active_ fields.
Table == [records : SUBSET [process : Processes, role : Roles],
          tauri : Apps \cup {0}, python : Workers \cup {NoProcess},
          context : Nat, peak : Nat]

NewTable == [records |-> {}, tauri |-> 0, python |-> NoProcess, context |-> 0, peak |-> 0]

NoTable == [NewTable EXCEPT !.tauri = MaxEnds + 2]   \* no file

-----------------------------------------------------------------------------
VARIABLES
    table,      \* process_registry.json
    app,        \* the app that runs
    workerAt,   \* what each worker is doing
    known,      \* _INITIALIZED_REGISTRIES of each worker
    asked,      \* how many requests there were
    seen,       \* the records a worker that takes a sample has read
    told,       \* history: context and peak since the file was made
    overlapped  \* history: workers that registered while another one was at it

registryVars == <<table, app, workerAt, known, asked, seen, told, overlapped>>

WorkerSteps == {"unborn", "idle", "read", "unlink", "initialize", "prune", "serve",
                "sample", "dead"}

RegistryTypeOK ==
    /\ table \in Table \cup {NoTable}
    /\ app \in Apps
    /\ workerAt \in [Workers -> WorkerSteps]
    /\ known \in [Workers -> BOOLEAN]
    /\ asked \in 0..MaxAsked
    /\ seen \in [Workers -> SUBSET [process : Processes, role : Roles]]
    /\ told \in [context : Nat, peak : Nat]
    /\ overlapped \subseteq Workers

RegistryInit ==
    /\ table = NoTable
    /\ app = 1
    /\ workerAt = [w \in Workers |-> IF w.app = 1 /\ w.number = 1 THEN "idle" ELSE "unborn"]
    /\ known = [w \in Workers |-> FALSE]
    /\ asked = 0
    /\ seen = [w \in Workers |-> {}]
    /\ told = [context |-> 0, peak |-> 0]
    /\ overlapped = {}

-----------------------------------------------------------------------------
(* Reading and writing the table.                                          *)

\* _load_or_new
Loaded == IF table = NoTable THEN NewTable ELSE table

Alive(p) == IF p.kind = "app" THEN p.app = app
            ELSE workerAt[p] \notin {"unborn", "dead"}

\* _upsert_process: an entry replaces the one with the same process id.
Upsert(records, p, role) ==
    {r \in records : r.process # p} \cup {[process |-> p, role |-> role]}

OfRole(records, role) == {r.process : r \in {q \in records : q.role = role}}

\* The process of the role that was entered last.  Numbers grow with time.
Latest(records, role) ==
    {p \in OfRole(records, role) : \A q \in OfRole(records, role) :
        p.app > q.app \/ (p.app = q.app /\ p.number >= q.number)}

\* _refresh_derived_fields
Derived(t) ==
    LET python == Latest(t.records, "PYTHON_WORKER")
        tauri  == Latest(t.records, "TAURI_APP")
    IN  [t EXCEPT
            !.python = IF python = {} THEN NoProcess ELSE CHOOSE p \in python : TRUE,
            !.tauri = IF tauri = {} THEN 0 ELSE (CHOOSE p \in tauri : TRUE).app]

\* _prune_stale_unlocked
Pruned(records) == {r \in records : Alive(r.process)}

\* _discover_live_descendants_unlocked: the workers of an app that is entered.
Discovered(records) ==
    records \cup
    {[process |-> w, role |-> "CHILD"] : w \in {v \in Workers :
        /\ Alive(v) /\ v.app = app
        /\ \A r \in records : r.process # v
        /\ \E r \in records : r.process = AppProcess(v.app)}}

WorkerIs(w, step) == workerAt[w] = step

Moves(w, step) == workerAt' = [workerAt EXCEPT ![w] = step]

\* A worker whose app is gone ends with its input.
Answers(w) == Moves(w, IF w.app = app THEN "idle" ELSE "dead")

-----------------------------------------------------------------------------
(* _process_registry                                                       *)

\* The app asks a worker for something.  A worker asks whose table it is the
\* first time only.
Ask(w) ==
    /\ w.app = app
    /\ WorkerIs(w, "idle")
    /\ asked < MaxAsked
    /\ asked' = asked + 1
    /\ Moves(w, IF known[w] THEN "serve" ELSE "read")
    /\ UNCHANGED <<table, app, known, seen, told, overlapped>>

ReadOwner(w) ==
    /\ WorkerIs(w, "read")
    /\ Moves(w, IF table # NoTable /\ table.tauri \notin {0, w.app}
                THEN "unlink" ELSE "initialize")
    /\ UNCHANGED <<table, app, known, asked, seen, told, overlapped>>

Unlink(w) ==
    /\ WorkerIs(w, "unlink")
    /\ table' = NoTable
    /\ told' = [context |-> 0, peak |-> 0]
    /\ Moves(w, "initialize")
    /\ UNCHANGED <<app, known, asked, seen, overlapped>>

\* Workers that are about to write to the table what they read before.
Busy == {w \in Workers : workerAt[w] \in {"read", "unlink", "initialize", "sample"}}

\* A worker for metrics does not enter itself.
Registered(w, records) ==
    IF w.kind = "command" THEN Upsert(records, w, "PYTHON_WORKER") ELSE records

\* initialize
Initialize(w) ==
    /\ WorkerIs(w, "initialize")
    /\ LET owned == Upsert(Loaded.records, AppProcess(w.app), "TAURI_APP")
       IN  table' = Derived([Loaded EXCEPT !.records = Registered(w, owned)])
    /\ overlapped' = IF Busy \ {w} # {} THEN overlapped \cup {w} ELSE overlapped
    /\ Moves(w, "prune")
    /\ UNCHANGED <<app, known, asked, seen, told>>

\* snapshot(prune_stale=True)
Snapshot == table' = Derived([Loaded EXCEPT !.records = Discovered(Pruned(@))])

Prune(w) ==
    /\ WorkerIs(w, "prune")
    /\ Snapshot
    /\ known' = [known EXCEPT ![w] = TRUE]
    /\ Moves(w, "serve")
    /\ UNCHANGED <<app, asked, seen, told, overlapped>>

-----------------------------------------------------------------------------
(* What a worker is asked for.                                             *)

\* processes.snapshot, or a command that does not change the table.
ServeCommand(w) ==
    /\ WorkerIs(w, "serve") /\ w.kind = "command"
    /\ Snapshot \/ UNCHANGED table
    /\ Answers(w)
    /\ UNCHANGED <<app, known, asked, seen, told, overlapped>>

\* set_active_context, for a pipeline event
SetContext(w) ==
    /\ WorkerIs(w, "serve") /\ w.kind = "command"
    /\ told.context < MaxContext
    /\ table' = [Loaded EXCEPT !.context = told.context + 1]
    /\ told' = [told EXCEPT !.context = @ + 1]
    /\ Answers(w)
    /\ UNCHANGED <<app, known, asked, seen, overlapped>>

\* sample_metrics, for the interface or at the end of a build: the table is
\* read, without its lock, and the processes are watched.
BeginSample(w) ==
    /\ WorkerIs(w, "serve")
    /\ seen' = [seen EXCEPT ![w] = Loaded.records]
    /\ Moves(w, "sample")
    /\ UNCHANGED <<table, app, known, asked, told, overlapped>>

HigherOf(x, y) == IF x >= y THEN x ELSE y

\* mutant: the sample replaces what it read
WriteBack(w, load) ==
    [Loaded EXCEPT !.records = seen[w], !.peak = load]

\* The latest table, but with the processes as they were read.
Sampled(w, load) ==
    [Loaded EXCEPT !.records = seen[w], !.peak = HigherOf(@, load)]

\* Of the processes that were entered, those that are still there can be measured.
Measured(w) == {r.process : r \in {q \in seen[w] : Alive(q.process)}}

Loads(w) == IF Measured(w) = {} THEN {0} ELSE 0..MaxLoad

EndSample(w) ==
    /\ WorkerIs(w, "sample")
    /\ \E load \in Loads(w) :
         /\ table' = Sampled(w, load)
         /\ told' = [told EXCEPT !.peak = HigherOf(@, load)]
    /\ seen' = [seen EXCEPT ![w] = {}]
    /\ Answers(w)
    /\ UNCHANGED <<app, known, asked, overlapped>>

-----------------------------------------------------------------------------
(* Processes that end.                                                     *)

Successor(w) == [w EXCEPT !.number = @ + 1]

Ends == app - 1 + Cardinality({w \in Workers : w.number > 1 /\ ~WorkerIs(w, "unborn")})

\* A worker dies, and its app starts another one.
WorkerDies(w) ==
    /\ Alive(w)
    /\ w.app = app /\ Ends < MaxEnds
    /\ workerAt' = [workerAt EXCEPT ![w] = "dead", ![Successor(w)] = "idle"]
    /\ seen' = [seen EXCEPT ![w] = {}]
    /\ UNCHANGED <<table, app, known, asked, told, overlapped>>

\* The app ends and is started again.  A worker that is serving a request of the
\* old one goes on.
Restart ==
    /\ Ends < MaxEnds
    /\ app' = app + 1
    /\ workerAt' = [w \in Workers |->
           IF w.app = app + 1 /\ w.number = 1 THEN "idle"
           ELSE IF w.app = app /\ WorkerIs(w, "idle") THEN "dead" ELSE workerAt[w]]
    /\ UNCHANGED <<table, known, asked, seen, told, overlapped>>

RegistryNext ==
    \/ \E w \in Workers :
         \/ Ask(w) \/ ReadOwner(w) \/ Unlink(w) \/ Initialize(w) \/ Prune(w)
         \/ ServeCommand(w) \/ SetContext(w) \/ BeginSample(w) \/ EndSample(w)
         \/ WorkerDies(w)
    \/ Restart

RegistrySpec == RegistryInit /\ [][RegistryNext]_registryVars

-----------------------------------------------------------------------------
(* Properties.                                                             *)

\* A worker for commands that is entered stays so, as the worker the table names,
\* unless another worker was between its reading and its writing when it entered
\* itself (process_registry.py:330, ipc_worker.py:3193).
RegisteredWorkerStays ==
    \A w \in Workers :
        (w.kind = "command" /\ w.app = app /\ known[w] /\ Alive(w) /\ w \notin overlapped) =>
            /\ [process |-> w, role |-> "PYTHON_WORKER"] \in table.records
            /\ table.python = w

\* Neither the active context nor the peaks are lost to a sample that was taken
\* meanwhile; only a table of another app is forgotten.
ContextAndPeaksAreKept ==
    Loaded.context = told.context /\ Loaded.peak = told.peak

RegistryKeepsWhatItWasTold == RegisteredWorkerStays /\ ContextAndPeaksAreKept

-----------------------------------------------------------------------------
(* Why a worker that entered itself stays.                                 *)

\* Who is entered was started, in the table and in what a sample has read of it.
EntriesFit(records) ==
    \A r \in records :
        /\ r.role = "PYTHON_WORKER" =>
               /\ r.process \in Workers /\ r.process.kind = "command"
               /\ workerAt[r.process] # "unborn"
        /\ r.role = "TAURI_APP" =>
               r.process = AppProcess(r.process.app) /\ r.process.app <= app

\* Workers are started one after the other, those of an app when it starts.
OneAfterTheOther ==
    /\ \A w \in Workers : workerAt[w] # "unborn" => w.app <= app
    /\ \A v, w \in Workers :
           (v.app = w.app /\ v.kind = w.kind /\ v.number < w.number /\ workerAt[w] # "unborn")
               => workerAt[v] = "dead"

\* A worker for commands of the app that runs, that has entered itself alone.
EnteredAlone(w) ==
    /\ w.kind = "command" /\ w.app = app /\ w \notin overlapped
    /\ workerAt[w] = "prune" \/ (known[w] /\ workerAt[w] # "dead")

Holds(records, w) ==
    /\ [process |-> w, role |-> "PYTHON_WORKER"] \in records
    /\ [process |-> AppProcess(w.app), role |-> "TAURI_APP"] \in records

\* Nobody is about to write a table without the worker, or to remove it.
InTheTable(w) ==
    /\ Holds(table.records, w) /\ table.python = w /\ table.tauri = w.app
    /\ \A v \in Workers :
           /\ workerAt[v] = "read" => v.app = w.app
           /\ workerAt[v] # "unlink"
           /\ workerAt[v] = "sample" => Holds(seen[v], w)

\* The inductive invariant of RegistryKeepsWhatItWasTold.
KnownIsServed ==
    \A w \in Workers : known[w] => workerAt[w] \in {"idle", "serve", "sample", "dead"}

RegistryInvariant ==
    /\ OneAfterTheOther /\ KnownIsServed
    /\ EntriesFit(table.records) /\ \A w \in Workers : EntriesFit(seen[w])
    /\ \A w \in Workers : EnteredAlone(w) => InTheTable(w)
    /\ ContextAndPeaksAreKept
===============================================================================
