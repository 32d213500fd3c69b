------------------------------ MODULE TaskEvents ------------------------------
(***************************************************************************)
(* Requests, workers and task events (main.rs, ipc_worker.py,              *)
(* universal_process_truth.py, pipeline_state.py).                         *)
(*                                                                         *)
(* The app writes a request to the stdin of its worker and reads lines     *)
(* until the answer comes.  Where that fails it kills the worker, starts   *)
(* another one and sends the request once more.  The worker serves one     *)
(* request at a time and tells how it stands in three files: the workspace *)
(* event (one for all brains), a mirror of it for the brain, and, for a    *)
(* build, the pipeline state of the brain.  Each is written after the      *)
(* other, and every event is then printed to the app, which may be gone.   *)
(*                                                                         *)
(* Closing the app does not end its worker, and nothing keeps two apps     *)
(* from running in one workspace.                                          *)
(***************************************************************************)
EXTENDS Naturals, Sequences

CONSTANTS
    Apps,        \* runs of the app, each with its own worker
    Brains,
    Requests,
    AppOf,       \* the app a request is made in
    BrainOf,     \* the brain it is about
    Builds,      \* the requests that are brain.buildAll
    NoRequest,
    NoApp,
    MirrorLimit, \* entries the record of a brain keeps, 256 in the code
    MaxFaults,   \* bound: files that cannot be written, streams that break
    MaxCrashes   \* bound: workers that die

ASSUME TaskAssumption ==
    /\ AppOf \in [Requests -> Apps]
    /\ BrainOf \in [Requests -> Brains]
    /\ Builds \subseteq Requests
    /\ NoRequest \notin Requests
    /\ NoApp \notin Apps
    /\ MirrorLimit \in Nat \ {0}
    /\ MaxFaults \in Nat
    /\ MaxCrashes \in Nat

-----------------------------------------------------------------------------
VARIABLES
    open,      \* the apps whose window is open
    request,   \* how each request stands in its app
    child,     \* the worker process an app has
    lines,     \* requests in the stdin of a worker, unread
    worker,    \* where the worker is in _serve_request
    event,     \* the workspace's universal_task_event.json
    mirror,    \* the same file of each brain, with its history
    pipeline,  \* pipeline_state.json of each brain
    lock,      \* the mutation lock of each brain (see MutationLock)
    effects,   \* how often the command of a request took effect
    failures   \* counters of the bounds

app == <<open, request>>
process == <<child, lines, lock, worker>>
files == <<event, mirror, pipeline>>
vars == <<app, process, files, effects, failures>>

Statuses == {"none", "running", "completed", "failed"}
Terminal == {"completed", "failed"}

\* A task event: the task, its status and what its receipt_hash is the hash of,
\* the event itself or an earlier form of it.
Event == [task : Requests \cup {NoRequest},
          status : Statuses,
          receipt : {"none", "own", "earlier"}]
NoEvent == [task |-> NoRequest, status |-> "none", receipt |-> "none"]

Mirror == [event : Event, history : Seq(Event)]
NoMirror == [event |-> NoEvent, history |-> <<>>]

Places == {"idle", "start", "publish", "copy", "write", "acquire", "command",
           "stages", "capture", "complete", "return", "abandon", "respond"}

\* The part of the code a worker is in, which decides where an exception goes.
Parts == {"none", "start", "command", "build", "giveup", "finish", "except"}

Worker == [at : Places,
           serves : Requests \cup {NoRequest},
           part : Parts,
           says : Statuses,          \* the status it is about to publish
           next : Places,            \* where it goes on after publishing
           context : BOOLEAN,        \* the request is in _ACTIVE_TASK_CONTEXTS
           read : Mirror]            \* what the mirroring has read

Idle == [at |-> "idle", serves |-> NoRequest, part |-> "none", says |-> "none",
         next |-> "idle", context |-> FALSE, read |-> NoMirror]

TypeOK ==
    /\ open \subseteq Apps
    /\ request \in [Requests -> [at : {"new", "waiting", "sent", "ok", "error", "lost"},
                                 attempt : {0, 1}]]
    /\ child \in [Apps -> {"none", "alive", "dead"}]
    /\ lines \in [Apps -> Seq(Requests)]
    /\ worker \in [Apps -> Worker]
    /\ event \in Event
    /\ mirror \in [Brains -> Mirror]
    /\ pipeline \in [Brains -> [task : Requests \cup {NoRequest}, status : Statuses]]
    /\ lock \in [Brains -> Apps \cup {NoApp}]
    /\ effects \in [Requests -> Nat]
    /\ failures \in [fault : Nat, crash : Nat]

Init ==
    /\ open = Apps
    /\ request = [r \in Requests |-> [at |-> "new", attempt |-> 0]]
    /\ child = [a \in Apps |-> "none"]
    /\ lines = [a \in Apps |-> <<>>]
    /\ worker = [a \in Apps |-> Idle]
    /\ event = NoEvent
    /\ mirror = [b \in Brains |-> NoMirror]
    /\ pipeline = [b \in Brains |-> [task |-> NoRequest, status |-> "none"]]
    /\ lock = [b \in Brains |-> NoApp]
    /\ effects = [r \in Requests |-> 0]
    /\ failures = [fault |-> 0, crash |-> 0]

-----------------------------------------------------------------------------
(* The app.                                                                *)

Fault == failures.fault < MaxFaults /\ failures' = [failures EXCEPT !.fault = @ + 1]

Moves(r, at) == request' = [request EXCEPT ![r].at = at]

Busy(a) == \E r \in Requests : AppOf[r] = a /\ request[r].at = "sent"

Released(a) == [b \in Brains |-> IF lock[b] = a THEN NoApp ELSE lock[b]]

\* The process is gone, with what it had not read; its lock is stale.
Ends(a, how) ==
    /\ child' = [child EXCEPT ![a] = how]
    /\ lines' = [lines EXCEPT ![a] = <<>>]
    /\ lock' = Released(a)
    /\ worker' = [worker EXCEPT ![a] = Idle]

\* The interface calls worker_command.
Send(r) ==
    /\ request[r].at = "new"
    /\ AppOf[r] \in open
    /\ Moves(r, "waiting")
    /\ UNCHANGED <<open, process, files, effects, failures>>

\* The mutex of the worker is free: a missing worker is started and the line is
\* written, to no avail if the worker is dead.
Enter(r) ==
    LET a == AppOf[r] IN
    /\ request[r].at = "waiting"
    /\ ~Busy(a)
    /\ Moves(r, "sent")
    /\ child' = [child EXCEPT ![a] = IF @ = "none" THEN "alive" ELSE @]
    /\ lines' = [lines EXCEPT ![a] = IF child[a] = "dead" THEN @ ELSE Append(@, r)]
    /\ UNCHANGED <<open, lock, worker, files, effects, failures>>

\* WORKER_START_FAILED ends the request, whatever its attempt.
SpawnFails(r) ==
    /\ request[r].at = "waiting"
    /\ ~Busy(AppOf[r])
    /\ child[AppOf[r]] = "none"
    /\ Fault
    /\ Moves(r, "error")
    /\ UNCHANGED <<open, process, files, effects>>

\* mutant: the worker of a failed exchange is kept
TryAgainKept(r) ==
    IF request[r].attempt = 0
    THEN /\ request' = [request EXCEPT ![r] = [at |-> "waiting", attempt |-> 1]]
         /\ UNCHANGED process
    ELSE Moves(r, "error") /\ UNCHANGED process

\* mutant: the attempts are not counted
TryAgainForever(r) ==
    Moves(r, "waiting") /\ Ends(AppOf[r], "none")

\* The exchange failed: the first time the worker is killed and waited for, and
\* the mutex is given up; the second time the failure is the answer and the
\* worker stays as it is.
TryAgain(r) ==
    IF request[r].attempt = 0
    THEN /\ request' = [request EXCEPT ![r] = [at |-> "waiting", attempt |-> 1]]
         /\ Ends(AppOf[r], "none")
    ELSE Moves(r, "error") /\ UNCHANGED process

\* WORKER_STDIN_FAILED, WORKER_STREAM_CLOSED
StreamCloses(r) ==
    /\ request[r].at = "sent"
    /\ child[AppOf[r]] = "dead"
    /\ TryAgain(r)
    /\ UNCHANGED <<open, files, effects, failures>>

\* WORKER_STDOUT_READ_FAILED: a line that is not UTF-8, from a live worker.
StreamBreaks(r) ==
    /\ request[r].at = "sent"
    /\ child[AppOf[r]] = "alive"
    /\ Fault
    /\ TryAgain(r)
    /\ UNCHANGED <<open, files, effects>>

\* The app ends; its worker goes on, with no one at the other end of its pipes.
CloseApp(a) ==
    /\ a \in open
    /\ open' = open \ {a}
    /\ request' = [r \in Requests |->
           IF AppOf[r] = a /\ request[r].at \in {"waiting", "sent"}
           THEN [request[r] EXCEPT !.at = "lost"] ELSE request[r]]
    /\ UNCHANGED <<process, files, effects, failures>>

-----------------------------------------------------------------------------
(* Where the worker goes.                                                  *)

Go(a, w) == worker' = [worker EXCEPT ![a] = w] /\ UNCHANGED <<child, lines, lock>>

\* mutant: the except clause finishes the task without its error code
FailingQuietly(w) ==
    [w EXCEPT !.part = "except", !.at = IF w.context THEN "publish" ELSE "respond",
              !.says = "completed", !.next = "respond", !.read = NoMirror]

\* mutant: the status is no task status
FailingUnknown(w) ==
    [w EXCEPT !.part = "except", !.at = IF w.context THEN "publish" ELSE "respond",
              !.says = "error", !.next = "respond", !.read = NoMirror]

\* The except clause of _serve_request: the task, if it was registered, failed.
Failing(w) ==
    [w EXCEPT !.part = "except", !.at = IF w.context THEN "publish" ELSE "respond",
              !.says = "failed", !.next = "respond", !.read = NoMirror]

\* An exception.  A build first marks its pipeline failed, without minding
\* further exceptions; the lock is released on the way out; an exception in the
\* except clause ends the process.
Raise(a, w) ==
    \/ /\ w.part = "build"
       /\ Go(a, [w EXCEPT !.part = "giveup", !.at = "abandon", !.read = NoMirror])
    \/ /\ w.part \in {"start", "command", "giveup", "finish"}
       /\ worker' = [worker EXCEPT ![a] = Failing(w)]
       /\ lock' = Released(a)
       /\ UNCHANGED <<child, lines>>
    \/ w.part = "except" /\ Ends(a, "dead")

At(a, place) == child[a] = "alive" /\ worker[a].at = place

\* Publish a status and go on at next.
Announcing(w, status, next) == [w EXCEPT !.at = "publish", !.says = status, !.next = next]

\* The handler has returned: the lock is released and the task finished.
Returns(a) ==
    /\ worker' = [worker EXCEPT ![a] =
           [Announcing(@, "completed", "respond") EXCEPT !.part = "finish"]]
    /\ lock' = Released(a)
    /\ UNCHANGED <<child, lines>>

-----------------------------------------------------------------------------
(* The worker.                                                             *)

\* mutant: the context is registered before the task is started
ReadRegistered(a) ==
    /\ At(a, "idle")
    /\ lines[a] # <<>>
    /\ lines' = [lines EXCEPT ![a] = Tail(@)]
    /\ worker' = [worker EXCEPT ![a] = [Idle EXCEPT !.at = "start", !.part = "start",
                      !.serves = Head(lines[a]), !.context = TRUE]]
    /\ UNCHANGED <<app, child, lock, files, effects, failures>>

\* The next line of stdin.
Read(a) ==
    /\ At(a, "idle")
    /\ lines[a] # <<>>
    /\ lines' = [lines EXCEPT ![a] = Tail(@)]
    /\ worker' = [worker EXCEPT ![a] =
           [Idle EXCEPT !.at = "start", !.part = "start", !.serves = Head(lines[a])]]
    /\ UNCHANGED <<app, child, lock, files, effects, failures>>

\* The end of stdin.
EndOfInput(a) ==
    /\ At(a, "idle")
    /\ lines[a] = <<>>
    /\ a \notin open
    /\ Ends(a, "dead")
    /\ UNCHANGED <<app, files, effects, failures>>

\* UniversalTaskEventStore.start: the event of the workspace is this task's.
Start(a) ==
    /\ At(a, "start")
    /\ event' = [task |-> worker[a].serves, status |-> "running", receipt |-> "none"]
    /\ Go(a, [worker[a] EXCEPT !.at = "copy", !.next = "acquire"])
    /\ UNCHANGED <<app, mirror, pipeline, effects, failures>>

\* UniversalTaskEventStore.update of whatever event is there: the receipt is
\* made once.  Without an event there is nothing to update; a pipeline event names
\* its request, and changing that is refused.
Publish(a) ==
    LET w == worker[a] IN
    /\ At(a, "publish")
    /\ IF \/ event.task = NoRequest
          \/ w.part \in {"command", "build", "giveup"} /\ event.task # w.serves
       THEN Raise(a, w) /\ UNCHANGED event
       ELSE /\ event' = [event EXCEPT
                   !.status = w.says,
                   !.receipt = IF @ # "none" THEN "earlier"
                               ELSE IF w.says \in Terminal THEN "own" ELSE @]
            /\ Go(a, [w EXCEPT !.at = "copy"])
    /\ UNCHANGED <<app, mirror, pipeline, effects, failures>>

\* _mirror_universal_task_event_for_brain reads both files, without a lock,
Copy(a) ==
    LET w == worker[a] IN
    /\ At(a, "copy")
    /\ Go(a, [w EXCEPT !.at = "write",
                       !.read = [event |-> event,
                                 history |-> mirror[BrainOf[w.serves]].history]])
    /\ UNCHANGED <<app, files, effects, failures>>

\* mutant: the first entries are kept, not the last
Oldest(history) ==
    IF Len(history) <= MirrorLimit THEN history ELSE SubSeq(history, 1, MirrorLimit)

\* history[-MirrorLimit:]
Recent(history) ==
    IF Len(history) <= MirrorLimit THEN history
    ELSE SubSeq(history, Len(history) - MirrorLimit + 1, Len(history))

\* and writes the one of the brain, with the event behind what is left of the
\* history; then the event is printed, which raises where the app is gone.
Write(a) ==
    LET w == worker[a]
        written == [w EXCEPT !.context = TRUE, !.read = NoMirror, !.at = w.next,
                             !.part = IF w.next = "stages" THEN "build" ELSE @]
    IN
    /\ At(a, "write")
    /\ mirror' = [mirror EXCEPT ![BrainOf[w.serves]] =
           [w.read EXCEPT !.history = Recent(Append(@, w.read.event))]]
    /\ IF a \notin open \/ w.part = "giveup"
       THEN Raise(a, [w EXCEPT !.context = TRUE])
       ELSE Go(a, written)
    /\ UNCHANGED <<app, event, pipeline, effects, failures>>

\* _mutation_coordinator; a lock of a live worker is waited for in vain.
Acquire(a) ==
    LET w == worker[a]
        b == BrainOf[w.serves]
    IN
    /\ At(a, "acquire")
    /\ IF lock[b] = NoApp
       THEN /\ lock' = [lock EXCEPT ![b] = a]
            /\ worker' = [worker EXCEPT ![a] =
                   [w EXCEPT !.at = "command", !.part = "command"]]
            /\ UNCHANGED <<child, lines>>
       ELSE Raise(a, w)
    /\ UNCHANGED <<app, files, effects, failures>>

TakesEffect(r) == effects' = [effects EXCEPT ![r] = @ + 1]

\* A command other than a build: it may fail after it took effect.
Command(a) ==
    /\ At(a, "command")
    /\ worker[a].serves \notin Builds
    /\ TakesEffect(worker[a].serves)
    /\ Returns(a) \/ Raise(a, worker[a])
    /\ UNCHANGED <<app, files, failures>>

\* A handler fails for reasons of its own.
HandlerRaises(a) ==
    /\ \E place \in {"command", "stages", "capture", "return"} : At(a, place)
    /\ Raise(a, worker[a])
    /\ UNCHANGED <<app, files, effects, failures>>

-----------------------------------------------------------------------------
(* The steps of a build.                                                   *)

\* PipelineStateStore.update refuses to change what is terminal.
UpdatePipeline(a, status, next) ==
    LET w == worker[a]
        b == BrainOf[w.serves]
    IN
    IF pipeline[b].status \in Terminal
    THEN Raise(a, w) /\ UNCHANGED pipeline
    ELSE /\ pipeline' = [pipeline EXCEPT ![b].status = status]
         /\ Go(a, Announcing(w, status, next))

\* pipeline.start(replace=True)
StartPipeline(a) ==
    LET w == worker[a] IN
    /\ At(a, "command")
    /\ w.serves \in Builds
    /\ pipeline' = [pipeline EXCEPT ![BrainOf[w.serves]] =
           [task |-> w.serves, status |-> "running"]]
    /\ Go(a, Announcing(w, "running", "stages"))
    /\ UNCHANGED <<app, event, mirror, effects, failures>>

\* The stages report their progress; one stands for all of them.
Stage(a) ==
    /\ At(a, "stages")
    /\ UpdatePipeline(a, "running", "capture")
    /\ UNCHANGED <<app, event, mirror, effects, failures>>

\* capture_brain_version: the build has taken effect.
Capture(a) ==
    /\ At(a, "capture")
    /\ TakesEffect(worker[a].serves)
    /\ Go(a, [worker[a] EXCEPT !.at = "complete"])
    /\ UNCHANGED <<app, files, failures>>

\* pipeline.complete
Complete(a) ==
    /\ At(a, "complete")
    /\ UpdatePipeline(a, "completed", "return")
    /\ UNCHANGED <<app, event, mirror, effects, failures>>

\* The metrics are sampled and the summary is made.
Return(a) ==
    /\ At(a, "return")
    /\ Returns(a)
    /\ UNCHANGED <<app, files, effects, failures>>

\* pipeline.fail, in the except clause of the build.
Abandon(a) ==
    /\ At(a, "abandon")
    /\ UpdatePipeline(a, "failed", "idle")
    /\ UNCHANGED <<app, event, mirror, effects, failures>>

-----------------------------------------------------------------------------
\* mutant: an error is not answered
RespondOnlyOk(a) ==
    LET w == worker[a] IN
    /\ At(a, "respond")
    /\ IF a \in open
       THEN /\ Go(a, Idle)
            /\ IF request[w.serves].at = "sent" /\ w.part = "finish"
               THEN Moves(w.serves, "ok") ELSE UNCHANGED request
       ELSE Raise(a, w) /\ UNCHANGED request
    /\ UNCHANGED <<open, files, effects, failures>>

\* The answer; the app skips one it no longer waits for.
Respond(a) ==
    LET w == worker[a] IN
    /\ At(a, "respond")
    /\ IF a \in open
       THEN /\ Go(a, Idle)
            /\ IF request[w.serves].at = "sent"
               THEN Moves(w.serves, IF w.part = "finish" THEN "ok" ELSE "error")
               ELSE UNCHANGED request
       ELSE Raise(a, w) /\ UNCHANGED request
    /\ UNCHANGED <<open, files, effects, failures>>

\* A state file cannot be read, locked or replaced.
FileFails(a) ==
    /\ \E place \in {"start", "publish", "copy", "write", "command", "complete", "abandon"} :
           At(a, place)
    /\ Fault
    /\ Raise(a, worker[a])
    /\ UNCHANGED <<app, files, effects>>

\* The worker process dies.
Crash(a) ==
    /\ child[a] = "alive"
    /\ failures.crash < MaxCrashes
    /\ failures' = [failures EXCEPT !.crash = @ + 1]
    /\ Ends(a, "dead")
    /\ UNCHANGED <<app, files, effects>>

-----------------------------------------------------------------------------
\* What a worker does with its requests.
Serve(a) ==
    \/ Read(a) \/ EndOfInput(a)
    \/ Start(a) \/ Publish(a) \/ Copy(a) \/ Write(a)
    \/ Acquire(a) \/ Command(a) \/ HandlerRaises(a)
    \/ StartPipeline(a) \/ Stage(a) \/ Capture(a) \/ Complete(a) \/ Return(a)
    \/ Abandon(a) \/ Respond(a)

Next ==
    \/ \E r \in Requests :
           \/ Send(r) \/ Enter(r) \/ SpawnFails(r)
           \/ StreamCloses(r) \/ StreamBreaks(r)
    \/ \E a \in Apps : Serve(a) \/ FileFails(a) \/ Crash(a) \/ CloseApp(a)

Spec == Init /\ [][Next]_vars

\* The system runs the threads of the app and its worker, and handlers end.
FairSpec ==
    /\ Spec
    /\ \A a \in Apps : WF_vars(Serve(a))
    /\ \A r \in Requests : WF_vars(Enter(r)) /\ WF_vars(StreamCloses(r))

-----------------------------------------------------------------------------
(* Properties.                                                             *)

Entries(b) == {mirror[b].history[i] : i \in DOMAIN mirror[b].history}

Records(b) == Entries(b) \cup {mirror[b].event}

\* The last entry about r says that it is completed; where there is none, as many
\* later entries as the history keeps have pushed it out.
SaysCompleted(history, r) ==
    LET mine == {i \in DOMAIN history : history[i].task = r} IN
    IF mine = {} THEN Len(history) = MirrorLimit
    ELSE \E i \in mine : history[i].status = "completed" /\ \A j \in mine : j <= i

Recorded(r) == SaysCompleted(mirror[BrainOf[r]].history, r)

\* No file ever says that a command is completed that has not taken effect,
\* whatever failed, died or was sent again.
CompletedTookEffect ==
    \A r \in Requests :
        \/ effects[r] > 0
        \/ /\ ~(event.task = r /\ event.status = "completed")
           /\ \A b \in Brains :
                  /\ ~(pipeline[b].task = r /\ pipeline[b].status = "completed")
                  /\ \A e \in Records(b) : ~(e.task = r /\ e.status = "completed")

\* A command takes effect twice at most, though its request is sent again after
\* every kind of failure and workers live on behind a broken stream.
AtMostTwice == \A r \in Requests : effects[r] <= 2

\* A request that was answered with its result took effect, and the last that the
\* history of its brain says of it is its completion, until MirrorLimit later
\* entries have pushed that out; a pipeline that is its own says so too.
OkIsRecorded ==
    \A r \in Requests : request[r].at = "ok" =>
        LET b == BrainOf[r] IN
        /\ effects[r] > 0
        /\ Recorded(r)
        /\ pipeline[b].task = r => pipeline[b].status = "completed"

\* The record of a brain is about that brain, also where the event of the
\* workspace is another brain's (_mirror_universal_task_event_for_brain).
MirrorKeepsItsBrain ==
    \A b \in Brains : \A e \in Entries(b) : BrainOf[e.task] = b

\* Where one thing goes wrong at most, an answer is the last word: no worker
\* still has the request, to serve it or to read it.
AnswerIsLast ==
    failures.fault + failures.crash <= 1 =>
        \A r \in Requests : request[r].at \in {"ok", "error"} =>
            \A a \in Apps :
                /\ worker[a].serves # r
                /\ \A i \in DOMAIN lines[a] : lines[a][i] # r

\* A request is answered, whatever dies and fails, unless its app is closed.
EveryRequestIsAnswered ==
    \A r \in Requests : (request[r].at = "waiting") ~> (request[r].at \in {"ok", "error", "lost"})

-----------------------------------------------------------------------------
(* Why the safety properties hold.                                         *)

InLines(a, r) == \E i \in DOMAIN lines[a] : lines[a][i] = r

Has(a, r) == InLines(a, r) \/ worker[a].serves = r

\* How often the line of a request has been written at most.
Written(r) ==
    CASE request[r].at = "new" -> 0
      [] request[r].at = "waiting" -> request[r].attempt
      [] request[r].at = "sent" -> request[r].attempt + 1
      [] OTHER -> 2

\* The places of each part of the code, and what is published for which of them.
Publishing == {"publish", "copy", "write"}

PlaceFits(w) ==
    /\ w.at = "idle" <=> w.part = "none"
    /\ w.at = "idle" \/ w.serves \in Requests
    /\ w.at \in {"start", "acquire"} => w.part = "start"
    /\ w.at = "command" => w.part = "command"
    /\ w.at \in {"stages", "capture", "complete", "return"} => w.part = "build"
    /\ w.at = "abandon" => w.part = "giveup"
    /\ w.at = "respond" => w.part \in {"finish", "except"}
    /\ w.at \in Publishing =>
           \/ w.next = "acquire" /\ w.part = "start"
           \/ w.next = "stages" /\ w.part = "command"
           \/ w.next \in {"capture", "return"} /\ w.part = "build"
           \/ w.next = "idle" /\ w.part = "giveup"
           \/ w.next = "respond" /\ w.part \in {"finish", "except"}

PlacesFit == \A a \in Apps : PlaceFits(worker[a])

\* A worker is before the effect of the command it serves.
Before(w) ==
    \/ w.part \in {"start", "command"}
    \/ /\ w.part = "build"
       /\ \/ w.at \in {"stages", "capture"}
          \/ w.at \in Publishing /\ w.next = "capture"

\* The inductive invariant of AtMostTwice: every line gives one effect, and a
\* request that waits, or was answered with its result, is nowhere else.
DeliveryInvariant ==
    /\ \A r \in Requests : effects[r] <= Written(r)
    /\ \A a \in Apps, r \in Requests :
           /\ Has(a, r) => AppOf[r] = a /\ request[r].at \notin {"new", "waiting", "ok"}
           /\ InLines(a, r) => worker[a].serves # r
           /\ InLines(a, r) \/ (worker[a].serves = r /\ Before(worker[a])) =>
                  effects[r] < Written(r)
    /\ \A a \in Apps : \A i, j \in DOMAIN lines[a] : lines[a][i] = lines[a][j] => i = j

\* What a file says is true.
Truthful(e) ==
    e.status = "completed" => e.task \in Requests /\ effects[e.task] > 0

\* A worker that is past the start of its task, or past that of its pipeline.
TaskStarted(w) ==
    \/ w.context \/ w.part \in {"command", "build", "giveup", "finish"}
    \/ w.at \in {"copy", "write", "acquire"}

After(w) ==
    \/ w.part = "finish" \/ w.at \in {"complete", "return"}
    \/ w.at \in Publishing /\ w.next = "return"
    \/ w.at = "publish" /\ w.says = "completed"

PipelineStarted(w) ==
    \/ w.part \in {"build", "giveup"}
    \/ w.part = "command" /\ w.at # "command"

FilesTruthful ==
    /\ Truthful(event)
    /\ \A b \in Brains :
           /\ Truthful(pipeline[b])
           /\ \A e \in Records(b) : Truthful(e)
           /\ \A e \in Entries(b) : e.task \in Requests /\ BrainOf[e.task] = b

\* The files are about the request of the worker, and what it has read of them
\* is what they say.
WorkerTruthful(w) ==
    /\ TaskStarted(w) => event.task = w.serves
    /\ w.at = "publish" => TaskStarted(w)
    /\ PipelineStarted(w) => pipeline[BrainOf[w.serves]].task = w.serves
    /\ After(w) => effects[w.serves] > 0
    /\ w.at = "write" =>
           /\ w.read.event = event
           /\ w.read.history = mirror[BrainOf[w.serves]].history

\* The inductive invariant of what the files say, where there is one app.
TruthInvariant == FilesTruthful /\ \A a \in Apps : WorkerTruthful(worker[a])

\* A pipeline that is the request's own says that it is completed.
PipelineDone(r) == pipeline[BrainOf[r]].task = r => pipeline[BrainOf[r]].status = "completed"

AnswersRecorded ==
    \A r \in Requests : request[r].at = "ok" => effects[r] > 0 /\ Recorded(r) /\ PipelineDone(r)

PipelinesOfBuilds == \A b \in Brains : pipeline[b].task \in Builds \cup {NoRequest}

HasResult(w) ==
    \/ w.part = "finish" \/ w.at = "return"
    \/ w.at \in Publishing /\ w.next = "return"

\* What a worker that has the result has left in the files.
EndRecorded(w) ==
    /\ HasResult(w) => PipelineDone(w.serves)
    /\ w.part = "finish" =>
           /\ w.at = "publish" => w.says = "completed"
           /\ w.at \in {"copy", "write"} => event.status = "completed"
           /\ w.at = "respond" => Recorded(w.serves)

\* The inductive invariant of OkIsRecorded, where there is one app.
RecordInvariant ==
    /\ AnswersRecorded
    /\ PipelinesOfBuilds
    /\ \A a \in Apps : EndRecorded(worker[a])

Troubles == failures.fault + failures.crash

\* The workspace has an event: the one the task of the worker was started with, or a
\* later one.
EventThere(w) ==
    w.context \/ w.at \in {"copy", "write"} \/ (w.at = "publish" /\ w.part = "except")

\* The inductive invariant of AnswerIsLast: what an open app sees of a worker that died,
\* and of a request that is sent again, is the one thing that went wrong.
AnswerInvariant ==
    /\ \A a \in Apps : child[a] # "alive" =>
           lines[a] = <<>> /\ worker[a].serves = NoRequest
    /\ \A a \in open : child[a] = "dead" => Troubles >= 1
    /\ \A r \in Requests :
           /\ request[r].at \in {"waiting", "sent"} => AppOf[r] \in open
           /\ request[r].attempt = 1 => Troubles >= 1
    /\ \A a \in Apps : EventThere(worker[a]) => event.task # NoRequest
    /\ AnswerIsLast

-----------------------------------------------------------------------------
(* What the tests say and the code does not do.                            *)

\* test_t023_universal_process_truth.py:249: the terminal event is hash-bound.
ReceiptIsOfTheEvent ==
    event.status \in Terminal => event.receipt = "own"

=============================================================================
