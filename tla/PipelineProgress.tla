---------------------------- MODULE PipelineProgress ----------------------------
(***************************************************************************)
(* How far a build is, in a file of the brain (runtime/pipeline_state.py), *)
(* and what the interface is shown of it (ipc_worker.py).                  *)
(*                                                                         *)
(* A build starts the file anew and then calls update at fixed points, one *)
(* call being one step because the file is replaced under a lock beside    *)
(* it.  A call may be refused, for the state in the file or because        *)
(* another process has the lock, and then the build fails and says so in   *)
(* the file, or tries to.  Another worker shows the file at any time: the  *)
(* event and the history are read one after the other.  A brain of an      *)
(* older version has this file only, and its event is shown as a task.     *)
(***************************************************************************)
EXTENDS Integers, SequencesExt

CONSTANTS
    StageCount,    \* the stages of a build
    Percents,      \* what a stage may report before its end
    HistoryLimit,  \* events the file keeps
    MaxPipelines,  \* bound: builds
    MaxRows,       \* bound: rows a stage reports
    NoState,       \* there is no file
    MaxProgressFaults  \* bound: calls that fail, crashes

ASSUME ProgressAssumption ==
    /\ StageCount \in Nat \ {0} /\ HistoryLimit \in Nat \ {0}
    /\ Percents \subseteq 1..99
    /\ MaxPipelines \in Nat /\ MaxRows \in Nat /\ MaxProgressFaults \in Nat

PipelineStages == 1..StageCount

PipelineStatuses == {"running", "completed", "failed", "cancelled"}

TerminalStatuses == {"completed", "failed", "cancelled"}

\* rows stands for the counters of rows, chunks and files done.
Event == [pipeline : 0..MaxPipelines, stage : PipelineStages, percent : 0..100,
          global : 0..100, rows : 0..MaxRows, status : PipelineStatuses]

ASSUME NoStateIsNoEvent == NoState \notin Event

-----------------------------------------------------------------------------
VARIABLES
    file,      \* pipeline_state.json: the event and the history
    building,  \* what the build is doing
    latest,    \* history: the number of the last build
    taskFile,  \* there is an authoritative task of this brain
    reading,   \* what the other worker has read
    displayed, \* what was shown last: the event, the end of the history, the task
    untold,    \* history: the end of the last build was not written
    faults

progressVars ==
    <<file, building, latest, taskFile, reading, displayed, untold, faults>>

Nothing == [event |-> NoState, history |-> <<>>]

NoTaskShown == [status |-> NoState, receipt |-> FALSE]

ProgressTypeOK ==
    /\ file \in [event : Event \cup {NoState}, history : Seq(Event)]
    /\ building \in {"no", "yes", "failing"}
    /\ latest \in 0..MaxPipelines
    /\ taskFile \in BOOLEAN
    /\ reading \in [event : Event \cup {NoState}, open : BOOLEAN]
    /\ displayed.event \in Event \cup {NoState}
    /\ displayed.last \in Event \cup {NoState}
    /\ displayed.task \in [status : PipelineStatuses \cup {NoState}, receipt : BOOLEAN]
    /\ untold \in BOOLEAN
    /\ faults \in 0..MaxProgressFaults

-----------------------------------------------------------------------------
(* The file.                                                               *)

LargerOf(x, y) == IF x >= y THEN x ELSE y

\* _build_event: the percent of the whole never goes back.
Built(pipeline, stage, percent, previous, rows, status) ==
    [pipeline |-> pipeline, stage |-> stage, rows |-> rows, status |-> status,
     percent |-> IF status = "completed" THEN 100 ELSE percent,
     global |-> IF status = "completed" THEN 100
                ELSE LargerOf(previous, ((stage - 1) * 100 + percent) \div StageCount)]

\* The last events of a history
Recent(history) ==
    SubSeq(history, LargerOf(1, Len(history) - HistoryLimit + 1), Len(history))

\* mutant: an update after the end is taken
NeverEnded(event) == FALSE

HasEnded(event) == event.status \in TerminalStatuses

\* update raises
Refuses(stage) ==
    \/ file.event = NoState
    \/ HasEnded(file.event)
    \/ stage < file.event.stage

\* The event that follows in the file.  Within a stage its percent never goes
\* back, and no counter ever does.
NextEvent(stage, percent, rows, status) ==
    LET before == file.event
        within == IF stage = before.stage THEN LargerOf(before.percent, percent) ELSE percent
    IN  Built(before.pipeline, IF status = "completed" THEN StageCount ELSE stage, within,
              before.global, LargerOf(before.rows, rows), status)

Append1(event) == [event |-> event, history |-> Recent(Append(file.history, event))]

\* start(replace=True)
FirstEvent(pipeline) == Built(pipeline, 1, 0, 0, 0, "running")

-----------------------------------------------------------------------------
(* brain.buildAll.  Its authoritative task is written before it starts.    *)

\* A brain of an older version has a file, of a build that ended or was cut off.
ProgressInit ==
    /\ file \in {Nothing} \cup
           {[event |-> e, history |-> <<e>>] :
               e \in {FirstEvent(0), Built(0, StageCount, 100, 0, MaxRows, "completed"),
                      [FirstEvent(0) EXCEPT !.status = "failed"]}}
    /\ building = "no"
    /\ latest = 0
    /\ taskFile = FALSE
    /\ reading = [event |-> NoState, open |-> FALSE]
    /\ displayed = [event |-> NoState, last |-> NoState, task |-> NoTaskShown]
    /\ untold = FALSE
    /\ faults = 0

StartPipeline ==
    /\ building = "no" /\ latest < MaxPipelines
    /\ latest' = latest + 1
    /\ taskFile' = TRUE
    /\ file' = [event |-> FirstEvent(latest + 1), history |-> <<FirstEvent(latest + 1)>>]
    /\ building' = "yes"
    /\ untold' = FALSE
    /\ UNCHANGED <<reading, displayed, faults>>

\* update_pipeline: a stage says where it is, that it is done, or the next begins; a
\* stage with no sources to report of begins only.
Reports ==
    LET at == file.event
    IN  [stage : {at.stage}, percent : {p \in Percents \cup {100} : p >= at.percent}]
        \cup [stage : {s \in PipelineStages : s = at.stage + 1 /\ at.percent \in {0, 100}}, percent : {0}]

UpdatePipeline ==
    /\ building = "yes" /\ file.event # NoState
    /\ \E call \in Reports, rows \in 0..MaxRows :
         /\ ~(call.stage = StageCount /\ call.percent = 100)
         /\ ~Refuses(call.stage)
         /\ file' = Append1(NextEvent(call.stage, call.percent, rows, "running"))
    /\ UNCHANGED <<building, latest, taskFile, reading, displayed, untold, faults>>

\* complete: after the version has been captured.  What follows can still fail.
CompletePipeline ==
    /\ building = "yes"
    /\ ~Refuses(StageCount) /\ file.event.stage = StageCount
    /\ file' = Append1(NextEvent(StageCount, 100, file.event.rows, "completed"))
    /\ building' \in {"no", "failing"}
    /\ UNCHANGED <<latest, taskFile, reading, displayed, untold, faults>>

\* A step of the build raises, or a call of update: refused, or the lock of the
\* file was held for a second and a half.
BuildRaises ==
    /\ building = "yes" /\ faults < MaxProgressFaults
    /\ faults' = faults + 1
    /\ building' = "failing"
    /\ UNCHANGED <<file, latest, taskFile, reading, displayed, untold>>

\* fail: that it is refused, after the end, goes unnoticed.
FailPipeline ==
    /\ building = "failing"
    /\ file' = IF file.event = NoState \/ HasEnded(file.event) THEN file
               ELSE Append1(NextEvent(file.event.stage, file.event.percent, 0, "failed"))
    /\ building' = "no"
    /\ UNCHANGED <<latest, taskFile, reading, displayed, untold, faults>>

\* The lock is held for too long, or the file cannot be written.
FailUnwritten ==
    /\ building = "failing" /\ faults < MaxProgressFaults
    /\ faults' = faults + 1
    /\ building' = "no"
    /\ untold' = (file.event # NoState /\ ~HasEnded(file.event))
    /\ UNCHANGED <<file, latest, taskFile, reading, displayed>>

\* A crash: the file is the old or the new one, because it is replaced.
KillBuild ==
    /\ building # "no" /\ faults < MaxProgressFaults
    /\ faults' = faults + 1
    /\ building' = "no"
    /\ untold' = (file.event # NoState /\ ~HasEnded(file.event))
    /\ UNCHANGED <<file, latest, taskFile, reading, displayed>>

-----------------------------------------------------------------------------
(* What is shown.                                                          *)

\* _legacy_pipeline_event_to_universal: only what has ended gets a receipt.
Translated(event) ==
    [status |-> event.status, receipt |-> event.status \in TerminalStatuses]

\* A task that is recorded comes first.
TaskOf(event) ==
    IF taskFile \/ event = NoState THEN NoTaskShown ELSE Translated(event)

\* _backend_stage_states
StageRow(event, stage) ==
    IF event = NoState THEN "queued"
    ELSE IF event.status = "completed" \/ stage < event.stage THEN "completed"
    ELSE IF stage = event.stage THEN event.status
    ELSE "queued"

\* runtime.snapshot: the document is read once, and nothing is translated.
ShowRuntime ==
    /\ ~reading.open
    /\ displayed' = [event |-> file.event, last |-> file.event, task |-> NoTaskShown]
    /\ UNCHANGED <<file, building, latest, taskFile, reading, untold, faults>>

\* pipeline.snapshot, and the context of a selected brain, which alone translates the
\* event: the event is read ...
ReadEvent ==
    /\ ~reading.open
    /\ reading' = [event |-> file.event, open |-> TRUE]
    /\ UNCHANGED <<file, building, latest, taskFile, displayed, untold, faults>>

\* ... and then, if there is one, the history.
ReadHistory ==
    /\ reading.open
    /\ \E shown \in {NoTaskShown, TaskOf(reading.event)} :
         displayed' = [event |-> reading.event, task |-> shown,
                       last |-> IF reading.event = NoState THEN NoState ELSE Last(file.history)]
    /\ reading' = [event |-> NoState, open |-> FALSE]
    /\ UNCHANGED <<file, building, latest, taskFile, untold, faults>>

ProgressNext ==
    \/ StartPipeline \/ UpdatePipeline \/ CompletePipeline \/ BuildRaises
    \/ FailPipeline \/ FailUnwritten \/ KillBuild
    \/ ShowRuntime \/ ReadEvent \/ ReadHistory

ProgressSpec == ProgressInit /\ [][ProgressNext]_progressVars

-----------------------------------------------------------------------------
(* Properties.                                                             *)

\* e is not later than f.
NotLater(e, f) ==
    \/ e.pipeline < f.pipeline
    \/ /\ e.pipeline = f.pipeline
       /\ e.global <= f.global /\ e.rows <= f.rows
       /\ e.stage < f.stage \/ (e.stage = f.stage /\ e.percent <= f.percent)

\* In the history nothing goes back, nothing follows an end, and the last event is
\* the state of the file; the whole is done only when the build is.
HistoryGoesOn ==
    /\ file.event # NoState =>
         /\ Last(file.history) = file.event
         /\ file.event.global = 100 => file.event.status = "completed"
    /\ \A i, j \in DOMAIN file.history : i < j =>
         NotLater(file.history[i], file.history[j]) /\ ~HasEnded(file.history[i])

\* A build that is over has an end in the file, unless it was killed or could not
\* write it.
EndIsWritten ==
    (building = "no" /\ latest > 0) => (untold \/ HasEnded(file.event))

\* What is shown with an event is a history that has come as far, of this build or
\* of one after it; the stages are shown done in their order, and what has not ended
\* has no receipt.
ShownGoesOn ==
    /\ displayed.event # NoState => NotLater(displayed.event, displayed.last)
    /\ \A s \in PipelineStages : StageRow(displayed.event, s) = "completed" =>
         \A q \in 1..s : StageRow(displayed.event, q) = "completed"
    /\ displayed.task.receipt => displayed.task.status \in TerminalStatuses

ProgressIsTrue == HistoryGoesOn /\ EndIsWritten /\ ShownGoesOn
===============================================================================
