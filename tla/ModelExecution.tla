---------------------------- MODULE ModelExecution ----------------------------
(***************************************************************************)
(* The connectors of model endpoints (model_connectors.py) and a turn that *)
(* sends a prompt to one (model_execution.py).                             *)
(*                                                                         *)
(* A turn leaves records in three places: slips, research and lineage in   *)
(* the sectors of the brain, runs, events and receipts in the operational  *)
(* ledger, and files.  Each record is a write of its own, each can fail,   *)
(* and the worker can die between two.  The turn holds the lock of its     *)
(* brain (module MutationLock), the connectors belong to the workspace: a  *)
(* worker that serves another brain can change them meanwhile.             *)
(***************************************************************************)
EXTENDS Naturals

CONSTANTS
    Endpoints,      \* ids of connectors
    NoEndpoint,     \* no connector
    Remote,         \* the endpoints that are not on this machine
    MaxTurns,       \* bound: turns
    MaxChanges,     \* bound: changes of the connectors
    MaxTurnFaults   \* bound: writes of a turn that fail

ASSUME TurnAssumption ==
    /\ NoEndpoint \notin Endpoints
    /\ Remote \subseteq Endpoints
    /\ MaxTurns \in Nat /\ MaxChanges \in Nat /\ MaxTurnFaults \in Nat

Turns == 1..MaxTurns

Connector == [exists : BOOLEAN, enabled : BOOLEAN, active : BOOLEAN, cached : BOOLEAN]

NoConnector == [exists |-> FALSE, enabled |-> FALSE, active |-> FALSE, cached |-> FALSE]

\* ENTRY, EXIT and EXIT_FAILED are slips; RUN and the next four are rows of the
\* ledger; the rest goes to sectors and files.
Records == {"ENTRY", "EXIT", "EXIT_FAILED",
            "RUN", "REQUEST_READY", "RESPONSE_RECEIVED", "REQUEST_FAILED", "FAILURE",
            "TASK_RUN", "RECEIPTS", "OUTPUT", "RESEARCH", "LINEAGE"}

Running == {"entry", "prepare", "ready", "send", "reply", "output", "task", "receipts",
            "research", "lineage", "exit", "seal", "failing", "event", "report"}

\* broken: the report of a failure failed.
Ended == {"answered", "failed", "broken", "died"}

-----------------------------------------------------------------------------
VARIABLES
    connectors,  \* endpoint_registry with endpoint_model_cache
    chosen,      \* the connector set_active has read and is about to activate
    discovering, \* the connector whose models are being asked for
    turns,       \* each turn: where it is and what it has recorded
    sent,        \* the endpoint that got the request of each turn
    stale,       \* history: turns that began before the last change of a connector
    lost,        \* history: turns a slip of which could not be written
    changes, turnFaults

turnVars == <<connectors, chosen, discovering, turns, sent, stale, lost, changes,
              turnFaults>>

Turn == [at : Running \cup Ended \cup {"none"}, endpoint : Endpoints \cup {NoEndpoint},
         consent : BOOLEAN, slip : BOOLEAN, records : SUBSET Records]

NoTurn == [at |-> "none", endpoint |-> NoEndpoint, consent |-> FALSE, slip |-> FALSE,
           records |-> {}]

TurnTypeOK ==
    /\ connectors \in [Endpoints -> Connector]
    /\ chosen \in Endpoints \cup {NoEndpoint}
    /\ discovering \in Endpoints \cup {NoEndpoint}
    /\ turns \in [Turns -> Turn]
    /\ sent \in [Turns -> Endpoints \cup {NoEndpoint}]
    /\ stale \subseteq Turns
    /\ lost \subseteq Turns
    /\ changes \in Nat /\ turnFaults \in Nat

TurnInit ==
    /\ connectors = [e \in Endpoints |-> NoConnector]
    /\ chosen = NoEndpoint
    /\ discovering = NoEndpoint
    /\ turns = [t \in Turns |-> NoTurn]
    /\ sent = [t \in Turns |-> NoEndpoint]
    /\ stale = {}
    /\ lost = {}
    /\ changes = 0
    /\ turnFaults = 0

-----------------------------------------------------------------------------
(* The connectors.  Each command is a transaction of the workspace's       *)
(* database; two of them read before it begins.                            *)

Runs(t) == turns[t].at \in Running

Changed(new) ==
    /\ changes < MaxChanges
    /\ changes' = changes + 1
    /\ connectors' = new
    /\ stale' = stale \cup {t \in Turns : Runs(t)}
    /\ UNCHANGED <<turns, sent, lost, turnFaults>>

Inactive == [e \in Endpoints |-> [connectors[e] EXCEPT !.active = FALSE]]

\* An active connector makes the others of the identity inactive.
Others(e, active) == IF active THEN Inactive ELSE connectors

\* upsert_model_connector: active does not ask for enabled.
UpsertConnector(e) ==
    /\ \E enabled, active \in BOOLEAN :
         Changed([Others(e, active) EXCEPT
                    ![e] = [exists |-> TRUE, enabled |-> enabled, active |-> active,
                            cached |-> @.cached]])
    /\ UNCHANGED <<chosen, discovering>>

\* set_active_model_connector reads whether the connector is enabled, ...
ReadForActive(e) ==
    /\ chosen = NoEndpoint
    /\ connectors[e].enabled
    /\ chosen' = e
    /\ UNCHANGED <<connectors, discovering, turns, sent, stale, lost, changes, turnFaults>>

\* ... and then changes the rows, the one of the connector if it is still there.
SetActive ==
    /\ chosen # NoEndpoint
    /\ Changed([Inactive EXCEPT ![chosen].active = connectors[chosen].exists])
    /\ chosen' = NoEndpoint
    /\ UNCHANGED discovering

DisableConnector(e) ==
    /\ connectors[e].exists
    /\ Changed([connectors EXCEPT ![e].enabled = FALSE, ![e].active = FALSE])
    /\ UNCHANGED <<chosen, discovering>>

\* delete_model_connector, with the cache of the connector
DeleteConnector(e) ==
    /\ connectors[e].exists
    /\ Changed([connectors EXCEPT ![e] = NoConnector])
    /\ UNCHANGED <<chosen, discovering>>

\* _discover_or_validate reads the connector, asks the endpoint, ...
AskForModels(e) ==
    /\ discovering = NoEndpoint
    /\ connectors[e].enabled
    /\ discovering' = e
    /\ UNCHANGED <<connectors, chosen, turns, sent, stale, lost, changes, turnFaults>>

\* ... and replaces the cache.  A connector that was deleted meanwhile fails the
\* foreign key, an endpoint that does not answer leaves the cache as it was.
CacheModels ==
    /\ discovering # NoEndpoint
    /\ discovering' = NoEndpoint
    /\ \/ /\ connectors[discovering].exists
          /\ connectors' = [connectors EXCEPT ![discovering].cached = TRUE]
       \/ UNCHANGED connectors
    /\ UNCHANGED <<chosen, turns, sent, stale, lost, changes, turnFaults>>

-----------------------------------------------------------------------------
(* execute_model_connector, up to the request.                             *)

StillSame == UNCHANGED <<connectors, chosen, discovering, stale, changes>>

Does(t, step) == turns[t].at = step

\* The turn goes on to the step, with one more record.
Writes(t, record, step) ==
    turns' = [turns EXCEPT ![t].at = step, ![t].records = @ \cup {record}]

Goes(t, step) == turns' = [turns EXCEPT ![t].at = step]

WriteFails == turnFaults < MaxTurnFaults /\ turnFaults' = turnFaults + 1

\* The write, or its failure.
WritesOrFails(t, record, step) ==
    \/ Writes(t, record, step) /\ UNCHANGED turnFaults
    \/ Goes(t, "failing") /\ WriteFails

\* A turn is refused for its prompt, its evidence, its connector, or because no
\* version of the brain verifies.
BeginTurn(t, e, consent) ==
    /\ Does(t, "none") /\ \A u \in Turns : (u < t => ~Does(u, "none")) /\ ~Runs(u)
    /\ \E at \in {"entry", "failing"} :
         /\ at = "entry" => connectors[e].enabled /\ connectors[e].active
         /\ turns' = [turns EXCEPT ![t] =
                [NoTurn EXCEPT !.at = at, !.endpoint = e, !.consent = consent]]
    /\ StillSame /\ UNCHANGED <<sent, lost, turnFaults>>

\* A slip is committed before its sector is projected: when that fails, the slip
\* is there, and the caller does not know.
WriteEntry(t) ==
    /\ Does(t, "entry")
    /\ \/ /\ turns' = [turns EXCEPT ![t].at = "prepare", ![t].slip = TRUE,
                                    ![t].records = @ \cup {"ENTRY"}]
          /\ UNCHANGED <<lost, turnFaults>>
       \/ /\ Goes(t, "failing") \/ Writes(t, "ENTRY", "failing")
          /\ WriteFails
          /\ lost' = lost \cup {t}
    /\ StillSame /\ UNCHANGED sent

\* Consent for an endpoint elsewhere, the address, the headers, the payload, any
\* of which can refuse; then the run.
Prepare(t) ==
    /\ Does(t, "prepare")
    /\ \/ /\ turns[t].endpoint \in Remote => turns[t].consent
          /\ WritesOrFails(t, "RUN", "ready")
       \/ Goes(t, "failing") /\ UNCHANGED turnFaults
    /\ StillSame /\ UNCHANGED <<sent, lost>>

RequestReady(t) ==
    /\ Does(t, "ready")
    /\ WritesOrFails(t, "REQUEST_READY", "send")
    /\ StillSame /\ UNCHANGED <<sent, lost>>

\* The endpoint gets the request and answers; or it does not answer, whether it
\* got the request or not.
Send(t) ==
    /\ Does(t, "send")
    /\ \/ sent' = [sent EXCEPT ![t] = turns[t].endpoint] /\ Goes(t, "reply")
       \/ sent' = [sent EXCEPT ![t] = turns[t].endpoint] /\ Goes(t, "failing")
       \/ Goes(t, "failing") /\ UNCHANGED sent
    /\ StillSame /\ UNCHANGED <<lost, turnFaults>>

-----------------------------------------------------------------------------
(* execute_model_connector, after the request.                             *)

\* The fields of the response are found or not; an output is written if the
\* response has one.
ReadReply(t) ==
    /\ Does(t, "reply")
    /\ \/ Goes(t, "output") /\ UNCHANGED turnFaults
       \/ WritesOrFails(t, "OUTPUT", "output")
       \/ Goes(t, "failing") /\ UNCHANGED turnFaults
    /\ StillSame /\ UNCHANGED <<sent, lost>>

ResponseReceived(t) ==
    /\ Does(t, "output")
    /\ WritesOrFails(t, "RESPONSE_RECEIVED", "task")
    /\ StillSame /\ UNCHANGED <<sent, lost>>

\* _append_governed_prompt_receipts: the run of the task, then what refers to it.
PromptReceipts(t) ==
    /\ \/ Does(t, "task") /\ WritesOrFails(t, "TASK_RUN", "receipts")
       \/ Does(t, "receipts") /\ WritesOrFails(t, "RECEIPTS", "research")
    /\ StillSame /\ UNCHANGED <<sent, lost>>

\* _append_model_state_travel: the research source, the lineage, ...
StateTravel(t) ==
    /\ \/ Does(t, "research") /\ WritesOrFails(t, "RESEARCH", "lineage")
       \/ Does(t, "lineage") /\ WritesOrFails(t, "LINEAGE", "exit")
    /\ StillSame /\ UNCHANGED <<sent, lost>>

\* ... the slip, ...
WriteExit(t) ==
    /\ Does(t, "exit")
    /\ \/ Writes(t, "EXIT", "seal") /\ UNCHANGED <<lost, turnFaults>>
       \/ /\ Goes(t, "failing") \/ Writes(t, "EXIT", "failing")
          /\ WriteFails
          /\ lost' = lost \cup {t}
    /\ StillSame /\ UNCHANGED sent

\* ... and the file of the source is made read-only.
SealSource(t) ==
    /\ Does(t, "seal")
    /\ \/ Goes(t, "answered") /\ UNCHANGED turnFaults
       \/ Goes(t, "failing") /\ WriteFails
    /\ StillSame /\ UNCHANGED <<sent, lost>>

-----------------------------------------------------------------------------
(* The except clauses.                                                     *)

\* mutant: a turn that failed after its response keeps its slip open
FailSlipBeforeRun(t) ==
    /\ Does(t, "failing")
    /\ IF turns[t].slip /\ "RUN" \notin turns[t].records
       THEN Writes(t, "EXIT_FAILED", "event") ELSE Goes(t, "event")
    /\ StillSame /\ UNCHANGED <<sent, lost, turnFaults>>

\* The slip of a failed turn, if the turn knows of its entry.  An error of this
\* write is swallowed.
FailSlip(t) ==
    /\ Does(t, "failing")
    /\ \/ /\ turns[t].slip
          /\ Writes(t, "EXIT_FAILED", "event")
          /\ UNCHANGED <<lost, turnFaults>>
       \/ /\ ~turns[t].slip
          /\ Goes(t, "event")
          /\ UNCHANGED <<lost, turnFaults>>
       \/ /\ turns[t].slip
          /\ Goes(t, "event")
          /\ WriteFails
          /\ lost' = lost \cup {t}
    /\ StillSame /\ UNCHANGED sent

\* _append_failure: the event of the run, if there is one, and the failure.
ReportFailure(t) ==
    /\ \/ /\ Does(t, "event")
          /\ IF "RUN" \in turns[t].records
             THEN Writes(t, "REQUEST_FAILED", "report") ELSE Goes(t, "report")
          /\ UNCHANGED turnFaults
       \/ Does(t, "report") /\ Writes(t, "FAILURE", "failed") /\ UNCHANGED turnFaults
       \/ turns[t].at \in {"event", "report"} /\ Goes(t, "broken") /\ WriteFails
    /\ StillSame /\ UNCHANGED <<sent, lost>>

\* The worker dies; the host sends the prompt again, if at all, as another turn.
TurnDies(t) ==
    /\ Runs(t)
    /\ WriteFails
    /\ Goes(t, "died")
    /\ StillSame /\ UNCHANGED <<sent, lost>>

TurnNext ==
    \/ \E e \in Endpoints :
         \/ UpsertConnector(e) \/ ReadForActive(e) \/ DisableConnector(e)
         \/ DeleteConnector(e) \/ AskForModels(e)
         \/ \E t \in Turns, consent \in BOOLEAN : BeginTurn(t, e, consent)
    \/ SetActive \/ CacheModels
    \/ \E t \in Turns :
         \/ WriteEntry(t) \/ Prepare(t) \/ RequestReady(t) \/ Send(t) \/ ReadReply(t)
         \/ ResponseReceived(t) \/ PromptReceipts(t) \/ StateTravel(t) \/ WriteExit(t)
         \/ SealSource(t) \/ FailSlip(t) \/ ReportFailure(t) \/ TurnDies(t)

TurnSpec == TurnInit /\ [][TurnNext]_turnVars

-----------------------------------------------------------------------------
(* Properties.                                                             *)

\* No endpoint gets a prompt behind the back of the records and the user: the
\* entry slip, the run and its event are written before the request leaves, an
\* endpoint elsewhere has been consented to, and the endpoint is the only active
\* connector, and enabled, unless a connector was changed since the turn began.
NothingIsSentUnrecorded ==
    \A t \in Turns : sent[t] # NoEndpoint =>
        /\ {"ENTRY", "RUN", "REQUEST_READY"} \subseteq turns[t].records
        /\ sent[t] \in Remote => turns[t].consent
        /\ (t \notin stale /\ Runs(t)) =>
                /\ connectors[sent[t]].enabled
                /\ {e \in Endpoints : connectors[e].active} = {sent[t]}

\* A turn that answered has everything it claims to have, and a turn that failed
\* says so wherever it had begun to leave records; a slip is left open only where
\* a write of a slip, or the worker, failed.
TurnsAreClosed ==
    \A t \in Turns : LET r == turns[t].records IN
        /\ Does(t, "answered") =>
              /\ {"ENTRY", "EXIT", "RUN", "REQUEST_READY", "RESPONSE_RECEIVED",
                  "TASK_RUN", "RECEIPTS", "RESEARCH", "LINEAGE"} \subseteq r
              /\ r \cap {"EXIT_FAILED", "REQUEST_FAILED", "FAILURE"} = {}
        /\ Does(t, "failed") =>
              /\ "FAILURE" \in r
              /\ "RUN" \in r => "REQUEST_FAILED" \in r
        /\ (turns[t].at \in {"answered", "failed", "broken"} /\ t \notin lost) =>
              ("ENTRY" \in r => r \cap {"EXIT", "EXIT_FAILED"} # {})

-----------------------------------------------------------------------------
(* Why the records are there.                                              *)

\* The steps of a turn that goes well, from a step on.
FromSeal    == {"seal", "answered"}
FromExit    == {"exit"} \cup FromSeal
FromLineage == {"lineage"} \cup FromExit
FromSources == {"research"} \cup FromLineage
FromTask    == {"receipts"} \cup FromSources
FromReply   == {"task"} \cup FromTask
FromSend    == {"send", "reply", "output"} \cup FromReply
FromReady   == {"ready"} \cup FromSend
FromPrepare == {"prepare"} \cup FromReady

\* Each step left its record, and nothing tells of a failure.
GoesWell(turn) ==
    /\ turn.at = "entry" => turn.records = {} /\ ~turn.slip
    /\ turn.at \in FromPrepare => "ENTRY" \in turn.records /\ turn.slip
    /\ turn.at \in FromReady => /\ "RUN" \in turn.records
                                /\ turn.endpoint \in Remote => turn.consent
    /\ turn.at \in FromSend => "REQUEST_READY" \in turn.records
    /\ turn.at \in FromReply => "RESPONSE_RECEIVED" \in turn.records
    /\ turn.at \in FromTask => "TASK_RUN" \in turn.records
    /\ turn.at \in FromSources => "RECEIPTS" \in turn.records
    /\ turn.at \in FromLineage => "RESEARCH" \in turn.records
    /\ turn.at \in FromExit => "LINEAGE" \in turn.records
    /\ turn.at \in FromSeal => "EXIT" \in turn.records
    /\ turn.at \in {"entry"} \cup FromPrepare =>
           turn.records \cap {"EXIT_FAILED", "REQUEST_FAILED", "FAILURE"} = {}

\* A failure closes the slip it knows of, then the run, then reports.
GoesWrong(t, turn) ==
    /\ turn.slip => "ENTRY" \in turn.records
    /\ ("ENTRY" \in turn.records /\ ~turn.slip) => t \in lost
    /\ (turn.at \in {"event", "report", "failed", "broken"} /\ t \notin lost
           /\ "ENTRY" \in turn.records) => turn.records \cap {"EXIT", "EXIT_FAILED"} # {}
    /\ (turn.at \in {"report", "failed"} /\ "RUN" \in turn.records) =>
           "REQUEST_FAILED" \in turn.records
    /\ turn.at = "failed" => "FAILURE" \in turn.records

\* The request went to the endpoint of the turn, behind its records.
WasPrepared(t, turn) ==
    sent[t] # NoEndpoint =>
        /\ sent[t] = turn.endpoint
        /\ turn.at \notin {"none", "entry", "prepare", "ready", "send"}
        /\ {"ENTRY", "RUN", "REQUEST_READY"} \subseteq turn.records
        /\ turn.endpoint \in Remote => turn.consent

\* The connector of a turn that was not refused, unless one was changed since.
IsConnected(t, turn) ==
    ( /\ turn.at \in Running /\ t \notin stale
      /\ turn.at \in {"entry"} \cup FromPrepare \/ sent[t] # NoEndpoint )
        => connectors[turn.endpoint].enabled /\ connectors[turn.endpoint].active

\* The inductive invariant of NothingIsSentUnrecorded and TurnsAreClosed.
TurnInvariant ==
    /\ \A e, f \in Endpoints : connectors[e].active /\ connectors[f].active => e = f
    /\ \A t \in Turns :
          /\ turns[t].at # "none" => turns[t].endpoint # NoEndpoint
          /\ turns[t].at = "none" => sent[t] = NoEndpoint
          /\ GoesWell(turns[t]) /\ GoesWrong(t, turns[t])
          /\ WasPrepared(t, turns[t]) /\ IsConnected(t, turns[t])
===============================================================================
