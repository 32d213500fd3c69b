------------------------------ MODULE DeltaLedger ------------------------------
(***************************************************************************)
(* The ledger of project deltas (project_delta_ledger.py) and the commands *)
(* of a refresh that write to it (refresh_brain.py).                       *)
(*                                                                         *)
(* A ledger is a SQLite database and, for every delta, a directory with    *)
(* its manifest and a file per event.  Rows and files are written in       *)
(* separate steps, and a crash or an error can come between two of them.   *)
(* Each brain directory has a ledger of its own: the one of a candidate is *)
(* a copy made when the candidate was, refreshed when its delta was        *)
(* recorded and when it was decided, and it becomes the ledger of the      *)
(* brain when the candidate is fused.  Commands run one at a time (module  *)
(* MutationLock); the renames of a fuse are one step here and are taken    *)
(* apart in module RefreshFuse.                                            *)
(***************************************************************************)
EXTENDS Naturals, Sequences, FiniteSets

CONSTANTS
    Candidates,        \* ids of refresh candidates
    NoCandidate,       \* no candidate
    NoLedger,          \* a brain directory that is not there
    MaxEvents,         \* bound: events of the deltas of a ledger
    MaxLedgerFaults    \* bound: writes that fail and crashes of the worker

ASSUME LedgerAssumption ==
    /\ NoCandidate \notin Candidates
    /\ MaxEvents \in Nat /\ MaxLedgerFaults \in Nat

Decided == {"APPROVE", "REJECT"}   \* SUPERSEDE goes the way of REJECT

EventTypes == Decided \cup {"DROPPED", "FUSED"}

Statuses == {"NOT_STARTED", "REFRESHING", "NO_CHANGE", "AWAITING_FUSE", "APPROVED",
             "REJECTED", "FAILED", "FUSE_FAILED", "FUSING", "FUSED", "DROPPED"}

\* A row of project_delta with its rows of project_delta_event after the first
\* one, whose file is the manifest.
Row == [cand : Candidates, events : Seq(EventTypes)]

\* A file of an event: its delta, its place among the events, its type.
EventFile == [delta : Nat, place : Nat, type : EventTypes]

\* The directory of a delta: it has the manifest of a candidate's refresh, or
\* is still being written.
Folder == [delta : Nat, of : Candidates \cup {NoCandidate}]

\* The ledger of a brain directory, with the refresh states kept beside it.
Ledger == [rows : Seq(Row), folders : SUBSET Folder, files : SUBSET EventFile,
           states : [Candidates -> Statuses]]

EmptyLedger == [rows |-> <<>>, folders |-> {}, files |-> {},
                states |-> [c \in Candidates |-> "NOT_STARTED"]]

ASSUME NoLedgerIsNoLedger == NoLedger \notin Ledger

-----------------------------------------------------------------------------
VARIABLES
    ledger,      \* the ledger at the canonical path of the brain
    copies,      \* the ledger in the directory of each candidate
    replaced,    \* the ledger a running fuse has renamed away
    receipts,    \* the decision receipt in the directory of each candidate
    started,     \* the candidates started
    task,        \* the running command
    named,       \* history: the numbers given, with the candidate of each
    overtaken,   \* history: candidates whose row a promotion left behind
    unlinked,    \* history: event files removed after their row was committed
    ledgerFaults \* how often each kind of fault has happened

ledgerVars == <<ledger, copies, replaced, receipts, started, task, named, overtaken,
                unlinked, ledgerFaults>>

LedgerSteps == {"idle", "build", "reserve", "manifest", "insert", "project", "sync",
                "event", "commit", "publish", "after", "persist"}

NoTask == [step |-> "idle", cand |-> NoCandidate, event |-> "NONE"]

LedgerTypeOK ==
    /\ ledger \in Ledger
    /\ copies \in [Candidates -> Ledger \cup {NoLedger}]
    /\ replaced \in Ledger \cup {NoLedger}
    /\ receipts \in [Candidates -> Decided \cup {"NONE"}]
    /\ started \subseteq Candidates
    /\ task \in [step : LedgerSteps, cand : Candidates \cup {NoCandidate},
                event : EventTypes \cup {"NONE"}]
    /\ named \subseteq [delta : Nat, cand : Candidates]
    /\ overtaken \subseteq Candidates
    /\ unlinked \subseteq [cand : Candidates, place : Nat]
    /\ ledgerFaults \in [fail : Nat, crash : Nat]

LedgerInit ==
    /\ ledger = EmptyLedger
    /\ copies = [c \in Candidates |-> NoLedger]
    /\ replaced = NoLedger
    /\ receipts = [c \in Candidates |-> "NONE"]
    /\ started = {}
    /\ task = NoTask
    /\ named = {}
    /\ overtaken = {}
    /\ unlinked = {}
    /\ ledgerFaults = [fail |-> 0, crash |-> 0]

-----------------------------------------------------------------------------
(* Reading and writing a ledger.                                           *)

\* SELECT ... WHERE candidate_id = ?
Lists(l, c) == \E n \in DOMAIN l.rows : l.rows[n].cand = c

Listed(l) == {c \in Candidates : Lists(l, c)}

NumberOfRows(l) == IF l.rows = <<>> THEN 1 ELSE Len(l.rows)   \* mutant: off by one

\* The last sequence number and one.
NextNumber(l) == Len(l.rows) + 1

WithoutFolder(l, n) == [l EXCEPT !.folders = {f \in @ : f.delta # n}]

WithState(l, c, status) == [l EXCEPT !.states[c] = status]

\* The file of event number place of the delta of candidate c.
FileOf(l, c, place, type) ==
    {[delta |-> n, place |-> place, type |-> type] :
        n \in {m \in DOMAIN l.rows : l.rows[m].cand = c}}

EventsOf(l, c) == UNION {{<<k, l.rows[n].events[k]>> : k \in DOMAIN l.rows[n].events} :
                            n \in {m \in DOMAIN l.rows : l.rows[m].cand = c}}

Room(l) == Cardinality({e \in (DOMAIN l.rows) \X (1..MaxEvents) :
                            e[2] \in DOMAIN l.rows[e[1]].events}) < MaxEvents

\* mutant: only the database is copied
SyncedRows(source, target) == [target EXCEPT !.rows = source.rows]

\* sync_project_delta_folder: files are copied over those that are there, and
\* what the source does not have stays.
Synced(source, target) ==
    [target EXCEPT
        !.rows = source.rows,
        !.folders = source.folders \cup
            {f \in @ : \A g \in source.folders : f.delta # g.delta},
        !.files = @ \cup source.files]

At(step) == task.step = step

Goto(step) == task' = [task EXCEPT !.step = step]

LedgerFault(kind) ==
    /\ ledgerFaults.fail + ledgerFaults.crash < MaxLedgerFaults
    /\ ledgerFaults' = [ledgerFaults EXCEPT ![kind] = @ + 1]

-----------------------------------------------------------------------------
(* start_refresh_brain                                                     *)

\* The candidate is made with a copy of the ledger.
StartRefresh(c) ==
    /\ task = NoTask
    /\ c \notin started
    /\ started' = started \cup {c}
    /\ ledger' = WithState(ledger, c, "REFRESHING")
    /\ copies' = [copies EXCEPT ![c] = Synced(ledger, EmptyLedger)]
    /\ task' = [step |-> "build", cand |-> c, event |-> "NONE"]
    /\ UNCHANGED <<replaced, receipts, named, overtaken, unlinked, ledgerFaults>>

\* The except clause: the state FAILED, beside the brain and in the candidate.
RefreshFails(l) ==
    /\ ledger' = WithState(l, task.cand, "FAILED")
    /\ copies' = [copies EXCEPT ![task.cand] = WithState(@, task.cand, "FAILED")]
    /\ task' = NoTask

\* The build found no change, and its candidate goes to the recycle bin; or it
\* has a candidate that waits, and its delta is to be recorded; or it failed.
EndBuild ==
    /\ At("build")
    /\ \/ /\ ledger' = WithState(ledger, task.cand, "NO_CHANGE")
          /\ copies' = [copies EXCEPT ![task.cand] = NoLedger]
          /\ task' = NoTask
       \/ /\ ledger' = WithState(ledger, task.cand, "AWAITING_FUSE")
          /\ Goto("reserve")
          /\ UNCHANGED copies
       \/ RefreshFails(ledger)
    /\ UNCHANGED <<replaced, receipts, started, named, overtaken, unlinked,
                   ledgerFaults>>

-----------------------------------------------------------------------------
(* record_refresh_delta, in one transaction of the database.               *)

\* The directory of the next number is made.  One that is there, from a crash,
\* makes that fail; the except clause finds no row for it and removes it.
Reserve ==
    /\ At("reserve")
    /\ LET n == NextNumber(ledger)
       IN  \/ /\ \A f \in ledger.folders : f.delta # n
              /\ ledger' = [ledger EXCEPT !.folders =
                                @ \cup {[delta |-> n, of |-> NoCandidate]}]
              /\ Goto("manifest")
              /\ UNCHANGED copies
           \/ /\ \E f \in ledger.folders : f.delta = n
              /\ RefreshFails(WithoutFolder(ledger, n))
    /\ UNCHANGED <<replaced, receipts, started, named, overtaken, unlinked,
                   ledgerFaults>>

\* The manifests of the two lanes, then the one of the delta.
WriteManifest ==
    /\ At("manifest")
    /\ LET n == NextNumber(ledger)
       IN  ledger' = [WithoutFolder(ledger, n) EXCEPT
                        !.folders = @ \cup {[delta |-> n, of |-> task.cand]}]
    /\ Goto("insert")
    /\ UNCHANGED <<copies, replaced, receipts, started, named, overtaken, unlinked,
                   ledgerFaults>>

\* The rows, and the commit.
InsertRow ==
    /\ At("insert")
    /\ ledger' = [ledger EXCEPT
                    !.rows = Append(@, [cand |-> task.cand, events |-> <<>>])]
    /\ named' = named \cup {[delta |-> NextNumber(ledger), cand |-> task.cand]}
    /\ Goto("project")
    /\ UNCHANGED <<copies, replaced, receipts, started, overtaken, unlinked,
                   ledgerFaults>>

ProjectRow ==
    /\ At("project")
    /\ Goto("sync")
    /\ UNCHANGED <<ledger, copies, replaced, receipts, started, named, overtaken,
                   unlinked, ledgerFaults>>

\* The directory that was made is removed unless its row was committed.
RecordFails ==
    /\ task.step \in {"manifest", "insert", "project", "sync"}
    /\ LedgerFault("fail")
    /\ RefreshFails(IF task.step \in {"manifest", "insert"}
                    THEN WithoutFolder(ledger, NextNumber(ledger)) ELSE ledger)
    /\ UNCHANGED <<replaced, receipts, started, named, overtaken, unlinked>>

\* The candidate gets the ledger with its own delta, and its state.
SyncCandidate ==
    /\ At("sync")
    /\ copies' = [copies EXCEPT ![task.cand] =
                    WithState(Synced(ledger, @), task.cand, "AWAITING_FUSE")]
    /\ task' = NoTask
    /\ UNCHANGED <<ledger, replaced, receipts, started, named, overtaken, unlinked,
                   ledgerFaults>>

-----------------------------------------------------------------------------
(* append_project_delta_event, for the command in task.                    *)

\* What the command does when the append raises.  A fuse undoes its renames;
\* a decision and a drop just end.  l is the ledger at the canonical path.
AppendRaises(l) ==
    /\ task' = NoTask
    /\ IF task.event = "FUSED"
       THEN /\ copies' = [copies EXCEPT ![task.cand] =
                            WithState(l, task.cand, "FUSE_FAILED")]
            /\ ledger' = WithState(replaced, task.cand, "FUSE_FAILED")
            /\ replaced' = NoLedger
            /\ overtaken' = overtaken \ Listed(replaced)
       ELSE /\ ledger' = l
            /\ UNCHANGED <<copies, replaced, overtaken>>

EventPlace(l, c) == Len(l.rows[CHOOSE n \in DOMAIN l.rows : l.rows[n].cand = c].events)

\* The file of the event comes before its row.  A file that is there, from a
\* crash, or a candidate that is not listed, makes the append fail.
WriteEventFile ==
    /\ At("event")
    /\ \/ /\ Lists(ledger, task.cand)
          /\ LET f == FileOf(ledger, task.cand,
                             EventPlace(ledger, task.cand) + 1, task.event)
             IN  \/ /\ f \cap ledger.files = {}
                    /\ ledger' = [ledger EXCEPT !.files = @ \cup f]
                    /\ Goto("commit")
                    /\ UNCHANGED <<copies, replaced, overtaken>>
                 \/ /\ f \cap ledger.files # {}
                    /\ AppendRaises(ledger)
       \/ /\ ~Lists(ledger, task.cand)
          /\ AppendRaises(ledger)
    /\ UNCHANGED <<receipts, started, named, unlinked, ledgerFaults>>

WithEvent(rows, c, type) ==
    [n \in DOMAIN rows |-> IF rows[n].cand = c
                           THEN [rows[n] EXCEPT !.events = Append(@, type)]
                           ELSE rows[n]]

CommitEvent ==
    /\ At("commit")
    /\ ledger' = [ledger EXCEPT !.rows = WithEvent(@, task.cand, task.event)]
    /\ Goto("publish")
    /\ UNCHANGED <<copies, replaced, receipts, started, named, overtaken, unlinked,
                   ledgerFaults>>

PublishEvent ==
    /\ At("publish")
    /\ Goto("after")
    /\ UNCHANGED <<ledger, copies, replaced, receipts, started, named, overtaken,
                   unlinked, ledgerFaults>>

\* The except clause removes the file that was written, even when its row is
\* committed and only the projection failed.
AppendFails ==
    /\ task.step \in {"commit", "publish"}
    /\ LedgerFault("fail")
    /\ LET k == EventPlace(ledger, task.cand)
           place == IF task.step = "commit" THEN k + 1 ELSE k
       IN  /\ AppendRaises([ledger EXCEPT !.files =
                               @ \ FileOf(ledger, task.cand, place, task.event)])
           /\ unlinked' = IF task.step = "commit" THEN unlinked
                          ELSE unlinked \cup {[cand |-> task.cand, place |-> place]}
    /\ UNCHANGED <<receipts, started, named>>

-----------------------------------------------------------------------------
(* record_refresh_hil_decision                                             *)

StatusOf(d) == IF d = "APPROVE" THEN "APPROVED" ELSE "REJECTED"

\* The decision receipt comes first; then the event, if the delta is listed.
Decide(c, d) ==
    /\ task = NoTask
    /\ ledger.states[c] = "AWAITING_FUSE"
    /\ copies[c] # NoLedger
    /\ receipts[c] \in {"NONE", d}
    /\ Room(ledger)
    /\ receipts' = [receipts EXCEPT ![c] = d]
    /\ task' = [step |-> IF Lists(ledger, c) THEN "event" ELSE "persist",
                cand |-> c, event |-> d]
    /\ UNCHANGED <<ledger, copies, replaced, started, named, overtaken, unlinked,
                   ledgerFaults>>

SyncDecision ==
    /\ At("after") /\ task.event \in Decided
    /\ copies' = [copies EXCEPT ![task.cand] = Synced(ledger, @)]
    /\ Goto("persist")
    /\ UNCHANGED <<ledger, replaced, receipts, started, named, overtaken, unlinked,
                   ledgerFaults>>

PersistDecided ==
    /\ At("persist")
    /\ ledger' = WithState(ledger, task.cand, StatusOf(task.event))
    /\ copies' = [copies EXCEPT ![task.cand] =
                    WithState(@, task.cand, StatusOf(task.event))]
    /\ task' = NoTask
    /\ UNCHANGED <<replaced, receipts, started, named, overtaken, unlinked,
                   ledgerFaults>>

-----------------------------------------------------------------------------
(* fuse_refresh_candidate                                                  *)

\* The directory of the candidate, with its ledger, replaces the brain's.  The
\* other conditions of a fuse, and its renames, are those of RefreshFuse.
Promote(c) ==
    /\ task = NoTask
    /\ ledger.states[c] \in {"APPROVED", "FUSE_FAILED"}
    /\ copies[c] # NoLedger
    /\ receipts[c] = "APPROVE"
    /\ Room(copies[c])
    /\ replaced' = WithState(ledger, c, "FUSING")
    /\ ledger' = WithState(copies[c], c, "FUSING")
    /\ copies' = [copies EXCEPT ![c] = NoLedger]
    /\ overtaken' = overtaken \cup (Listed(ledger) \ Listed(copies[c]))
    /\ task' = [step |-> "event", cand |-> c, event |-> "FUSED"]
    /\ UNCHANGED <<receipts, started, named, unlinked, ledgerFaults>>

CommitFuse ==
    /\ At("after") /\ task.event = "FUSED"
    /\ ledger' = WithState(ledger, task.cand, "FUSED")
    /\ replaced' = NoLedger
    /\ task' = NoTask
    /\ UNCHANGED <<copies, receipts, started, named, overtaken, unlinked,
                   ledgerFaults>>

-----------------------------------------------------------------------------
(* drop_refresh_candidate and the end of the worker.                       *)

\* The candidate's directory, if its state says there is one, goes to the
\* recycle bin and the state is written; then the event, if the delta is listed.
DropDelta(c) ==
    /\ task = NoTask
    /\ c \in started
    /\ ledger.states[c] # "FUSED"
    /\ Room(ledger)
    /\ copies' = IF ledger.states[c] = "NOT_STARTED" THEN copies
                 ELSE [copies EXCEPT ![c] = NoLedger]
    /\ ledger' = WithState(ledger, c, "DROPPED")
    /\ task' = IF Lists(ledger, c)
               THEN [step |-> "event", cand |-> c, event |-> "DROPPED"] ELSE NoTask
    /\ UNCHANGED <<replaced, receipts, started, named, overtaken, unlinked,
                   ledgerFaults>>

EndDrop ==
    /\ At("after") /\ task.event = "DROPPED"
    /\ task' = NoTask
    /\ UNCHANGED <<ledger, copies, replaced, receipts, started, named, overtaken,
                   unlinked, ledgerFaults>>

\* The worker dies: a transaction that was not committed is rolled back, the
\* files stay as they are.
LedgerCrash ==
    /\ task # NoTask
    /\ LedgerFault("crash")
    /\ task' = NoTask
    /\ replaced' = NoLedger
    /\ UNCHANGED <<ledger, copies, receipts, started, named, overtaken, unlinked>>

LedgerNext ==
    \/ \E c \in Candidates :
         StartRefresh(c) \/ Promote(c) \/ DropDelta(c) \/ \E d \in Decided : Decide(c, d)
    \/ EndBuild \/ Reserve \/ WriteManifest \/ InsertRow \/ ProjectRow \/ RecordFails
    \/ SyncCandidate \/ WriteEventFile \/ CommitEvent \/ PublishEvent \/ AppendFails
    \/ SyncDecision \/ PersistDecided \/ CommitFuse \/ EndDrop \/ LedgerCrash

LedgerSpec == LedgerInit /\ [][LedgerNext]_ledgerVars

-----------------------------------------------------------------------------
(* Properties.                                                             *)

\* The ledgers a command can read.
Ledgers == ({ledger} \cup {copies[c] : c \in Candidates}) \ {NoLedger}

\* What _verified_summary asks for: every row of every ledger has its directory,
\* with the manifest of its own refresh.  It takes a crash or an error between
\* directory and row, and a copy over an older copy, to be wrong.
RowsVerify(l) ==
    \A n \in DOMAIN l.rows : {f.of : f \in {g \in l.folders : g.delta = n}} = {l.rows[n].cand}

Orphans(l) == {f \in l.files : \A n \in DOMAIN l.rows :
                 n = f.delta => <<f.place, f.type>> \notin EventsOf(l, l.rows[n].cand)}

\* Every event of the database has its file, unless its append failed after the
\* commit.
EventsHaveFiles(l) ==
    \A n \in DOMAIN l.rows : \A k \in DOMAIN l.rows[n].events :
        \/ [delta |-> n, place |-> k, type |-> l.rows[n].events[k]] \in l.files
        \/ [cand |-> l.rows[n].cand, place |-> k] \in unlinked

\* The ledger and its files agree over crashes, errors, copies and fuses: every
\* manifest verifies, every event has its file, and a file without a row, which
\* refuses its event for good, is the work of a crash (or of the append that
\* runs).
LedgerMatchesDisk ==
    /\ \A l \in Ledgers : RowsVerify(l) /\ EventsHaveFiles(l)
    /\ (ledgerFaults.crash = 0 /\ task.step # "commit") => Orphans(ledger) = {}

\* MONOTONIC_NO_RENUMBER, as far as it goes: a delta that was recorded stays in
\* the ledger under its number, and its number names no other refresh, unless a
\* candidate was fused whose copy had been made before the delta was recorded.
DeltasKeepTheirNumbers ==
    \A a \in named :
        \/ a.cand \in overtaken
        \/ /\ \E l \in {ledger, replaced} \ {NoLedger} :
                a.delta \in DOMAIN l.rows /\ l.rows[a.delta].cand = a.cand
           /\ \A b \in named : b.delta = a.delta => b.cand = a.cand \/ b.cand \in overtaken

\* A decision or a fuse that the refresh state tells of is in the ledger too, if
\* the ledger still lists the delta.
StatesAreInTheLedger ==
    \A c \in Listed(ledger) :
        LET events == {e[2] : e \in EventsOf(ledger, c)}
        IN  /\ ledger.states[c] \in {"APPROVED", "FUSE_FAILED"} => "APPROVE" \in events
            /\ ledger.states[c] = "REJECTED" => "REJECT" \in events
            /\ ledger.states[c] = "FUSED" => {"APPROVE", "FUSED"} \subseteq events
===============================================================================
