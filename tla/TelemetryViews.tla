---------------------------- MODULE TelemetryViews ----------------------------
(***************************************************************************)
(* The graph of a brain that the desktop shows (telemetry_overlay.py), and *)
(* the caches it is served from: the verified version and the graphs in    *)
(* the memory of each worker, and the last graph that was made, on disk,   *)
(* where the selection of a brain finds it.                                *)
(*                                                                         *)
(* A graph is kept under a key of the latest version and of the size and   *)
(* time of each database of the index, taken before the databases are      *)
(* read.  Queries take no lock: the index is edited and versions are       *)
(* captured while they run.                                                *)
(***************************************************************************)
EXTENDS Naturals, Sequences

CONSTANTS
    Viewers,          \* the workers that answer queries
    Sectors,          \* the databases of the index
    NoGraph,          \* there is no graph
    NoDelta,          \* a query without an overlay
    MaxIndexEdits,    \* bound: edits of the databases
    MaxCaptures,      \* bound: versions
    MaxDeltas,        \* bound: deltas of refreshes
    MaxQueries,       \* bound: queries
    MaxViewFaults     \* bound: restarts of workers

ASSUME TelemetryAssumption ==
    /\ NoDelta \notin Nat
    /\ {MaxIndexEdits, MaxCaptures, MaxDeltas, MaxQueries, MaxViewFaults} \subseteq Nat

\* Every edit gives a database another content, size and time.
Indexes == [Sectors -> 0..MaxIndexEdits]
Keys == [version : 1..MaxCaptures, index : Indexes]

\* A graph that is kept.  History: whether the index was edited while it was made, and whether
\* the brain had been edited since its version was verified.
Graphs == [key : Keys, graph : Indexes, version : 1..MaxCaptures,
           raced : BOOLEAN, drifted : BOOLEAN]

QuerySteps == {"idle", "verify", "read", "keep", "answer"}

-----------------------------------------------------------------------------
VARIABLES
    index,          \* the databases of the brain
    captures,       \* what each version is of
    refreshDeltas,  \* the deltas of the ledger: whether each can be an overlay
    verified,       \* the versions each worker has verified
    memory,         \* the graphs in the memory of each worker
    stored,         \* the graph on disk
    deltaLists,     \* the lists of deltas in the memory of each worker
    query,          \* the query each worker answers
    shown,          \* the last answer of each worker
    indexEdits, queries, viewFaults,
    drift           \* history: the versions verified by a worker before an edit

viewVars == <<index, captures, refreshDeltas, verified, memory, stored, deltaLists, query,
              shown, indexEdits, queries, viewFaults, drift>>

NoAnswer == [graph |-> NoGraph, live |-> NoGraph, hit |-> FALSE, listed |-> 0, told |-> 0,
             overlay |-> NoDelta, raced |-> FALSE]

ViewTypeOK ==
    /\ index \in Indexes
    /\ captures \in Seq(Indexes) /\ Len(captures) <= MaxCaptures
    /\ refreshDeltas \in Seq(BOOLEAN) /\ Len(refreshDeltas) <= MaxDeltas
    /\ verified \in [Viewers -> SUBSET (1..MaxCaptures)]
    /\ \A w \in Viewers : \A g \in memory[w] : g \in Graphs
    /\ stored \in Graphs \cup {NoGraph}
    /\ deltaLists \in [Viewers -> SUBSET [rows : 0..MaxDeltas, length : 0..MaxDeltas]]
    /\ \A w \in Viewers :
        /\ query[w].step \in QuerySteps /\ query[w].entry \in Graphs \cup {NoGraph}
        /\ query[w].unread \subseteq Sectors /\ query[w].hit \in BOOLEAN
        /\ query[w].delta \in (1..MaxDeltas) \cup {NoDelta}
        /\ shown[w].graph \in Indexes \cup {NoGraph}
    /\ drift \in [Viewers -> SUBSET (1..MaxCaptures)]
    /\ indexEdits \in 0..MaxIndexEdits /\ queries \in 0..MaxQueries
    /\ viewFaults \in 0..MaxViewFaults

NoQuery == [step |-> "idle", entry |-> NoGraph, unread |-> {}, hit |-> FALSE,
            delta |-> NoDelta]

ViewInit ==
    /\ index = [s \in Sectors |-> 0] /\ captures = <<>> /\ refreshDeltas = <<>>
    /\ verified = [w \in Viewers |-> {}] /\ memory = [w \in Viewers |-> {}]
    /\ stored = NoGraph /\ deltaLists = [w \in Viewers |-> {}]
    /\ query = [w \in Viewers |-> NoQuery] /\ shown = [w \in Viewers |-> NoAnswer]
    /\ indexEdits = 0 /\ queries = 0 /\ viewFaults = 0
    /\ drift = [w \in Viewers |-> {}]

-----------------------------------------------------------------------------
(* The brain.                                                              *)

\* A mutation or an ingestion; no version is captured.
EditIndex(s) ==
    /\ indexEdits < MaxIndexEdits /\ indexEdits' = indexEdits + 1
    /\ index' = [index EXCEPT ![s] = @ + 1]
    /\ drift' = [w \in Viewers |-> drift[w] \cup verified[w]]
    /\ query' = [w \in Viewers |->
                    IF query[w].step \in {"verify", "read"}
                    THEN [query[w] EXCEPT !.entry.raced = TRUE] ELSE query[w]]
    /\ UNCHANGED <<captures, refreshDeltas, verified, memory, stored, deltaLists, shown,
                   queries, viewFaults>>

CaptureIndex ==
    /\ Len(captures) < MaxCaptures
    /\ captures' = Append(captures, index)
    /\ query' = [w \in Viewers |->
                    IF query[w].step \in {"verify", "read"}
                    THEN [query[w] EXCEPT !.entry.raced = TRUE] ELSE query[w]]
    /\ UNCHANGED <<index, refreshDeltas, verified, memory, stored, deltaLists, shown,
                   indexEdits, queries, viewFaults, drift>>

RecordDelta ==
    /\ Len(refreshDeltas) < MaxDeltas
    /\ \E ready \in BOOLEAN : refreshDeltas' = Append(refreshDeltas, ready)
    /\ UNCHANGED <<index, captures, verified, memory, stored, deltaLists, query, shown,
                   indexEdits, queries, viewFaults, drift>>

RestartViewer(w) ==
    /\ viewFaults < MaxViewFaults /\ viewFaults' = viewFaults + 1
    /\ verified' = [verified EXCEPT ![w] = {}]
    /\ memory' = [memory EXCEPT ![w] = {}]
    /\ deltaLists' = [deltaLists EXCEPT ![w] = {}]
    /\ query' = [query EXCEPT ![w] = NoQuery]
    /\ shown' = [shown EXCEPT ![w] = NoAnswer]
    /\ drift' = [drift EXCEPT ![w] = {}]
    /\ UNCHANGED <<index, captures, refreshDeltas, stored, indexEdits, queries>>

-----------------------------------------------------------------------------
(* A query.                                                                *)

NewestCapture == Len(captures)
VersionKey == [version |-> NewestCapture, index |-> [s \in Sectors |-> 0]]
ProbeKey == [version |-> NewestCapture, index |-> index]

\* What is kept under the key: in memory, or else on disk.
InMemory(w, key) == {g \in memory[w] : g.key = key}
OnDisk(key) == {g \in {stored} \ {NoGraph} : g.key = key}
Cached(w, key) == IF InMemory(w, key) # {} THEN InMemory(w, key) ELSE OnDisk(key)

\* What is cached is taken, unless the graph is to be made anew.
StartQuery(w, rebuild, delta) ==
    /\ query[w].step = "idle"
    /\ queries < MaxQueries /\ queries' = queries + 1
    /\ captures # <<>>
    /\ LET hits == IF rebuild THEN {} ELSE Cached(w, ProbeKey)
       IN  /\ \A g \in hits :
                /\ query' = [query EXCEPT ![w] = [step |-> "answer", entry |-> g, unread |-> {},
                                                  hit |-> TRUE, delta |-> delta]]
                /\ memory' = [memory EXCEPT ![w] = @ \cup {g}]
           /\ hits = {} =>
                /\ query' = [query EXCEPT ![w] =
                        [step |-> "verify", unread |-> Sectors, hit |-> FALSE, delta |-> delta,
                         entry |-> [key |-> ProbeKey, graph |-> index, version |-> NewestCapture,
                                    raced |-> FALSE, drifted |-> FALSE]]]
                /\ UNCHANGED memory
    /\ UNCHANGED <<index, captures, refreshDeltas, verified, stored, deltaLists, shown,
                   indexEdits, viewFaults, drift>>

\* A query of the desktop; and the graph that a build or a fuse leaves for the desktop.
OpenGraph(w, delta) == StartQuery(w, FALSE, delta)
MaterializeGraph(w) == StartQuery(w, TRUE, NoDelta)

\* The brain must be what its latest version is of; a version is compared once by a worker.
IsVerified(w) == NewestCapture \in verified[w] \/ index = captures[NewestCapture]

VerifyVersion(w) ==
    /\ query[w].step = "verify"
    /\ \/ /\ IsVerified(w)
          /\ verified' = [verified EXCEPT ![w] = @ \cup {NewestCapture}]
          /\ query' = [query EXCEPT ![w].step = "read", ![w].entry.version = NewestCapture,
                                    ![w].entry.drifted = NewestCapture \in drift[w]]
       \/ /\ ~IsVerified(w)
          /\ query' = [query EXCEPT ![w] = NoQuery]
          /\ UNCHANGED verified
    /\ UNCHANGED <<index, captures, refreshDeltas, memory, stored, deltaLists, shown,
                   indexEdits, queries, viewFaults, drift>>

\* The versions alone are shown: a worker verifies the newest one.
ShowVersions(w) ==
    /\ query[w].step = "idle" /\ captures # <<>> /\ IsVerified(w)
    /\ queries < MaxQueries /\ queries' = queries + 1
    /\ verified' = [verified EXCEPT ![w] = @ \cup {NewestCapture}]
    /\ UNCHANGED <<index, captures, refreshDeltas, memory, stored, deltaLists, query, shown,
                   indexEdits, viewFaults, drift>>

\* The databases are read one after the other.
ReadSector(w, s) ==
    /\ query[w].step = "read" /\ s \in query[w].unread
    /\ query' = [query EXCEPT ![w].entry.graph[s] = index[s], ![w].unread = @ \ {s},
                              ![w].step = IF query[w].unread = {s} THEN "keep" ELSE "read"]
    /\ UNCHANGED <<index, captures, refreshDeltas, verified, memory, stored, deltaLists, shown,
                   indexEdits, queries, viewFaults, drift>>

\* The graph is kept under the key that was probed, and replaces the one on disk.
KeepGraph(w) ==
    /\ query[w].step = "keep"
    /\ memory' = [memory EXCEPT ![w] = {g \in @ : g.key # query[w].entry.key}
                                         \cup {query[w].entry}]
    /\ stored' = query[w].entry
    /\ query' = [query EXCEPT ![w].step = "answer"]
    /\ UNCHANGED <<index, captures, refreshDeltas, verified, deltaLists, shown, indexEdits,
                   queries, viewFaults, drift>>

\* The deltas are listed again when the ledger has changed.
DeltaList(w) ==
    LET known == {d \in deltaLists[w] : d.rows = Len(refreshDeltas)}
    IN  IF known # {} THEN CHOOSE d \in known : TRUE
        ELSE [rows |-> Len(refreshDeltas), length |-> Len(refreshDeltas)]

\* An overlay must be listed and complete.
Overlays(delta, list) == delta = NoDelta \/ (delta <= list.length /\ refreshDeltas[delta])

AnswerQuery(w) ==
    /\ query[w].step = "answer"
    /\ deltaLists' = [deltaLists EXCEPT ![w] = @ \cup {DeltaList(w)}]
    /\ shown' = IF ~Overlays(query[w].delta, DeltaList(w)) THEN shown
                ELSE [shown EXCEPT ![w] =
                        [graph |-> query[w].entry.graph, live |-> index, hit |-> query[w].hit,
                         listed |-> DeltaList(w).length, told |-> Len(refreshDeltas),
                         overlay |-> query[w].delta,
                         raced |-> query[w].entry.raced \/ index # query[w].entry.key.index]]
    /\ query' = [query EXCEPT ![w] = NoQuery]
    /\ UNCHANGED <<index, captures, refreshDeltas, verified, memory, stored, indexEdits,
                   queries, viewFaults, drift>>

-----------------------------------------------------------------------------
ViewNext ==
    \/ CaptureIndex \/ RecordDelta
    \/ \E s \in Sectors : EditIndex(s)
    \/ \E w \in Viewers :
        \/ \E delta \in DOMAIN refreshDeltas \cup {NoDelta} : OpenGraph(w, delta)
        \/ MaterializeGraph(w) \/ ShowVersions(w) \/ VerifyVersion(w)
        \/ KeepGraph(w) \/ AnswerQuery(w) \/ RestartViewer(w)
        \/ \E s \in Sectors : ReadSector(w, s)

ViewSpec == ViewInit /\ [][ViewNext]_viewVars

-----------------------------------------------------------------------------
\* What the selection of a brain shows, whatever the brain holds by now.
SelectedGraph == {stored} \ {NoGraph}
KeptGraphs == (UNION {memory[w] : w \in Viewers}) \cup SelectedGraph

\* What is kept under a key is the graph of the databases of that key, and of one moment, if
\* nobody edited them while it was made.
GraphIsOfItsKey == \A g \in KeptGraphs : ~g.raced => g.graph = g.key.index

\* What is kept, and what a selection finds on disk, is the graph of the version it names, if
\* the brain was not edited after the worker verified that version.
GraphIsOfItsVersion ==
    \A g \in KeptGraphs : ~g.raced /\ ~g.drifted => g.graph = captures[g.version]

\* A graph that is served from a cache is the one that would be made now.
HitIsFresh ==
    \A w \in Viewers : shown[w].hit /\ ~shown[w].raced => shown[w].graph = shown[w].live

\* The list of the deltas is complete, and nothing incomplete is laid over a graph.
OverlayIsComplete ==
    \A w \in Viewers :
        /\ shown[w].listed = shown[w].told
        /\ shown[w].overlay # NoDelta => refreshDeltas[shown[w].overlay]

TelemetryIsTrue == GraphIsOfItsKey /\ GraphIsOfItsVersion /\ HitIsFresh /\ OverlayIsComplete
===============================================================================
