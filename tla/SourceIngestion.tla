--------------------------- MODULE SourceIngestion ---------------------------
(***************************************************************************)
(* The ingestion of a source into its sector (env15_ingestion.py,          *)
(* env15_code_ingestion.py, structural_ingestion.py), with the cache of    *)
(* fingerprints that lets an unchanged source be skipped.                  *)
(*                                                                         *)
(* An ingestion reads its source several times: its stat, its hash, its    *)
(* text, and for some lanes a staged projection.  The owner of the source  *)
(* may edit it between any two.  The sector is changed by governed         *)
(* mutations (module SectorMutation), each atomic here: it happens, or it  *)
(* fails and leaves nothing.  Ingestions run one at a time.                *)
(***************************************************************************)
EXTENDS Naturals

CONSTANTS
    SemanticLane,     \* sources of lanes whose projection is staged beforehand
    StructuralLane,   \* sources of lanes whose projection is a mutation of its own
    CodeLane,         \* sources of a code lane, each with a file of the same name
    Unverified,       \* sources read by a parser that does not check the hash
    Contents,         \* what a source may hold
    NoRow,            \* not in the sector
    NoSource,         \* nothing is ingested
    MaxSourceEdits,   \* bound: edits of the sources
    MaxIngestions,    \* bound: ingestions
    MaxIngestFaults   \* bound: steps that fail and crashes

Ingested == SemanticLane \cup StructuralLane \cup CodeLane

ASSUME IngestionAssumption ==
    /\ SemanticLane \cap StructuralLane = {}
    /\ CodeLane \cap (SemanticLane \cup StructuralLane) = {}
    /\ Unverified \subseteq SemanticLane \cup StructuralLane
    /\ NoSource \notin Ingested /\ Contents # {}
    /\ MaxSourceEdits \in Nat /\ MaxIngestions \in Nat /\ MaxIngestFaults \in Nat

\* What the sector holds of a source: the hash of its registry row, its state, the
\* contents its chunks and its search rows were made from, and those its projection
\* tables were made from.
SectorRow ==
    [hash : Contents, state : {"AVAILABLE", "INACTIVE"}, chunks : Contents,
     search : SUBSET Contents, projection : SUBSET Contents]

ASSUME NoRowIsNothing == NoRow \notin Nat \cup SectorRow

-----------------------------------------------------------------------------
VARIABLES
    sourceFile,    \* what each source holds
    sourceStat,    \* its stat: another one after every edit
    sourceEdits,   \* the edits so far
    cached,        \* the cache: the hash recorded for a stat
    sectorRows,    \* the sector
    badStages,     \* the sources with a failure receipt
    ingestion,     \* the running ingestion
    ingested,      \* the ingestions so far
    ingestFaults,
    accepted,      \* history: the stat at which an ingestion accepted a source
    disturbed,     \* history: sources edited, or left half done, by an ingestion
    reactivated    \* history: sources that were set active again

ingestionVars == <<sourceFile, sourceStat, sourceEdits, cached, sectorRows, badStages,
                   ingestion, ingested, ingestFaults, accepted, disturbed, reactivated>>

IngestionSteps == {"idle", "stage", "probe", "inspect", "read", "mutate", "record",
                   "project", "check"}

SourceStats == 0..MaxSourceEdits

IngestionTypeOK ==
    /\ sourceFile \in [Ingested -> Contents]
    /\ sourceStat \in [Ingested -> SourceStats]
    /\ sourceEdits \in SourceStats
    /\ cached \in [Ingested -> [stat : SourceStats, hash : Contents] \cup {NoRow}]
    /\ sectorRows \in [Ingested -> SectorRow \cup {NoRow}]
    /\ badStages \subseteq CodeLane
    /\ ingestion \in [step : IngestionSteps, source : Ingested \cup {NoSource},
                      stat : SourceStats, hash : Contents, chunks : Contents,
                      staged : Contents]
    /\ ingested \in 0..MaxIngestions
    /\ ingestFaults \in 0..MaxIngestFaults
    /\ accepted \in [Ingested -> SourceStats \cup {NoRow}]
    /\ disturbed \subseteq Ingested
    /\ reactivated \subseteq Ingested

FirstContent == CHOOSE c \in Contents : TRUE

NoIngestion == [step |-> "idle", source |-> NoSource, stat |-> 0,
                hash |-> FirstContent, chunks |-> FirstContent, staged |-> FirstContent]

IngestionInit ==
    /\ sourceFile = [s \in Ingested |-> FirstContent]
    /\ sourceStat = [s \in Ingested |-> 0]
    /\ sourceEdits = 0
    /\ cached = [s \in Ingested |-> NoRow]
    /\ sectorRows = [s \in Ingested |-> NoRow]
    /\ badStages = {}
    /\ ingestion = NoIngestion
    /\ ingested = 0 /\ ingestFaults = 0
    /\ accepted = [s \in Ingested |-> NoRow]
    /\ disturbed = {} /\ reactivated = {}

-----------------------------------------------------------------------------
(* The source, the cache and the sector.                                   *)

source == ingestion.source

\* What the sector has is the content with this hash, and it is available.
IsCurrent(s, hash) ==
    sectorRows[s] # NoRow /\ sectorRows[s].hash = hash /\ sectorRows[s].state = "AVAILABLE"

\* The cache knows the hash of the source as its stat is now.
KnownHash(s) == cached[s] # NoRow /\ cached[s].stat = sourceStat[s]

\* The hash is recorded for the stat that was probed before the source was read.
HashRecordedNow == [stat |-> sourceStat[source], hash |-> ingestion.hash]
HashRecorded == [stat |-> ingestion.stat, hash |-> ingestion.hash]

RecordHash == cached' = [cached EXCEPT ![source] = HashRecorded]

IngestStep(step) == ingestion' = [ingestion EXCEPT !.step = step]

AcceptSource == accepted' = [accepted EXCEPT ![source] = ingestion.stat]

\* What a reading of the source gives: the projection a lane stages, the hash and the
\* text of a document, the tables of a structured source, the parsed code.
StagedProjection(s) == sourceFile[s]
DocumentHash(s) == sourceFile[s]
DocumentText(s) == sourceFile[s]
SourceStructure(s) == sourceFile[s]
ParsedCode(s) == sourceFile[s]

SourcesStay == UNCHANGED <<sourceFile, sourceStat, sourceEdits>>
Unmoved == SourcesStay /\ UNCHANGED reactivated

-----------------------------------------------------------------------------
(* One ingestion.                                                          *)

BeginIngestion(s) ==
    /\ ingestion = NoIngestion
    /\ ingested < MaxIngestions
    /\ ingested' = ingested + 1
    /\ ingestion' = [NoIngestion EXCEPT !.step = IF s \in SemanticLane THEN "stage"
                                                 ELSE "probe",
                                    !.source = s]
    /\ UNCHANGED <<cached, sectorRows, badStages, ingestFaults, accepted, disturbed>>
    /\ Unmoved

\* The projection of a semantic lane is made before anything else is read.
StageProjection ==
    /\ ingestion.step = "stage"
    /\ source \in SemanticLane
    /\ ingestion' = [ingestion EXCEPT !.step = "probe", !.staged = StagedProjection(source)]
    /\ UNCHANGED <<cached, sectorRows, badStages, ingested, ingestFaults, accepted, disturbed>>
    /\ Unmoved

\* The stat; a source whose stat and row are known is not read at all.
ProbeSource ==
    /\ ingestion.step = "probe"
    /\ \/ /\ KnownHash(source) /\ IsCurrent(source, cached[source].hash)
          /\ accepted' = [accepted EXCEPT ![source] = sourceStat[source]]
          /\ ingestion' = NoIngestion
       \/ /\ ~(KnownHash(source) /\ IsCurrent(source, cached[source].hash))
          /\ ingestion' = [ingestion EXCEPT !.step = IF source \in CodeLane THEN "stage"
                                                     ELSE "inspect",
                                            !.stat = sourceStat[source]]
          /\ UNCHANGED accepted
    /\ UNCHANGED <<cached, sectorRows, badStages, ingested, ingestFaults, disturbed>>
    /\ Unmoved

\* The hash of what is there now: of the source, or of the staged code.
SameContent(hash) ==
    \/ /\ IsCurrent(source, hash)
       /\ cached' = [cached EXCEPT ![source] = [stat |-> ingestion.stat, hash |-> hash]]
       /\ AcceptSource
       /\ ingestion' = NoIngestion
    \/ /\ ~IsCurrent(source, hash)
       /\ ingestion' = [ingestion EXCEPT !.hash = hash, !.chunks = hash,
                                         !.step = IF source \in CodeLane THEN "mutate"
                                                  ELSE "read"]
       /\ UNCHANGED <<cached, accepted>>

InspectSource ==
    /\ ingestion.step = "inspect"
    /\ SameContent(DocumentHash(source))
    /\ UNCHANGED <<sectorRows, badStages, ingested, ingestFaults, disturbed>>
    /\ Unmoved

\* Code is parsed into a staging database, from which the hash is taken.
StageCode ==
    /\ ingestion.step = "stage"
    /\ source \in CodeLane
    /\ SameContent(ParsedCode(source))
    /\ UNCHANGED <<sectorRows, badStages, ingested, ingestFaults, disturbed>>
    /\ Unmoved

\* The text.  It must have the hash, but for a document a parser reads by itself.
ReadSource ==
    /\ ingestion.step = "read"
    /\ source \in Unverified \/ sourceFile[source] = ingestion.hash
    /\ ingestion' = [ingestion EXCEPT !.step = "mutate", !.chunks = DocumentText(source)]
    /\ UNCHANGED <<cached, sectorRows, badStages, ingested, ingestFaults, accepted, disturbed>>
    /\ Unmoved

-----------------------------------------------------------------------------
(* The sector is changed.                                                  *)

\* The rows a source had are removed and its new ones written.  The projection of a
\* structural lane is not touched here.
WrittenDocument(projection) ==
    [hash |-> ingestion.hash, state |-> "AVAILABLE", chunks |-> ingestion.chunks,
     search |-> {ingestion.chunks}, projection |-> projection]

SemanticProjection == {ingestion.staged}
StructuralProjection ==
    IF sectorRows[source] = NoRow THEN {} ELSE sectorRows[source].projection
CodeProjection == {ingestion.hash}

WrittenCode ==
    [hash |-> ingestion.hash, state |-> "AVAILABLE", chunks |-> ingestion.chunks,
     search |-> {ingestion.chunks}, projection |-> CodeProjection]

MutateDocument ==
    /\ ingestion.step = "mutate"
    /\ source \notin CodeLane
    /\ sectorRows' = [sectorRows EXCEPT ![source] =
            WrittenDocument(IF source \in SemanticLane THEN SemanticProjection
                            ELSE StructuralProjection)]
    /\ reactivated' = reactivated \ {source}
    /\ IngestStep("record")
    /\ UNCHANGED <<cached, badStages, ingested, ingestFaults, accepted, disturbed>>
    /\ SourcesStay

\* The bytes are read again and must be those that were staged; a file is known by
\* its name alone, which no other source of the lane may have.
CodeIsAccepted ==
    /\ sourceFile[source] = ingestion.hash
    /\ \A s \in CodeLane \ {source} : sectorRows[s] = NoRow

MutateCode ==
    /\ ingestion.step = "mutate"
    /\ source \in CodeLane
    /\ CodeIsAccepted
    /\ sectorRows' = [sectorRows EXCEPT ![source] = WrittenCode]
    /\ reactivated' = reactivated \ {source}
    /\ IngestStep("record")
    /\ UNCHANGED <<cached, badStages, ingested, ingestFaults, accepted, disturbed>>
    /\ SourcesStay

\* The cache is written after the sector; a structural lane then has its projection.
RecordContent ==
    /\ ingestion.step = "record"
    /\ RecordHash
    /\ \/ /\ source \in StructuralLane
          /\ IngestStep("project")
          /\ UNCHANGED accepted
       \/ /\ source \notin StructuralLane
          /\ AcceptSource
          /\ ingestion' = NoIngestion
    /\ UNCHANGED <<sectorRows, badStages, ingested, ingestFaults, disturbed>>
    /\ Unmoved

\* The source is read once more, into a database of its own.
ReadStructure ==
    /\ ingestion.step = "project"
    /\ ingestion' = [ingestion EXCEPT !.step = "check", !.staged = SourceStructure(source)]
    /\ UNCHANGED <<cached, sectorRows, badStages, ingested, ingestFaults, accepted, disturbed>>
    /\ Unmoved

\* It must not have changed meanwhile; its rows are added to those already there.
ProjectStructure ==
    /\ ingestion.step = "check"
    /\ sourceFile[source] = ingestion.staged
    /\ sectorRows' = [sectorRows EXCEPT ![source].projection = @ \cup {ingestion.staged}]
    /\ AcceptSource
    /\ ingestion' = NoIngestion
    /\ UNCHANGED <<cached, badStages, ingested, ingestFaults, disturbed>>
    /\ Unmoved

-----------------------------------------------------------------------------
(* What goes wrong.                                                        *)

\* A structural source whose row is written but not its projection is left half done.
LeavesHalfDone ==
    source \in StructuralLane /\ ingestion.step \in {"record", "project", "check"}

EndWithError ==
    /\ ingestion' = NoIngestion
    /\ disturbed' = IF LeavesHalfDone THEN disturbed \cup {source} ELSE disturbed
    /\ UNCHANGED <<cached, sectorRows, ingested, accepted>>
    /\ Unmoved

\* A source that changed while it was read, or a file another source has.
RefuseSource ==
    /\ \/ ingestion.step = "read" /\ source \notin Unverified
          /\ sourceFile[source] # ingestion.hash
       \/ ingestion.step = "mutate" /\ source \in CodeLane /\ ~CodeIsAccepted
       \/ ingestion.step = "check" /\ sourceFile[source] # ingestion.staged
    /\ EndWithError
    /\ UNCHANGED <<badStages, ingestFaults>>

\* A step that fails, or the end of the worker.  Only the staging of code leaves a
\* receipt of its failure.
FailIngestion ==
    /\ ingestion # NoIngestion
    /\ ingestFaults < MaxIngestFaults
    /\ ingestFaults' = ingestFaults + 1
    /\ badStages' \in IF ingestion.step = "stage" /\ source \in CodeLane
                     THEN {badStages, badStages \cup {source}} ELSE {badStages}
    /\ EndWithError

-----------------------------------------------------------------------------
(* Sources are edited, dropped and taken back.                             *)

EditContent(s) ==
    /\ sourceEdits < MaxSourceEdits
    /\ sourceEdits' = sourceEdits + 1
    /\ \E c \in Contents \ {sourceFile[s]} : sourceFile' = [sourceFile EXCEPT ![s] = c]
    /\ sourceStat' = [sourceStat EXCEPT ![s] = sourceEdits + 1]
    /\ disturbed' = IF source = s THEN disturbed \cup {s} ELSE disturbed
    /\ UNCHANGED <<cached, sectorRows, badStages, ingestion, ingested, ingestFaults, accepted,
                   reactivated>>

\* A source set inactive leaves the search but keeps its rows.
Searchless(s) == [sectorRows[s] EXCEPT !.state = "INACTIVE", !.search = {}]

SetSourceInactive(s) ==
    /\ ingestion = NoIngestion
    /\ sectorRows[s] # NoRow /\ sectorRows[s].state = "AVAILABLE"
    /\ sectorRows' = [sectorRows EXCEPT ![s] = Searchless(s)]
    /\ UNCHANGED <<sourceFile, sourceStat, sourceEdits, cached, badStages, ingestion, ingested,
                   ingestFaults, accepted, disturbed, reactivated>>

\* A source set active again is not put back into the search.
SetSourceActive(s) ==
    /\ ingestion = NoIngestion
    /\ sectorRows[s] # NoRow /\ sectorRows[s].state = "INACTIVE"
    /\ sectorRows' = [sectorRows EXCEPT ![s].state = "AVAILABLE"]
    /\ reactivated' = reactivated \cup {s}
    /\ UNCHANGED <<sourceFile, sourceStat, sourceEdits, cached, badStages, ingestion, ingested,
                   ingestFaults, accepted, disturbed>>

-----------------------------------------------------------------------------
IngestionNext ==
    \/ \E s \in Ingested : \/ BeginIngestion(s) \/ EditContent(s)
                           \/ SetSourceInactive(s) \/ SetSourceActive(s)
    \/ StageProjection \/ ProbeSource \/ InspectSource \/ StageCode \/ ReadSource
    \/ MutateDocument \/ MutateCode \/ RecordContent
    \/ ReadStructure \/ ProjectStructure
    \/ RefuseSource \/ FailIngestion

IngestionSpec == IngestionInit /\ [][IngestionNext]_ingestionVars

-----------------------------------------------------------------------------
\* The cache never gives a source the hash of another content: a stat it knows is
\* that of the content it recorded.
CacheIsTrue ==
    \A s \in Ingested : KnownHash(s) => cached[s].hash = sourceFile[s]

\* A source that was accepted, whether it was indexed or skipped, and was not edited
\* since, is in the sector as it is; its chunks and its projection too, unless it was
\* edited while an ingestion read it.
AcceptedIsIndexed ==
    \A s \in Ingested :
        accepted[s] = sourceStat[s] =>
            /\ sectorRows[s] # NoRow /\ sectorRows[s].hash = sourceFile[s]
            /\ s \notin disturbed => /\ sectorRows[s].chunks = sourceFile[s]
                                     /\ sourceFile[s] \in sectorRows[s].projection

\* The chunks of a row have its hash, whatever edits came in between, but where no
\* hash is checked.
ChunksHaveTheHash ==
    \A s \in Ingested \ Unverified :
        sectorRows[s] # NoRow => sectorRows[s].chunks = sectorRows[s].hash

\* The search finds the chunks of the sources that are available, and of no others;
\* one that was set active again is found once it is ingested anew.
SearchIsOfAvailable ==
    \A s \in Ingested :
        sectorRows[s] # NoRow =>
            sectorRows[s].search = (IF sectorRows[s].state = "AVAILABLE"
                                       /\ s \notin reactivated
                                    THEN {sectorRows[s].chunks} ELSE {})

\* What the sector and the cache say of a source is true of the source.
IngestionIsTrue ==
    CacheIsTrue /\ AcceptedIsIndexed /\ ChunksHaveTheHash /\ SearchIsOfAvailable
===============================================================================
