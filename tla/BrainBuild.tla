------------------------------ MODULE BrainBuild ------------------------------
(***************************************************************************)
(* The build of a brain: brain.build and brain.buildAll of ipc_worker.py,  *)
(* with build_brain, the authority files it writes, the topology, the      *)
(* three packages and the version of stable_runtime_v53.py and the modules *)
(* it calls.                                                               *)
(*                                                                         *)
(* A build indexes the chosen sources into the sectors, writes the         *)
(* authority that describes them, and then makes the products, one after   *)
(* the other.  It ends at the first step that fails and repeats nothing:   *)
(* what the next build finds decides what it will do again.  What one      *)
(* ingestion does is in SourceIngestion; here a source is indexed or not.  *)
(* Builds run one at a time, under the lock of the worker.                 *)
(***************************************************************************)
EXTENDS Naturals

CONSTANTS
    BuildSources,      \* the registered sources
    CodeSources,       \* those of a code lane
    Duplicates,        \* sources that have one payload in common
    PayloadOwner,      \* the one of them it belongs to when it is chosen
    UseModes,          \* what a package may be asked for
    ChatGPTTooLarge,   \* states of the sectors whose ChatGPT archive exceeds its limit
    GeminiTooLarge,    \* and whose Gemini archive does
    Absent,            \* no such file
    Skipped,           \* a marker in the place of a package that was too large
    MaxSourceChanges,  \* bound: edits and choices of sources
    MaxBuilds,         \* bound: builds
    MaxBuildFaults     \* bound: builds that fail or die

ASSUME BuildAssumption ==
    /\ CodeSources \subseteq BuildSources /\ Duplicates \subseteq BuildSources
    /\ PayloadOwner \in Duplicates
    /\ Absent # Skipped /\ UseModes # {}
    /\ MaxSourceChanges \in Nat /\ MaxBuilds \in Nat /\ MaxBuildFaults \in Nat

\* The files of the authority, in the order they are written.
AuthorityParts == {"head", "pointers", "index", "dots"}

Products == {"chatgpt", "gemini", "codex"}

-----------------------------------------------------------------------------
VARIABLES
    chosenSources,  \* the sources that are active
    unindexed,      \* the sources that are not in the sectors as they are
    available,      \* the sources with an available row in the sectors
    sectors,        \* the state of the sectors: a number that every write increases
    shape,          \* their row counts, which is what a topology shows
    activation,     \* the receipt of the lanes of the last build
    authority,      \* what each of its files describes
    topology,       \* what the diagram and its images show
    packages,       \* the products
    version,        \* the latest version
    truth,          \* what the ledger of the workspace was last told
    build,          \* the running build
    buildStatus,    \* the status every source is given
    stage,          \* the pipeline
    sourceChanges, builds, buildFaults,
    unauthored,     \* history: the sectors or lanes changed and no authority was written
    unpacked,       \* history: they changed and no build made all the products since
    detached        \* history: a build ended after its ChatGPT package and before its Codex one

buildVars == <<chosenSources, unindexed, available, sectors, shape, activation, authority,
               topology, packages, version, truth, build, buildStatus, stage,
               sourceChanges, builds, buildFaults, unauthored, unpacked, detached>>

sourceVars == <<chosenSources, sourceChanges>>
sectorVars == <<unindexed, available, sectors, shape>>
brainVars == <<sourceVars, sectorVars, activation, authority>>
productVars == <<topology, packages, version, truth>>
outcomeVars == <<buildStatus, stage>>
countVars == <<builds, buildFaults>>
historyVars == <<unauthored, unpacked, detached>>

BuildSteps == {"idle", "validate", "enter", "sources", "head", "pointers", "index", "dots",
               "diagram", "receipt", "mark", "decide", "mmd", "render", "retire chatgpt",
               "chatgpt", "retire gemini", "gemini", "check", "codex", "truth", "version",
               "complete"}

SectorStates == Nat

\* What the authority, a package or a version describes.
Described == [sectors : SectorStates, lanes : SUBSET BuildSources]

Diagram == [mmd : SectorStates, image : SectorStates]

ChatGPTPackage == [of : Described, topology : Diagram, mode : UseModes, id : 1..MaxBuilds]
DerivedPackage == [of : Described, from : 0..MaxBuilds]

ASSUME AbsentIsNone ==
    /\ Absent \notin Described /\ \A lanes \in SUBSET BuildSources : lanes # Absent
    /\ \A none \in {Absent, Skipped} : none \notin ChatGPTPackage /\ none \notin DerivedPackage

BuildTypeOK ==
    /\ chosenSources \subseteq BuildSources /\ unindexed \subseteq BuildSources
    /\ available \subseteq BuildSources
    /\ sectors \in SectorStates /\ shape \in SectorStates
    /\ activation \in (SUBSET BuildSources) \cup {Absent}
    /\ authority \in [AuthorityParts -> Described \cup {Absent}]
    /\ topology \in Diagram
    /\ DOMAIN packages = Products
    /\ packages.chatgpt \in ChatGPTPackage \cup {Absent, Skipped}
    /\ packages.gemini \in DerivedPackage \cup {Absent, Skipped}
    /\ packages.codex \in DerivedPackage \cup {Absent}
    /\ version \in Described \cup {Absent}
    /\ truth \in SectorStates
    /\ build \in [step : BuildSteps, all : BOOLEAN, todo : SUBSET BuildSources,
                  lanes : SUBSET BuildSources, indexed : BOOLEAN, changed : BOOLEAN,
                  reuse : BOOLEAN, mode : UseModes]
    /\ buildStatus \in {"ready", "built", "error"}
    /\ stage \in {"NONE", "RUNNING", "FAILED", "COMPLETE"}
    /\ sourceChanges \in 0..MaxSourceChanges
    /\ builds \in 0..MaxBuilds /\ buildFaults \in 0..MaxBuildFaults
    /\ unauthored \in BOOLEAN /\ unpacked \in BOOLEAN /\ detached \in BOOLEAN

NoBuild == [step |-> "idle", all |-> FALSE, todo |-> {}, lanes |-> {}, indexed |-> FALSE,
            changed |-> FALSE, reuse |-> FALSE, mode |-> CHOOSE m \in UseModes : TRUE]

\* A brain that was created and never built.
BuildInit ==
    /\ chosenSources = BuildSources /\ unindexed = BuildSources /\ available = {}
    /\ sectors = 0 /\ shape = 0
    /\ activation = Absent
    /\ authority = [p \in AuthorityParts |-> Absent]
    /\ topology = [mmd |-> 0, image |-> 0]
    /\ packages = [p \in Products |-> Absent]
    /\ version = Absent /\ truth = 0
    /\ build = NoBuild
    /\ buildStatus = "ready" /\ stage = "NONE"
    /\ sourceChanges = 0 /\ builds = 0 /\ buildFaults = 0
    /\ unauthored = TRUE /\ unpacked = TRUE /\ detached = FALSE

-----------------------------------------------------------------------------
\* The build goes on from one step to the next.
BuildAt(step) == build.step = step
BuildThen(step) == build' = [build EXCEPT !.step = step]

PresentBrain == [sectors |-> sectors, lanes |-> activation]

CodeIsLoaded == CodeSources \cap available # {}

\* An archive that is there and passes its validation.  One that was cut short or did
\* not pass is absent here: it will never pass.
HasChatGPT == packages.chatgpt \notin {Absent, Skipped}
HasGemini == packages.gemini \notin {Absent, Skipped}
HasCodex == packages.codex # Absent

\* A payload two chosen sources share is indexed once, by a full build.
IsReference(s) ==
    build.all /\ s \in Duplicates \ {PayloadOwner} /\ PayloadOwner \in build.lanes

Touched == unauthored' = TRUE /\ unpacked' = TRUE /\ UNCHANGED detached

-----------------------------------------------------------------------------
(* The sources.                                                            *)

EditRegistered(s) ==
    /\ sourceChanges < MaxSourceChanges
    /\ sourceChanges' = sourceChanges + 1
    /\ unindexed' = unindexed \cup {s}
    /\ UNCHANGED <<chosenSources, available, sectors, shape, activation, authority,
                   build>>
    /\ UNCHANGED <<productVars, outcomeVars, countVars, historyVars>>

\* Sources are chosen and left out between builds.
ChooseSource(s) ==
    /\ BuildAt("idle")
    /\ sourceChanges < MaxSourceChanges
    /\ sourceChanges' = sourceChanges + 1
    /\ chosenSources' = (chosenSources \ {s}) \cup ({s} \ chosenSources)
    /\ UNCHANGED <<sectorVars, activation, authority, build>>
    /\ UNCHANGED <<productVars, outcomeVars, countVars, historyVars>>

-----------------------------------------------------------------------------
(* build_brain.                                                            *)

\* The sources a build is given.
SourcesForBuild == chosenSources

\* brain.build, or brain.buildAll with the use mode of its packages.
StartBuild(all, mode) ==
    /\ BuildAt("idle")
    /\ builds < MaxBuilds
    /\ builds' = builds + 1
    /\ build' = [NoBuild EXCEPT !.step = IF all THEN "validate" ELSE "enter", !.all = all,
                                !.todo = SourcesForBuild, !.lanes = SourcesForBuild,
                                !.mode = IF all THEN mode ELSE @]
    /\ stage' = IF all THEN "RUNNING" ELSE stage
    /\ UNCHANGED <<brainVars, productVars, buildStatus, buildFaults, historyVars>>

ValidateSources ==
    /\ BuildAt("validate")
    /\ BuildThen("enter")
    /\ UNCHANGED <<brainVars, productVars, outcomeVars, countVars, historyVars>>

\* The choice is compared with that of the last build that wrote its receipt.
EnterBuild ==
    /\ BuildAt("enter")
    /\ build' = [build EXCEPT !.step = "sources", !.changed = activation # build.lanes]
    /\ IF activation # build.lanes THEN Touched ELSE UNCHANGED historyVars
    /\ UNCHANGED <<brainVars, productVars, outcomeVars, countVars>>

IndexSource(s) ==
    /\ BuildAt("sources") /\ s \in build.todo
    /\ ~IsReference(s)
    /\ s \in unindexed \/ s \notin available
    /\ unindexed' = unindexed \ {s}
    /\ available' = available \cup {s}
    /\ sectors' = sectors + 1
    /\ shape' \in IF s \in available THEN {shape, sectors + 1} ELSE {sectors + 1}
    /\ build' = [build EXCEPT !.todo = @ \ {s}, !.indexed = TRUE]
    /\ Touched
    /\ UNCHANGED <<sourceVars, activation, authority, productVars, outcomeVars,
                   countVars>>

SkipSource(s) ==
    /\ BuildAt("sources") /\ s \in build.todo
    /\ ~IsReference(s)
    /\ s \notin unindexed /\ s \in available
    /\ build' = [build EXCEPT !.todo = @ \ {s}]
    /\ UNCHANGED <<brainVars, productVars, outcomeVars, countVars, historyVars>>

\* The row of the source is replaced by one that has neither hash nor state, which
\* counts as nothing indexed.
ReferenceSource(s) ==
    /\ BuildAt("sources") /\ s \in build.todo
    /\ IsReference(s)
    /\ available' = available \ {s}
    /\ sectors' = sectors + 1
    /\ shape' \in {shape, sectors + 1}
    /\ build' = [build EXCEPT !.todo = @ \ {s}]
    /\ Touched
    /\ UNCHANGED <<unindexed, sourceVars, activation, authority, productVars,
                   outcomeVars, countVars>>

\* The authority is written when something changed, or when its index is not there.
FinalizeNeeded == build.indexed \/ build.changed \/ authority["index"] = Absent

EndOfSources ==
    /\ BuildAt("sources") /\ build.todo = {}
    /\ BuildThen(IF FinalizeNeeded THEN "head" ELSE "diagram")
    /\ UNCHANGED <<brainVars, productVars, outcomeVars, countVars, historyVars>>

\* Every file describes the sectors as they are and the lanes of this build.
Authored == [sectors |-> sectors, lanes |-> build.lanes]

WriteAuthority(part, next) ==
    /\ BuildAt(part)
    /\ authority' = [authority EXCEPT ![part] = Authored]
    /\ BuildThen(next)
    /\ UNCHANGED <<sourceVars, sectorVars, activation, productVars, outcomeVars,
                   countVars, historyVars>>

WriteHead == WriteAuthority("head", "pointers")
WritePointers == WriteAuthority("pointers", "index")
WriteIndex == WriteAuthority("index", "dots")
WriteDots == WriteAuthority("dots", "diagram")

\* Only brain.build draws the diagram here, and no image of it.
DrawDiagram ==
    /\ BuildAt("diagram")
    /\ topology' = IF ~build.all /\ (build.indexed \/ build.changed) /\ CodeIsLoaded
                   THEN [topology EXCEPT !.mmd = shape] ELSE topology
    /\ BuildThen("receipt")
    /\ UNCHANGED <<brainVars, packages, version, truth, outcomeVars, countVars,
                   historyVars>>

\* The lanes of this build, those without an available row too.
LanesWithRows == build.lanes \cap available
LaneActivation == build.lanes

WriteReceipt ==
    /\ BuildAt("receipt")
    /\ activation' = LaneActivation
    /\ unauthored' = (unauthored /\ ~(build.indexed \/ build.changed))
    /\ BuildThen("mark")
    /\ UNCHANGED <<sourceVars, sectorVars, authority, productVars, outcomeVars,
                   countVars, unpacked, detached>>

\* Every registered source is marked, those left out too.
MarkSources(status) == buildStatus' = status

\* brain.build ends here.
MarkBuilt ==
    /\ BuildAt("mark")
    /\ MarkSources("built")
    /\ IF build.all THEN BuildThen("decide") ELSE build' = NoBuild
    /\ UNCHANGED <<brainVars, productVars, stage, countVars, historyVars>>

-----------------------------------------------------------------------------
(* The products of brain.buildAll.                                         *)

AllSourcesUnchanged == build.lanes # {} /\ ~build.indexed /\ ~build.changed

\* The products are there, and the package the others derive from has the topology of
\* the brain and was made for what is asked now.
ProductsAreThere ==
    /\ topology.mmd # 0 /\ topology.image # 0
    /\ HasChatGPT /\ HasGemini /\ HasCodex
    /\ packages.chatgpt.topology = topology
    /\ packages.chatgpt.mode = build.mode
    /\ version # Absent

Reusable == AllSourcesUnchanged /\ ProductsAreThere

DecideReuse ==
    /\ BuildAt("decide")
    /\ build' = [build EXCEPT !.reuse = Reusable,
                              !.step = IF Reusable THEN "check"
                                       ELSE IF CodeIsLoaded THEN "mmd" ELSE "render"]
    /\ UNCHANGED <<brainVars, productVars, outcomeVars, countVars, historyVars>>

GenerateMmd ==
    /\ BuildAt("mmd")
    /\ topology' = [topology EXCEPT !.mmd = shape]
    /\ BuildThen("render")
    /\ UNCHANGED <<brainVars, packages, version, truth, outcomeVars, countVars,
                   historyVars>>

\* What a diagram shows are the counts.
Drawn == [mmd |-> shape, image |-> shape]

RenderTopology ==
    /\ BuildAt("render")
    /\ topology' = Drawn
    /\ BuildThen("retire chatgpt")
    /\ UNCHANGED <<brainVars, packages, version, truth, outcomeVars, countVars,
                   historyVars>>

Package(p, value, next) ==
    /\ packages' = [packages EXCEPT ![p] = value]
    /\ BuildThen(next)
    /\ UNCHANGED <<brainVars, topology, version, truth, outcomeVars, countVars,
                   historyVars>>

\* The stage is a copy of the brain whose authority is written anew, from the lanes of
\* the receipt.
StagedBrain == PresentBrain

ChatGPTArchive ==
    [of |-> StagedBrain, topology |-> topology, mode |-> build.mode, id |-> builds]

\* The text of the sectors as they are, with the hash of the ChatGPT archive.
GeminiArchive == [of |-> PresentBrain, from |-> packages.chatgpt.id]

\* The members of the ChatGPT archive, or the brain itself when there is none.
CodexArchive ==
    IF HasChatGPT THEN [of |-> packages.chatgpt.of, from |-> packages.chatgpt.id]
    ELSE [of |-> PresentBrain, from |-> 0]

\* An old archive is gone before the new one is made.
RetireChatGPT == BuildAt("retire chatgpt") /\ Package("chatgpt", Absent, "chatgpt")

ExportChatGPT ==
    /\ BuildAt("chatgpt")
    /\ sectors \notin ChatGPTTooLarge
    /\ Package("chatgpt", ChatGPTArchive, "retire gemini")

\* Without a ChatGPT archive there is no Gemini archive either.
ChatGPTIsTooLarge ==
    /\ BuildAt("chatgpt")
    /\ sectors \in ChatGPTTooLarge
    /\ packages' = [packages EXCEPT !.chatgpt = Skipped, !.gemini = Skipped]
    /\ BuildThen("codex")
    /\ UNCHANGED <<brainVars, topology, version, truth, outcomeVars, countVars,
                   historyVars>>

RetireGemini == BuildAt("retire gemini") /\ Package("gemini", Absent, "gemini")

ExportGemini ==
    /\ BuildAt("gemini")
    /\ Package("gemini", IF sectors \in GeminiTooLarge THEN Skipped ELSE GeminiArchive,
               "check")

\* The Gemini package must derive from the ChatGPT package.
DerivationHolds == HasGemini => packages.gemini.from = packages.chatgpt.id

CheckDerivation ==
    /\ BuildAt("check")
    /\ DerivationHolds
    /\ BuildThen(IF build.reuse THEN "truth" ELSE "codex")
    /\ UNCHANGED <<brainVars, productVars, outcomeVars, countVars, historyVars>>

\* The archive is made beside the old one and takes its place once it is validated.
ExportCodex ==
    /\ BuildAt("codex")
    /\ packages' = [packages EXCEPT !.codex = CodexArchive]
    /\ detached' = FALSE
    /\ BuildThen("truth")
    /\ UNCHANGED <<brainVars, topology, version, truth, outcomeVars, countVars, unauthored,
                   unpacked>>

\* The ledger of the workspace reads every sector again.
RegisteredSectors == sectors

RecordTruth ==
    /\ BuildAt("truth")
    /\ truth' = RegisteredSectors
    /\ BuildThen("version")
    /\ UNCHANGED <<brainVars, topology, packages, version, outcomeVars, countVars,
                   historyVars>>

CaptureVersion ==
    /\ BuildAt("version")
    /\ version' = IF build.reuse THEN version ELSE PresentBrain
    /\ BuildThen("complete")
    /\ UNCHANGED <<brainVars, topology, packages, truth, outcomeVars, countVars,
                   historyVars>>

\* After the cache of the telemetry, which may fail too.
CompleteBuild ==
    /\ BuildAt("complete")
    /\ unpacked' = (unpacked /\ build.reuse)
    /\ stage' = "COMPLETE"
    /\ build' = NoBuild
    /\ UNCHANGED <<brainVars, productVars, buildStatus, countVars, unauthored,
                   detached>>

-----------------------------------------------------------------------------
(* A build that does not end well.                                         *)

\* The ChatGPT package is new and the Codex package is not.
BetweenPackages ==
    ~build.reuse /\ build.step \in {"retire gemini", "gemini", "check", "codex"}

Detaches == detached' = (detached \/ BetweenPackages) /\ UNCHANGED <<unauthored, unpacked>>

\* The sources are marked once they were validated.
EndInError ==
    /\ MarkSources(IF BuildAt("validate") THEN buildStatus ELSE "error")
    /\ stage' = IF build.all THEN "FAILED" ELSE stage
    /\ build' = NoBuild
    /\ Detaches
    /\ UNCHANGED <<brainVars, productVars, builds>>

RefuseDerivation ==
    /\ BuildAt("check")
    /\ ~DerivationHolds
    /\ EndInError
    /\ UNCHANGED buildFaults

FailBuild ==
    /\ ~BuildAt("idle")
    /\ buildFaults < MaxBuildFaults
    /\ buildFaults' = buildFaults + 1
    /\ EndInError

CrashBuild ==
    /\ ~BuildAt("idle")
    /\ buildFaults < MaxBuildFaults
    /\ buildFaults' = buildFaults + 1
    /\ build' = NoBuild
    /\ Detaches
    /\ UNCHANGED <<brainVars, productVars, outcomeVars, builds>>

-----------------------------------------------------------------------------
BuildNext ==
    \/ \E s \in BuildSources : \/ EditRegistered(s) \/ ChooseSource(s)
                               \/ IndexSource(s) \/ SkipSource(s) \/ ReferenceSource(s)
    \/ \E all \in BOOLEAN, mode \in UseModes : StartBuild(all, mode)
    \/ ValidateSources \/ EnterBuild \/ EndOfSources
    \/ WriteHead \/ WritePointers \/ WriteIndex \/ WriteDots
    \/ DrawDiagram \/ WriteReceipt \/ MarkBuilt
    \/ DecideReuse \/ GenerateMmd \/ RenderTopology
    \/ RetireChatGPT \/ ExportChatGPT \/ ChatGPTIsTooLarge
    \/ RetireGemini \/ ExportGemini \/ CheckDerivation \/ ExportCodex
    \/ RecordTruth \/ CaptureVersion \/ CompleteBuild
    \/ RefuseDerivation \/ FailBuild \/ CrashBuild

BuildSpec == BuildInit /\ [][BuildNext]_buildVars

-----------------------------------------------------------------------------
\* The last thing that happened to the products is that a full build completed.
Completed == stage = "COMPLETE" /\ BuildAt("idle")

\* Between builds all files of the authority describe the sectors and the lanes of the
\* last build, unless a build ended between its first change and its receipt, or wrote
\* the row of a source that shares its payload and nothing else.
AuthorityIsWhole ==
    BuildAt("idle") /\ ~unauthored =>
        \A p \in AuthorityParts : authority[p] = PresentBrain

\* A full build that completed leaves packages that belong together, whatever failed
\* before it: Gemini derives from ChatGPT, and neither is there without the other but
\* for its own size; the topology in the package is that of the brain.
PackagesBelongTogether ==
    Completed =>
        /\ HasGemini => /\ HasChatGPT
                        /\ packages.gemini.from = packages.chatgpt.id
        /\ packages.gemini # Absent /\ HasCodex /\ version # Absent
        /\ HasChatGPT => packages.chatgpt.topology.image = topology.image

\* They are of the sectors as they are, and so is the version, unless the sectors were
\* changed by a build that did not get as far as the products; and Codex derives from
\* ChatGPT too, unless a build ended between the two, whose products the next one reuses.
ProductsAreCurrent ==
    Completed /\ ~unpacked =>
        /\ HasChatGPT => packages.chatgpt.of = PresentBrain
        /\ HasGemini => packages.gemini.of = PresentBrain
        /\ packages.codex.of = PresentBrain
        /\ HasChatGPT /\ ~detached => packages.codex.from = packages.chatgpt.id
        /\ version = PresentBrain
        /\ truth = sectors
        /\ topology = [mmd |-> shape, image |-> shape]

BuildIsTrue == AuthorityIsWhole /\ PackagesBelongTogether /\ ProductsAreCurrent
===============================================================================
