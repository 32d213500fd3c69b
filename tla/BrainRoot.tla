------------------------------- MODULE BrainRoot -------------------------------
(***************************************************************************)
(* The first steps of a build: the folder of a brain                       *)
(* (runtime/env15_project_schema.py, initialize_env15_brain_root) is made  *)
(* of the resource that comes with the application                         *)
(* (runtime/env15_resource.py) and brought under its policy.               *)
(*                                                                         *)
(* The workers record what goes on in project/runtime of the folder before *)
(* the brain is there: a task, the state of the pipeline, a report of an   *)
(* error.  These records are moved beside the folder, the folder is        *)
(* removed, the resource is copied beside it too, checked and renamed to   *)
(* it, and the records are moved back.  Only the mutation lock of the      *)
(* brain is held, which the workers that record do not ask for.            *)
(*                                                                         *)
(* A file of the resource stands for its kind: the pointer by which a      *)
(* folder is known as a brain, a database of the locked authorities, the   *)
(* retired template, the router and a sector.                              *)
(***************************************************************************)
EXTENDS Integers, FiniteSets

CONSTANTS
    RuntimeFiles,  \* files in project/runtime
    NoRoot,        \* there is no folder
    MaxPreparations,  \* bound: initializations
    MaxTold,       \* bound: records written
    MaxRootFaults  \* bound: files damaged, steps cut off

ASSUME RootAssumption ==
    /\ IsFiniteSet(RuntimeFiles)
    /\ MaxPreparations \in Nat /\ MaxTold \in Nat /\ MaxRootFaults \in Nat

ResourceFiles == {"pointer", "authority", "template", "router", "sector"}

\* "policy": the router, after the policy of the append lanes has been written.
FileStates == {"right", "wrong", "gone", "policy"}

\* A folder.  foreign: files of an older version; nested: records moved into
\* project/runtime as a folder, because there was one.
BrainFolder == [members : [ResourceFiles -> FileStates], foreign : BOOLEAN,
                runtime : SUBSET RuntimeFiles, nested : SUBSET RuntimeFiles]

NoMembers == [m \in ResourceFiles |-> "gone"]

BareFolder == [members |-> NoMembers, foreign |-> FALSE, runtime |-> {}, nested |-> {}]

ASSUME NoRootIsNone == NoRoot \notin BrainFolder

\* What is moved is project/runtime as it is, with the records that are nested in it.
Parked == [runtime : SUBSET RuntimeFiles, nested : SUBSET RuntimeFiles]
NothingMoved == [runtime |-> {}, nested |-> {}]

-----------------------------------------------------------------------------
VARIABLES
    resource,   \* the files of the embedded resource
    root,       \* the folder of the brain
    copied,     \* the copy beside it
    moved,      \* the records that this initialization has moved beside it
    stranded,   \* those that earlier ones have left there
    preparing,  \* what the initialization does next
    preparations,
    written,    \* history: the records written
    writes,
    older,      \* history: the folder was of an older version
    damaged,    \* history: files of the brain that were changed by hand
    crossed,    \* history: written while the folder was being made
    rootFaults

rootVars == <<resource, root, copied, moved, stranded, preparing, preparations,
              written, writes, older, damaged, crossed, rootFaults>>

besideVars == <<copied, moved, stranded>>

bookVars == <<preparations, written, writes, older, damaged, crossed>>

PreparationSteps ==
    {"idle", "look", "park", "clear", "install", "copy", "check", "commit",
     "recheck", "restore", "supply", "govern", "verify", "ready"}

RootTypeOK ==
    /\ resource \in [ResourceFiles -> FileStates]
    /\ root \in BrainFolder \cup {NoRoot}
    /\ copied \in [ResourceFiles -> FileStates]
    /\ moved \in Parked /\ stranded \subseteq RuntimeFiles
    /\ preparing \in PreparationSteps
    /\ preparations \in 0..MaxPreparations
    /\ written \subseteq RuntimeFiles /\ writes \in 0..MaxTold
    /\ older \in BOOLEAN /\ damaged \subseteq ResourceFiles
    /\ crossed \subseteq RuntimeFiles
    /\ rootFaults \in 0..MaxRootFaults

AllRight == [m \in ResourceFiles |-> "right"]

\* No folder, an empty one, or one of a version before the resource.
RootInit ==
    /\ resource = AllRight
    /\ root \in {NoRoot, BareFolder, [BareFolder EXCEPT !.foreign = TRUE]}
    /\ copied = NoMembers
    /\ moved = NothingMoved /\ stranded = {}
    /\ preparing = "idle" /\ preparations = 0
    /\ written = {} /\ writes = 0
    /\ older = (root # NoRoot /\ root.foreign)
    /\ damaged = {} /\ crossed = {}
    /\ rootFaults = 0

-----------------------------------------------------------------------------
(* The checks.                                                             *)

\* .uepc_env is there.
IsBrain(folder) == folder # NoRoot /\ folder.members["pointer"] # "gone"

HasFiles(folder) ==
    \/ folder.foreign \/ folder.runtime # {} \/ folder.nested # {}
    \/ \E m \in ResourceFiles : folder.members[m] # "gone"

\* mutant: some of its files are records
SomeRuntime(folder) == folder.runtime # {}

\* All its files are records.
OnlyRuntime(folder) ==
    ~folder.foreign /\ \A m \in ResourceFiles : folder.members[m] = "gone"

\* The names, sizes and hashes of the members are those of the ledger that the
\* program knows.
MembersMatch(members) == \A m \in ResourceFiles : members[m] = "right"

\* The pointers are there and say where files are that are there.
PointersMatch(members) ==
    /\ members["pointer"] = "right"
    /\ \A m \in ResourceFiles : members[m] # "gone"

\* The registry lists the sectors, with the hash of the ledger for each.
SectorsMatch(members) == members["sector"] = "right"

\* Every database passes the checks of SQLite, which say nothing of what it holds.
DatabasesMatch(members) ==
    \A m \in {"authority", "template", "router", "sector"} : members[m] # "gone"

\* validate_env15_resource of a folder with nothing else in it
Sound(members) ==
    /\ MembersMatch(members) /\ PointersMatch(members)
    /\ SectorsMatch(members) /\ DatabasesMatch(members)

\* validate_env15_resource, of the folder of the brain
SoundFolder(folder) ==
    /\ folder # NoRoot /\ Sound(folder.members)
    /\ folder.runtime = {} /\ folder.nested = {}

\* verify_env15_live_project: the databases work, whatever they hold.
LiveIsSound(folder) ==
    /\ folder # NoRoot
    /\ folder.members["router"] \notin {"wrong", "gone"}
    /\ folder.members["sector"] = "right"

RootAt(step) == preparing = step

MovedRecords == moved.runtime \cup moved.nested

\* A step fails: what was moved beside the folder stays there, the copy does not.
Abandoned ==
    /\ preparing' = "idle"
    /\ copied' = NoMembers
    /\ stranded' = stranded \cup MovedRecords
    /\ moved' = NothingMoved

Refused == Abandoned /\ UNCHANGED <<root, resource>>

-----------------------------------------------------------------------------
(* initialize_env15_brain_root                                             *)

PrepareRoot ==
    /\ RootAt("idle") /\ preparations < MaxPreparations
    /\ preparations' = preparations + 1
    /\ preparing' = "look"
    /\ UNCHANGED <<resource, root, written, writes, older, damaged, crossed,
                   besideVars, rootFaults>>

\* What becomes of the folder is decided from the files in it.
LookAtRoot ==
    /\ RootAt("look")
    /\ IF root = NoRoot THEN preparing' = "install"
       ELSE IF IsBrain(root) THEN preparing' = "supply"
       ELSE IF ~HasFiles(root) THEN preparing' = "clear"
       ELSE IF OnlyRuntime(root) THEN preparing' = "park"
       ELSE preparing' = "idle"   \* LEGACY_BRAIN_ENV15_MIGRATION_REQUIRED
    /\ UNCHANGED <<resource, root, besideVars, bookVars, rootFaults>>

\* project/runtime is moved beside the folder ...
ParkRuntime ==
    /\ RootAt("park")
    /\ moved' = [runtime |-> root.runtime, nested |-> root.nested]
    /\ root' = [root EXCEPT !.runtime = {}, !.nested = {}]
    /\ preparing' = "clear"
    /\ UNCHANGED <<resource, copied, stranded, bookVars, rootFaults>>

\* ... and the folder is removed, with what is in it by now.
ClearRoot ==
    /\ RootAt("clear")
    /\ root' = NoRoot
    /\ preparing' = "install"
    /\ UNCHANGED <<resource, besideVars, bookVars, rootFaults>>

\* install_env15_resource: there must be no folder, and the resource must be sound.
InstallResource ==
    /\ RootAt("install")
    /\ IF root = NoRoot /\ Sound(resource)
       THEN /\ preparing' = "copy"
            /\ UNCHANGED <<resource, root, besideVars>>
       ELSE Refused
    /\ UNCHANGED <<bookVars, rootFaults>>

CopyResource ==
    /\ RootAt("copy")
    /\ copied' = resource
    /\ preparing' = "check"
    /\ UNCHANGED <<resource, root, moved, stranded, bookVars, rootFaults>>

CheckStage ==
    /\ RootAt("check")
    /\ IF Sound(copied)
       THEN preparing' = "commit" /\ UNCHANGED <<resource, root, besideVars>>
       ELSE Refused
    /\ UNCHANGED <<bookVars, rootFaults>>

\* The copy is renamed to a folder that is not there.
CommitStage ==
    /\ RootAt("commit")
    /\ IF root = NoRoot
       THEN /\ root' = [BareFolder EXCEPT !.members = copied]
            /\ copied' = NoMembers
            /\ preparing' = "recheck"
            /\ UNCHANGED <<resource, moved, stranded>>
       ELSE Refused
    /\ UNCHANGED <<bookVars, rootFaults>>

\* A record that was written since is an unexpected member; the brain stays.
RecheckRoot ==
    /\ RootAt("recheck")
    /\ IF SoundFolder(root)
       THEN preparing' = "restore" /\ UNCHANGED <<resource, root, besideVars>>
       ELSE Refused
    /\ UNCHANGED <<bookVars, rootFaults>>

\* A folder is moved into one that is there.
RestoreRuntime ==
    /\ RootAt("restore")
    /\ root' = IF root.runtime = {}
               THEN [root EXCEPT !.runtime = moved.runtime, !.nested = moved.nested]
               ELSE [root EXCEPT !.nested = MovedRecords]
    /\ moved' = NothingMoved
    /\ preparing' = "supply"
    /\ UNCHANGED <<resource, copied, stranded, bookVars, rootFaults>>

\* The retired template is removed.
WithoutTemplate(members) == [members EXCEPT !["template"] = "gone"]

\* The authorities are made those of the archive, whatever they are.
WithAuthorities(members) == [members EXCEPT !["authority"] = "right"]

SupplyAuthority ==
    /\ RootAt("supply")
    /\ root' = [root EXCEPT !.members = WithAuthorities(WithoutTemplate(@))]
    /\ preparing' = "govern"
    /\ UNCHANGED <<resource, besideVars, bookVars, rootFaults>>

\* The policy of the two append lanes, in one transaction
GovernRouter ==
    /\ RootAt("govern")
    /\ IF root.members["router"] \in {"right", "policy"}
       THEN /\ root' = [root EXCEPT !.members["router"] = "policy"]
            /\ preparing' = "verify"
            /\ UNCHANGED <<resource, copied, moved, stranded>>
       ELSE Refused
    /\ UNCHANGED <<bookVars, rootFaults>>

VerifyLive ==
    /\ RootAt("verify")
    /\ IF LiveIsSound(root)
       THEN preparing' = "ready" /\ UNCHANGED <<resource, root, besideVars>>
       ELSE Refused
    /\ UNCHANGED <<bookVars, rootFaults>>

\* The build goes on with the brain.
GoOn ==
    /\ RootAt("ready")
    /\ preparing' = "idle"
    /\ UNCHANGED <<resource, root, besideVars, bookVars, rootFaults>>

-----------------------------------------------------------------------------
(* What happens meanwhile.                                                 *)

\* The steps between which a record does not stay where it is written
Exposed == {"clear", "install", "copy", "check", "commit", "recheck", "restore"}

\* A worker records something in project/runtime, and makes the folders for it.
WriteRecord(r) ==
    /\ writes < MaxTold
    /\ writes' = writes + 1 /\ written' = written \cup {r}
    /\ root' = IF root = NoRoot THEN [BareFolder EXCEPT !.runtime = {r}]
               ELSE [root EXCEPT !.runtime = @ \cup {r}]
    /\ crossed' = IF preparing \in Exposed THEN crossed \cup {r} ELSE crossed
    /\ UNCHANGED <<resource, preparing, preparations, older, damaged, besideVars,
                   rootFaults>>

RootFault == rootFaults < MaxRootFaults /\ rootFaults' = rootFaults + 1

\* A file of the resource is damaged.
DamageResource ==
    /\ RootFault
    /\ \E m \in {"pointer", "sector"}, s \in {"wrong", "gone"} :
         resource' = [resource EXCEPT ![m] = s]
    /\ UNCHANGED <<root, preparing, besideVars, bookVars>>

\* A file of the brain is.
DamageRoot ==
    /\ RootFault /\ IsBrain(root)
    /\ \E m \in {"pointer", "authority", "router", "sector"}, s \in {"wrong", "gone"} :
         /\ root' = [root EXCEPT !.members[m] = s]
         /\ damaged' = damaged \cup {m}
    /\ UNCHANGED <<resource, preparing, preparations, written, writes, older,
                   crossed, besideVars>>

\* Any step can fail, for the disk or a file in use, and the process can be killed,
\* which leaves the copy; the next one takes another name.
CutOff ==
    /\ RootFault /\ ~RootAt("idle") /\ ~RootAt("ready")
    /\ Abandoned
    /\ UNCHANGED <<resource, root, bookVars>>

RootNext ==
    \/ PrepareRoot \/ LookAtRoot \/ ParkRuntime \/ ClearRoot \/ InstallResource
    \/ CopyResource \/ CheckStage \/ CommitStage \/ RecheckRoot \/ RestoreRuntime
    \/ SupplyAuthority \/ GovernRouter \/ VerifyLive \/ GoOn
    \/ \E r \in RuntimeFiles : WriteRecord(r)
    \/ DamageResource \/ DamageRoot \/ CutOff

RootSpec == RootInit /\ [][RootNext]_rootVars

-----------------------------------------------------------------------------
(* Properties.                                                             *)

\* A folder that is known as a brain has every file of the resource as it should be,
\* or as the policy makes it, however the resource was damaged and wherever the
\* initialization was cut off; only hands on the brain itself change that.
BrainIsWhole ==
    IsBrain(root) => \A m \in ResourceFiles \ damaged :
        \/ root.members[m] = "right"
        \/ m = "router" /\ root.members[m] = "policy"
        \/ m = "template" /\ root.members[m] = "gone"

\* A build goes on only with a brain that is under its policy, has no retired
\* template, and has the authorities of the archive.
ReadyIsGoverned ==
    RootAt("ready") =>
        /\ IsBrain(root) \/ "pointer" \in damaged
        /\ root.members["template"] = "gone"
        /\ root.members["router"] = "policy" \/ "router" \in damaged
        /\ root.members["authority"] = "right" \/ "authority" \in damaged

\* A folder of an older version is left alone.
OlderIsLeftAlone == older => root # NoRoot /\ root.foreign /\ ~IsBrain(root)

\* A record is never destroyed, unless it was written while the folder was being
\* made; and it is where it is looked for, unless the initialization that moved it
\* did not end or another one was written meanwhile.
RecordsSurvive ==
    /\ \A r \in written \ crossed :
         \/ root # NoRoot /\ r \in root.runtime \cup root.nested
         \/ r \in MovedRecords \cup stranded
    /\ RootAt("ready") /\ crossed = {} /\ stranded = {} => written \subseteq root.runtime

RootIsTrue == BrainIsWhole /\ ReadyIsGoverned /\ OlderIsLeftAlone /\ RecordsSurvive
===============================================================================
