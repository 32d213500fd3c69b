---------------------------- MODULE PortablePackage ----------------------------
(***************************************************************************)
(* The portable folder of a brain: runtime/portable_brain_package.py and   *)
(* the brain.portablePackage.*, brain.codexLedger.* and                    *)
(* brain.modelLedger.* commands of ipc_worker.py.                          *)
(*                                                                         *)
(* The folder has a snapshot of the databases of the brain, which is       *)
(* replaced when one of them changed and never written, an append-only     *)
(* ledger with files beside it that repeat some of its rows, pointers, and *)
(* a manifest of all of them.  It is exported to an archive that is named  *)
(* after the snapshot.  The commands take the lock of the worker, so one   *)
(* runs at a time; the databases are edited meanwhile.                     *)
(***************************************************************************)
EXTENDS Naturals

CONSTANTS
    Databases,          \* the databases of the brain
    Versions,           \* what one can hold
    GoalDeltas,         \* the deltas a package may be created for
    NoSnapshot,         \* no snapshot, pointer, manifest or archive
    MaxDatabaseEdits,   \* bound: edits of databases
    MaxCommands,        \* bound: commands
    MaxCommandFaults    \* bound: commands that fail or die

ASSUME PackageAssumption ==
    /\ Databases # {} /\ Versions # {} /\ GoalDeltas # {}
    /\ MaxDatabaseEdits \in Nat /\ MaxCommands \in Nat /\ MaxCommandFaults \in Nat

\* What can be appended, and the schema that has a table for it.  The rows of the first
\* three are repeated in files beside the ledger.
RowKinds == {"usage", "rq", "steer", "execution"}
SidecarKinds == {"usage", "rq", "steer"}
FirstSchema == [usage |-> 1, rq |-> 1, steer |-> 3, execution |-> 2]
LatestSchema == 3

-----------------------------------------------------------------------------
VARIABLES
    databases,      \* the databases: what each holds, and its size and time
    snapshot,       \* what it holds of each, the hash it recorded and the size and time
    operations,     \* the ledger, or its state when there is none that can be used
    sidecars,       \* the rows each file beside the ledger shows
    brainPointer,   \* the identity of the snapshot
    packageManifest, \* what it says of the other files
    archives,       \* one for each identity
    making,         \* the running command
    databaseEdits, commands, commandFaults,
    answered        \* history: what the commands that succeeded left behind

packageVars == <<databases, snapshot, operations, sidecars, brainPointer, packageManifest,
                 archives, making, databaseEdits, commands, commandFaults, answered>>

databaseVars == <<databases, databaseEdits>>
folderVars == <<operations, sidecars, brainPointer, packageManifest>>
limitVars == <<commands, commandFaults>>
otherVars == <<databaseVars, snapshot, archives, limitVars>>

CommandSteps == {"idle", "discover", "hash", "read", "replace", "ledger", "sidecars",
                 "pointers", "manifest", "validate", "register", "row", "sidecar",
                 "freeze", "archive", "thaw"}

Stats == 0..MaxDatabaseEdits
Identities == [Databases -> Versions]
Snapshots == [stat : [Databases -> Stats], hash : Identities, rows : Identities]

\* A schema of 0 is that of a file whose tables were not all made.
OperationLedgers == [exists : BOOLEAN, schema : 0..LatestSchema, born : 0..LatestSchema,
            receipts : 0..LatestSchema, rows : [RowKinds -> 0..MaxCommands],
            deltas : [GoalDeltas -> 0..1]]

\* The manifest of the folder, and an archive of the folder with the manifest in it.
FixedParts == [snapshot : Snapshots \cup {NoSnapshot}, pointer : Identities \cup {NoSnapshot}]
OperationalParts == [ledger : OperationLedgers,
                     sidecars : [SidecarKinds -> SUBSET (0..MaxCommands)]]
Manifests == [frozen : BOOLEAN, fixed : FixedParts, operational : OperationalParts]
Archives == [fixed : FixedParts, operational : OperationalParts,
             manifest : Manifests \cup {NoSnapshot}]

ASSUME NoSnapshotIsNone ==
    /\ NoSnapshot \notin Identities /\ NoSnapshot \notin Snapshots
    /\ NoSnapshot \notin Manifests /\ NoSnapshot \notin Archives

PackageTypeOK ==
    /\ databases \in [Databases -> [content : Versions, stat : Stats]]
    /\ snapshot \in Snapshots \cup {NoSnapshot}
    /\ operations \in OperationLedgers
    /\ sidecars \in [SidecarKinds -> SUBSET (0..MaxCommands)]
    /\ brainPointer \in Identities \cup {NoSnapshot}
    /\ packageManifest \in Manifests \cup {NoSnapshot}
    /\ archives \in [Identities -> Archives \cup {NoSnapshot}]
    /\ making \in [step : CommandSteps, todo : SUBSET Databases, stat : [Databases -> Stats],
                   hash : Identities, rows : Identities, delta : GoalDeltas, kind : RowKinds]
    /\ databaseEdits \in Stats
    /\ commands \in 0..MaxCommands /\ commandFaults \in 0..MaxCommandFaults
    /\ answered \in [whole : BOOLEAN, deltas : SUBSET GoalDeltas,
                     archives : [Identities -> Archives \cup {NoSnapshot}]]

NoLedgerYet ==
    [exists |-> FALSE, schema |-> 0, born |-> 0, receipts |-> 0,
     rows |-> [k \in RowKinds |-> 0], deltas |-> [d \in GoalDeltas |-> 0]]

NoPackageCommand ==
    [step |-> "idle", todo |-> {}, stat |-> [d \in Databases |-> 0],
     hash |-> [d \in Databases |-> CHOOSE v \in Versions : TRUE],
     rows |-> [d \in Databases |-> CHOOSE v \in Versions : TRUE],
     delta |-> CHOOSE d \in GoalDeltas : TRUE, kind |-> "usage"]

\* Nothing, or the ledger of an older edition of the program.
PackageInit ==
    /\ databases = [d \in Databases |->
                       [content |-> CHOOSE v \in Versions : TRUE, stat |-> 0]]
    /\ snapshot = NoSnapshot
    /\ operations \in {NoLedgerYet} \cup
           {[NoLedgerYet EXCEPT !.exists = TRUE, !.schema = n, !.born = n] : n \in 1..2}
    /\ sidecars = [k \in SidecarKinds |-> {}]
    /\ brainPointer = NoSnapshot /\ packageManifest = NoSnapshot
    /\ archives = [i \in Identities |-> NoSnapshot]
    /\ making = NoPackageCommand
    /\ databaseEdits = 0 /\ commands = 0 /\ commandFaults = 0
    /\ answered = [whole |-> FALSE, deltas |-> {}, archives |-> archives]

-----------------------------------------------------------------------------
CommandAt(step) == making.step = step
NextStep(step) == making' = [making EXCEPT !.step = step]

CurrentStats == [d \in Databases |-> databases[d].stat]
CurrentContents == [d \in Databases |-> databases[d].content]

\* The files no command writes in place, and those of the operational layer.
FixedFiles == [snapshot |-> snapshot, pointer |-> brainPointer]
OperationalFiles == [ledger |-> operations, sidecars |-> sidecars]

LedgerIsUsable == operations.exists /\ operations.schema # 0

\* The manifest names the fixed files as they are, and the operational ones too while it
\* is frozen for an export.
PackageIsValid ==
    /\ snapshot # NoSnapshot /\ LedgerIsUsable /\ packageManifest # NoSnapshot
    /\ packageManifest.fixed = FixedFiles
    /\ packageManifest.frozen => packageManifest.operational = OperationalFiles

ManifestOf(frozen) ==
    [frozen |-> frozen, fixed |-> FixedFiles, operational |-> OperationalFiles]

EditDatabase(d) ==
    /\ databaseEdits < MaxDatabaseEdits
    /\ databaseEdits' = databaseEdits + 1
    /\ \E v \in Versions :
           databases' = [databases EXCEPT ![d] = [content |-> v, stat |-> databaseEdits']]
    /\ UNCHANGED <<snapshot, folderVars, archives, making, limitVars, answered>>

-----------------------------------------------------------------------------
(* create: the snapshot.                                                   *)

BeginPackageCommand(started) ==
    /\ CommandAt("idle")
    /\ commands < MaxCommands
    /\ commands' = commands + 1
    /\ making' = started
    /\ UNCHANGED <<databaseVars, snapshot, folderVars, archives, commandFaults>>

StartCreate(delta) ==
    /\ BeginPackageCommand([NoPackageCommand EXCEPT !.step = "discover", !.delta = delta])
    /\ answered' = [answered EXCEPT !.whole = FALSE]

\* A snapshot is kept when every database has the size and time it had.
SnapshotReusable == snapshot # NoSnapshot /\ snapshot.stat = CurrentStats


DiscoverDatabases ==
    /\ CommandAt("discover")
    /\ making' = IF SnapshotReusable THEN [making EXCEPT !.step = "ledger"]
                 ELSE [making EXCEPT !.step = "hash", !.todo = Databases,
                                     !.stat = CurrentStats]
    /\ UNCHANGED <<otherVars, folderVars, answered>>

HashDatabase(d) ==
    /\ CommandAt("hash") /\ d \in making.todo
    /\ making' = [making EXCEPT !.hash[d] = databases[d].content,
                                !.todo = IF @ = {d} THEN Databases ELSE @ \ {d},
                                !.step = IF making.todo = {d} THEN "read" ELSE @]
    /\ UNCHANGED <<otherVars, folderVars, answered>>

ReadDatabase(d) ==
    /\ CommandAt("read") /\ d \in making.todo
    /\ making' = [making EXCEPT !.rows[d] = databases[d].content,
                                !.todo = @ \ {d},
                                !.step = IF making.todo = {d} THEN "replace" ELSE @]
    /\ UNCHANGED <<otherVars, folderVars, answered>>

\* The sizes and times a snapshot keeps are those of before anything was read.
StatReplaced == CurrentStats
StatKept == making.stat

ReplaceSnapshot ==
    /\ CommandAt("replace")
    /\ snapshot' = [stat |-> StatKept, hash |-> making.hash, rows |-> making.rows]
    /\ NextStep("ledger")
    /\ UNCHANGED <<databaseVars, folderVars, archives, limitVars, answered>>

-----------------------------------------------------------------------------
(* create: the ledger and the other files.                                 *)

CreateLedger ==
    /\ CommandAt("ledger") /\ ~operations.exists
    /\ operations' = [operations EXCEPT !.exists = TRUE, !.schema = LatestSchema,
                                        !.born = LatestSchema]
    /\ sidecars' = [sidecars EXCEPT !.rq = {}]
    /\ NextStep("pointers")
    /\ UNCHANGED <<otherVars, brainPointer, packageManifest, answered>>

\* Each step of a migration has its receipt, in one transaction with the new schema.
Migrated == [operations EXCEPT !.schema = @ + 1, !.receipts = @ + 1]

MigrateLedger ==
    /\ CommandAt("ledger") /\ LedgerIsUsable /\ operations.schema < LatestSchema
    /\ operations' = Migrated
    /\ sidecars' = IF Migrated.schema = LatestSchema THEN [sidecars EXCEPT !.rq = {}]
                   ELSE sidecars
    /\ UNCHANGED <<otherVars, brainPointer, packageManifest, making, answered>>

KeepLedger ==
    /\ CommandAt("ledger") /\ LedgerIsUsable /\ operations.schema = LatestSchema
    /\ NextStep("pointers")
    /\ UNCHANGED <<otherVars, folderVars, answered>>

\* A ledger whose tables were not all made is refused, every time.
RefuseHalfLedger ==
    /\ CommandAt("ledger") /\ operations.exists /\ operations.schema = 0
    /\ making' = NoPackageCommand
    /\ UNCHANGED <<otherVars, folderVars, answered>>

WritePackagePointers ==
    /\ CommandAt("pointers")
    /\ brainPointer' = snapshot.hash
    /\ NextStep("sidecars")
    /\ UNCHANGED <<otherVars, operations, sidecars, packageManifest, answered>>

\* The files of the usage and of the answers start anew; the log of the steers is kept.
Reset == [sidecars EXCEPT !.usage = {}, !.rq = {}]

WriteSidecars ==
    /\ CommandAt("sidecars")
    /\ sidecars' = Reset
    /\ NextStep("manifest")
    /\ UNCHANGED <<otherVars, operations, brainPointer, packageManifest, answered>>

WritePackageManifest ==
    /\ CommandAt("manifest")
    /\ packageManifest' = ManifestOf(FALSE)
    /\ NextStep("validate")
    /\ UNCHANGED <<otherVars, operations, sidecars, brainPointer, answered>>

ValidatePackage ==
    /\ CommandAt("validate") /\ PackageIsValid
    /\ NextStep("register")
    /\ UNCHANGED <<otherVars, folderVars, answered>>

\* A delta the ledger knows is not registered again.
RegisteredOnce(d) == [operations EXCEPT !.deltas[d] = IF @ = 0 THEN 1 ELSE @]

RegisterDelta ==
    /\ CommandAt("register")
    /\ operations' = RegisteredOnce(making.delta)
    /\ making' = NoPackageCommand
    /\ answered' = [answered EXCEPT !.whole = TRUE, !.deltas = @ \cup {making.delta}]
    /\ UNCHANGED <<otherVars, sidecars, brainPointer, packageManifest>>

-----------------------------------------------------------------------------
(* The commands that append to the ledger.                                 *)

StartAppend(kind) ==
    /\ operations.exists
    /\ operations.schema >= FirstSchema[kind]
    /\ BeginPackageCommand([NoPackageCommand EXCEPT !.step = "row", !.kind = kind])
    /\ UNCHANGED answered

AppendRow ==
    /\ CommandAt("row")
    /\ operations' = [operations EXCEPT !.rows[making.kind] = @ + 1]
    /\ IF making.kind \in SidecarKinds THEN NextStep("sidecar")
       ELSE making' = NoPackageCommand
    /\ UNCHANGED <<otherVars, sidecars, brainPointer, packageManifest, answered>>

\* A file that was cut short while it was written.
CutFile == {0}

\* The log of the steers grows, the other two files show the last row.
Shown(kind) ==
    IF kind = "steer" THEN sidecars[kind] \cup {operations.rows[kind]}
    ELSE {operations.rows[kind]}

WriteSidecar ==
    /\ CommandAt("sidecar")
    /\ making.kind = "steer" => sidecars.steer # CutFile
    /\ sidecars' = [sidecars EXCEPT ![making.kind] = Shown(making.kind)]
    /\ making' = NoPackageCommand
    /\ UNCHANGED <<otherVars, operations, brainPointer, packageManifest, answered>>

\* The log of the steers is read first, and one that was cut short cannot be.
RefuseCutLog ==
    /\ CommandAt("sidecar") /\ making.kind = "steer" /\ sidecars.steer = CutFile
    /\ making' = NoPackageCommand
    /\ UNCHANGED <<otherVars, folderVars, answered>>

-----------------------------------------------------------------------------
(* export.                                                                 *)

Members == [fixed |-> FixedFiles, operational |-> OperationalFiles,
            manifest |-> packageManifest]

\* An archive validates when its manifest is frozen and names its members as they are.
ArchiveIsValid(archive) ==
    /\ archive # NoSnapshot /\ archive.manifest # NoSnapshot
    /\ archive.manifest.frozen
    /\ archive.manifest.fixed = archive.fixed
    /\ archive.manifest.operational = archive.operational

CutArchive == [Members EXCEPT !.manifest = NoSnapshot]

\* The archive of this snapshot must not be there; one that is there and valid is the
\* answer, another is refused, and nothing changes.
StartExport ==
    /\ brainPointer # NoSnapshot
    /\ archives[brainPointer] = NoSnapshot
    /\ PackageIsValid
    /\ BeginPackageCommand([NoPackageCommand EXCEPT !.step = "freeze"])
    /\ UNCHANGED answered

FreezeManifest ==
    /\ CommandAt("freeze")
    /\ packageManifest' = ManifestOf(TRUE)
    /\ NextStep("archive")
    /\ UNCHANGED <<otherVars, operations, sidecars, brainPointer, answered>>

WriteArchive ==
    /\ CommandAt("archive")
    /\ PackageIsValid
    /\ archives' = [archives EXCEPT ![brainPointer] = Members]
    /\ NextStep("thaw")
    /\ UNCHANGED <<databaseVars, snapshot, folderVars, limitVars, answered>>

\* However the export went, the manifest of the folder is written anew.
ThawManifest ==
    /\ CommandAt("thaw")
    /\ packageManifest' = ManifestOf(FALSE)
    /\ making' = NoPackageCommand
    /\ answered' = IF ArchiveIsValid(archives[brainPointer])
                   THEN [answered EXCEPT !.archives[brainPointer] = archives[brainPointer]]
                   ELSE answered
    /\ UNCHANGED <<otherVars, operations, sidecars, brainPointer>>

-----------------------------------------------------------------------------
(* A command that does not end well.                                       *)

CommandFaults ==
    /\ ~CommandAt("idle")
    /\ commandFaults < MaxCommandFaults
    /\ commandFaults' = commandFaults + 1
    /\ UNCHANGED <<databaseVars, snapshot, brainPointer, commands>>

\* The tables of a new ledger are made one by one: those that were made stay.
HalfMade ==
    IF CommandAt("ledger") /\ ~operations.exists THEN [operations EXCEPT !.exists = TRUE]
    ELSE operations

FailCommand ==
    /\ CommandFaults
    /\ ~CommandAt("thaw")
    /\ operations' = HalfMade
    /\ IF making.step \in {"freeze", "archive"} THEN NextStep("thaw")
       ELSE making' = NoPackageCommand
    /\ UNCHANGED <<sidecars, packageManifest, archives, answered>>

\* What was being written is cut short.
CrashCommand ==
    /\ CommandFaults
    /\ operations' = HalfMade
    /\ archives' = IF CommandAt("archive")
                   THEN [archives EXCEPT ![brainPointer] = CutArchive] ELSE archives
    /\ packageManifest' = IF making.step \in {"manifest", "freeze", "thaw"} THEN NoSnapshot
                   ELSE packageManifest
    /\ answered' = IF making.step \in {"freeze", "archive", "thaw"}
                   THEN [answered EXCEPT !.whole = FALSE] ELSE answered
    /\ sidecars' = CASE CommandAt("sidecar") -> [sidecars EXCEPT ![making.kind] = CutFile]
                     [] CommandAt("sidecars") -> [sidecars EXCEPT !.usage = CutFile]
                     [] OTHER -> sidecars
    /\ making' = NoPackageCommand

-----------------------------------------------------------------------------
PackageNext ==
    \/ \E d \in Databases : EditDatabase(d) \/ HashDatabase(d) \/ ReadDatabase(d)
    \/ \E delta \in GoalDeltas : StartCreate(delta)
    \/ DiscoverDatabases \/ ReplaceSnapshot
    \/ CreateLedger \/ MigrateLedger \/ KeepLedger \/ RefuseHalfLedger
    \/ WriteSidecars \/ WritePackagePointers \/ WritePackageManifest
    \/ ValidatePackage \/ RegisterDelta
    \/ \E kind \in RowKinds : StartAppend(kind)
    \/ AppendRow \/ WriteSidecar \/ RefuseCutLog
    \/ StartExport \/ FreezeManifest \/ WriteArchive \/ ThawManifest
    \/ FailCommand \/ CrashCommand

PackageSpec == PackageInit /\ [][PackageNext]_packageVars

-----------------------------------------------------------------------------
\* A snapshot that would be reused holds the databases as they are, and its identity is
\* the hash of what it holds, however they were edited while it was made.
ReusedSnapshotIsTrue ==
    SnapshotReusable => snapshot.rows = CurrentContents /\ snapshot.hash = CurrentContents

\* The folder of a create that succeeded stays valid through later appends and exports,
\* failed ones too, unless the worker died in an export; and a folder that is valid
\* points to the snapshot it has.
FolderStaysValid ==
    CommandAt("idle") =>
        /\ answered.whole => PackageIsValid
        /\ PackageIsValid => brainPointer = snapshot.hash

\* A delta a create answered for is in the ledger, and none is in it twice; every step
\* of a migration left one receipt.
LedgerTellsOnce ==
    /\ \A d \in GoalDeltas : operations.deltas[d] \in IF d \in answered.deltas THEN {1}
                                                       ELSE {0, 1}
    /\ operations.receipts = operations.schema - operations.born

\* A file beside the ledger shows rows the ledger has, and the log of the steers all of
\* them unless a write of it failed, a new create notwithstanding.
SidecarsFollowTheLedger ==
    /\ \A k \in SidecarKinds :
           sidecars[k] \subseteq 1..operations.rows[k] \/ sidecars[k] = CutFile
    /\ CommandAt("idle") /\ commandFaults = 0 => sidecars.steer = 1..operations.rows.steer

\* An archive that was answered for is never another one, is valid, and is that of the
\* snapshot it is named after.
ArchivesStayTrue ==
    \A i \in Identities :
        answered.archives[i] # NoSnapshot =>
            /\ archives[i] = answered.archives[i]
            /\ ArchiveIsValid(archives[i])
            /\ archives[i].fixed.snapshot.hash = i

PackageIsTrue ==
    /\ ReusedSnapshotIsTrue
    /\ FolderStaysValid
    /\ LedgerTellsOnce
    /\ SidecarsFollowTheLedger
    /\ ArchivesStayTrue
===============================================================================
