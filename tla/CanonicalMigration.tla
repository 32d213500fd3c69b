-------------------------- MODULE CanonicalMigration --------------------------
(***************************************************************************)
(* The copy of a workspace to its canonical root (workspace/               *)
(* canonical_migration.py, execute and verify).  The source is listed and  *)
(* hashed, copied file by file to a staging folder, the routes in the      *)
(* copied workspace database are rewritten, the staging folder is moved to *)
(* the target, and source and target are compared with the manifest.       *)
(*                                                                         *)
(* No lock is taken: the application may edit the source at any moment.    *)
(* The content of a file is the number of the edit that wrote it.  The     *)
(* target is not used before it is verified.                               *)
(*                                                                         *)
(* The migration writes files of its own into the copy: its manifest and   *)
(* receipt, the registry of roots and the receipt of the routes.  A source *)
(* may hold files of these names (every migrated one does, and the app     *)
(* keeps its registry there): the copies are overwritten.                  *)
(***************************************************************************)
EXTENDS Naturals

CONSTANTS
    TreeFiles,          \* the files of the source, and those of a migration
    Database,           \* workspace.sqlite, one of them
    AuthorityFiles,     \* manifest, receipt and registry of roots
    RouteReceipt,       \* the receipt of the routes
    Written,            \* the content of a file a migration wrote
    Missing,            \* the content of a file that is not there
    NoTree,             \* a folder that is not there
    MaxEdits,           \* bound: edits of the source
    MaxMigrationFaults  \* bound: migrations that fail or are cut short

ASSUME MigrationAssumption ==
    /\ Database \in TreeFiles /\ RouteReceipt \in TreeFiles \ {Database}
    /\ AuthorityFiles \subseteq TreeFiles \ {Database, RouteReceipt}
    /\ Missing \notin Nat /\ Written \notin Nat \cup {Missing}
    /\ MaxEdits \in Nat /\ MaxMigrationFaults \in Nat

OwnFiles == AuthorityFiles \cup {RouteReceipt}

SourceContents == Nat \cup {Missing}
SourceTrees == [TreeFiles -> SourceContents]
Trees == [TreeFiles -> SourceContents \cup {Written}]
EmptyTree == [f \in TreeFiles |-> Missing]

ASSUME NoTreeAssumption == NoTree \notin Trees

MigrationSteps == {"idle", "hashing", "copying", "routing", "moving", "verifying"}

-----------------------------------------------------------------------------
VARIABLES
    sourceTree,      \* the files of the source
    targetTree,      \* the files of the target, if there is a target
    stagingTree,     \* the files copied so far, while there is a staging folder
    manifest,        \* the files and hashes listed, then those of the target
    routed,          \* the routes of the copied database were rewritten
    migrationStep,
    pending,         \* the files still to hash, to copy or to compare
    outcome,         \* of the last verification
    abandoned,       \* a staging folder was left by a crash
    edits, migrationFaults,
    newer            \* history: files edited since the migration last read them

migrationVars == <<sourceTree, targetTree, stagingTree, manifest, routed, migrationStep,
                   pending, outcome, abandoned, edits, migrationFaults, newer>>

MigrationTypeOK ==
    /\ sourceTree \in SourceTrees /\ manifest \in SourceTrees
    /\ targetTree \in Trees \cup {NoTree} /\ stagingTree \in Trees \cup {NoTree}
    /\ routed \in BOOLEAN /\ abandoned \in BOOLEAN
    /\ migrationStep \in MigrationSteps
    /\ pending \subseteq TreeFiles /\ newer \subseteq TreeFiles
    /\ outcome \in {"none", "PASS", "FAILED"}
    /\ edits \in Nat /\ migrationFaults \in Nat

\* The target may be there, empty.
MigrationInit ==
    /\ sourceTree \in [TreeFiles -> {0, Missing}]
    /\ targetTree \in {NoTree, EmptyTree}
    /\ stagingTree = NoTree
    /\ manifest = EmptyTree
    /\ routed = FALSE /\ abandoned = FALSE
    /\ migrationStep = "idle"
    /\ pending = {} /\ newer = {}
    /\ outcome = "none"
    /\ edits = 0 /\ migrationFaults = 0

-----------------------------------------------------------------------------
Present(tree) == {f \in TreeFiles : tree[f] # Missing}

\* A tree with some files of the migration written into it.
Overwritten(tree, files) == [f \in TreeFiles |-> IF f \in files THEN Written ELSE tree[f]]

TargetInPlace == targetTree \notin {NoTree, EmptyTree}

\* The application writes, creates or removes a file of the source.
EditSource(f) ==
    /\ edits < MaxEdits
    /\ edits' = edits + 1
    /\ \/ sourceTree' = [sourceTree EXCEPT ![f] = edits + 1]
       \/ /\ f \in Present(sourceTree)
          /\ sourceTree' = [sourceTree EXCEPT ![f] = Missing]
    /\ newer' = newer \cup {f}
    /\ UNCHANGED <<targetTree, stagingTree, manifest, routed, migrationStep, pending,
                   outcome, abandoned, migrationFaults>>

\* A target with files is refused, an empty one removed; the source is walked.
StartMigration ==
    /\ migrationStep = "idle"
    /\ ~TargetInPlace
    /\ targetTree' = NoTree
    /\ manifest' = EmptyTree
    /\ pending' = Present(sourceTree)
    /\ migrationStep' = "hashing"
    /\ newer' = {}
    /\ outcome' = "none"
    /\ UNCHANGED <<sourceTree, stagingTree, routed, abandoned, edits, migrationFaults>>

\* A file of the walk that is gone by now fails the migration.
HashFile(f) ==
    /\ migrationStep = "hashing"
    /\ f \in pending /\ f \in Present(sourceTree)
    /\ manifest' = [manifest EXCEPT ![f] = sourceTree[f]]
    /\ pending' = pending \ {f}
    /\ newer' = newer \ {f}
    /\ UNCHANGED <<sourceTree, targetTree, stagingTree, routed, migrationStep, outcome,
                   abandoned, edits, migrationFaults>>

StartCopy ==
    /\ migrationStep = "hashing"
    /\ pending = {}
    /\ stagingTree' = EmptyTree
    /\ pending' = Present(manifest)
    /\ migrationStep' = "copying"
    /\ UNCHANGED <<sourceTree, targetTree, manifest, routed, outcome, abandoned, edits,
                   migrationFaults, newer>>

\* mutant: the copy is not compared with the manifest
AnyCopy(f) == sourceTree[f] # Missing

\* The hash of the copy is the one listed.
FaithfulCopy(f) == sourceTree[f] = manifest[f]

CopyFile(f) ==
    /\ migrationStep = "copying"
    /\ f \in pending
    /\ FaithfulCopy(f)
    /\ stagingTree' = [stagingTree EXCEPT ![f] = sourceTree[f]]
    /\ pending' = pending \ {f}
    /\ UNCHANGED <<sourceTree, targetTree, manifest, routed, migrationStep, outcome,
                   abandoned, edits, migrationFaults, newer>>

\* Manifest, receipt and registry of roots are written beside the files, and over
\* those that were copied from files of the same names.
WriteAuthorityFiles ==
    /\ migrationStep = "copying"
    /\ pending = {}
    /\ stagingTree' = Overwritten(stagingTree, AuthorityFiles)
    /\ migrationStep' = "routing"
    /\ UNCHANGED <<sourceTree, targetTree, manifest, routed, pending, outcome,
                   abandoned, edits, migrationFaults, newer>>

\* One transaction on the copied database, which must be there, and its receipt.
RewriteRoutes ==
    /\ migrationStep = "routing"
    /\ stagingTree[Database] # Missing
    /\ stagingTree' = Overwritten(stagingTree, {RouteReceipt})
    /\ routed' = TRUE
    /\ migrationStep' = "moving"
    /\ UNCHANGED <<sourceTree, targetTree, manifest, pending, outcome, abandoned, edits,
                   migrationFaults, newer>>

\* os.replace
MoveToTarget ==
    /\ migrationStep = "moving"
    /\ targetTree' = stagingTree
    /\ stagingTree' = NoTree
    /\ pending' = Present(manifest)
    /\ migrationStep' = "verifying"
    /\ UNCHANGED <<sourceTree, manifest, routed, outcome, abandoned, edits,
                   migrationFaults, newer>>

\* The verification can be asked for again.
StartVerification ==
    /\ migrationStep = "idle"
    /\ TargetInPlace
    /\ pending' = Present(manifest)
    /\ outcome' = "none"
    /\ migrationStep' = "verifying"
    /\ UNCHANGED <<sourceTree, targetTree, stagingTree, manifest, routed, abandoned,
                   edits, migrationFaults, newer>>

\* The database of the target is not compared once its routes are rewritten; a file
\* that the migration has overwritten is, and differs.
InParity(f) ==
    /\ sourceTree[f] = manifest[f]
    /\ targetTree[f] = manifest[f] \/ (routed /\ f = Database /\ targetTree[f] # Missing)

VerifyFile(f) ==
    /\ migrationStep = "verifying"
    /\ f \in pending
    /\ InParity(f)
    /\ pending' = pending \ {f}
    /\ newer' = newer \ {f}
    /\ UNCHANGED <<sourceTree, targetTree, stagingTree, manifest, routed, migrationStep,
                   outcome, abandoned, edits, migrationFaults>>

\* A file of the target that is neither in the manifest nor the migration's own fails
\* the verification.
PassVerification ==
    /\ migrationStep = "verifying"
    /\ pending = {}
    /\ Present(targetTree) \subseteq Present(manifest) \cup OwnFiles
    /\ outcome' = "PASS"
    /\ migrationStep' = "idle"
    /\ UNCHANGED <<sourceTree, targetTree, stagingTree, manifest, routed, pending,
                   abandoned, edits, migrationFaults, newer>>

\* The target stays where it is.
FailVerification ==
    /\ migrationStep = "verifying"
    /\ \E f \in pending : ~InParity(f)
    /\ outcome' = "FAILED"
    /\ pending' = {}
    /\ migrationStep' = "idle"
    /\ UNCHANGED <<sourceTree, targetTree, stagingTree, manifest, routed, abandoned,
                   edits, migrationFaults, newer>>

\* A file that changed, is gone, or a missing database.
MustAbort ==
    \/ migrationStep = "hashing" /\ pending \ Present(sourceTree) # {}
    \/ migrationStep = "copying" /\ \E f \in pending : ~FaithfulCopy(f)
    \/ migrationStep = "routing" /\ stagingTree[Database] = Missing

\* Any other failure before the move: no space, a route to a file created meanwhile.
MayAbort ==
    /\ migrationStep \in {"hashing", "copying", "routing", "moving"}
    /\ migrationFaults < MaxMigrationFaults

\* The staging folder is removed.
AbortMigration ==
    /\ \/ MustAbort /\ UNCHANGED migrationFaults
       \/ MayAbort /\ migrationFaults' = migrationFaults + 1
    /\ stagingTree' = NoTree
    /\ routed' = FALSE
    /\ pending' = {}
    /\ manifest' = EmptyTree
    /\ migrationStep' = "idle"
    /\ UNCHANGED <<sourceTree, targetTree, outcome, abandoned, edits, newer>>

\* The process dies; a staging folder stays, under a name no later migration uses.
CrashOfMigration ==
    /\ migrationStep # "idle"
    /\ migrationFaults < MaxMigrationFaults
    /\ migrationFaults' = migrationFaults + 1
    /\ abandoned' = (abandoned \/ stagingTree # NoTree)
    /\ stagingTree' = NoTree
    /\ routed' = (routed /\ TargetInPlace)
    /\ pending' = {}
    /\ manifest' = IF TargetInPlace THEN manifest ELSE EmptyTree
    /\ migrationStep' = "idle"
    /\ UNCHANGED <<sourceTree, targetTree, outcome, edits, newer>>

MigrationNext ==
    \/ \E f \in TreeFiles : EditSource(f) \/ HashFile(f) \/ CopyFile(f) \/ VerifyFile(f)
    \/ StartMigration \/ StartCopy \/ WriteAuthorityFiles \/ RewriteRoutes
    \/ MoveToTarget \/ StartVerification \/ PassVerification \/ FailVerification
    \/ AbortMigration \/ CrashOfMigration

MigrationSpec == MigrationInit /\ [][MigrationNext]_migrationVars

-----------------------------------------------------------------------------
(* Properties.                                                             *)

\* The target appears at once and complete: whenever it has files, they are those of
\* its manifest with the contents listed, but for the files of the migration, which
\* are the ones it wrote whatever the source had of these names; its database is
\* there and routed.  And a verification that passed is right: a file that was not
\* edited since the migration last read it is the same in the source and in the
\* target, and a file of the migration is one the source does not have (where it
\* does, the copy was overwritten and the verification cannot pass).
MigrationIsFaithful ==
    /\ TargetInPlace => /\ targetTree = Overwritten(manifest, OwnFiles)
                        /\ routed /\ targetTree[Database] # Missing
    /\ outcome = "PASS" =>
          \A f \in TreeFiles \ newer :
              sourceTree[f] = IF f \in OwnFiles THEN Missing ELSE targetTree[f]
===============================================================================
