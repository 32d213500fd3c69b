-------------------------- MODULE LocalFiles_proofs --------------------------
(***************************************************************************)
(* What the worker keeps in the files of one machine, in parts: the roots  *)
(* a migration moves (canonical_migration.py), for any set of files and    *)
(* any number of edits, failures and deaths; the local database with what  *)
(* stands beside it (local_workspace.py), for any set of assets and keys   *)
(* and any number of chats and failures; what a refresh says of a source   *)
(* folder (refresh_delta_truth.py), for any set of paths and contents and  *)
(* any number of edits meanwhile; the ledger of project deltas with its    *)
(* files and its copies (project_delta_ledger.py), for any set of          *)
(* candidates and any number of events, failures and deaths; what a        *)
(* refresh takes in (refresh_brain.py), for any sources and requests; the  *)
(* folder of a restored version (rollback_product.py), for any versions    *)
(* and any commands; and the list of the brains with its stored copy       *)
(* (ipc_worker.py), for any roots, workers and edits.                      *)
(*                                                                         *)
(* MigrationIsFaithful is about the target; it is kept because the staging *)
(* folder that becomes it is, file by file, what the manifest says or what *)
(* the migration wrote itself, and because the manifest says what the      *)
(* source held but for newer.  A file of the migration that was copied is  *)
(* found to differ before the verification can pass.                       *)
(* A command on the local data changes a row and what it names outside the *)
(* database in an order of its own; the invariant says for every step of   *)
(* every command which of the two is ahead.                                *)
(* A refresh is told true of the files nobody works on while it looks,     *)
(* because they are still as they were found.  A ledger keeps its rows,    *)
(* its files and the states of the refreshes together because the copies   *)
(* that become it are older: each goes on, row by row, to every ledger     *)
(* that lists its candidate.  A list that is served may be an older one:   *)
(* the invariant says of every root and every row since when it is true.   *)
(***************************************************************************)
EXTENDS CanonicalMigration, LocalWorkspace, RefreshTruth, DeltaLedger, SourceRefresh,
        RollbackProduct, CatalogCache, SequenceTheorems, TLAPS

\* The target has files only between migrations, or while it is verified.
TargetIsSafe ==
    /\ TargetInPlace => /\ targetTree = Overwritten(manifest, OwnFiles)
                        /\ routed /\ targetTree[Database] # Missing
                        /\ migrationStep \in {"idle", "verifying"}
    /\ migrationStep = "verifying" => TargetInPlace
    /\ outcome = "PASS" => TargetInPlace

\* A file was compared with what the manifest says, or the manifest does not list it.
ComparisonFollows ==
    /\ migrationStep = "verifying" =>
          /\ pending \subseteq Present(manifest)
          /\ \A f \in Present(manifest) \ pending : f \notin OwnFiles
    /\ outcome = "PASS" => \A f \in OwnFiles : manifest[f] = Missing

\* The staging folder is what the manifest says of the files that were copied.
StagingFollows ==
    /\ migrationStep = "copying" =>
          /\ stagingTree \in Trees
          /\ \A f \in TreeFiles : stagingTree[f] = (IF f \in pending THEN Missing ELSE manifest[f])
    /\ migrationStep = "routing" => stagingTree = Overwritten(manifest, AuthorityFiles)
    /\ migrationStep = "moving" =>
          /\ stagingTree = Overwritten(manifest, OwnFiles)
          /\ routed /\ stagingTree[Database] # Missing

\* The manifest is what the source held, but for the files edited since they were read.
ManifestFollows ==
    /\ migrationStep = "hashing" =>
          \A f \in TreeFiles \ (newer \cup pending) : sourceTree[f] = manifest[f]
    /\ (TargetInPlace \/ migrationStep \in {"copying", "routing", "moving"}) =>
          \A f \in TreeFiles \ newer : sourceTree[f] = manifest[f]

MigrationInvariant ==
    /\ MigrationTypeOK /\ TargetIsSafe /\ ComparisonFollows /\ StagingFollows
    /\ ManifestFollows

-----------------------------------------------------------------------------
\* What a tree holds once files of the migration are written into it.
LEMMA OverwrittenTree ==
    ASSUME NEW t \in Trees, NEW own \in SUBSET TreeFiles
    PROVE  /\ Overwritten(t, own) \in Trees
           /\ \A f \in TreeFiles : Overwritten(t, own)[f] = IF f \in own THEN Written ELSE t[f]
BY DEF Overwritten, Trees, SourceContents

\* The files of the migration are not the database, and are written in two steps.
LEMMA OwnFilesApart ==
    /\ AuthorityFiles \in SUBSET TreeFiles /\ {RouteReceipt} \in SUBSET TreeFiles
    /\ OwnFiles \in SUBSET TreeFiles
    /\ Database \in TreeFiles /\ Database \notin OwnFiles
    /\ \A t \in Trees : Overwritten(Overwritten(t, AuthorityFiles), {RouteReceipt})
                            = Overwritten(t, OwnFiles)
<1>1. /\ AuthorityFiles \in SUBSET TreeFiles /\ {RouteReceipt} \in SUBSET TreeFiles
      /\ OwnFiles \in SUBSET TreeFiles
      /\ Database \in TreeFiles /\ Database \notin OwnFiles
  BY MigrationAssumption DEF OwnFiles
<1>2. ASSUME NEW t \in Trees
      PROVE  Overwritten(Overwritten(t, AuthorityFiles), {RouteReceipt})
               = Overwritten(t, OwnFiles)
  BY DEF Overwritten, OwnFiles
<1> QED
  BY <1>1, <1>2

\* The steps write values of the declared types.
LEMMA MigrationTypeStep ==
    MigrationInvariant /\ [MigrationNext]_migrationVars => MigrationTypeOK'
<1> SUFFICES ASSUME MigrationInvariant, [MigrationNext]_migrationVars PROVE MigrationTypeOK'
  OBVIOUS
<1>0. MigrationTypeOK
  BY DEF MigrationInvariant
<1>a. EmptyTree \in SourceTrees
  BY DEF EmptyTree, SourceTrees, SourceContents
<1>b. stagingTree # NoTree => stagingTree \in Trees
  BY <1>0 DEF MigrationTypeOK
<1> USE DEF MigrationSteps
<1>1. CASE UNCHANGED migrationVars
  BY <1>0, <1>1 DEF migrationVars, MigrationTypeOK
<1>2. ASSUME NEW f \in TreeFiles, EditSource(f) PROVE MigrationTypeOK'
  BY <1>0, <1>2 DEF EditSource, MigrationTypeOK, SourceTrees, SourceContents
<1>3. ASSUME NEW f \in TreeFiles, HashFile(f) PROVE MigrationTypeOK'
  BY <1>0, <1>3 DEF HashFile, MigrationTypeOK, SourceTrees
<1>4. ASSUME NEW f \in TreeFiles, CopyFile(f) PROVE MigrationTypeOK'
  BY <1>4, <1>0 DEF MigrationInvariant, StagingFollows, CopyFile, MigrationTypeOK, Trees,
     SourceTrees
<1>5. ASSUME NEW f \in TreeFiles, VerifyFile(f) PROVE MigrationTypeOK'
  BY <1>0, <1>5 DEF VerifyFile, MigrationTypeOK
<1>6. CASE StartMigration
  BY <1>0, <1>a, <1>6 DEF StartMigration, Present, MigrationTypeOK
<1>7. CASE StartCopy
  BY <1>0, <1>a, <1>7 DEF StartCopy, Present, MigrationTypeOK, SourceTrees, Trees
<1>8. CASE WriteAuthorityFiles
  <2>1. stagingTree \in Trees
    BY <1>8 DEF WriteAuthorityFiles, MigrationInvariant, StagingFollows
  <2>2. stagingTree' \in Trees
    BY <1>8, <2>1, OwnFilesApart, OverwrittenTree DEF WriteAuthorityFiles
  <2> QED
    BY <1>0, <1>8, <2>2 DEF WriteAuthorityFiles, MigrationTypeOK
<1>9. CASE RewriteRoutes
  <2>1. stagingTree = Overwritten(manifest, AuthorityFiles) /\ manifest \in Trees
    BY <1>0, <1>9 DEF RewriteRoutes, MigrationInvariant, StagingFollows, MigrationTypeOK,
       SourceTrees, Trees
  <2>2. stagingTree' \in Trees
    BY <1>9, <2>1, OwnFilesApart, OverwrittenTree DEF RewriteRoutes
  <2> QED
    BY <1>0, <1>9, <2>2 DEF RewriteRoutes, MigrationTypeOK
<1>10. CASE MoveToTarget
  BY <1>0, <1>10 DEF MoveToTarget, Present, MigrationTypeOK
<1>11. CASE StartVerification
  BY <1>0, <1>11 DEF StartVerification, Present, MigrationTypeOK
<1>12. CASE PassVerification
  BY <1>0, <1>12 DEF PassVerification, MigrationTypeOK
<1>13. CASE FailVerification
  BY <1>0, <1>13 DEF FailVerification, MigrationTypeOK
<1>14. CASE AbortMigration
  <2>1. migrationFaults' \in Nat
    BY <1>0, <1>14 DEF AbortMigration, MigrationTypeOK
  <2>2. /\ stagingTree' = NoTree /\ routed' = FALSE /\ pending' = {} /\ manifest' = EmptyTree
        /\ migrationStep' = "idle"
        /\ UNCHANGED <<sourceTree, targetTree, outcome, abandoned, edits, newer>>
    BY <1>14 DEF AbortMigration
  <2> QED
    BY <1>0, <1>a, <2>1, <2>2 DEF MigrationTypeOK
<1>15. CASE CrashOfMigration
  BY <1>15, <1>0, <1>a DEF CrashOfMigration, MigrationTypeOK
<1> QED
  BY <1>1, <1>2, <1>3, <1>4, <1>5, <1>6, <1>7, <1>8, <1>9, <1>10, <1>11, <1>12, <1>13,
     <1>14, <1>15 DEF MigrationNext

\* No file of the migration is found to be as it was.
LEMMA ComparisonStep ==
    MigrationInvariant /\ [MigrationNext]_migrationVars => ComparisonFollows'
<1> SUFFICES ASSUME MigrationInvariant, [MigrationNext]_migrationVars
             PROVE  ComparisonFollows'
  OBVIOUS
<1>a. /\ manifest \in SourceTrees /\ manifest \in Trees /\ MigrationTypeOK
      /\ Present(manifest) \subseteq TreeFiles
  BY DEF MigrationInvariant, MigrationTypeOK, SourceTrees, Trees, Present
<1>1. ComparisonFollows /\ TargetIsSafe
  BY DEF MigrationInvariant
<1> USE DEF ComparisonFollows
<1>3. CASE UNCHANGED migrationVars
  BY <1>1, <1>3 DEF migrationVars, Present
<1>4. ASSUME NEW f \in TreeFiles, EditSource(f) \/ CopyFile(f) PROVE ComparisonFollows'
  BY <1>1, <1>4 DEF EditSource, CopyFile, Present
<1>5. ASSUME NEW f \in TreeFiles, HashFile(f) PROVE ComparisonFollows'
  BY <1>1, <1>5 DEF HashFile, TargetIsSafe
<1>6. ASSUME NEW f \in TreeFiles, VerifyFile(f) PROVE ComparisonFollows'
  <2>1. f \in Present(manifest) /\ targetTree[f] = Overwritten(manifest, OwnFiles)[f]
    BY <1>1, <1>6 DEF VerifyFile, TargetIsSafe
  <2>2. f \in OwnFiles => targetTree[f] = Written
    BY <1>a, <2>1, OwnFilesApart, OverwrittenTree
  <2>3. manifest[f] # Written /\ Database \notin OwnFiles
    BY <1>a, OwnFilesApart, MigrationAssumption DEF SourceTrees, SourceContents
  <2>4. f \notin OwnFiles
    BY <1>6, <2>2, <2>3 DEF VerifyFile, InParity
  <2> QED
    BY <1>1, <1>6, <2>4 DEF VerifyFile, Present
<1>7. CASE StartMigration
  BY <1>1, <1>7 DEF StartMigration, Present
<1>8. CASE StartCopy
  BY <1>1, <1>8 DEF StartCopy, Present
<1>9. CASE WriteAuthorityFiles \/ RewriteRoutes
  BY <1>1, <1>9 DEF WriteAuthorityFiles, RewriteRoutes, Present
<1>10. CASE MoveToTarget
  BY <1>1, <1>10 DEF MoveToTarget, Present
<1>11. CASE StartVerification
  BY <1>1, <1>11 DEF StartVerification, Present
<1>12. CASE PassVerification
  <2>1. \A f \in OwnFiles : f \in TreeFiles /\ f \notin Present(manifest)
    BY <1>1, <1>12, OwnFilesApart DEF PassVerification
  <2> QED
    BY <1>1, <1>12, <2>1 DEF PassVerification, Present
<1>13. CASE FailVerification
  BY <1>1, <1>13 DEF FailVerification, Present
<1>14. CASE AbortMigration
  BY <1>1, <1>14 DEF AbortMigration, MustAbort, MayAbort, TargetIsSafe
<1>15. CASE CrashOfMigration
  BY <1>1, <1>15 DEF CrashOfMigration, TargetIsSafe
<1> QED
  BY <1>3, <1>4, <1>5, <1>6, <1>7, <1>8, <1>9, <1>10, <1>11, <1>12, <1>13, <1>14, <1>15
     DEF MigrationNext

-----------------------------------------------------------------------------
\* No step comes between the trees.
LEMMA MigrationStepKeeps ==
    MigrationInvariant /\ [MigrationNext]_migrationVars => MigrationInvariant'
<1> SUFFICES ASSUME MigrationInvariant, [MigrationNext]_migrationVars
             PROVE  TargetIsSafe' /\ StagingFollows' /\ ManifestFollows'
  BY MigrationTypeStep, ComparisonStep DEF MigrationInvariant
<1>0. MigrationTypeOK /\ TargetIsSafe /\ StagingFollows /\ ManifestFollows
  BY DEF MigrationInvariant
<1>a. /\ sourceTree \in SourceTrees /\ manifest \in SourceTrees
      /\ sourceTree \in Trees /\ manifest \in Trees
      /\ EmptyTree \in Trees /\ \A f \in TreeFiles : EmptyTree[f] = Missing
  BY <1>0 DEF MigrationTypeOK, EmptyTree, Trees, SourceTrees, SourceContents
<1>1. CASE UNCHANGED migrationVars
  BY <1>0, <1>1 DEF migrationVars, TargetIsSafe, StagingFollows, ManifestFollows, TargetInPlace
<1>2. ASSUME NEW f \in TreeFiles, EditSource(f)
      PROVE  TargetIsSafe' /\ StagingFollows' /\ ManifestFollows'
  BY <1>a, <1>2, <1>0 DEF EditSource, Trees, TargetIsSafe, StagingFollows, TargetInPlace,
     ManifestFollows
<1>3. ASSUME NEW f \in TreeFiles, HashFile(f)
      PROVE  TargetIsSafe' /\ StagingFollows' /\ ManifestFollows'
  BY <1>a, <1>3, <1>0 DEF HashFile, Trees, TargetIsSafe, StagingFollows, TargetInPlace,
     ManifestFollows
<1>4. ASSUME NEW f \in TreeFiles, CopyFile(f)
      PROVE  TargetIsSafe' /\ StagingFollows' /\ ManifestFollows'
  BY <1>0, <1>4, <1>a DEF StagingFollows, CopyFile, FaithfulCopy, Trees, TargetIsSafe,
     ManifestFollows, TargetInPlace
<1>5. ASSUME NEW f \in TreeFiles, VerifyFile(f)
      PROVE  TargetIsSafe' /\ StagingFollows' /\ ManifestFollows'
  BY <1>0, <1>5 DEF VerifyFile, TargetIsSafe, StagingFollows, TargetInPlace, InParity,
     ManifestFollows
<1>6. CASE StartMigration
  BY <1>0, <1>6, <1>a DEF StartMigration, TargetIsSafe, StagingFollows, TargetInPlace,
     ManifestFollows, Present
<1>7. CASE StartCopy
  BY <1>0, <1>7, <1>a DEF StartCopy, TargetIsSafe, ManifestFollows, TargetInPlace,
     StagingFollows, Present
<1>8. CASE WriteAuthorityFiles
  <2>1. stagingTree = manifest
    BY <1>0, <1>a, <1>8 DEF WriteAuthorityFiles, StagingFollows, Trees
  <2> QED
    BY <1>0, <1>8, <2>1 DEF WriteAuthorityFiles, StagingFollows, TargetIsSafe,
       ManifestFollows, TargetInPlace
<1>9. CASE RewriteRoutes
  <2>1. stagingTree' = Overwritten(manifest, OwnFiles) /\ stagingTree[Database] # Missing
    BY <1>0, <1>a, <1>9, OwnFilesApart DEF RewriteRoutes, StagingFollows
  <2>2. stagingTree = Overwritten(manifest, AuthorityFiles)
    BY <1>0, <1>9 DEF RewriteRoutes, StagingFollows
  <2>3. Database \in TreeFiles /\ Database \notin AuthorityFiles
    BY OwnFilesApart DEF OwnFiles
  <2>4. stagingTree'[Database] # Missing
    BY <1>a, <2>1, <2>2, <2>3, OwnFilesApart, OverwrittenTree
  <2> QED
    BY <1>0, <1>9, <2>1, <2>4 DEF RewriteRoutes, TargetIsSafe, StagingFollows,
       ManifestFollows, TargetInPlace
<1>10. CASE MoveToTarget
  <2>1. /\ stagingTree = Overwritten(manifest, OwnFiles) /\ routed
        /\ stagingTree[Database] # Missing
    BY <1>0, <1>10 DEF MoveToTarget, StagingFollows
  <2>2. stagingTree \in Trees /\ Database \in TreeFiles
    BY <1>a, <2>1, OwnFilesApart, OverwrittenTree
  <2>3. stagingTree \notin {NoTree, EmptyTree}
    BY <1>a, <2>1, <2>2, NoTreeAssumption
  <2> QED
    BY <1>0, <1>10, <2>1, <2>3 DEF MoveToTarget, StagingFollows, TargetInPlace, TargetIsSafe,
       ManifestFollows
<1>11. CASE StartVerification
  BY <1>0, <1>11 DEF StartVerification, TargetIsSafe, StagingFollows, ManifestFollows,
     TargetInPlace
<1>12. CASE PassVerification
  BY <1>0, <1>12 DEF PassVerification, TargetIsSafe, StagingFollows, ManifestFollows,
     TargetInPlace
<1>13. CASE FailVerification
  BY <1>0, <1>13 DEF FailVerification, TargetIsSafe, StagingFollows, ManifestFollows,
     TargetInPlace
<1>14. CASE AbortMigration
  BY <1>14, <1>0 DEF AbortMigration, MustAbort, MayAbort, TargetIsSafe, TargetInPlace,
     StagingFollows, ManifestFollows
<1>15. CASE CrashOfMigration
  BY <1>15, <1>0 DEF CrashOfMigration, TargetInPlace, TargetIsSafe, StagingFollows,
     ManifestFollows
<1> QED
  BY <1>1, <1>2, <1>3, <1>4, <1>5, <1>6, <1>7, <1>8, <1>9, <1>10, <1>11, <1>12, <1>13,
     <1>14, <1>15 DEF MigrationNext

\* Every reachable state has the invariant.
LEMMA MigrationInvariantCorrect == MigrationSpec => []MigrationInvariant
<1>1. MigrationInit => MigrationInvariant
  <2> SUFFICES ASSUME MigrationInit PROVE MigrationInvariant
    OBVIOUS
  <2>1. EmptyTree \in Trees /\ EmptyTree \in SourceTrees /\ sourceTree \in SourceTrees
    BY DEF MigrationInit, EmptyTree, Trees, SourceTrees, SourceContents
  <2>2. MigrationTypeOK
    BY <2>1 DEF MigrationInit, MigrationTypeOK, MigrationSteps
  <2>3. ~TargetInPlace
    BY DEF MigrationInit, TargetInPlace
  <2> QED
    BY <2>2, <2>3 DEF MigrationInit, MigrationInvariant, TargetIsSafe, StagingFollows,
       ManifestFollows, ComparisonFollows
<1> QED
  BY <1>1, MigrationStepKeeps, PTL DEF MigrationSpec

\* However the application edits the source and wherever a migration is cut off: the target
\* is empty or what the manifest says, and a verification that passed is right.
THEOREM MigrationFaithful == MigrationSpec => []MigrationIsFaithful
<1>1. MigrationInvariant => MigrationIsFaithful
  <2> SUFFICES ASSUME MigrationInvariant PROVE MigrationIsFaithful
    OBVIOUS
  <2>1. TargetIsSafe /\ ManifestFollows /\ ComparisonFollows /\ manifest \in Trees
    BY DEF MigrationInvariant, MigrationTypeOK, SourceTrees, Trees
  <2>2. ASSUME outcome = "PASS", NEW f \in TreeFiles \ newer
        PROVE  sourceTree[f] = IF f \in OwnFiles THEN Missing ELSE targetTree[f]
    <3>1. /\ targetTree = Overwritten(manifest, OwnFiles) /\ sourceTree[f] = manifest[f]
          /\ f \in OwnFiles => manifest[f] = Missing
      BY <2>1, <2>2 DEF TargetIsSafe, ManifestFollows, ComparisonFollows
    <3> QED
      BY <2>1, <3>1, OwnFilesApart, OverwrittenTree
  <2> QED
    BY <2>1, <2>2 DEF TargetIsSafe, MigrationIsFaithful
<1> QED
  BY <1>1, MigrationInvariantCorrect, PTL

\* The types, of every reachable state.
THEOREM MigrationTypes == MigrationSpec => []MigrationTypeOK
<1>1. MigrationInvariant => MigrationTypeOK
  BY DEF MigrationInvariant
<1> QED
  BY <1>1, MigrationInvariantCorrect, PTL

-----------------------------------------------------------------------------
(* The local database.                                                     *)

\* A credential and its secret.
SecretFollows ==
    /\ credential = "ACTIVE" => vault = TRUE
    /\ chore.step = "secret written" => (chore.existed = FALSE => credential = "none")
    /\ chore.step \in {"pending", "secret deleted"} => credential = "DELETE_PENDING"
    /\ chore.step = "secret deleted" => vault = FALSE
    /\ (vault = TRUE /\ "secret" \notin strays) =>
          credential \in {"ACTIVE", "DELETE_PENDING"} \/ chore.step = "secret written"
    /\ chore.step = "secret written" => vault = TRUE

\* The asset a command works on.
AssetInHand == IF chore.step \in {"asset stored", "asset replaced"} THEN {chore.asset} ELSE {}

\* The setting and its file.
FileFollows ==
    /\ setting # NoAsset => setting \in assetFiles
    /\ chore.step = "asset stored" => chore.asset \in assetFiles
    /\ chore.step = "asset replaced" => chore.asset \in Assets /\ chore.asset # setting
    /\ assetFiles \ strays \subseteq {setting} \cup AssetInHand

\* The turn a command appends.
KeyInHand == IF chore.step = "turn appended" THEN {chore.key} ELSE {}

LastKey(events) == IF events = <<>> THEN NoKey ELSE events[Len(events)].key

Chained(events) ==
    \A n \in DOMAIN events :
        events[n].previous = IF n = 1 THEN NoKey ELSE events[n - 1].key

\* The events of a chat and its turns.
TurnsFollow ==
    /\ KeysOf(lineage) \subseteq brainTurns
    /\ Chained(lineage)
    /\ chore.step = "turn appended" =>
          /\ chore.key \in brainTurns /\ chore.key \in LineageKeys
          /\ chore.previous = LastKey(lineage)
    /\ brainTurns \ strays \subseteq KeysOf(lineage) \cup KeyInHand

LocalInvariant == LocalTypeOK /\ SecretFollows /\ FileFollows /\ TurnsFollow

-----------------------------------------------------------------------------
\* The keys of a history with one more event, and its chain.
LEMMA AppendedEvent ==
    ASSUME NEW s \in Seq(LocalEvent), NEW e \in LocalEvent
    PROVE  /\ KeysOf(Append(s, e)) = KeysOf(s) \cup {e.key}
           /\ (Chained(s) /\ e.previous = LastKey(s)) => Chained(Append(s, e))
<1> DEFINE t == Append(s, e)
<1>1. /\ t \in Seq(LocalEvent) /\ Len(s) \in Nat /\ Len(t) = Len(s) + 1
      /\ DOMAIN s = 1..Len(s) /\ DOMAIN t = 1..(Len(s) + 1)
      /\ t[Len(s) + 1] = e /\ \A n \in 1..Len(s) : t[n] = s[n]
      /\ s = <<>> <=> Len(s) = 0
  OBVIOUS
<1> HIDE DEF t
<1>2. KeysOf(t) = KeysOf(s) \cup {e.key}
  <2>1. ASSUME NEW k \in KeysOf(t) PROVE k \in KeysOf(s) \cup {e.key}
    BY <1>1, <2>1 DEF KeysOf
  <2>2. ASSUME NEW k \in KeysOf(s) PROVE k \in KeysOf(t)
    BY <1>1, <2>2 DEF KeysOf
  <2>3. e.key \in KeysOf(t)
    BY <1>1 DEF KeysOf
  <2> QED
    BY <2>1, <2>2, <2>3
<1>3. ASSUME Chained(s), e.previous = LastKey(s) PROVE Chained(t)
  <2> SUFFICES ASSUME NEW n \in 1..(Len(s) + 1)
               PROVE  t[n].previous = IF n = 1 THEN NoKey ELSE t[n - 1].key
    BY <1>1 DEF Chained
  <2>1. CASE n \in 1..Len(s)
    BY <1>1, <2>1, <1>3 DEF Chained
  <2>2. CASE n = Len(s) + 1
    BY <1>1, <1>3, <2>2 DEF LastKey
  <2> QED
    BY <1>1, <2>1, <2>2
<1> QED
  BY <1>2, <1>3 DEF t

\* A history without events.
LEMMA NoEvents == KeysOf(<<>>) = {} /\ Chained(<<>>) /\ LastKey(<<>>) = NoKey
BY DEF KeysOf, Chained, LastKey

\* The running command is a record, and begins and ends as none.
LEMMA Chores ==
    /\ NoChore.step = "idle" /\ NoChore.existed = FALSE /\ NoChore.asset = NoAsset
    /\ NoChore.key = NoKey /\ NoChore.previous = NoKey
    /\ NoChore \in [step : ChoreSteps, existed : BOOLEAN, asset : Assets \cup {NoAsset},
                    key : LineageKeys \cup {NoKey}, previous : LineageKeys \cup {NoKey}]
BY DEF NoChore, ChoreSteps

-----------------------------------------------------------------------------
\* The three records are kept by the steps that change one of them.
LEMMA SecretUntouched ==
    ASSUME SecretFollows, UNCHANGED credentialVars,
           "secret" \in strays' <=> "secret" \in strays,
           chore'.step \notin {"secret written", "pending", "secret deleted"},
           chore.step # "secret written"
    PROVE  SecretFollows'
BY DEF SecretFollows, credentialVars

LEMMA FileUntouched ==
    ASSUME LocalTypeOK, FileFollows, UNCHANGED assetVars,
           strays' \cap Assets = strays \cap Assets, AssetInHand = {},
           chore'.step \notin {"asset stored", "asset replaced"}
    PROVE  FileFollows'
BY DEF LocalTypeOK, FileFollows, assetVars, AssetInHand

LEMMA TurnsUntouched ==
    ASSUME LocalTypeOK, TurnsFollow, lineage' = lineage, brainTurns' = brainTurns,
           strays' \cap LineageKeys = strays \cap LineageKeys, KeyInHand = {},
           chore'.step # "turn appended"
    PROVE  TurnsFollow'
BY DEF LocalTypeOK, TurnsFollow, KeyInHand
-----------------------------------------------------------------------------
\* The steps write values of the declared types.
LEMMA LocalTypeStep == LocalInvariant /\ [LocalNext]_localVars => LocalTypeOK'
<1> SUFFICES ASSUME LocalInvariant, [LocalNext]_localVars PROVE LocalTypeOK'
  OBVIOUS
<1>0. LocalTypeOK /\ FileFollows /\ TurnsFollow
  BY DEF LocalInvariant
<1> DEFINE Commands == [step : ChoreSteps, existed : BOOLEAN, asset : Assets \cup {NoAsset},
                        key : LineageKeys \cup {NoKey}, previous : LineageKeys \cup {NoKey}]
<1>a. /\ NoChore \in Commands /\ chore \in Commands
      /\ \A c \in Commands : c.asset \in Assets \cup {NoAsset}
  BY <1>0, Chores DEF LocalTypeOK
<1> USE DEF InChore, credentialVars, assetVars, chatVars
<1>1. CASE UNCHANGED localVars
  BY <1>0, <1>1 DEF localVars, LocalTypeOK
<1>2. CASE WriteSecret
  BY <1>a, <1>2, <1>0 DEF WriteSecret, ChoreSteps, LocalTypeOK
<1>3. CASE CommitCredential
  BY <1>0, <1>a, <1>3 DEF CommitCredential, CredentialStatuses, LocalTypeOK
<1>4. CASE CredentialFails
  <2>1. vault' \in BOOLEAN
    BY <1>0, <1>4, Zenon DEF CredentialFails, LocalTypeOK
  <2>2. strays' \subseteq {"secret"} \cup Assets \cup LineageKeys
    BY <1>0, <1>4 DEF CredentialFails, LocalTypeOK
  <2>3. chore' = NoChore /\ localFaults' = localFaults + 1
        /\ UNCHANGED <<credential, setting, assetFiles, chatOpen, chats, lineage, brainTurns>>
    BY <1>4, Zenon DEF CredentialFails, LocalFault
  <2> QED
    BY <1>0, <1>a, <2>1, <2>2, <2>3 DEF LocalTypeOK
<1>5. CASE MarkPending
  BY <1>a, <1>5, <1>0 DEF MarkPending, ChoreSteps, CredentialStatuses, LocalTypeOK
<1>6. CASE DeleteSecret
  BY <1>a, <1>6, <1>0 DEF DeleteSecret, ChoreSteps, LocalTypeOK
<1>7. CASE RecordDeleted
  BY <1>0, <1>a, <1>7 DEF RecordDeleted, CredentialStatuses, LocalTypeOK
<1>8. ASSUME NEW x \in Assets, StoreAsset(x) PROVE LocalTypeOK'
  BY <1>a, <1>8, <1>0 DEF StoreAsset, ChoreSteps, LocalTypeOK
<1>9. CASE CommitSetting
  BY <1>0, <1>a, <1>9 DEF CommitSetting, ChoreSteps, LocalTypeOK
<1>10. CASE ResetSetting
  BY <1>0, <1>a, <1>10 DEF ResetSetting, ChoreSteps, LocalTypeOK
<1>11. CASE RemoveAsset
  BY <1>0, <1>a, <1>11 DEF RemoveAsset, LocalTypeOK
<1>12. CASE CreateChat
  BY <1>12, <1>0 DEF CreateChat, LocalTypeOK
<1>13. CASE DeleteChat
  <2>1. chatOpen' \in BOOLEAN
    BY <1>13 DEF DeleteChat
  <2>4. lineage' \in Seq(LocalEvent)
    BY <1>13 DEF DeleteChat
  <2>2. strays' \subseteq {"secret"} \cup Assets \cup LineageKeys
        /\ UNCHANGED <<credential, vault, setting, assetFiles, chats, brainTurns, chore, localFaults>>
    BY <1>0, <1>13 DEF DeleteChat, LocalTypeOK
  <2> QED
    BY <1>0, <2>1, <2>2, <2>4 DEF LocalTypeOK
<1>14. CASE InsertEvent
  <2>1. [key |-> chore.key, previous |-> chore.previous] \in LocalEvent
    BY <1>0, <1>a, <1>14 DEF InsertEvent, TurnsFollow, LocalEvent
  <2>2. lineage' \in Seq(LocalEvent)
    <3> DEFINE e == [key |-> chore.key, previous |-> chore.previous]
    <3>1. lineage' = Append(lineage, e) /\ e \in LocalEvent /\ lineage \in Seq(LocalEvent)
      BY <1>0, <1>14, <2>1 DEF InsertEvent, LocalTypeOK
    <3> HIDE DEF e
    <3> QED
      BY <3>1
  <2>3. strays' \subseteq strays /\ chore' = NoChore
        /\ UNCHANGED <<credential, vault, setting, assetFiles, chatOpen, chats, brainTurns, localFaults>>
    BY <1>14 DEF InsertEvent
  <2> QED
    BY <1>0, <1>a, <2>2, <2>3 DEF LocalTypeOK
<1>15. ASSUME NEW k \in LineageKeys, AppendTurn(k) PROVE LocalTypeOK'
  <2>1. LastKey(lineage) \in LineageKeys \cup {NoKey}
    <3>1. CASE lineage = <<>>
      BY <3>1 DEF LastKey
    <3>2. CASE lineage # <<>>
      <4>1. lineage[Len(lineage)] \in LocalEvent
        BY <1>0, <3>2 DEF LocalTypeOK
      <4> QED
        BY <3>2, <4>1 DEF LastKey, LocalEvent
    <3> QED
      BY <3>1, <3>2
  <2>2. chore' = [NoChore EXCEPT !.step = "turn appended", !.key = k, !.previous = LastKey(lineage)]
    BY <1>15 DEF AppendTurn, LastKey
  <2>3. chore' \in Commands
    BY <1>a, <2>1, <2>2 DEF ChoreSteps
  <2>4. brainTurns' \subseteq LineageKeys
        /\ UNCHANGED <<credential, vault, setting, assetFiles, chatOpen, chats, lineage, localFaults, strays>>
    BY <1>0, <1>15 DEF AppendTurn, LocalTypeOK
  <2> QED
    BY <1>0, <2>3, <2>4 DEF LocalTypeOK
<1>16. CASE LocalCutShort
  <2>1. LeftBehind \subseteq {"secret"} \cup Assets \cup LineageKeys
    <3>1. /\ InChore("asset stored") => chore.asset \in Assets
          /\ InChore("asset replaced") => chore.asset \in Assets
          /\ InChore("turn appended") => chore.key \in LineageKeys
      BY <1>0 DEF FileFollows, TurnsFollow, LocalTypeOK
    <3> QED
      BY <3>1 DEF LeftBehind
  <2>2. /\ strays' = strays \cup LeftBehind /\ chore' = NoChore /\ localFaults' = localFaults + 1
        /\ UNCHANGED <<credential, vault, setting, assetFiles, chatOpen, chats, lineage, brainTurns>>
    BY <1>16 DEF LocalCutShort, LocalFault
  <2> QED
    BY <1>0, <1>a, <2>1, <2>2 DEF LocalTypeOK
<1> QED
  BY <1>1, <1>2, <1>3, <1>4, <1>5, <1>6, <1>7, <1>8, <1>9,
     <1>10, <1>11, <1>12, <1>13, <1>14, <1>15, <1>16 DEF LocalNext

-----------------------------------------------------------------------------
\* No step lets a row promise what is not there.
LEMMA LocalStep == LocalInvariant /\ [LocalNext]_localVars => LocalInvariant'
<1> SUFFICES ASSUME LocalInvariant, [LocalNext]_localVars
             PROVE  SecretFollows' /\ FileFollows' /\ TurnsFollow'
  BY LocalTypeStep DEF LocalInvariant
<1>0. LocalTypeOK /\ SecretFollows /\ FileFollows /\ TurnsFollow
  BY DEF LocalInvariant
<1>c. chore.step \in ChoreSteps /\ chore.existed \in BOOLEAN
  BY <1>0 DEF LocalTypeOK
<1>s. "secret" \notin Assets /\ "secret" \notin LineageKeys /\ Assets \cap LineageKeys = {}
      /\ NoAsset \notin Assets
  BY LocalAssumption
<1> USE DEF InChore
<1>1. CASE UNCHANGED localVars
  BY <1>0, <1>1 DEF localVars, SecretFollows, FileFollows, TurnsFollow, AssetInHand, KeyInHand
<1>2. CASE WriteSecret
  <2>f. /\ chore.step = "idle"
        /\ chore'.step = "secret written"
        /\ (chore'.existed = FALSE) => credential = "none"
        /\ vault' = TRUE
        /\ credential' = credential
        /\ strays' = strays
        /\ UNCHANGED <<setting, assetFiles>>
        /\ UNCHANGED <<lineage, brainTurns>>
    BY <1>0, <1>2, Chores DEF WriteSecret, credentialVars, assetVars, chatVars, ChoreIdle
  <2>1. SecretFollows'
    BY <1>0, <1>c, <1>s, <2>f DEF SecretFollows, LocalTypeOK
  <2>2. FileFollows'
    BY <1>0, <1>c, <1>s, <2>f, FileUntouched DEF assetVars, AssetInHand
  <2>3. TurnsFollow'
    BY <1>0, <1>c, <1>s, <2>f, TurnsUntouched DEF KeyInHand
  <2> QED
    BY <2>1, <2>2, <2>3
<1>3. CASE CommitCredential
  <2>f. /\ chore.step = "secret written"
        /\ chore'.step = "idle"
        /\ vault' = vault
        /\ credential' = "ACTIVE"
        /\ strays' = strays \ {"secret"}
        /\ UNCHANGED <<setting, assetFiles>>
        /\ UNCHANGED <<lineage, brainTurns>>
    BY <1>0, <1>3, Chores DEF CommitCredential, credentialVars, assetVars, chatVars, ChoreIdle
  <2>1. SecretFollows'
    BY <1>0, <1>c, <1>s, <2>f DEF SecretFollows, LocalTypeOK
  <2>2. FileFollows'
    BY <1>0, <1>c, <1>s, <2>f, FileUntouched DEF assetVars, AssetInHand
  <2>3. TurnsFollow'
    BY <1>0, <1>c, <1>s, <2>f, TurnsUntouched DEF KeyInHand
  <2> QED
    BY <2>1, <2>2, <2>3
<1>4. CASE CredentialFails
  <2>g. /\ chore.step = "secret written" /\ chore' = NoChore /\ credential' = credential
        /\ \/ ~chore.existed /\ vault' = FALSE /\ strays' = strays \ {"secret"}
           \/ vault' = vault /\ strays' = strays \cup {"secret"}
        /\ UNCHANGED <<setting, assetFiles, lineage, brainTurns>>
    BY <1>4, Zenon DEF CredentialFails, assetVars, chatVars
  <2>f. /\ chore.step = "secret written" /\ chore'.step = "idle" /\ credential' = credential
        /\ \/ chore.existed = FALSE /\ vault' = FALSE /\ strays' = strays \ {"secret"}
           \/ vault' = vault /\ strays' = strays \cup {"secret"}
        /\ UNCHANGED <<setting, assetFiles, lineage, brainTurns>>
    BY <1>c, <2>g, Chores
  <2>1. SecretFollows'
    BY <1>0, <1>c, <1>s, <2>f DEF SecretFollows, LocalTypeOK
  <2>2. FileFollows'
    BY <1>0, <1>c, <1>s, <2>f, FileUntouched DEF assetVars, AssetInHand
  <2>3. TurnsFollow'
    BY <1>0, <1>c, <1>s, <2>f, TurnsUntouched DEF KeyInHand
  <2> QED
    BY <2>1, <2>2, <2>3
<1>5. CASE MarkPending
  <2>f. /\ chore.step = "idle"
        /\ chore'.step = "pending"
        /\ vault' = vault
        /\ credential' = "DELETE_PENDING"
        /\ strays' = strays
        /\ UNCHANGED <<setting, assetFiles>>
        /\ UNCHANGED <<lineage, brainTurns>>
    BY <1>0, <1>5, Chores DEF MarkPending, credentialVars, assetVars, chatVars, ChoreIdle
  <2>1. SecretFollows'
    BY <1>0, <1>c, <1>s, <2>f DEF SecretFollows, LocalTypeOK
  <2>2. FileFollows'
    BY <1>0, <1>c, <1>s, <2>f, FileUntouched DEF assetVars, AssetInHand
  <2>3. TurnsFollow'
    BY <1>0, <1>c, <1>s, <2>f, TurnsUntouched DEF KeyInHand
  <2> QED
    BY <2>1, <2>2, <2>3
<1>6. CASE DeleteSecret
  <2>f. /\ chore.step = "pending"
        /\ chore'.step = "secret deleted"
        /\ vault' = FALSE
        /\ credential' = credential
        /\ strays' = strays \ {"secret"}
        /\ UNCHANGED <<setting, assetFiles>>
        /\ UNCHANGED <<lineage, brainTurns>>
    BY <1>0, <1>6, Chores DEF DeleteSecret, credentialVars, assetVars, chatVars, ChoreIdle
  <2>1. SecretFollows'
    BY <1>0, <1>c, <1>s, <2>f DEF SecretFollows, LocalTypeOK
  <2>2. FileFollows'
    BY <1>0, <1>c, <1>s, <2>f, FileUntouched DEF assetVars, AssetInHand
  <2>3. TurnsFollow'
    BY <1>0, <1>c, <1>s, <2>f, TurnsUntouched DEF KeyInHand
  <2> QED
    BY <2>1, <2>2, <2>3
<1>7. CASE RecordDeleted
  <2>f. /\ chore.step = "secret deleted"
        /\ chore'.step = "idle"
        /\ vault' = vault
        /\ credential' = "DELETED"
        /\ strays' = strays
        /\ UNCHANGED <<setting, assetFiles>>
        /\ UNCHANGED <<lineage, brainTurns>>
    BY <1>0, <1>7, Chores DEF RecordDeleted, credentialVars, assetVars, chatVars, ChoreIdle
  <2>1. SecretFollows'
    BY <1>0, <1>c, <1>s, <2>f DEF SecretFollows, LocalTypeOK
  <2>2. FileFollows'
    BY <1>0, <1>c, <1>s, <2>f, FileUntouched DEF assetVars, AssetInHand
  <2>3. TurnsFollow'
    BY <1>0, <1>c, <1>s, <2>f, TurnsUntouched DEF KeyInHand
  <2> QED
    BY <2>1, <2>2, <2>3
<1>8. ASSUME NEW x \in Assets, StoreAsset(x) PROVE SecretFollows' /\ FileFollows' /\ TurnsFollow'
  <2>f. /\ chore.step = "idle"
        /\ chore'.step = "asset stored"
        /\ chore'.asset = x
        /\ assetFiles' = assetFiles \cup {x}
        /\ setting' = setting
        /\ strays' = strays
        /\ UNCHANGED <<credential, vault>>
        /\ UNCHANGED <<lineage, brainTurns>>
    BY <1>0, <1>8, Chores DEF StoreAsset, credentialVars, assetVars, chatVars, ChoreIdle
  <2>1. SecretFollows'
    BY <1>0, <1>c, <1>s, <2>f, SecretUntouched DEF credentialVars
  <2>2. FileFollows'
    BY <1>0, <1>c, <1>s, <2>f DEF FileFollows, AssetInHand, LocalTypeOK
  <2>3. TurnsFollow'
    BY <1>0, <1>c, <1>s, <2>f, TurnsUntouched DEF KeyInHand
  <2> QED
    BY <2>1, <2>2, <2>3
<1>9. CASE CommitSetting
  <2>f. /\ chore.step = "asset stored"
        /\ \/ setting \in {NoAsset, chore.asset} /\ chore'.step = "idle"
           \/ setting \notin {NoAsset, chore.asset} /\ chore'.step = "asset replaced" /\ chore'.asset = setting
        /\ setting' = chore.asset
        /\ chore.asset \in Assets
        /\ assetFiles' = assetFiles
        /\ strays' = strays \ {chore.asset}
        /\ UNCHANGED <<credential, vault>>
        /\ UNCHANGED <<lineage, brainTurns>>
    BY <1>0, <1>9, Chores DEF CommitSetting, FileFollows, LocalTypeOK, credentialVars,
       assetVars, chatVars, ChoreIdle
  <2>1. SecretFollows'
    BY <1>0, <1>c, <1>s, <2>f, SecretUntouched DEF credentialVars
  <2>2. FileFollows'
    BY <1>0, <1>c, <1>s, <2>f DEF FileFollows, AssetInHand, LocalTypeOK
  <2>3. TurnsFollow'
    BY <1>0, <1>c, <1>s, <2>f, TurnsUntouched DEF KeyInHand
  <2> QED
    BY <2>1, <2>2, <2>3
<1>10. CASE ResetSetting
  <2>f. /\ chore.step = "idle"
        /\ setting # NoAsset
        /\ chore'.step = "asset replaced"
        /\ chore'.asset = setting
        /\ setting' = NoAsset
        /\ assetFiles' = assetFiles
        /\ strays' = strays
        /\ UNCHANGED <<credential, vault>>
        /\ UNCHANGED <<lineage, brainTurns>>
    BY <1>0, <1>10, Chores DEF ResetSetting, credentialVars, assetVars, chatVars, ChoreIdle
  <2>1. SecretFollows'
    BY <1>0, <1>c, <1>s, <2>f, SecretUntouched DEF credentialVars
  <2>2. FileFollows'
    BY <1>0, <1>c, <1>s, <2>f DEF FileFollows, AssetInHand, LocalTypeOK
  <2>3. TurnsFollow'
    BY <1>0, <1>c, <1>s, <2>f, TurnsUntouched DEF KeyInHand
  <2> QED
    BY <2>1, <2>2, <2>3
<1>11. CASE RemoveAsset
  <2>f. /\ chore.step = "asset replaced"
        /\ chore'.step = "idle"
        /\ setting' = setting
        /\ chore.asset \in Assets
        /\ assetFiles' = assetFiles \ {chore.asset}
        /\ strays' = strays \ {chore.asset}
        /\ UNCHANGED <<credential, vault>>
        /\ UNCHANGED <<lineage, brainTurns>>
    BY <1>0, <1>11, Chores DEF RemoveAsset, FileFollows, LocalTypeOK, credentialVars,
       assetVars, chatVars, ChoreIdle
  <2>1. SecretFollows'
    BY <1>0, <1>c, <1>s, <2>f, SecretUntouched DEF credentialVars
  <2>2. FileFollows'
    BY <1>0, <1>c, <1>s, <2>f DEF FileFollows, AssetInHand, LocalTypeOK
  <2>3. TurnsFollow'
    BY <1>0, <1>c, <1>s, <2>f, TurnsUntouched DEF KeyInHand
  <2> QED
    BY <2>1, <2>2, <2>3
<1>12. CASE CreateChat
  <2>f. /\ chore.step = "idle"
        /\ chore' = chore
        /\ strays' = strays
        /\ UNCHANGED <<credential, vault>>
        /\ UNCHANGED <<setting, assetFiles>>
        /\ UNCHANGED <<lineage, brainTurns>>
    BY <1>0, <1>12, Chores DEF CreateChat, credentialVars, assetVars, chatVars, ChoreIdle
  <2>1. SecretFollows'
    BY <1>0, <1>c, <1>s, <2>f, SecretUntouched DEF credentialVars
  <2>2. FileFollows'
    BY <1>0, <1>c, <1>s, <2>f, FileUntouched DEF assetVars, AssetInHand
  <2>3. TurnsFollow'
    BY <1>0, <1>c, <1>s, <2>f, TurnsUntouched DEF KeyInHand
  <2> QED
    BY <2>1, <2>2, <2>3
<1>13. CASE DeleteChat
  <2>f. /\ chore.step = "idle"
        /\ chore' = chore
        /\ lineage' = <<>>
        /\ brainTurns' = brainTurns /\ brainTurns \subseteq LineageKeys
        /\ strays' = strays \cup brainTurns
        /\ UNCHANGED <<credential, vault>>
        /\ UNCHANGED <<setting, assetFiles>>
    BY <1>0, <1>13, Chores DEF DeleteChat, LocalTypeOK, credentialVars, assetVars, chatVars,
       ChoreIdle
  <2>1. SecretFollows'
    BY <1>0, <1>c, <1>s, <2>f, SecretUntouched DEF credentialVars
  <2>2. FileFollows'
    BY <1>0, <1>c, <1>s, <2>f, FileUntouched DEF assetVars, AssetInHand
  <2>3. TurnsFollow'
    BY <1>0, <2>f, NoEvents DEF TurnsFollow
  <2> QED
    BY <2>1, <2>2, <2>3
<1>14. CASE InsertEvent
  <2>f. /\ chore.step = "turn appended"
        /\ chore'.step = "idle"
        /\ lineage' = Append(lineage, [key |-> chore.key, previous |-> chore.previous])
        /\ brainTurns' = brainTurns /\ chore.key \in LineageKeys
        /\ strays' = strays \ {chore.key}
        /\ UNCHANGED <<credential, vault>>
        /\ UNCHANGED <<setting, assetFiles>>
    BY <1>0, <1>14, Chores DEF InsertEvent, TurnsFollow, credentialVars, assetVars,
       chatVars, ChoreIdle
  <2>1. SecretFollows'
    BY <1>0, <1>c, <1>s, <2>f, SecretUntouched DEF credentialVars
  <2>2. FileFollows'
    BY <1>0, <1>c, <1>s, <2>f, FileUntouched DEF assetVars, AssetInHand
  <2>3. TurnsFollow'
    <3>1. /\ chore.key \in LineageKeys /\ chore.previous \in LineageKeys \cup {NoKey}
          /\ chore.previous = LastKey(lineage) /\ chore.key \in brainTurns
      BY <1>0, <2>f DEF TurnsFollow, LocalTypeOK
    <3> DEFINE e == [key |-> chore.key, previous |-> chore.previous]
    <3>2. e \in LocalEvent /\ e.key = chore.key /\ e.previous = LastKey(lineage)
      BY <3>1 DEF LocalEvent
    <3>3. lineage' = Append(lineage, e)
      BY <2>f
    <3> HIDE DEF e
    <3>4. lineage \in Seq(LocalEvent) /\ Chained(lineage)
      BY <1>0 DEF LocalTypeOK, TurnsFollow
    <3>5. KeysOf(lineage') = KeysOf(lineage) \cup {chore.key} /\ Chained(lineage')
      BY <3>2, <3>3, <3>4, AppendedEvent
    <3> QED
      BY <1>0, <2>f, <3>1, <3>5 DEF TurnsFollow, KeyInHand
  <2> QED
    BY <2>1, <2>2, <2>3
<1>15. ASSUME NEW k \in LineageKeys, AppendTurn(k) PROVE SecretFollows' /\ FileFollows' /\ TurnsFollow'
  <2>f. /\ chore.step = "idle"
        /\ chore'.step = "turn appended"
        /\ chore'.key = k
        /\ chore'.previous = LastKey(lineage)
        /\ lineage' = lineage
        /\ brainTurns' = brainTurns \cup {k}
        /\ strays' = strays
        /\ UNCHANGED <<credential, vault>>
        /\ UNCHANGED <<setting, assetFiles>>
    BY <1>0, <1>15, Chores DEF AppendTurn, LastKey, credentialVars, assetVars, chatVars,
       ChoreIdle
  <2>1. SecretFollows'
    BY <1>0, <1>c, <1>s, <2>f, SecretUntouched DEF credentialVars
  <2>2. FileFollows'
    BY <1>0, <1>c, <1>s, <2>f, FileUntouched DEF assetVars, AssetInHand
  <2>3. TurnsFollow'
    BY <1>0, <1>c, <1>s, <2>f DEF TurnsFollow, KeyInHand, LocalTypeOK
  <2> QED
    BY <2>1, <2>2, <2>3
<1>16. CASE LocalCutShort
  <2>f. /\ chore'.step = "idle"
        /\ strays' = strays \cup LeftBehind
        /\ UNCHANGED <<credential, vault>>
        /\ UNCHANGED <<setting, assetFiles>>
        /\ UNCHANGED <<lineage, brainTurns>>
        /\ chore.step = "secret written" => "secret" \in LeftBehind
        /\ chore.step = "asset stored" => chore.asset \in LeftBehind \cup {setting}
        /\ chore.step = "asset replaced" => chore.asset \in LeftBehind
        /\ chore.step = "turn appended" => chore.key \in LeftBehind
    BY <1>0, <1>16, Chores DEF LocalCutShort, LeftBehind, credentialVars, assetVars,
       chatVars, ChoreIdle
  <2>1. SecretFollows'
    BY <1>0, <1>c, <1>s, <2>f DEF SecretFollows, LocalTypeOK
  <2>2. FileFollows'
    BY <1>0, <1>c, <1>s, <2>f DEF FileFollows, AssetInHand, LocalTypeOK
  <2>3. TurnsFollow'
    BY <1>0, <1>c, <1>s, <2>f DEF TurnsFollow, KeyInHand, LocalTypeOK
  <2> QED
    BY <2>1, <2>2, <2>3
<1> QED
  BY <1>1, <1>2, <1>3, <1>4, <1>5, <1>6, <1>7, <1>8, <1>9,
     <1>10, <1>11, <1>12, <1>13, <1>14, <1>15, <1>16 DEF LocalNext

\* Every reachable state has the invariant.
LEMMA LocalInvariantCorrect == LocalSpec => []LocalInvariant
<1>1. LocalInit => LocalInvariant
  <2> SUFFICES ASSUME LocalInit PROVE LocalInvariant
    OBVIOUS
  <2>0. vault \in BOOLEAN /\ chatOpen \in BOOLEAN
    BY DEF LocalInit
  <2>4. lineage \in Seq(LocalEvent)
    BY DEF LocalInit
  <2>5. credential \in CredentialStatuses
    BY DEF LocalInit, CredentialStatuses
  <2>1. LocalTypeOK
    BY <2>0, <2>4, <2>5, Chores DEF LocalInit, LocalTypeOK
  <2>2. SecretFollows /\ FileFollows
    BY Chores DEF LocalInit, SecretFollows, FileFollows, AssetInHand
  <2>3. TurnsFollow
    BY Chores, NoEvents DEF LocalInit, TurnsFollow
  <2> QED
    BY <2>1, <2>2, <2>3 DEF LocalInvariant
<1> QED
  BY <1>1, LocalStep, PTL DEF LocalSpec

\* Whatever step a command stops at: a row never promises a secret, a file or a turn that is
\* not there, and what is there without a row is what a command cut short left behind.
THEOREM LocalDataKept == LocalSpec => []LocalDataIsKept
<1>1. LocalInvariant => LocalDataIsKept
  BY Chores DEF LocalInvariant, SecretFollows, FileFollows, TurnsFollow, Chained, AssetInHand,
     KeyInHand, LocalDataIsKept, ChoreIdle, LocalTypeOK
<1> QED
  BY <1>1, LocalInvariantCorrect, PTL

\* The types, of every reachable state.
THEOREM LocalTypes == LocalSpec => []LocalTypeOK
<1>1. LocalInvariant => LocalTypeOK
  BY DEF LocalInvariant
<1> QED
  BY <1>1, LocalInvariantCorrect, PTL

-----------------------------------------------------------------------------
(* What a refresh says of a source folder.                                 *)

\* What git was asked, in this order.
GitSteps == {"unstaged", "staged", "untracked", "commits"}

NothingTaken == taken = [p \in Paths |-> NoChange]

\* What the folder is where nobody worked on it: what it was when it was looked at.
FolderIsAsFound ==
    \A p \in Paths \ touched :
        /\ refreshStep # "idle" => refreshHead.tree[p] = headCommit.tree[p]
        /\ refreshStep \in {"overlay", "review"} => candidate.tree[p] = worktree[p]

\* What was taken so far of a file nobody works on.  A file that was staged as deleted
\* and is there is told as added when the files git does not know are.
TakenIsAsFound ==
    \A p \in Paths \ touched :
        /\ (refreshStep \in {"staged", "commits", "ingest", "overlay"}
                /\ taken[p].kind = "DELETED") => worktree[p] = Gone
        /\ (refreshStep = "untracked" /\ taken[p].kind = "DELETED") =>
               worktree[p] = Gone \/ staging[p] = Gone
        /\ (refreshStep \in {"ingest", "overlay"} /\ ~git /\ worktree[p] = Gone) =>
               taken[p].kind \in {"DELETED", Same}

\* A folder where nothing was found is, where nobody works on it, its last commit.
CleanIsCommitted ==
    NothingTaken => \A p \in Paths \ touched :
        /\ refreshStep \in {"staged", "untracked", "commits"} =>
               staging[p] = Gone \/ staging[p] = worktree[p]
        /\ refreshStep \in {"untracked", "commits"} => headCommit.tree[p] = staging[p]
        /\ refreshStep = "commits" => staging[p] = worktree[p]

\* Nothing is taken before the first look, and without git there is one look.
LooksInOrder ==
    /\ refreshStep \in {"unstaged", "hashes"} => NothingTaken
    /\ refreshStep \in GitSteps => git
    /\ refreshStep = "hashes" => ~git

TruthInvariant ==
    /\ TruthTypeOK /\ OverlayIsTrue
    /\ FolderIsAsFound /\ TakenIsAsFound /\ CleanIsCommitted /\ LooksInOrder

\* The change of a file says what became of it, and a change of any file is told.
LEMMA ChangeOfFile ==
    ASSUME NEW s \in FolderTrees, NEW t \in FolderTrees, NEW p \in Paths
    PROVE  /\ ChangeOf(s, t, p) \in Changes
           /\ ChangeOf(s, t, p).kind = "DELETED" => t[p] = Gone
           /\ t[p] = Gone => ChangeOf(s, t, p).kind \in {"DELETED", Same}
           /\ ChangeOf(s, t, p) = NoChange =>
                  s[p] = t[p] \/ \E q \in Paths : ChangeOf(s, t, q) # NoChange
<1> DEFINE came == \E old \in Paths : IsRename(s, t, old, p)
           went == \E new \in Paths : IsRename(s, t, p, new)
<1>1. CASE came
  <2> DEFINE old == CHOOSE old \in Paths : IsRename(s, t, old, p)
  <2>1. old \in Paths
    BY <1>1
  <2>2. ChangeOf(s, t, p) = [kind |-> "RENAMED", from |-> old]
    BY <1>1 DEF ChangeOf, IsRename, Added, Deleted
  <2>3. t[p] # Gone
    BY <1>1 DEF IsRename, Added
  <2> HIDE DEF old
  <2>4. [kind |-> "RENAMED", from |-> old] \in Changes
    BY <2>1 DEF Changes, Kinds
  <2>5. ChangeOf(s, t, p).kind = "RENAMED"
    BY <2>2
  <2>6. NoChange.kind = Same /\ Same # "RENAMED"
    BY TruthAssumption DEF NoChange, Kinds
  <2> QED
    BY <2>2, <2>3, <2>4, <2>5, <2>6
<1>2. CASE ~came /\ p \in Added(s, t)
  BY <1>2, TruthAssumption DEF ChangeOf, Added, Deleted, Changes, Kinds, NoChange
<1>3. CASE p \in Deleted(s, t) /\ ~went
  BY <1>3, TruthAssumption DEF ChangeOf, Added, Deleted, IsRename, Changes, Kinds, NoChange
<1>4. CASE p \in Deleted(s, t) /\ went
  <2>1. PICK new \in Paths : IsRename(s, t, p, new)
    BY <1>4
  <2>2. ChangeOf(s, t, p) = NoChange
    BY <1>4 DEF ChangeOf, Added, Deleted, IsRename
  <2> DEFINE old == CHOOSE o \in Paths : IsRename(s, t, o, new)
  <2>3. ChangeOf(s, t, new) = [kind |-> "RENAMED", from |-> old]
    BY <2>1 DEF ChangeOf, IsRename, Added, Deleted
  <2>4. NoChange.kind = Same /\ Same # "RENAMED"
    BY TruthAssumption DEF NoChange, Kinds
  <2>5. ChangeOf(s, t, new) # NoChange
    BY <2>3, <2>4
  <2>6. t[p] = Gone
    BY <1>4 DEF Deleted
  <2>7. Same # "DELETED"
    BY TruthAssumption DEF Kinds
  <2> QED
    BY <2>1, <2>2, <2>4, <2>5, <2>6, <2>7 DEF Changes
<1>5. CASE s[p] # Gone /\ t[p] # Gone /\ s[p] # t[p]
  BY <1>5, TruthAssumption DEF ChangeOf, Added, Deleted, IsRename, Changes, Kinds, NoChange
<1>6. CASE s[p] = t[p]
  BY <1>6, TruthAssumption DEF ChangeOf, Added, Deleted, IsRename, NoChange, Kinds, Changes
<1> QED
  BY <1>1, <1>2, <1>3, <1>4, <1>5, <1>6 DEF Added, Deleted

\* Two trees without a change are the same tree.
LEMMA NoChangesNoDifference ==
    ASSUME NEW s \in FolderTrees, NEW t \in FolderTrees,
           \A p \in Paths : ChangeOf(s, t, p) = NoChange
    PROVE  \A p \in Paths : s[p] = t[p]
  BY ChangeOfFile

\* Of two lists the later one tells, where it tells a change.
LEMMA OverFile ==
    ASSUME NEW e \in [Paths -> Changes], NEW l \in [Paths -> Changes]
    PROVE  /\ Over(e, l) \in [Paths -> Changes]
           /\ \A p \in Paths : Over(e, l)[p] = (IF l[p] # NoChange THEN l[p] ELSE e[p])
  BY DEF Over

LEMMA ChangeKinds ==
    /\ NoChange \in Changes /\ NoChange.kind = Same
    /\ \A k \in Kinds : [kind |-> k, from |-> Same] \in Changes /\ k # Same
    /\ \A k \in Changes : k.kind \in Kinds \cup {Same}
    /\ \A k \in Changes : k.kind = Same <=> k = NoChange
  BY TruthAssumption DEF Changes, NoChange, Kinds

\* What the looks at the folder find.
LEMMA LooksFind ==
    ASSUME TruthTypeOK
    PROVE  /\ UnstagedChanges \in [Paths -> Changes]
           /\ StagedChanges \in [Paths -> Changes]
           /\ UntrackedChanges \in [Paths -> Changes]
           /\ CommittedChanges \in [Paths -> Changes]
           /\ HashChanges \in [Paths -> Changes]
<1>1. headCommit.tree \in FolderTrees /\ baseline.tree \in FolderTrees
      /\ refreshHead.tree \in FolderTrees
  BY DEF TruthTypeOK, FolderCommits
<1>2. \A s \in FolderTrees, t \in FolderTrees : ChangesOf(s, t) \in [Paths -> Changes]
  BY ChangeOfFile DEF ChangesOf
<1>3. UnstagedChanges \in [Paths -> Changes]
  BY ChangeKinds DEF UnstagedChanges, Kinds
<1>4. UntrackedChanges \in [Paths -> Changes]
  BY ChangeKinds DEF UntrackedChanges, Kinds
<1> QED
  BY <1>1, <1>2, <1>3, <1>4 DEF StagedChanges, CommittedChanges, HashChanges, TruthTypeOK

\* The row of a file.
LEMMA RowOfFile ==
    ASSUME TruthTypeOK, NEW p \in Paths
    PROVE  /\ KindOf(p) \in Kinds \cup {Same}
           /\ Truth(p) \in Colours /\ EdgeTruth(p) \in Colours
<1>1. taken[p].kind \in Kinds \cup {Same}
  BY ChangeKinds DEF TruthTypeOK
<1>2. KindOf(p) \in Kinds \cup {Same}
  BY <1>1 DEF KindOf, IndexChange, Kinds
<1>3. Truth(p) \in Colours
  BY DEF Truth, Colours
<1>4. EdgeTruth(p) \in Colours
  BY <1>3 DEF EdgeTruth, Colours
<1> QED
  BY <1>2, <1>3, <1>4

\* The folder is worked on, and nothing of the refresh changes.
LEMMA EditsOfFolder ==
    ASSUME TruthTypeOK,
           (\E p \in Paths : \/ StageFile(p)
                             \/ \E c \in CodeContents \cup {Gone} : EditFile(p, c))
               \/ CommitStaged
    PROVE  /\ TruthTypeOK'
           /\ touched \subseteq touched'
           /\ \A p \in Paths \ touched' :
                /\ worktree'[p] = worktree[p] /\ staging'[p] = staging[p]
                /\ headCommit'.tree[p] = headCommit.tree[p]
           /\ UNCHANGED <<git, baseline, candidate, taken, overlay, refreshStep,
                          refreshHead, refreshes>>
<1>1. EditTree
  BY DEF StageFile, EditFile, CommitStaged
<1>2. treeEdits' \in 0..MaxTreeEdits
  BY <1>1, TruthAssumption DEF EditTree, TruthTypeOK
<1>3. ASSUME NEW p \in Paths, StageFile(p)
      PROVE  /\ worktree' = worktree /\ headCommit' = headCommit
             /\ staging' = [staging EXCEPT ![p] = worktree[p]]
             /\ touched' = touched \cup {p}
  BY <1>3 DEF StageFile
<1>4. ASSUME NEW p \in Paths, NEW c \in CodeContents \cup {Gone}, EditFile(p, c)
      PROVE  /\ staging' = staging /\ headCommit' = headCommit
             /\ worktree' = [worktree EXCEPT ![p] = c]
             /\ touched' = touched \cup {p}
  BY <1>4 DEF EditFile
<1>5. ASSUME CommitStaged
      PROVE  /\ worktree' = worktree /\ staging' = staging
             /\ headCommit' = [n |-> treeEdits', tree |-> staging]
             /\ touched' = touched \cup {p \in Paths : staging[p] # headCommit.tree[p]}
  BY <1>5 DEF CommitStaged
<1>6. /\ worktree' \in FolderTrees /\ staging' \in FolderTrees
      /\ headCommit' \in FolderCommits
  BY <1>3, <1>4, <1>2, <1>5 DEF TruthTypeOK, FolderTrees, FolderCommits
<1>7. touched \subseteq touched' /\ touched' \subseteq Paths
  BY <1>3, <1>4, <1>5 DEF TruthTypeOK
<1>8. ASSUME NEW p \in Paths \ touched'
      PROVE  /\ worktree'[p] = worktree[p] /\ staging'[p] = staging[p]
             /\ headCommit'.tree[p] = headCommit.tree[p]
  BY <1>5, <1>3, <1>4 DEF TruthTypeOK, FolderTrees
<1> QED
  BY <1>1, <1>2, <1>6, <1>7, <1>8 DEF EditTree, TruthTypeOK

\* The steps of a refresh keep the types.
LEMMA TruthTypeStep == TruthTypeOK /\ [TruthNext]_truthVars => TruthTypeOK'
<1> SUFFICES ASSUME TruthTypeOK, [TruthNext]_truthVars PROVE TruthTypeOK'
  OBVIOUS
<1>1. CASE UNCHANGED truthVars
  BY <1>1 DEF truthVars, TruthTypeOK
<1>2. CASE StartTruth
  BY <1>2, TruthAssumption, ChangeKinds DEF StartTruth, TruthTypeOK, NoRowAtAll, Rows,
     Colours, RefreshSteps
<1>3. ASSUME NEW s, NEW changes \in [Paths -> Changes], NEW n \in RefreshSteps,
             Take(s, changes, n)
      PROVE  TruthTypeOK'
  BY <1>3 DEF Take, TruthTypeOK, folder
<1>4. CASE TakeUnstaged
  BY <1>3, <1>4, LooksFind, OverFile DEF TakeUnstaged, TruthTypeOK, RefreshSteps
<1>5. CASE TakeStaged
  BY <1>3, <1>5, LooksFind, OverFile DEF TakeStaged, TruthTypeOK, RefreshSteps
<1>6. CASE TakeUntracked
  BY <1>3, <1>6, LooksFind, OverFile DEF TakeUntracked, TruthTypeOK, RefreshSteps
<1>7. CASE TakeCommits
  BY LooksFind, OverFile, <1>3, <1>7 DEF TruthTypeOK, TakeCommits, RefreshSteps
<1>8. CASE TakeHashes
  BY <1>3, <1>8, LooksFind, OverFile DEF TakeHashes, TruthTypeOK, RefreshSteps
<1>9. CASE IndexCandidate
  BY <1>9 DEF IndexCandidate, FolderCommits, TruthTypeOK, RefreshSteps, folder
<1>10. CASE BuildOverlay
  BY <1>10, RowOfFile DEF BuildOverlay, Rows, TruthTypeOK, RefreshSteps, folder
<1>11. ASSUME NEW fused \in BOOLEAN, DecideFuse(fused) PROVE TruthTypeOK'
  BY <1>11 DEF DecideFuse, NoRowAtAll, Rows, Colours, TruthTypeOK, RefreshSteps, folder
<1> QED
  BY <1>1, <1>2, <1>4, <1>5, <1>6, <1>7, <1>8, <1>9, <1>10, <1>11, EditsOfFolder
     DEF TruthNext

\* A row that is built tells what became of its file.
LEMMA BuiltOverlay == TruthInvariant /\ BuildOverlay => OverlayIsTrue'
<1> SUFFICES ASSUME TruthInvariant, BuildOverlay PROVE OverlayIsTrue'
  OBVIOUS
<1>1. UNCHANGED <<git, worktree, baseline, candidate, taken, touched>>
  BY DEF BuildOverlay, folder
<1>2. ASSUME NEW p \in Paths
      PROVE  /\ overlay'[p].kind = KindOf(p) /\ overlay'[p].truth = Truth(p)
             /\ overlay'[p].edge = EdgeTruth(p)
  BY DEF BuildOverlay
<1>3. Same \notin Kinds /\ Same \notin {"GREEN", "RED", "NEUTRAL"}
  BY TruthAssumption
<1>4. ASSUME NEW p \in Paths
      PROVE  /\ taken[p].kind \in Kinds \cup {Same}
             /\ worktree[p] \in CodeContents \cup {Gone}
             /\ candidate.tree[p] \in CodeContents \cup {Gone}
  BY ChangeKinds DEF TruthInvariant, TruthTypeOK, FolderTrees, FolderCommits
<1>5. ASSUME NEW p \in Paths \ touched
      PROVE  /\ candidate.tree[p] = worktree[p]
             /\ taken[p].kind = "DELETED" => worktree[p] = Gone
             /\ ~git /\ worktree[p] = Gone => taken[p].kind \in {"DELETED", Same}
  BY DEF TruthInvariant, FolderIsAsFound, TakenIsAsFound, BuildOverlay
<1>6. ASSUME NEW p \in Paths \ touched, KindOf(p) = "DELETED" PROVE candidate.tree[p] = Gone
  BY <1>3, <1>5, <1>6 DEF KindOf, IndexChange, Kinds
<1>7. ASSUME NEW p \in Paths \ touched, Truth(p) = "GREEN"
      PROVE  candidate.tree[p] \in CodeContents \ Broken
  BY <1>3, <1>7, <1>4, <1>5 DEF Truth, Validation
<1>8. ASSUME NEW p \in Paths \ touched, Truth(p) = "RED"
      PROVE  candidate.tree[p] \in Broken \cup {Gone}
  BY <1>6, <1>3, <1>8, <1>5 DEF Truth, Validation
<1>9. ASSUME NEW p \in Paths, EdgeTruth(p) = "GREEN" PROVE Truth(p) = "GREEN"
  BY <1>3, <1>9 DEF EdgeTruth
<1>10. ASSUME NEW p \in Paths \ touched, ~git, KindOf(p) # Same, candidate.tree[p] = Gone
       PROVE  KindOf(p) = "DELETED"
  BY <1>5, <1>10 DEF KindOf, IndexChange
<1>11. ASSUME NEW p \in Paths, baseline.tree[p] # candidate.tree[p] PROVE KindOf(p) # Same
  BY <1>3, <1>11 DEF KindOf, IndexChange, Kinds
<1>12. DifferencesAreShown'
  BY <1>1, <1>2, <1>11 DEF DifferencesAreShown
<1>13. GreenIsValid'
  BY <1>1, <1>2, <1>7, <1>9 DEF GreenIsValid
<1>14. RedHasReason'
  BY <1>1, <1>2, <1>8 DEF RedHasReason
<1>15. DeletedIsGone'
  BY <1>1, <1>2, <1>6, <1>10 DEF DeletedIsGone
<1> QED
  BY <1>12, <1>13, <1>14, <1>15 DEF OverlayIsTrue

\* Work on the folder leaves what was found as it was, but for the files worked on.
LEMMA EditsKeepTruth ==
    ASSUME TruthInvariant,
           (\E p \in Paths : \/ StageFile(p)
                             \/ \E c \in CodeContents \cup {Gone} : EditFile(p, c))
               \/ CommitStaged
    PROVE  /\ OverlayIsTrue' /\ FolderIsAsFound' /\ TakenIsAsFound'
           /\ CleanIsCommitted' /\ LooksInOrder'
<1>1. /\ touched \subseteq touched'
      /\ \A p \in Paths \ touched' :
                /\ worktree'[p] = worktree[p] /\ staging'[p] = staging[p]
                /\ headCommit'.tree[p] = headCommit.tree[p]
      /\ UNCHANGED <<git, baseline, candidate, taken, overlay, refreshStep, refreshHead,
                     refreshes>>
  BY EditsOfFolder DEF TruthInvariant
<1>2. OverlayIsTrue'
  BY <1>1 DEF TruthInvariant, OverlayIsTrue, DifferencesAreShown, GreenIsValid,
              RedHasReason, DeletedIsGone, InReview
<1>3. FolderIsAsFound'
  BY <1>1 DEF TruthInvariant, FolderIsAsFound
<1>4. TakenIsAsFound'
  BY <1>1 DEF TruthInvariant, TakenIsAsFound
<1>5. CleanIsCommitted'
  BY <1>1 DEF TruthInvariant, CleanIsCommitted, NothingTaken
<1>6. LooksInOrder'
  BY <1>1 DEF TruthInvariant, LooksInOrder, NothingTaken
<1> QED
  BY <1>2, <1>3, <1>4, <1>5, <1>6

\* A list over another tells no more deletions than the two of them.
LEMMA DeletionsTaken ==
    ASSUME NEW e \in [Paths -> Changes], NEW l \in [Paths -> Changes], NEW p \in Paths,
           Over(e, l)[p].kind = "DELETED"
    PROVE  l[p].kind = "DELETED" \/ (l[p] = NoChange /\ e[p].kind = "DELETED")
  BY OverFile

\* A list over another tells nothing when neither does.
LEMMA NothingOver ==
    ASSUME NEW e \in [Paths -> Changes], NEW l \in [Paths -> Changes],
           Over(e, l) = [p \in Paths |-> NoChange], NEW p \in Paths
    PROVE  l[p] = NoChange /\ e[p] = NoChange
<1>1. Over(e, l)[p] = NoChange
  OBVIOUS
<1> QED
  BY <1>1, OverFile

\* What a refresh shows of a file is so, whatever is done to the folder meanwhile.
LEMMA TruthStep == TruthInvariant /\ [TruthNext]_truthVars => TruthInvariant'
<1> SUFFICES ASSUME TruthInvariant, [TruthNext]_truthVars
             PROVE  /\ OverlayIsTrue' /\ FolderIsAsFound' /\ TakenIsAsFound'
                    /\ CleanIsCommitted' /\ LooksInOrder'
  BY TruthTypeStep DEF TruthInvariant
<1> DEFINE clean == [p \in Paths |-> NoChange]
<1>t. /\ TruthTypeOK /\ taken \in [Paths -> Changes] /\ clean \in [Paths -> Changes]
      /\ headCommit.tree \in FolderTrees /\ baseline.tree \in FolderTrees
      /\ refreshHead.tree \in FolderTrees /\ staging \in FolderTrees
      /\ worktree \in FolderTrees
  BY ChangeKinds DEF TruthInvariant, TruthTypeOK, FolderCommits
<1>i. FolderIsAsFound /\ TakenIsAsFound /\ CleanIsCommitted /\ LooksInOrder
  BY DEF TruthInvariant
<1>s. Same # "DELETED" /\ NoChange.kind # "DELETED"
  BY ChangeKinds DEF Kinds
<1>1. CASE UNCHANGED truthVars
  <2>1. UNCHANGED OverlayIsTrue
    BY <1>1 DEF truthVars, OverlayIsTrue, DifferencesAreShown, GreenIsValid,
                RedHasReason, DeletedIsGone, InReview
  <2>2. FolderIsAsFound' /\ TakenIsAsFound'
    BY <1>1, <1>i DEF truthVars, FolderIsAsFound, TakenIsAsFound
  <2>3. CleanIsCommitted' /\ LooksInOrder'
    BY <1>1, <1>i DEF truthVars, CleanIsCommitted, LooksInOrder, NothingTaken
  <2> QED
    BY <2>1, <2>2, <2>3 DEF TruthInvariant
<1>2. CASE StartTruth
  BY <1>2 DEF StartTruth, OverlayIsTrue, DifferencesAreShown, GreenIsValid, RedHasReason,
     DeletedIsGone, InReview, FolderIsAsFound, TakenIsAsFound, CleanIsCommitted,
     LooksInOrder, NothingTaken, GitSteps
<1>3. ASSUME NEW s, NEW changes \in [Paths -> Changes], NEW n \in RefreshSteps,
             Take(s, changes, n), n \in {"staged", "untracked", "commits", "ingest"},
             s # "idle"
      PROVE  /\ UNCHANGED <<git, worktree, staging, headCommit, touched, refreshHead>>
             /\ refreshStep = s /\ refreshStep' = n /\ taken' = changes
             /\ OverlayIsTrue' /\ FolderIsAsFound'
  BY <1>3, <1>i DEF Take, folder, OverlayIsTrue, DifferencesAreShown, GreenIsValid,
     RedHasReason, DeletedIsGone, InReview, FolderIsAsFound
<1>4. CASE TakeUnstaged
  <2>1. /\ UNCHANGED <<git, worktree, staging, headCommit, touched, refreshHead>>
        /\ refreshStep = "unstaged" /\ refreshStep' = "staged"
        /\ taken' = Over(taken, UnstagedChanges)
        /\ OverlayIsTrue' /\ FolderIsAsFound'
    BY <1>3, <1>4, <1>t, LooksFind, OverFile DEF TakeUnstaged, RefreshSteps
  <2>2. taken = clean /\ git
    BY <1>i, <2>1 DEF LooksInOrder, NothingTaken, GitSteps
  <2>3. ASSUME NEW p \in Paths, taken'[p].kind = "DELETED" PROVE worktree[p] = Gone
    BY <1>t, <1>s, <2>1, <2>2, <2>3, DeletionsTaken, LooksFind DEF UnstagedChanges
  <2>4. ASSUME NEW p \in Paths, taken' = clean
        PROVE  staging[p] = Gone \/ staging[p] = worktree[p]
    <3>1. UnstagedChanges[p] = NoChange
      BY <1>t, <2>1, <2>4, NothingOver, LooksFind
    <3>2. \A k \in Kinds : [kind |-> k, from |-> Same] # NoChange
      BY ChangeKinds
    <3> QED
      BY <3>1, <3>2 DEF UnstagedChanges, Kinds
  <2>5. TakenIsAsFound'
    BY <2>1, <2>3 DEF TakenIsAsFound
  <2>6. CleanIsCommitted'
    BY <2>1, <2>4 DEF CleanIsCommitted, NothingTaken
  <2>7. LooksInOrder'
    BY <2>1, <2>2 DEF LooksInOrder
  <2> QED
    BY <2>1, <2>5, <2>6, <2>7
<1>5. CASE TakeStaged
  <2>1. /\ UNCHANGED <<git, worktree, staging, headCommit, touched, refreshHead>>
        /\ refreshStep = "staged" /\ refreshStep' = "untracked"
        /\ taken' = Over(taken, StagedChanges)
        /\ OverlayIsTrue' /\ FolderIsAsFound'
    BY <1>3, <1>5, <1>t, LooksFind, OverFile DEF TakeStaged, RefreshSteps
  <2>2. git
    BY <1>i, <2>1 DEF LooksInOrder, GitSteps
  <2>3. ASSUME NEW p \in Paths \ touched, taken'[p].kind = "DELETED"
        PROVE  worktree[p] = Gone \/ staging[p] = Gone
    <3>1. CASE StagedChanges[p].kind = "DELETED"
      BY <1>t, <3>1, ChangeOfFile DEF StagedChanges, ChangesOf
    <3>2. CASE taken[p].kind = "DELETED"
      BY <1>i, <2>1, <3>2 DEF TakenIsAsFound
    <3> QED
      BY <1>t, <2>1, <2>3, <3>1, <3>2, DeletionsTaken, LooksFind
  <2>4. ASSUME taken' = clean
        PROVE  taken = clean /\ \A p \in Paths : headCommit.tree[p] = staging[p]
    BY <1>t, <2>1, <2>4, NothingOver, LooksFind, NoChangesNoDifference DEF StagedChanges,
       ChangesOf
  <2>5. TakenIsAsFound'
    BY <2>1, <2>3 DEF TakenIsAsFound
  <2>6. CleanIsCommitted'
    BY <1>i, <2>1, <2>4 DEF CleanIsCommitted, NothingTaken
  <2>7. LooksInOrder'
    BY <2>1, <2>2 DEF LooksInOrder
  <2> QED
    BY <2>1, <2>5, <2>6, <2>7
<1>6. CASE TakeUntracked
  <2>1. /\ UNCHANGED <<git, worktree, staging, headCommit, touched, refreshHead>>
        /\ refreshStep = "untracked" /\ refreshStep' = "commits"
        /\ taken' = Over(taken, UntrackedChanges)
        /\ OverlayIsTrue' /\ FolderIsAsFound'
    BY <1>3, <1>6, <1>t, LooksFind, OverFile DEF TakeUntracked, RefreshSteps
  <2>2. git
    BY <1>i, <2>1 DEF LooksInOrder, GitSteps
  <2>k. [kind |-> "ADDED", from |-> Same] # NoChange
    BY ChangeKinds DEF Kinds
  <2>3. ASSUME NEW p \in Paths \ touched, taken'[p].kind = "DELETED"
        PROVE  worktree[p] = Gone
    BY <1>s, <1>t, <2>1, <2>3, DeletionsTaken, LooksFind, <1>i, <2>k DEF UntrackedChanges,
       TakenIsAsFound
  <2>4. ASSUME NEW p \in Paths, taken' = clean
        PROVE  taken = clean /\ (staging[p] # Gone \/ worktree[p] = Gone)
    BY <1>t, <2>1, <2>4, NothingOver, LooksFind, <2>k DEF UntrackedChanges
  <2>5. TakenIsAsFound'
    BY <2>1, <2>3 DEF TakenIsAsFound
  <2>6. CleanIsCommitted'
    BY <1>i, <2>1, <2>4 DEF CleanIsCommitted, NothingTaken
  <2>7. LooksInOrder'
    BY <2>1, <2>2 DEF LooksInOrder
  <2> QED
    BY <2>1, <2>5, <2>6, <2>7
<1>7. CASE TakeCommits
  <2> DEFINE all == IF Clean /\ refreshHead.n # baseline.n
                    THEN Over(taken, CommittedChanges) ELSE taken
  <2>0. all \in [Paths -> Changes]
    BY <1>t, LooksFind, OverFile
  <2>1. /\ UNCHANGED <<git, worktree, staging, headCommit, touched, refreshHead>>
        /\ refreshStep = "commits" /\ refreshStep' = "ingest"
        /\ taken' = all
        /\ OverlayIsTrue' /\ FolderIsAsFound'
    BY <1>3, <1>7, <2>0 DEF TakeCommits, RefreshSteps
  <2>2. git
    BY <1>i, <2>1 DEF LooksInOrder, GitSteps
  <2>3. ASSUME NEW p \in Paths \ touched, taken'[p].kind = "DELETED"
        PROVE  worktree[p] = Gone
    <3>1. CASE taken[p].kind = "DELETED"
      BY <1>i, <2>1, <3>1 DEF TakenIsAsFound
    <3>2. CASE taken[p].kind # "DELETED"
      <4>1. Clean /\ taken' = Over(taken, CommittedChanges)
        BY <2>1, <2>3, <3>2
      <4>2. CommittedChanges[p].kind = "DELETED"
        BY <1>t, <2>3, <3>2, <4>1, DeletionsTaken, LooksFind
      <4>3. refreshHead.tree[p] = Gone
        BY <1>t, <4>2, ChangeOfFile DEF CommittedChanges, ChangesOf
      <4>4. headCommit.tree[p] = Gone
        BY <1>i, <2>1, <4>3 DEF FolderIsAsFound
      <4>5. headCommit.tree[p] = staging[p] /\ staging[p] = worktree[p]
        BY <1>i, <2>1, <4>1 DEF CleanIsCommitted, NothingTaken, Clean
      <4> QED
        BY <4>4, <4>5
    <3> QED
      BY <3>1, <3>2
  <2>5. TakenIsAsFound'
    BY <2>1, <2>2, <2>3 DEF TakenIsAsFound
  <2>6. CleanIsCommitted'
    BY <2>1 DEF CleanIsCommitted
  <2>7. LooksInOrder'
    BY <2>1 DEF LooksInOrder, GitSteps
  <2> QED
    BY <2>1, <2>5, <2>6, <2>7
<1>8. CASE TakeHashes
  <2>1. /\ UNCHANGED <<git, worktree, staging, headCommit, touched, refreshHead>>
        /\ refreshStep = "hashes" /\ refreshStep' = "ingest"
        /\ taken' = Over(taken, HashChanges)
        /\ OverlayIsTrue' /\ FolderIsAsFound'
    BY <1>3, <1>8, <1>t, LooksFind, OverFile DEF TakeHashes, RefreshSteps
  <2>2. taken = clean /\ ~git
    BY <1>i, <2>1 DEF LooksInOrder, NothingTaken
  <2>3. ASSUME NEW p \in Paths
        PROVE  /\ taken'[p].kind = "DELETED" => worktree[p] = Gone
               /\ worktree[p] = Gone => taken'[p].kind \in {"DELETED", Same}
    <3>1. taken'[p] = HashChanges[p]
      BY <1>t, <2>1, <2>2, OverFile, LooksFind
    <3> QED
      BY <1>t, <3>1, ChangeOfFile DEF HashChanges, ChangesOf
  <2>5. TakenIsAsFound'
    BY <2>1, <2>3 DEF TakenIsAsFound
  <2>6. CleanIsCommitted'
    BY <2>1 DEF CleanIsCommitted
  <2>7. LooksInOrder'
    BY <2>1 DEF LooksInOrder, GitSteps
  <2> QED
    BY <2>1, <2>5, <2>6, <2>7
<1>9. CASE IndexCandidate
  <2>1. /\ UNCHANGED <<git, worktree, staging, headCommit, touched, refreshHead, taken>>
        /\ refreshStep = "ingest" /\ refreshStep' = "overlay"
        /\ candidate'.tree = worktree
    BY <1>9 DEF IndexCandidate, folder
  <2>2. OverlayIsTrue'
    BY <2>1 DEF OverlayIsTrue, DifferencesAreShown, GreenIsValid, RedHasReason,
                DeletedIsGone, InReview
  <2>3. FolderIsAsFound'
    BY <1>i, <2>1 DEF FolderIsAsFound
  <2>4. TakenIsAsFound'
    BY <1>i, <2>1 DEF TakenIsAsFound
  <2>5. CleanIsCommitted' /\ LooksInOrder'
    BY <2>1 DEF CleanIsCommitted, LooksInOrder, GitSteps
  <2> QED
    BY <2>2, <2>3, <2>4, <2>5
<1>10. CASE BuildOverlay
  BY <1>10, <1>i, BuiltOverlay DEF BuildOverlay, folder, FolderIsAsFound, TakenIsAsFound,
     CleanIsCommitted, LooksInOrder, GitSteps
<1>11. ASSUME NEW fused \in BOOLEAN, DecideFuse(fused)
       PROVE  /\ OverlayIsTrue' /\ FolderIsAsFound' /\ TakenIsAsFound'
              /\ CleanIsCommitted' /\ LooksInOrder'
  BY <1>11 DEF DecideFuse, OverlayIsTrue, DifferencesAreShown, GreenIsValid, RedHasReason,
     DeletedIsGone, InReview, FolderIsAsFound, TakenIsAsFound, CleanIsCommitted,
     LooksInOrder, GitSteps
<1> QED
  BY <1>1, <1>2, <1>4, <1>5, <1>6, <1>7, <1>8, <1>9, <1>10, <1>11, EditsKeepTruth
     DEF TruthNext

LEMMA TruthInvariantCorrect == TruthSpec => []TruthInvariant
<1>1. TruthInit => TruthInvariant
  <2> SUFFICES ASSUME TruthInit PROVE TruthInvariant
    OBVIOUS
  <2>1. worktree \in FolderTrees
    BY DEF TruthInit, OneFile, FolderTrees
  <2>2. headCommit \in FolderCommits
    BY <2>1, TruthAssumption DEF TruthInit, FolderCommits
  <2>3. taken \in [Paths -> Changes] /\ overlay \in [Paths -> Rows]
    BY ChangeKinds DEF TruthInit, NoRowAtAll, Rows, Colours
  <2>4. TruthTypeOK
    BY <2>1, <2>2, <2>3, TruthAssumption DEF TruthInit, TruthTypeOK, RefreshSteps
  <2>5. refreshStep = "idle"
    BY DEF TruthInit
  <2>6. OverlayIsTrue
    BY <2>5 DEF OverlayIsTrue, DifferencesAreShown, GreenIsValid, RedHasReason,
                DeletedIsGone, InReview
  <2> QED
    BY <2>4, <2>5, <2>6 DEF TruthInvariant, FolderIsAsFound, TakenIsAsFound,
                            CleanIsCommitted, LooksInOrder, GitSteps
<1> QED
  BY <1>1, TruthStep, PTL DEF TruthSpec

\* For any folder, any contents and any number of edits, stagings, commits and refreshes:
\* a reviewer is shown every difference a fuse would make, a green file is in the
\* candidate and valid, and a red or deleted one is not, or fails, unless the file was
\* worked on since the refresh began (refresh_delta_truth.py).
THEOREM OverlayTrue == TruthSpec => []OverlayIsTrue
<1>1. TruthInvariant => OverlayIsTrue
  BY DEF TruthInvariant
<1> QED
  BY <1>1, TruthInvariantCorrect, PTL

-----------------------------------------------------------------------------
(* The ledger of project deltas.                                           *)

\* The steps of a command that records a delta, and of one that appends an event.
Recording == {"build", "reserve", "manifest", "insert", "project", "sync"}
Appending == {"event", "commit", "publish", "after"}

\* The command in task, and what it holds on to.
TaskIsSound ==
    /\ task.step = "idle" <=> task = NoTask
    /\ task # NoTask => task.cand \in Candidates
    /\ task.step \in Recording => task.event = "NONE"
    /\ task.step \in Appending => task.event \in EventTypes
    /\ task.step = "persist" => task.event \in Decided
    /\ (task.event = "FUSED") <=> (replaced # NoLedger)
    /\ task.step \in Recording \/ task.event \in Decided => copies[task.cand] # NoLedger
    /\ task.event = "FUSED" => copies[task.cand] = NoLedger

\* The ledgers that stand beside the one of the brain.
OtherLedgers == ({copies[c] : c \in Candidates} \cup {replaced}) \ {NoLedger}

Standing == OtherLedgers \cup {ledger}

\* A row has the number that was given to its candidate.
Numbered(l, given) ==
    \A n \in DOMAIN l.rows : [delta |-> n, cand |-> l.rows[n].cand] \in given

HaveFiles(l, removed) ==
    \A n \in DOMAIN l.rows : \A k \in DOMAIN l.rows[n].events :
        \/ [delta |-> n, place |-> k, type |-> l.rows[n].events[k]] \in l.files
        \/ [cand |-> l.rows[n].cand, place |-> k] \in removed

SoundLedger(l, given, removed) == RowsVerify(l) /\ HaveFiles(l, removed) /\ Numbered(l, given)

LedgersAreSound == \A l \in Standing : SoundLedger(l, named, unlinked)

\* A candidate is given one number, when its delta is recorded.
NamedOnce ==
    /\ \A x, y \in named : x.cand = y.cand => x = y
    /\ \A x \in named : x.cand \in started
    /\ task.step \in Recording => task.cand \in started
    /\ task.step \in {"build", "reserve", "manifest", "insert"} =>
           \A x \in named : x.cand # task.cand

\* The ledger has every number given, but for those a promotion left behind; the ledger
\* a running fuse replaced has them too.
HasNumber(l, x) == x.delta \in DOMAIN l.rows /\ l.rows[x.delta].cand = x.cand

NumbersAreKept ==
    \A x \in named : \/ x.cand \in overtaken
                     \/ HasNumber(ledger, x) /\ (replaced # NoLedger => HasNumber(replaced, x))

\* Of a row the database does not yet have there is the manifest.
ManifestIsWritten ==
    At("insert") =>
        {f.of : f \in {g \in ledger.folders : g.delta = NextNumber(ledger)}} = {task.cand}

\* Of an event the database does not yet have there is the file.
FileIsWritten ==
    At("commit") => FileOf(ledger, task.cand, EventPlace(ledger, task.cand) + 1, task.event)
                        \subseteq ledger.files

HasEvent(l, c, type) ==
    \E n \in DOMAIN l.rows : /\ l.rows[n].cand = c
                             /\ \E k \in DOMAIN l.rows[n].events : l.rows[n].events[k] = type

Eventless(l, c) ==
    \E n \in DOMAIN l.rows : l.rows[n].cand = c /\ l.rows[n].events = <<>>

\* What the ledgers have of the candidate in task.
TaskIsListed ==
    /\ task.step \in {"project", "sync"} =>
          /\ Eventless(ledger, task.cand)
          /\ \A c \in Candidates : copies[c] # NoLedger => ~Lists(copies[c], task.cand)
    /\ task.step \in {"commit", "publish", "after"} => Lists(ledger, task.cand)
    /\ task.step \in {"publish", "after"} => HasEvent(ledger, task.cand, task.event)
    /\ task.step = "persist" =>
          \A l \in {ledger, copies[task.cand]} :
              Lists(l, task.cand) => HasEvent(l, task.cand, task.event)
    /\ task.event = "FUSED" =>
          \A l \in {ledger, replaced} :
              Lists(l, task.cand) => HasEvent(l, task.cand, "APPROVE")

\* What the states of the refreshes tell.
Tells(l) ==
    \A c \in Candidates : Lists(l, c) =>
        /\ l.states[c] \in {"APPROVED", "FUSE_FAILED"} => HasEvent(l, c, "APPROVE")
        /\ l.states[c] = "REJECTED" => HasEvent(l, c, "REJECT")
        /\ l.states[c] = "FUSED" => HasEvent(l, c, "APPROVE") /\ HasEvent(l, c, "FUSED")

\* What the state of the refresh is while a command works on it.
TaskIsTold ==
    /\ task.step \in Recording \ {"build"} => ledger.states[task.cand] = "AWAITING_FUSE"
    /\ task.step = "build" => ledger.states[task.cand] = "REFRESHING"
    /\ task.event \in Decided => ledger.states[task.cand] = "AWAITING_FUSE"
    /\ task.event = "FUSED" =>
          /\ ledger.states[task.cand] = "FUSING" /\ replaced.states[task.cand] = "FUSING"
          /\ \A c \in Candidates \ {task.cand} : ledger.states[c] = "NOT_STARTED"

\* The copies tell nothing of the refreshes of others.
CopiesTell == \A c \in Candidates : copies[c] # NoLedger =>
                 \A x \in Candidates \ {c} : copies[c].states[x] = "NOT_STARTED"

StatesAreTold ==
    Tells(ledger) /\ (replaced # NoLedger => Tells(replaced)) /\ TaskIsTold /\ CopiesTell

\* What the copy of a candidate has of its own delta, when the state of its refresh is
\* the one of a ledger.
CopyAgrees(l) ==
    \A c \in {x \in Candidates : copies[x] # NoLedger} :
        /\ l.states[c] \in {"APPROVED", "FUSE_FAILED"} /\ Lists(copies[c], c) =>
              HasEvent(copies[c], c, "APPROVE")
        /\ l.states[c] = "AWAITING_FUSE" /\ ~Lists(l, c) => ~Lists(copies[c], c)

CopiesAgree == CopyAgrees(ledger) /\ (replaced # NoLedger => CopyAgrees(replaced))

\* A ledger goes on from another: it has its rows, with their events.
Continues(l, m) ==
    \A n \in DOMAIN l.rows :
        /\ n \in DOMAIN m.rows /\ m.rows[n].cand = l.rows[n].cand
        /\ \A k \in DOMAIN l.rows[n].events :
              k \in DOMAIN m.rows[n].events /\ m.rows[n].events[k] = l.rows[n].events[k]

\* A copy made when the delta of its candidate was recorded: every ledger that lists
\* the candidate goes on from it.
CopiesAreOlder ==
    \A c \in {x \in Candidates : copies[x] # NoLedger} : Eventless(copies[c], c) =>
        \A l \in Standing : Lists(l, c) => Continues(copies[c], l)

IsTold(l, f) ==
    /\ f.delta \in DOMAIN l.rows /\ f.place \in DOMAIN l.rows[f.delta].events
    /\ l.rows[f.delta].events[f.place] = f.type

\* All files of a ledger have their event.
FilesTold(l) == \A f \in l.files : IsTold(l, f)

\* Without a crash the ledgers beside the one of the brain have no file too many.
OthersAreTold == \A l \in OtherLedgers : FilesTold(l)

LedgerIsTold ==
    \A f \in ledger.files :
        \/ IsTold(ledger, f)
        \/ /\ At("commit")
           /\ f \in FileOf(ledger, task.cand, EventPlace(ledger, task.cand) + 1, task.event)

\* A copy seen from a ledger whose refresh waits for a decision.
Untouched(l) ==
    \A c \in Candidates : copies[c] # NoLedger /\ l.states[c] = "AWAITING_FUSE" =>
        \/ task.cand = c /\ task.step \in Recording \cup {"persist"}
        \/ Eventless(copies[c], c)

WaitingAreUntouched == Untouched(ledger) /\ (replaced # NoLedger => Untouched(replaced))

CopyIsLess == task.step \in Recording => copies[task.cand].files \subseteq ledger.files

\* Without a crash a file has its event, but for the one of the append that runs, and
\* the copy of a candidate that waits was made when its delta was recorded.
FilesAreTold ==
    ledgerFaults.crash = 0 =>
        OthersAreTold /\ LedgerIsTold /\ WaitingAreUntouched /\ CopyIsLess

LedgerInvariant ==
    /\ LedgerTypeOK /\ TaskIsSound /\ LedgersAreSound /\ NamedOnce /\ NumbersAreKept
    /\ ManifestIsWritten /\ FileIsWritten /\ TaskIsListed /\ StatesAreTold /\ CopiesAgree
    /\ CopiesAreOlder /\ FilesAreTold

-----------------------------------------------------------------------------
(* Operators on one ledger.                                                *)

LEMMA LedgerFields ==
    ASSUME NEW l \in Ledger
    PROVE  /\ l.rows \in Seq(Row) /\ l.folders \subseteq Folder
           /\ l.files \subseteq EventFile /\ l.states \in [Candidates -> Statuses]
           /\ \A n \in DOMAIN l.rows :
                 /\ n \in Nat /\ n \in 1..Len(l.rows)
                 /\ l.rows[n] \in Row /\ l.rows[n].cand \in Candidates
                 /\ l.rows[n].events \in Seq(EventTypes)
<1>1. /\ l.rows \in Seq(Row) /\ l.folders \subseteq Folder
      /\ l.files \subseteq EventFile /\ l.states \in [Candidates -> Statuses]
  BY DEF Ledger
<1>2. ASSUME NEW n \in DOMAIN l.rows
      PROVE  n \in Nat /\ n \in 1..Len(l.rows) /\ l.rows[n] \in Row
  BY <1>1
<1> QED
  BY <1>1, <1>2 DEF Row

LEMMA EmptyLedgerIsLedger ==
    /\ EmptyLedger \in Ledger /\ EmptyLedger.rows = <<>> /\ EmptyLedger.folders = {}
    /\ EmptyLedger.files = {} /\ \A c \in Candidates : EmptyLedger.states[c] = "NOT_STARTED"
  BY DEF EmptyLedger, Ledger, Statuses

\* The state of a refresh is written, and nothing else.
LEMMA WithStateLedger ==
    ASSUME NEW l \in Ledger, NEW c \in Candidates, NEW status \in Statuses
    PROVE  /\ WithState(l, c, status) \in Ledger
           /\ WithState(l, c, status).rows = l.rows
           /\ WithState(l, c, status).folders = l.folders
           /\ WithState(l, c, status).files = l.files
           /\ WithState(l, c, status).states[c] = status
           /\ \A x \in Candidates \ {c} : WithState(l, c, status).states[x] = l.states[x]
<1>1. WithState(l, c, status) = [l EXCEPT !.states = [@ EXCEPT ![c] = status]]
  BY DEF WithState
<1>2. [l.states EXCEPT ![c] = status] \in [Candidates -> Statuses]
  BY DEF Ledger
<1>3. WithState(l, c, status).states = [l.states EXCEPT ![c] = status]
  BY <1>1 DEF Ledger
<1>4. WithState(l, c, status) \in Ledger
  BY <1>1, <1>2 DEF Ledger
<1> QED
  BY <1>1, <1>3, <1>4 DEF Ledger

LEMMA WithoutFolderLedger ==
    ASSUME NEW l \in Ledger, NEW n
    PROVE  /\ WithoutFolder(l, n) \in Ledger
           /\ WithoutFolder(l, n).rows = l.rows
           /\ WithoutFolder(l, n).files = l.files
           /\ WithoutFolder(l, n).states = l.states
           /\ WithoutFolder(l, n).folders = {f \in l.folders : f.delta # n}
  BY DEF WithoutFolder, Ledger

\* A ledger with folders, or with files, of its own.
LEMMA FoldersReplaced ==
    ASSUME NEW l \in Ledger, NEW F \in SUBSET Folder
    PROVE  /\ [l EXCEPT !.folders = F] \in Ledger
           /\ [l EXCEPT !.folders = F].rows = l.rows
           /\ [l EXCEPT !.folders = F].files = l.files
           /\ [l EXCEPT !.folders = F].states = l.states
           /\ [l EXCEPT !.folders = F].folders = F
  BY DEF Ledger

LEMMA FilesReplaced ==
    ASSUME NEW l \in Ledger, NEW F \in SUBSET EventFile
    PROVE  /\ [l EXCEPT !.files = F] \in Ledger
           /\ [l EXCEPT !.files = F].rows = l.rows
           /\ [l EXCEPT !.files = F].folders = l.folders
           /\ [l EXCEPT !.files = F].states = l.states
           /\ [l EXCEPT !.files = F].files = F
  BY DEF Ledger

LEMMA RowsReplaced ==
    ASSUME NEW l \in Ledger, NEW R \in Seq(Row)
    PROVE  /\ [l EXCEPT !.rows = R] \in Ledger
           /\ [l EXCEPT !.rows = R].rows = R
           /\ [l EXCEPT !.rows = R].folders = l.folders
           /\ [l EXCEPT !.rows = R].states = l.states
           /\ [l EXCEPT !.rows = R].files = l.files
  BY DEF Ledger

\* A ledger copied over another has its rows and folders, and the files of both.
LEMMA SyncedLedger ==
    ASSUME NEW s \in Ledger, NEW t \in Ledger
    PROVE  /\ Synced(s, t) \in Ledger
           /\ Synced(s, t).rows = s.rows /\ Synced(s, t).states = t.states
           /\ Synced(s, t).files = t.files \cup s.files
           /\ Synced(s, t).folders = s.folders \cup
                  {f \in t.folders : \A g \in s.folders : f.delta # g.delta}
  BY DEF Synced, Ledger

LEMMA WithEventRows ==
    ASSUME NEW rows \in Seq(Row), NEW c \in Candidates, NEW type \in EventTypes
    PROVE  /\ WithEvent(rows, c, type) \in Seq(Row)
           /\ DOMAIN WithEvent(rows, c, type) = DOMAIN rows
           /\ \A n \in DOMAIN rows :
                 /\ WithEvent(rows, c, type)[n].cand = rows[n].cand
                 /\ WithEvent(rows, c, type)[n].events =
                       IF rows[n].cand = c THEN Append(rows[n].events, type)
                       ELSE rows[n].events
<1>1. ASSUME NEW n \in DOMAIN rows
      PROVE  /\ rows[n] \in Row
             /\ [rows[n] EXCEPT !.events = Append(@, type)] \in Row
             /\ [rows[n] EXCEPT !.events = Append(@, type)].cand = rows[n].cand
             /\ [rows[n] EXCEPT !.events = Append(@, type)].events = Append(rows[n].events, type)
  <2>1. rows[n] \in Row
    OBVIOUS
  <2>2. Append(rows[n].events, type) \in Seq(EventTypes)
    BY <2>1 DEF Row
  <2> QED
    BY <2>1, <2>2 DEF Row
<1>2. WithEvent(rows, c, type) \in [1..Len(rows) -> Row]
  BY <1>1 DEF WithEvent
<1>3. WithEvent(rows, c, type) \in Seq(Row)
  BY <1>2
<1> QED
  BY <1>1, <1>3 DEF WithEvent

-----------------------------------------------------------------------------
(* The steps keep the types.                                               *)

LEMMA LedgerStatuses ==
    /\ {"NOT_STARTED", "REFRESHING", "NO_CHANGE", "AWAITING_FUSE", "APPROVED", "REJECTED",
        "FAILED", "FUSE_FAILED", "FUSING", "FUSED", "DROPPED"} \subseteq Statuses
    /\ \A d : StatusOf(d) \in {"APPROVED", "REJECTED"}
  BY DEF Statuses, StatusOf

LEMMA FilesOfEvent ==
    ASSUME NEW l \in Ledger, NEW c, NEW k \in Nat, NEW type \in EventTypes
    PROVE  FileOf(l, c, k, type) \subseteq EventFile
  BY LedgerFields DEF FileOf, EventFile

LEMMA PlaceOfEvent ==
    ASSUME NEW l \in Ledger, NEW c, Lists(l, c)
    PROVE  EventPlace(l, c) \in Nat
<1> DEFINE n == CHOOSE m \in DOMAIN l.rows : l.rows[m].cand = c
<1>1. n \in DOMAIN l.rows
  BY DEF Lists
<1>2. l.rows[n].events \in Seq(EventTypes)
  BY <1>1, LedgerFields
<1> HIDE DEF n
<1>3. Len(l.rows[n].events) \in Nat
  BY <1>2
<1> QED
  BY <1>3 DEF EventPlace, n

\* A fault is counted.
LEMMA FaultIsCounted ==
    ASSUME LedgerTypeOK, NEW kind \in {"fail", "crash"}, LedgerFault(kind)
    PROVE  /\ ledgerFaults' \in [fail : Nat, crash : Nat]
           /\ kind = "fail" => ledgerFaults'.crash = ledgerFaults.crash
           /\ kind = "crash" => ledgerFaults'.crash # 0
  BY DEF LedgerTypeOK, LedgerFault

\* A failed refresh writes two states.
LEMMA RefreshFailsTypes ==
    ASSUME LedgerTypeOK, TaskIsSound, task.step \in Recording, NEW l \in Ledger,
           RefreshFails(l)
    PROVE  /\ ledger' \in Ledger /\ copies' \in [Candidates -> Ledger \cup {NoLedger}]
           /\ task' = NoTask
           /\ task.cand \in Candidates /\ copies[task.cand] \in Ledger
           /\ ledger' = WithState(l, task.cand, "FAILED")
           /\ copies' = [copies EXCEPT ![task.cand] =
                            WithState(copies[task.cand], task.cand, "FAILED")]
<1>1. task.cand \in Candidates /\ copies[task.cand] \in Ledger
  BY DEF TaskIsSound, LedgerTypeOK, Recording, NoTask
<1>2. /\ ledger' = WithState(l, task.cand, "FAILED") /\ task' = NoTask
      /\ copies' = [copies EXCEPT ![task.cand] =
                            WithState(copies[task.cand], task.cand, "FAILED")]
  BY DEF RefreshFails
<1>3. /\ WithState(l, task.cand, "FAILED") \in Ledger
      /\ WithState(copies[task.cand], task.cand, "FAILED") \in Ledger
  BY <1>1, WithStateLedger, LedgerStatuses
<1> QED
  BY <1>1, <1>2, <1>3 DEF LedgerTypeOK

\* An append that raises ends the command, and a fuse is undone.
LEMMA AppendRaisesTypes ==
    ASSUME LedgerTypeOK, TaskIsSound, task.step \in Appending, NEW l \in Ledger,
           AppendRaises(l)
    PROVE  /\ ledger' \in Ledger /\ copies' \in [Candidates -> Ledger \cup {NoLedger}]
           /\ replaced' \in Ledger \cup {NoLedger}
           /\ overtaken' \subseteq Candidates
           /\ task' = NoTask
<1>1. task.cand \in Candidates
  BY DEF TaskIsSound, Appending, NoTask, LedgerTypeOK
<1>2. CASE task.event = "FUSED"
  <2>1. replaced \in Ledger
    BY <1>2 DEF TaskIsSound, LedgerTypeOK
  <2>2. /\ WithState(l, task.cand, "FUSE_FAILED") \in Ledger
        /\ WithState(replaced, task.cand, "FUSE_FAILED") \in Ledger
    BY <1>1, <2>1, WithStateLedger, LedgerStatuses
  <2> QED
    BY <1>1, <1>2, <2>2 DEF AppendRaises, LedgerTypeOK
<1>3. CASE task.event # "FUSED"
  BY <1>3 DEF AppendRaises, LedgerTypeOK
<1> QED
  BY <1>2, <1>3 DEF AppendRaises

\* Every step keeps the types.
LEMMA LedgerTypeStep ==
    LedgerTypeOK /\ TaskIsSound /\ TaskIsListed /\ [LedgerNext]_ledgerVars => LedgerTypeOK'
<1> SUFFICES ASSUME LedgerTypeOK, TaskIsSound, TaskIsListed, [LedgerNext]_ledgerVars
             PROVE  LedgerTypeOK'
  OBVIOUS
<1>a. \A s : task.step = s /\ s # "idle" => task.cand \in Candidates
  BY DEF TaskIsSound, NoTask
<1>b. /\ \A s \in LedgerSteps : [task EXCEPT !.step = s]
              \in [step : LedgerSteps, cand : Candidates \cup {NoCandidate},
                   event : EventTypes \cup {"NONE"}]
      /\ NoTask \in [step : LedgerSteps, cand : Candidates \cup {NoCandidate},
                     event : EventTypes \cup {"NONE"}]
  BY DEF LedgerTypeOK, NoTask, LedgerSteps
<1>c. Decided \subseteq EventTypes /\ {"FUSED", "DROPPED"} \subseteq EventTypes
  BY DEF EventTypes
<1>1. CASE UNCHANGED ledgerVars
  BY <1>1 DEF ledgerVars, LedgerTypeOK
<1>2. ASSUME NEW c \in Candidates, StartRefresh(c) PROVE LedgerTypeOK'
  <2>1. ledger' \in Ledger
    BY <1>2, WithStateLedger, LedgerStatuses DEF StartRefresh, LedgerTypeOK
  <2>2. Synced(ledger, EmptyLedger) \in Ledger
    BY SyncedLedger, EmptyLedgerIsLedger DEF LedgerTypeOK
  <2>3. copies' \in [Candidates -> Ledger \cup {NoLedger}]
    BY <1>2, <2>2 DEF StartRefresh, LedgerTypeOK
  <2>4. task' \in [step : LedgerSteps, cand : Candidates \cup {NoCandidate},
                   event : EventTypes \cup {"NONE"}]
    BY <1>2 DEF StartRefresh, LedgerSteps
  <2> QED
    BY <1>2, <2>1, <2>3, <2>4 DEF StartRefresh, LedgerTypeOK
<1>3. CASE EndBuild
  <2>1. task.cand \in Candidates /\ task.step \in Recording
    BY <1>3, <1>a DEF EndBuild, At, Recording
  <2>2. CASE RefreshFails(ledger)
    BY <2>1, <2>2, RefreshFailsTypes, <1>3, <1>b DEF LedgerTypeOK, EndBuild
  <2>3. CASE /\ ledger' = WithState(ledger, task.cand, "NO_CHANGE")
             /\ copies' = [copies EXCEPT ![task.cand] = NoLedger]
             /\ task' = NoTask
    BY <2>1, <2>3, WithStateLedger, LedgerStatuses, <1>3, <1>b DEF LedgerTypeOK, EndBuild
  <2>4. CASE /\ ledger' = WithState(ledger, task.cand, "AWAITING_FUSE")
             /\ Goto("reserve")
             /\ UNCHANGED copies
    <3>1. ledger' \in Ledger
      BY <2>1, <2>4, WithStateLedger, LedgerStatuses DEF LedgerTypeOK
    <3> QED
      BY <1>3, <1>b, <2>4, <3>1 DEF EndBuild, LedgerTypeOK, Goto, LedgerSteps
  <2> QED
    BY <1>3, <2>2, <2>3, <2>4 DEF EndBuild
<1>4. CASE Reserve
  <2>1. task.cand \in Candidates /\ task.step \in Recording
    BY <1>4, <1>a DEF Reserve, At, Recording
  <2>2. NextNumber(ledger) \in Nat
    BY LedgerFields DEF LedgerTypeOK, NextNumber
  <2> DEFINE n == NextNumber(ledger)
             more == ledger.folders \cup {[delta |-> n, of |-> NoCandidate]}
  <2>3. more \subseteq Folder
    BY <2>2, LedgerFields DEF Folder, LedgerTypeOK
  <2>4. CASE RefreshFails(WithoutFolder(ledger, n))
    BY WithoutFolderLedger, <2>1, <2>4, RefreshFailsTypes, <1>4, <1>b DEF LedgerTypeOK,
       Reserve
  <2>5. CASE /\ ledger' = [ledger EXCEPT !.folders = more]
             /\ Goto("manifest")
             /\ UNCHANGED copies
    <3>1. ledger' \in Ledger
      BY <2>3, <2>5, FoldersReplaced DEF LedgerTypeOK
    <3> QED
      BY <1>4, <1>b, <2>5, <3>1 DEF Reserve, LedgerTypeOK, Goto, LedgerSteps
  <2> QED
    BY <1>4, <2>4, <2>5 DEF Reserve
<1>5. CASE WriteManifest
  <2>1. task.cand \in Candidates
    BY <1>5, <1>a DEF WriteManifest, At
  <2> DEFINE n == NextNumber(ledger)
             l == WithoutFolder(ledger, n)
             more == l.folders \cup {[delta |-> n, of |-> task.cand]}
  <2>2. n \in Nat
    BY LedgerFields DEF LedgerTypeOK, NextNumber
  <2>3. l \in Ledger
    BY WithoutFolderLedger DEF LedgerTypeOK
  <2> HIDE DEF n, l
  <2>4. more \subseteq Folder
    BY <2>1, <2>2, <2>3, LedgerFields DEF Folder
  <2>5. ledger' = [l EXCEPT !.folders = more]
    BY <1>5 DEF WriteManifest, n, l
  <2>6. ledger' \in Ledger
    BY <2>3, <2>4, <2>5, FoldersReplaced
  <2> QED
    BY <1>5, <1>b, <2>6 DEF WriteManifest, LedgerTypeOK, Goto, LedgerSteps
<1>6. CASE InsertRow
  <2>1. task.cand \in Candidates
    BY <1>6, <1>a DEF InsertRow, At
  <2>2. [cand |-> task.cand, events |-> <<>>] \in Row
    BY <2>1 DEF Row
  <2>3. Append(ledger.rows, [cand |-> task.cand, events |-> <<>>]) \in Seq(Row)
    BY <2>2, LedgerFields DEF LedgerTypeOK
  <2>4. ledger' \in Ledger
    BY <1>6, <2>3, RowsReplaced DEF InsertRow, LedgerTypeOK
  <2>5. NextNumber(ledger) \in Nat
    BY LedgerFields DEF LedgerTypeOK, NextNumber
  <2>6. named' \subseteq [delta : Nat, cand : Candidates]
    BY <1>6, <2>1, <2>5 DEF InsertRow, LedgerTypeOK
  <2> QED
    BY <1>6, <1>b, <2>4, <2>6 DEF InsertRow, LedgerTypeOK, Goto, LedgerSteps
<1>7. CASE ProjectRow
  BY <1>7, <1>b DEF ProjectRow, LedgerTypeOK, Goto, LedgerSteps
<1>8. CASE RecordFails
  <2>1. task.step \in Recording
    BY <1>8 DEF RecordFails, Recording
  <2> DEFINE l == IF task.step \in {"manifest", "insert"}
                  THEN WithoutFolder(ledger, NextNumber(ledger)) ELSE ledger
  <2>2. l \in Ledger
    BY WithoutFolderLedger DEF LedgerTypeOK
  <2>3. RefreshFails(l)
    BY <1>8 DEF RecordFails
  <2> HIDE DEF l
  <2>4. /\ ledger' \in Ledger /\ copies' \in [Candidates -> Ledger \cup {NoLedger}]
        /\ task' = NoTask
    BY <2>1, <2>2, <2>3, RefreshFailsTypes
  <2>5. ledgerFaults' \in [fail : Nat, crash : Nat]
    BY <1>8, FaultIsCounted DEF RecordFails
  <2> QED
    BY <1>8, <1>b, <2>4, <2>5 DEF RecordFails, LedgerTypeOK
<1>9. CASE SyncCandidate
  <2>1. task.cand \in Candidates /\ copies[task.cand] \in Ledger
    BY <1>9, <1>a DEF SyncCandidate, At, Recording, TaskIsSound, LedgerTypeOK
  <2>2. Synced(ledger, copies[task.cand]) \in Ledger
    BY <2>1, SyncedLedger DEF LedgerTypeOK
  <2>3. WithState(Synced(ledger, copies[task.cand]), task.cand, "AWAITING_FUSE") \in Ledger
    BY <2>1, <2>2, WithStateLedger, LedgerStatuses
  <2> QED
    BY <1>9, <1>b, <2>3 DEF SyncCandidate, LedgerTypeOK
<1>10. CASE WriteEventFile
  <2>1. task.cand \in Candidates /\ task.event \in EventTypes /\ task.step \in Appending
    BY <1>10, <1>a DEF WriteEventFile, At, TaskIsSound, Appending
  <2>2. CASE AppendRaises(ledger)
    BY <2>1, <2>2, AppendRaisesTypes, <1>10, <1>b DEF LedgerTypeOK, WriteEventFile
  <2> DEFINE f == FileOf(ledger, task.cand, EventPlace(ledger, task.cand) + 1, task.event)
             more == ledger.files \cup f
  <2>3. CASE /\ Lists(ledger, task.cand)
             /\ ledger' = [ledger EXCEPT !.files = more]
             /\ Goto("commit")
             /\ UNCHANGED <<copies, replaced, overtaken>>
    <3>1. EventPlace(ledger, task.cand) + 1 \in Nat
      BY <2>3, PlaceOfEvent DEF LedgerTypeOK
    <3>2. f \subseteq EventFile
      BY <2>1, <3>1, FilesOfEvent DEF LedgerTypeOK
    <3>3. more \subseteq EventFile
      BY <3>2, LedgerFields DEF LedgerTypeOK
    <3> HIDE DEF f
    <3>4. ledger' \in Ledger
      BY <2>3, <3>3, FilesReplaced DEF LedgerTypeOK
    <3> QED
      BY <1>10, <1>b, <2>3, <3>4 DEF WriteEventFile, LedgerTypeOK, Goto, LedgerSteps
  <2> QED
    BY <1>10, <2>2, <2>3 DEF WriteEventFile
<1>11. CASE CommitEvent
  <2>1. task.cand \in Candidates /\ task.event \in EventTypes
    BY <1>11, <1>a DEF CommitEvent, At, TaskIsSound, Appending
  <2>2. WithEvent(ledger.rows, task.cand, task.event) \in Seq(Row)
    BY <2>1, WithEventRows, LedgerFields DEF LedgerTypeOK
  <2>3. ledger' \in Ledger
    BY <1>11, <2>2, RowsReplaced DEF CommitEvent, LedgerTypeOK
  <2> QED
    BY <1>11, <1>b, <2>3 DEF CommitEvent, LedgerTypeOK, Goto, LedgerSteps
<1>12. CASE PublishEvent
  BY <1>12, <1>b DEF PublishEvent, LedgerTypeOK, Goto, LedgerSteps
<1>13. CASE AppendFails
  <2>1. task.cand \in Candidates /\ task.event \in EventTypes /\ task.step \in Appending
    BY <1>13, <1>a DEF AppendFails, TaskIsSound, Appending
  <2> DEFINE k == EventPlace(ledger, task.cand)
             place == IF task.step = "commit" THEN k + 1 ELSE k
             rest == ledger.files \ FileOf(ledger, task.cand, place, task.event)
             l == [ledger EXCEPT !.files = rest]
  <2>2. rest \subseteq EventFile
    BY LedgerFields DEF LedgerTypeOK
  <2> HIDE DEF rest
  <2>3. l \in Ledger
    BY <2>2, FilesReplaced DEF LedgerTypeOK
  <2> USE DEF rest
  <2>4. AppendRaises(l)
    BY <1>13 DEF AppendFails
  <2> HIDE DEF l
  <2>5. /\ ledger' \in Ledger /\ copies' \in [Candidates -> Ledger \cup {NoLedger}]
        /\ replaced' \in Ledger \cup {NoLedger}
        /\ overtaken' \subseteq Candidates
        /\ task' = NoTask
    BY <2>1, <2>3, <2>4, AppendRaisesTypes
  <2>6. ledgerFaults' \in [fail : Nat, crash : Nat]
    BY <1>13, FaultIsCounted DEF AppendFails
  <2>7. unlinked' \subseteq [cand : Candidates, place : Nat]
    <3>1. Lists(ledger, task.cand)
      BY <1>13 DEF AppendFails, TaskIsListed
    <3>2. k \in Nat
      BY <3>1, PlaceOfEvent DEF LedgerTypeOK
    <3>3. [cand |-> task.cand, place |-> k] \in [cand : Candidates, place : Nat]
      BY <2>1, <3>2
    <3>4. unlinked' \subseteq unlinked \cup {[cand |-> task.cand, place |-> k]}
      BY <1>13 DEF AppendFails
    <3> HIDE DEF k
    <3> QED
      BY <3>3, <3>4 DEF LedgerTypeOK
  <2> QED
    BY <1>13, <1>b, <2>5, <2>6, <2>7 DEF AppendFails, LedgerTypeOK
<1>14. ASSUME NEW c \in Candidates, NEW d \in Decided, Decide(c, d) PROVE LedgerTypeOK'
  BY <1>14, <1>c DEF Decide, LedgerSteps, LedgerTypeOK
<1>15. CASE SyncDecision
  <2>1. task.cand \in Candidates /\ copies[task.cand] \in Ledger
    BY <1>15, <1>a DEF SyncDecision, At, TaskIsSound, LedgerTypeOK
  <2>2. Synced(ledger, copies[task.cand]) \in Ledger
    BY <2>1, SyncedLedger DEF LedgerTypeOK
  <2> QED
    BY <1>15, <1>b, <2>2 DEF SyncDecision, LedgerTypeOK, Goto, LedgerSteps
<1>16. CASE PersistDecided
  <2>1. task.cand \in Candidates /\ copies[task.cand] \in Ledger
    BY <1>16, <1>a DEF PersistDecided, At, TaskIsSound, LedgerTypeOK
  <2> DEFINE told == StatusOf(task.event)
  <2>s. told \in Statuses
    BY LedgerStatuses
  <2> HIDE DEF told
  <2>2. /\ WithState(ledger, task.cand, told) \in Ledger
        /\ WithState(copies[task.cand], task.cand, told) \in Ledger
    BY <2>1, <2>s, WithStateLedger DEF LedgerTypeOK
  <2> QED
    BY <1>16, <1>b, <2>2 DEF PersistDecided, LedgerTypeOK, told
<1>17. ASSUME NEW c \in Candidates, Promote(c) PROVE LedgerTypeOK'
  <2>1. copies[c] \in Ledger
    BY <1>17 DEF Promote, LedgerTypeOK
  <2>2. WithState(ledger, c, "FUSING") \in Ledger /\ WithState(copies[c], c, "FUSING") \in Ledger
    BY <2>1, WithStateLedger, LedgerStatuses DEF LedgerTypeOK
  <2>3. task' \in [step : LedgerSteps, cand : Candidates \cup {NoCandidate},
                   event : EventTypes \cup {"NONE"}]
    BY <1>17, <1>c DEF Promote, LedgerSteps
  <2>4. overtaken' \subseteq Candidates
    BY <1>17 DEF Promote, Listed, LedgerTypeOK
  <2> QED
    BY <1>17, <2>2, <2>3, <2>4 DEF Promote, LedgerTypeOK
<1>18. CASE CommitFuse
  BY <1>18, <1>a, WithStateLedger, LedgerStatuses, <1>b DEF CommitFuse, At, LedgerTypeOK
<1>19. ASSUME NEW c \in Candidates, DropDelta(c) PROVE LedgerTypeOK'
  <2>1. WithState(ledger, c, "DROPPED") \in Ledger
    BY WithStateLedger, LedgerStatuses DEF LedgerTypeOK
  <2>2. task' \in [step : LedgerSteps, cand : Candidates \cup {NoCandidate},
                   event : EventTypes \cup {"NONE"}]
    BY <1>19, <1>b, <1>c DEF DropDelta, LedgerSteps
  <2>3. copies' \in [Candidates -> Ledger \cup {NoLedger}]
    BY <1>19 DEF DropDelta, LedgerTypeOK
  <2> QED
    BY <1>19, <2>1, <2>2, <2>3 DEF DropDelta, LedgerTypeOK
<1>20. CASE EndDrop
  BY <1>20, <1>b DEF EndDrop, LedgerTypeOK
<1>21. CASE LedgerCrash
  BY <1>21, FaultIsCounted, <1>b DEF LedgerCrash, LedgerTypeOK
<1> QED
  BY <1>1, <1>2, <1>3, <1>4, <1>5, <1>6, <1>7, <1>8, <1>9, <1>10, <1>11, <1>12, <1>13,
     <1>14, <1>15, <1>16, <1>17, <1>18, <1>19, <1>20, <1>21 DEF LedgerNext

-----------------------------------------------------------------------------
(* What the rows of a ledger tell.                                         *)

\* One ledger stands where another stood: it has the same rows, for every row the same
\* manifests, and the files of its events but for those removed.
SameManifests(l, m) ==
    \A n \in DOMAIN l.rows :
        {f \in m.folders : f.delta = n} = {f \in l.folders : f.delta = n}

SameFiles(l, m, removed) ==
    \A n \in DOMAIN l.rows : \A k \in DOMAIN l.rows[n].events :
        [delta |-> n, place |-> k, type |-> l.rows[n].events[k]] \in l.files =>
            \/ [delta |-> n, place |-> k, type |-> l.rows[n].events[k]] \in m.files
            \/ [cand |-> l.rows[n].cand, place |-> k] \in removed

Like(l, m, removed) ==
    m.rows = l.rows /\ SameManifests(l, m) /\ SameFiles(l, m, removed)

LEMMA LikeIsSound ==
    ASSUME NEW l, NEW m, NEW g, NEW g2, NEW r, NEW r2,
           g \subseteq g2, r \subseteq r2, SoundLedger(l, g, r), Like(l, m, r2)
    PROVE  SoundLedger(m, g2, r2)
<1>1. m.rows = l.rows
  BY DEF Like
<1>2. RowsVerify(m)
  BY <1>1 DEF SoundLedger, Like, RowsVerify, SameManifests
<1>3. HaveFiles(m, r2)
  BY <1>1 DEF SoundLedger, Like, HaveFiles, SameFiles
<1>4. Numbered(m, g2)
  BY <1>1 DEF SoundLedger, Numbered
<1> QED
  BY <1>2, <1>3, <1>4 DEF SoundLedger

\* A ledger with the same rows, the same folders and all the files.
LEMMA SameIsLike ==
    ASSUME NEW l, NEW m, NEW r, m.rows = l.rows, m.folders = l.folders, l.files \subseteq m.files
    PROVE  Like(l, m, r)
  BY DEF Like, SameManifests, SameFiles

LEMMA SyncedIsLike ==
    ASSUME NEW s \in Ledger, NEW t \in Ledger, NEW r, RowsVerify(s)
    PROVE  Like(s, Synced(s, t), r)
<1> DEFINE m == Synced(s, t)
<1>1. /\ m.rows = s.rows /\ s.files \subseteq m.files
      /\ m.folders = s.folders \cup
                  {f \in t.folders : \A g \in s.folders : f.delta # g.delta}
  BY SyncedLedger
<1> HIDE DEF m
<1>2. SameManifests(s, m)
  BY <1>1 DEF SameManifests, RowsVerify
<1>3. SameFiles(s, m, r)
  BY <1>1 DEF SameFiles
<1> QED
  BY <1>1, <1>2, <1>3 DEF Like, m

\* What is asked of the rows is the same of two ledgers with the same rows.
LEMMA SameRows ==
    ASSUME NEW l, NEW m, l.rows = m.rows
    PROVE  /\ \A c : Lists(l, c) <=> Lists(m, c)
           /\ Listed(l) = Listed(m)
           /\ \A c, type : HasEvent(l, c, type) <=> HasEvent(m, c, type)
           /\ \A c : Eventless(l, c) <=> Eventless(m, c)
           /\ \A x : HasNumber(l, x) <=> HasNumber(m, x)
           /\ \A x : Continues(x, l) <=> Continues(x, m)
           /\ \A x : Continues(l, x) <=> Continues(m, x)
           /\ \A f : IsTold(l, f) <=> IsTold(m, f)
           /\ \A c : EventPlace(l, c) = EventPlace(m, c)
           /\ \A c, k, type : FileOf(l, c, k, type) = FileOf(m, c, k, type)
           /\ NextNumber(l) = NextNumber(m)
<1>1. /\ \A c : Lists(l, c) <=> Lists(m, c)
      /\ Listed(l) = Listed(m)
  BY DEF Lists, Listed
<1>2. /\ \A c, type : HasEvent(l, c, type) <=> HasEvent(m, c, type)
      /\ \A c : Eventless(l, c) <=> Eventless(m, c)
  BY DEF HasEvent, Eventless
<1>3. /\ \A x : HasNumber(l, x) <=> HasNumber(m, x)
      /\ \A f : IsTold(l, f) <=> IsTold(m, f)
  BY DEF HasNumber, IsTold
<1>4. \A x : (Continues(x, l) <=> Continues(x, m)) /\ (Continues(l, x) <=> Continues(m, x))
  BY DEF Continues
<1>5. /\ \A c : EventPlace(l, c) = EventPlace(m, c)
      /\ NextNumber(l) = NextNumber(m)
  BY DEF EventPlace, NextNumber
<1>6. \A c, k, type : FileOf(l, c, k, type) = FileOf(m, c, k, type)
  BY DEF FileOf
<1> QED
  BY <1>1, <1>2, <1>3, <1>4, <1>5, <1>6

\* A candidate has one row, in every ledger the same.
LEMMA RowsAreUnique ==
    ASSUME NamedOnce, NEW l, NEW m, Numbered(l, named), Numbered(m, named),
           NEW n \in DOMAIN l.rows, NEW k \in DOMAIN m.rows, l.rows[n].cand = m.rows[k].cand
    PROVE  n = k
  BY DEF Numbered, NamedOnce

\* What the row of a candidate tells of its events.
LEMMA RowOfCandidate ==
    ASSUME NamedOnce, NEW l, Numbered(l, named), NEW n \in DOMAIN l.rows
    PROVE  /\ EventPlace(l, l.rows[n].cand) = Len(l.rows[n].events)
           /\ \A k, type : FileOf(l, l.rows[n].cand, k, type)
                             = {[delta |-> n, place |-> k, type |-> type]}
           /\ \A type : HasEvent(l, l.rows[n].cand, type) <=>
                 \E k \in DOMAIN l.rows[n].events : l.rows[n].events[k] = type
           /\ Eventless(l, l.rows[n].cand) <=> l.rows[n].events = <<>>
<1>1. \A m \in DOMAIN l.rows : l.rows[m].cand = l.rows[n].cand => m = n
  BY RowsAreUnique
<1>2. (CHOOSE m \in DOMAIN l.rows : l.rows[m].cand = l.rows[n].cand) = n
  BY <1>1
<1>3. {m \in DOMAIN l.rows : l.rows[m].cand = l.rows[n].cand} = {n}
  BY <1>1
<1>4. \A k, type : FileOf(l, l.rows[n].cand, k, type)
                     = {[delta |-> m, place |-> k, type |-> type] : m \in {n}}
  BY <1>3 DEF FileOf
<1> QED
  BY <1>1, <1>2, <1>4 DEF EventPlace, HasEvent, Eventless

LEMMA NoEventsNone ==
    ASSUME NamedOnce, NEW l, Numbered(l, named), NEW c, Eventless(l, c), NEW type
    PROVE  ~HasEvent(l, c, type)
<1>1. PICK n \in DOMAIN l.rows : l.rows[n].cand = c /\ l.rows[n].events = <<>>
  BY DEF Eventless
<1>2. DOMAIN l.rows[n].events = {}
  BY <1>1
<1> QED
  BY <1>1, <1>2, RowOfCandidate

LEMMA EventIsListed ==
    ASSUME NEW l, NEW c
    PROVE  /\ \A type : HasEvent(l, c, type) => Lists(l, c)
           /\ Eventless(l, c) => Lists(l, c)
  BY DEF HasEvent, Eventless, Lists

LEMMA GoesOnTwice ==
    ASSUME NEW l, NEW m, NEW k, Continues(l, m), Continues(m, k)
    PROVE  Continues(l, k)
  BY DEF Continues

LEMMA GoesOnItself == \A l : Continues(l, l)
  BY DEF Continues

-----------------------------------------------------------------------------
(* The ledgers of a step.                                                  *)

\* What a failed refresh writes.
LEMMA RefreshFailsLedgers ==
    ASSUME LedgerTypeOK, TaskIsSound, task.step \in Recording, NEW l \in Ledger,
           RefreshFails(l)
    PROVE  /\ task.cand \in Candidates /\ copies[task.cand] \in Ledger /\ task' = NoTask
           /\ ledger'.rows = l.rows /\ ledger'.folders = l.folders /\ ledger'.files = l.files
           /\ ledger'.states[task.cand] = "FAILED"
           /\ \A x \in Candidates \ {task.cand} :
                 ledger'.states[x] = l.states[x] /\ copies'[x] = copies[x]
           /\ copies'[task.cand] \in Ledger
           /\ copies'[task.cand].rows = copies[task.cand].rows
           /\ copies'[task.cand].folders = copies[task.cand].folders
           /\ copies'[task.cand].files = copies[task.cand].files
           /\ copies'[task.cand].states[task.cand] = "FAILED"
           /\ \A x \in Candidates \ {task.cand} :
                 copies'[task.cand].states[x] = copies[task.cand].states[x]
<1>1. /\ task.cand \in Candidates /\ copies[task.cand] \in Ledger /\ task' = NoTask
      /\ ledger' = WithState(l, task.cand, "FAILED")
      /\ copies' = [copies EXCEPT ![task.cand] =
                            WithState(copies[task.cand], task.cand, "FAILED")]
  BY RefreshFailsTypes
<1>2. "FAILED" \in Statuses
  BY DEF Statuses
<1>3. copies'[task.cand] = WithState(copies[task.cand], task.cand, "FAILED")
  BY <1>1 DEF LedgerTypeOK
<1> QED
  BY <1>1, <1>2, <1>3, WithStateLedger DEF LedgerTypeOK

\* What an append that raises writes, when a fuse runs.
LEMMA FuseRaisesLedgers ==
    ASSUME LedgerTypeOK, TaskIsSound, task.step \in Appending, NEW l \in Ledger,
           AppendRaises(l), task.event = "FUSED"
    PROVE  /\ task.cand \in Candidates /\ replaced \in Ledger /\ task' = NoTask
           /\ replaced' = NoLedger /\ overtaken' = overtaken \ Listed(replaced)
           /\ ledger'.rows = replaced.rows /\ ledger'.folders = replaced.folders
           /\ ledger'.files = replaced.files
           /\ ledger'.states[task.cand] = "FUSE_FAILED"
           /\ \A x \in Candidates \ {task.cand} :
                 ledger'.states[x] = replaced.states[x] /\ copies'[x] = copies[x]
           /\ copies'[task.cand] \in Ledger
           /\ copies'[task.cand].rows = l.rows
           /\ copies'[task.cand].folders = l.folders
           /\ copies'[task.cand].files = l.files
           /\ copies'[task.cand].states[task.cand] = "FUSE_FAILED"
           /\ \A x \in Candidates \ {task.cand} :
                 copies'[task.cand].states[x] = l.states[x]
<1>1. task.cand \in Candidates /\ replaced \in Ledger
  BY DEF TaskIsSound, Appending, NoTask, LedgerTypeOK
<1>2. /\ ledger' = WithState(replaced, task.cand, "FUSE_FAILED") /\ task' = NoTask
      /\ copies' = [copies EXCEPT ![task.cand] = WithState(l, task.cand, "FUSE_FAILED")]
      /\ replaced' = NoLedger /\ overtaken' = overtaken \ Listed(replaced)
  BY DEF AppendRaises
<1>3. "FUSE_FAILED" \in Statuses
  BY DEF Statuses
<1>4. copies'[task.cand] = WithState(l, task.cand, "FUSE_FAILED")
  BY <1>1, <1>2 DEF LedgerTypeOK
<1> QED
  BY <1>1, <1>2, <1>3, <1>4, WithStateLedger DEF LedgerTypeOK

\* The ledger an append that fails leaves, without the file of its event.
WithoutItsFile == [ledger EXCEPT !.files = @ \ FileOf(ledger, task.cand,
              IF task.step = "commit" THEN EventPlace(ledger, task.cand) + 1
              ELSE EventPlace(ledger, task.cand), task.event)]

LEMMA UnlinkLedger ==
    ASSUME LedgerTypeOK
    PROVE  /\ WithoutItsFile \in Ledger /\ WithoutItsFile.rows = ledger.rows
           /\ WithoutItsFile.folders = ledger.folders /\ WithoutItsFile.states = ledger.states
           /\ WithoutItsFile.files = ledger.files \ FileOf(ledger, task.cand,
              IF task.step = "commit" THEN EventPlace(ledger, task.cand) + 1
              ELSE EventPlace(ledger, task.cand), task.event)
<1> DEFINE rest == ledger.files \ FileOf(ledger, task.cand,
              IF task.step = "commit" THEN EventPlace(ledger, task.cand) + 1
              ELSE EventPlace(ledger, task.cand), task.event)
<1>1. rest \subseteq EventFile
  BY LedgerFields DEF LedgerTypeOK
<1>2. WithoutItsFile = [ledger EXCEPT !.files = rest]
  BY DEF WithoutItsFile
<1> HIDE DEF rest
<1>3. /\ [ledger EXCEPT !.files = rest] \in Ledger
      /\ [ledger EXCEPT !.files = rest].rows = ledger.rows
      /\ [ledger EXCEPT !.files = rest].folders = ledger.folders
      /\ [ledger EXCEPT !.files = rest].states = ledger.states
      /\ [ledger EXCEPT !.files = rest].files = rest
  BY <1>1, FilesReplaced DEF LedgerTypeOK
<1> QED
  BY <1>2, <1>3 DEF rest

LEMMA StandingAre ==
    /\ ledger \in Standing
    /\ replaced # NoLedger => replaced \in Standing
    /\ \A c \in Candidates : copies[c] # NoLedger => copies[c] \in Standing
    /\ \A l \in Standing : l = ledger \/ l \in OtherLedgers
  BY DEF Standing, OtherLedgers

LEMMA StandingTyped ==
    ASSUME LedgerInvariant
    PROVE  \A l \in Standing : /\ l \in Ledger /\ SoundLedger(l, named, unlinked)
                               /\ RowsVerify(l) /\ Numbered(l, named)
  BY NoLedgerIsNoLedger DEF LedgerInvariant, LedgerTypeOK, Standing, OtherLedgers,
     LedgersAreSound, SoundLedger

\* An append that fails removes a file that has no event, or the one it says.
LEMMA UnlinkIsLike ==
    ASSUME LedgerInvariant, AppendFails
    PROVE  Like(ledger, WithoutItsFile, unlinked')
<1>1. Lists(ledger, task.cand)
  BY DEF AppendFails, LedgerInvariant, TaskIsListed
<1>2. PICK n \in DOMAIN ledger.rows : ledger.rows[n].cand = task.cand
  BY <1>1 DEF Lists
<1>3. LedgerTypeOK /\ NamedOnce /\ Numbered(ledger, named)
  BY StandingTyped, StandingAre DEF LedgerInvariant
<1>4. /\ EventPlace(ledger, task.cand) = Len(ledger.rows[n].events)
      /\ \A k, type : FileOf(ledger, task.cand, k, type)
                        = {[delta |-> n, place |-> k, type |-> type]}
  <2>1. /\ EventPlace(ledger, ledger.rows[n].cand) = Len(ledger.rows[n].events)
        /\ \A k, type : FileOf(ledger, ledger.rows[n].cand, k, type)
                          = {[delta |-> n, place |-> k, type |-> type]}
    BY <1>3, RowOfCandidate
  <2> QED
    BY <1>2, <2>1
<1>5. ledger.rows[n].events \in Seq(EventTypes)
  BY <1>2, <1>3, LedgerFields DEF LedgerTypeOK
<1> DEFINE place == IF task.step = "commit" THEN EventPlace(ledger, task.cand) + 1
                    ELSE EventPlace(ledger, task.cand)
<1>6. WithoutItsFile.files = ledger.files \ {[delta |-> n, place |-> place, type |-> task.event]}
  BY <1>3, <1>4, UnlinkLedger
<1>7. SameFiles(ledger, WithoutItsFile, unlinked')
  <2> SUFFICES ASSUME NEW m \in DOMAIN ledger.rows, NEW k \in DOMAIN ledger.rows[m].events,
                      [delta |-> m, place |-> k, type |-> ledger.rows[m].events[k]]
                          \in ledger.files,
                      [delta |-> m, place |-> k, type |-> ledger.rows[m].events[k]]
                          \notin WithoutItsFile.files
               PROVE  [cand |-> ledger.rows[m].cand, place |-> k] \in unlinked'
    BY DEF SameFiles
  <2>1. [delta |-> m, place |-> k, type |-> ledger.rows[m].events[k]]
            = [delta |-> n, place |-> place, type |-> task.event]
    BY <1>6
  <2>2. m = n /\ k = place
    BY <2>1
  <2>3. k \in 1..Len(ledger.rows[n].events)
    BY <1>5, <2>2
  <2>4. task.step # "commit" /\ place = EventPlace(ledger, task.cand)
    BY <1>4, <2>2, <2>3
  <2>5. unlinked' = unlinked \cup {[cand |-> task.cand, place |-> place]}
    BY <2>4 DEF AppendFails
  <2> QED
    BY <1>2, <2>2, <2>5
<1>8. WithoutItsFile.rows = ledger.rows /\ WithoutItsFile.folders = ledger.folders
  BY <1>3, UnlinkLedger
<1> QED
  BY <1>7, <1>8 DEF Like, SameManifests

\* A directory whose number no row has is of no row.
LEMMA NextNumberIsFree ==
    ASSUME NEW l \in Ledger
    PROVE  NextNumber(l) \in Nat /\ NextNumber(l) \notin DOMAIN l.rows
  BY LedgerFields DEF NextNumber

LEMMA WithoutNextIsLike ==
    ASSUME NEW l \in Ledger, NEW r
    PROVE  Like(l, WithoutFolder(l, NextNumber(l)), r)
  BY NextNumberIsFree, WithoutFolderLedger DEF Like, SameManifests, SameFiles

\* Of the steps all but one give no number, and no removal is forgotten.
LEMMA GivenStay ==
    ASSUME [LedgerNext]_ledgerVars, ~InsertRow, ~CommitEvent
    PROVE  named' = named /\ unlinked \subseteq unlinked'
<1>1. CASE \E c \in Candidates :
             StartRefresh(c) \/ Promote(c) \/ DropDelta(c) \/ \E d \in Decided : Decide(c, d)
  BY <1>1 DEF StartRefresh, Promote, DropDelta, Decide
<1>2. CASE \/ EndBuild \/ Reserve \/ WriteManifest \/ ProjectRow \/ RecordFails
           \/ SyncCandidate \/ WriteEventFile \/ PublishEvent \/ UNCHANGED ledgerVars
  BY <1>2 DEF EndBuild, Reserve, WriteManifest, ProjectRow, RecordFails, SyncCandidate,
              WriteEventFile, PublishEvent, ledgerVars
<1>3. CASE \/ AppendFails \/ SyncDecision \/ PersistDecided \/ CommitFuse \/ EndDrop
           \/ LedgerCrash
  BY <1>3 DEF AppendFails, SyncDecision, PersistDecided, CommitFuse, EndDrop, LedgerCrash
<1> QED
  BY <1>1, <1>2, <1>3 DEF LedgerNext

\* Of the steps that give no number and commit no event: every ledger that stands after
\* the step stands where one stood before.
LEMMA LedgersStay ==
    ASSUME LedgerInvariant, [LedgerNext]_ledgerVars, ~InsertRow, ~CommitEvent
    PROVE  \A m \in Standing' : \E l \in Standing : Like(l, m, unlinked')
<1>t. /\ LedgerTypeOK /\ TaskIsSound /\ ledger \in Ledger
      /\ copies \in [Candidates -> Ledger \cup {NoLedger}]
  BY DEF LedgerInvariant, LedgerTypeOK
<1>u. /\ ledger \in Standing /\ \A l \in Standing : Like(l, l, unlinked')
  BY StandingAre, SameIsLike
<1>1. CASE UNCHANGED <<ledger, copies, named, unlinked>> /\ replaced' \in {replaced, NoLedger}
  BY <1>1, <1>u DEF Standing, OtherLedgers
<1>v. ASSUME NEW l \in Ledger, NEW c \in Candidates, NEW status \in Statuses
      PROVE  Like(l, WithState(l, c, status), unlinked')
  BY WithStateLedger, SameIsLike
<1>w. ASSUME NEW l \in Ledger, Like(ledger, l, unlinked'), task.step \in Recording,
             RefreshFails(l), UNCHANGED replaced
      PROVE  \A m \in Standing' : \E k \in Standing : Like(k, m, unlinked')
  BY <1>t, <1>w, RefreshFailsLedgers, NoLedgerIsNoLedger, StandingAre, SameIsLike, <1>u DEF
     Like, SameManifests, SameFiles, Standing, OtherLedgers
<1>x. ASSUME NEW l \in Ledger, Like(ledger, l, unlinked'), task.step \in Appending,
             AppendRaises(l)
      PROVE  \A m \in Standing' : \E k \in Standing : Like(k, m, unlinked')
  <2>1. CASE task.event = "FUSED"
    BY <1>t, <1>x, <2>1, FuseRaisesLedgers, SameIsLike, NoLedgerIsNoLedger, StandingAre,
       <1>u DEF Like, SameManifests, SameFiles, Standing, OtherLedgers
  <2>2. CASE task.event # "FUSED"
    BY <1>x, <2>2, <1>u DEF AppendRaises, Standing, OtherLedgers
  <2> QED
    BY <2>1, <2>2
<1>y. Like(ledger, ledger, unlinked')
  BY <1>u
<1>2. ASSUME NEW c \in Candidates, StartRefresh(c)
      PROVE  \A m \in Standing' : \E l \in Standing : Like(l, m, unlinked')
  <2>1. Like(ledger, ledger', unlinked')
    BY <1>2, <1>t, <1>v, LedgerStatuses DEF StartRefresh
  <2>2. Like(ledger, Synced(ledger, EmptyLedger), unlinked')
    BY <1>t, StandingTyped, StandingAre, SyncedIsLike, EmptyLedgerIsLedger
  <2>3. /\ copies' = [copies EXCEPT ![c] = Synced(ledger, EmptyLedger)]
        /\ replaced' = replaced
    BY <1>2 DEF StartRefresh
  <2>4. \A m \in Standing' : m \in Standing \/ m = ledger' \/ m = Synced(ledger, EmptyLedger)
    BY <1>t, <2>3 DEF Standing, OtherLedgers
  <2> QED
    BY <1>u, <2>1, <2>2, <2>4
<1>3. CASE EndBuild
  <2>1. task.step \in Recording /\ task.cand \in Candidates /\ replaced' = replaced
    BY <1>3, <1>t DEF EndBuild, At, Recording, TaskIsSound, NoTask
  <2>2. CASE RefreshFails(ledger)
    BY <1>t, <1>w, <1>y, <2>1, <2>2
  <2>3. CASE /\ ledger' = WithState(ledger, task.cand, "NO_CHANGE")
             /\ copies' = [copies EXCEPT ![task.cand] = NoLedger]
             /\ task' = NoTask
    <3>1. Like(ledger, ledger', unlinked')
      BY <1>t, <1>v, <2>1, <2>3, LedgerStatuses
    <3>2. \A m \in Standing' : m \in Standing \/ m = ledger'
      BY <1>t, <2>1, <2>3 DEF Standing, OtherLedgers
    <3> QED
      BY <1>u, <3>1, <3>2
  <2>4. CASE /\ ledger' = WithState(ledger, task.cand, "AWAITING_FUSE")
             /\ Goto("reserve")
             /\ UNCHANGED copies
    BY <1>t, <1>v, <2>1, <2>4, LedgerStatuses, <1>u DEF Standing, OtherLedgers
  <2> QED
    BY <1>3, <2>2, <2>3, <2>4 DEF EndBuild
<1>4. CASE Reserve
  <2>1. task.step \in Recording /\ replaced' = replaced
    BY <1>4 DEF Reserve, At, Recording
  <2> DEFINE n == NextNumber(ledger)
             more == ledger.folders \cup {[delta |-> n, of |-> NoCandidate]}
  <2>2. n \in Nat /\ n \notin DOMAIN ledger.rows
    BY <1>t, NextNumberIsFree
  <2>3. CASE RefreshFails(WithoutFolder(ledger, n))
    BY <1>t, WithoutFolderLedger, WithoutNextIsLike, <1>w, <2>1, <2>3
  <2>4. CASE /\ ledger' = [ledger EXCEPT !.folders = more]
             /\ UNCHANGED copies
    <3>1. more \subseteq Folder
      BY <1>t, <2>2, LedgerFields DEF Folder
    <3>2. ledger'.rows = ledger.rows /\ ledger'.folders = more /\ ledger'.files = ledger.files
      BY <1>t, <2>4, <3>1, FoldersReplaced
    <3>3. Like(ledger, ledger', unlinked')
      BY <2>2, <3>2 DEF Like, SameManifests, SameFiles
    <3>4. \A m \in Standing' : m \in Standing \/ m = ledger'
      BY <2>1, <2>4 DEF Standing, OtherLedgers
    <3> QED
      BY <1>u, <3>3, <3>4
  <2> QED
    BY <1>4, <2>3, <2>4 DEF Reserve
<1>5. CASE WriteManifest
  <2> DEFINE n == NextNumber(ledger)
             l == WithoutFolder(ledger, n)
             more == l.folders \cup {[delta |-> n, of |-> task.cand]}
  <2>1. n \in Nat /\ n \notin DOMAIN ledger.rows
    BY <1>t, NextNumberIsFree
  <2>2. task.cand \in Candidates
    BY <1>5, <1>t DEF WriteManifest, At, TaskIsSound, NoTask
  <2>3. /\ l \in Ledger /\ l.rows = ledger.rows /\ l.files = ledger.files
        /\ l.folders = {f \in ledger.folders : f.delta # n}
    BY <1>t, WithoutFolderLedger
  <2>4. ledger' = [l EXCEPT !.folders = more] /\ UNCHANGED <<copies, replaced>>
    BY <1>5 DEF WriteManifest
  <2> HIDE DEF n, l
  <2>5. more \subseteq Folder
    BY <2>1, <2>2, <2>3, LedgerFields DEF Folder
  <2>6. ledger'.rows = l.rows /\ ledger'.folders = more /\ ledger'.files = l.files
    BY <2>3, <2>4, <2>5, FoldersReplaced
  <2>7. Like(ledger, ledger', unlinked')
    BY <2>1, <2>3, <2>6 DEF Like, SameManifests, SameFiles
  <2>8. \A m \in Standing' : m \in Standing \/ m = ledger'
    BY <2>4 DEF Standing, OtherLedgers
  <2> QED
    BY <1>u, <2>7, <2>8
<1>8. CASE RecordFails
  <2> DEFINE l == IF task.step \in {"manifest", "insert"}
                  THEN WithoutFolder(ledger, NextNumber(ledger)) ELSE ledger
  <2>1. task.step \in Recording /\ RefreshFails(l) /\ replaced' = replaced
    BY <1>8 DEF RecordFails, Recording
  <2>2. l \in Ledger /\ Like(ledger, l, unlinked')
    BY <1>t, <1>y, WithoutFolderLedger, WithoutNextIsLike
  <2> HIDE DEF l
  <2> QED
    BY <1>w, <2>1, <2>2
<1>9. CASE SyncCandidate
  <2>1. task.cand \in Candidates /\ copies[task.cand] \in Ledger
    BY <1>9, <1>t DEF SyncCandidate, At, Recording, TaskIsSound, NoTask
  <2> DEFINE m == Synced(ledger, copies[task.cand])
             k == WithState(m, task.cand, "AWAITING_FUSE")
  <2>2. m \in Ledger /\ Like(ledger, m, unlinked')
    BY <1>t, <2>1, StandingTyped, StandingAre, SyncedIsLike, SyncedLedger
  <2>3. k.rows = m.rows /\ k.folders = m.folders /\ k.files = m.files
    BY <2>1, <2>2, WithStateLedger, LedgerStatuses
  <2>4. Like(ledger, k, unlinked')
    BY <2>2, <2>3 DEF Like, SameManifests, SameFiles
  <2>5. copies' = [copies EXCEPT ![task.cand] = k] /\ UNCHANGED <<ledger, replaced>>
    BY <1>9 DEF SyncCandidate
  <2> HIDE DEF k
  <2>6. \A x \in Standing' : x \in Standing \/ x = k
    BY <1>t, <2>5 DEF Standing, OtherLedgers
  <2> QED
    BY <1>u, <2>4, <2>6
<1>10. CASE WriteEventFile
  <2>1. task.step \in Appending
    BY <1>10 DEF WriteEventFile, At, Appending
  <2>2. CASE AppendRaises(ledger)
    BY <1>t, <1>x, <1>y, <2>1, <2>2
  <2> DEFINE more == ledger.files \cup
                        FileOf(ledger, task.cand, EventPlace(ledger, task.cand) + 1, task.event)
  <2>3. CASE /\ Lists(ledger, task.cand)
             /\ ledger' = [ledger EXCEPT !.files = more]
             /\ UNCHANGED <<copies, replaced, overtaken>>
    <3>1. ledger'.rows = ledger.rows /\ ledger'.folders = ledger.folders /\ ledger'.files = more
      BY <1>t, <2>3 DEF Ledger
    <3>2. Like(ledger, ledger', unlinked')
      BY <3>1, SameIsLike
    <3>3. \A m \in Standing' : m \in Standing \/ m = ledger'
      BY <2>3 DEF Standing, OtherLedgers
    <3> QED
      BY <1>u, <3>2, <3>3
  <2> QED
    BY <1>10, <2>2, <2>3 DEF WriteEventFile
<1>13. CASE AppendFails
  BY <1>13, <1>t, UnlinkLedger, UnlinkIsLike, <1>x DEF AppendFails, Appending,
     WithoutItsFile
<1>15. CASE SyncDecision
  <2>1. task.cand \in Candidates /\ copies[task.cand] \in Ledger
    BY <1>15, <1>t DEF SyncDecision, At, TaskIsSound, NoTask
  <2> DEFINE m == Synced(ledger, copies[task.cand])
  <2>2. Like(ledger, m, unlinked')
    BY <1>t, <2>1, StandingTyped, StandingAre, SyncedIsLike, SyncedLedger
  <2>5. copies' = [copies EXCEPT ![task.cand] = m] /\ UNCHANGED <<ledger, replaced>>
    BY <1>15 DEF SyncDecision
  <2> HIDE DEF m
  <2>6. \A x \in Standing' : x \in Standing \/ x = m
    BY <1>t, <2>5 DEF Standing, OtherLedgers
  <2> QED
    BY <1>u, <2>2, <2>6
<1>16. CASE PersistDecided
  <2>1. task.cand \in Candidates /\ copies[task.cand] \in Ledger /\ copies[task.cand] \in Standing
    BY <1>16, <1>t, StandingAre, NoLedgerIsNoLedger
       DEF PersistDecided, At, TaskIsSound, NoTask
  <2> DEFINE told == StatusOf(task.event)
  <2>2. told \in Statuses
    BY LedgerStatuses
  <2>3. /\ ledger' = WithState(ledger, task.cand, told) /\ replaced' = replaced
        /\ copies' = [copies EXCEPT ![task.cand] = WithState(@, task.cand, told)]
    BY <1>16 DEF PersistDecided
  <2> HIDE DEF told
  <2>4. /\ Like(ledger, ledger', unlinked')
        /\ Like(copies[task.cand], WithState(copies[task.cand], task.cand, told), unlinked')
    BY <1>t, <1>v, <2>1, <2>2, <2>3
  <2>5. \A m \in Standing' : \/ m \in Standing \/ m = ledger'
                             \/ m = WithState(copies[task.cand], task.cand, told)
    BY <1>t, <2>3 DEF Standing, OtherLedgers
  <2> QED
    BY <1>u, <2>1, <2>4, <2>5
<1>17. ASSUME NEW c \in Candidates, Promote(c)
       PROVE  \A m \in Standing' : \E l \in Standing : Like(l, m, unlinked')
  BY <1>17, <1>t, StandingAre, <1>v, LedgerStatuses, <1>u DEF Promote, Standing,
     OtherLedgers
<1>18. CASE CommitFuse
  <2>1. task.cand \in Candidates
    BY <1>18, <1>t DEF CommitFuse, At, TaskIsSound, NoTask
  <2>2. /\ ledger' = WithState(ledger, task.cand, "FUSED") /\ replaced' = NoLedger
        /\ copies' = copies
    BY <1>18 DEF CommitFuse
  <2>3. Like(ledger, ledger', unlinked')
    BY <1>t, <1>v, <2>1, <2>2, LedgerStatuses
  <2>4. \A m \in Standing' : m \in Standing \/ m = ledger'
    BY <2>2 DEF Standing, OtherLedgers
  <2> QED
    BY <1>u, <2>3, <2>4
<1>19. ASSUME NEW c \in Candidates, DropDelta(c)
       PROVE  \A m \in Standing' : \E l \in Standing : Like(l, m, unlinked')
  <2>1. /\ ledger' = WithState(ledger, c, "DROPPED") /\ replaced' = replaced
        /\ copies' = copies \/ copies' = [copies EXCEPT ![c] = NoLedger]
    BY <1>19 DEF DropDelta
  <2>2. Like(ledger, ledger', unlinked')
    BY <1>t, <1>v, <2>1, LedgerStatuses
  <2>3. \A m \in Standing' : m \in Standing \/ m = ledger'
    BY <1>t, <2>1 DEF Standing, OtherLedgers
  <2> QED
    BY <1>u, <2>2, <2>3
<1>20. CASE \/ UNCHANGED ledgerVars \/ ProjectRow \/ PublishEvent \/ EndDrop \/ LedgerCrash
            \/ \E c \in Candidates : \E d \in Decided : Decide(c, d)
  BY <1>1, <1>20 DEF ledgerVars, ProjectRow, PublishEvent, EndDrop, LedgerCrash, Decide
<1> QED
  BY <1>2, <1>3, <1>4, <1>5, <1>8, <1>9, <1>10, <1>13, <1>15, <1>16, <1>17, <1>18,
     <1>19, <1>20 DEF LedgerNext

-----------------------------------------------------------------------------
(* The command of a step.                                                  *)

LEMMA GotoStep ==
    ASSUME LedgerTypeOK, NEW s, Goto(s)
    PROVE  task'.step = s /\ task'.cand = task.cand /\ task'.event = task.event
  BY DEF LedgerTypeOK, Goto

\* Where a command is before and after each of its steps.
LEMMA TaskTable ==
    ASSUME LedgerTypeOK
    PROVE  /\ \A c : StartRefresh(c) => /\ task = NoTask
                                        /\ task' = [step |-> "build", cand |-> c, event |-> "NONE"]
           /\ EndBuild => task.step = "build" /\ (task' = NoTask \/ Goto("reserve"))
           /\ Reserve => task.step = "reserve" /\ (task' = NoTask \/ Goto("manifest"))
           /\ WriteManifest => task.step = "manifest" /\ Goto("insert")
           /\ InsertRow => task.step = "insert" /\ Goto("project")
           /\ ProjectRow => task.step = "project" /\ Goto("sync")
           /\ RecordFails => task.step \in {"manifest", "insert", "project", "sync"}
                             /\ task' = NoTask
           /\ SyncCandidate => task.step = "sync" /\ task' = NoTask
           /\ WriteEventFile => task.step = "event" /\ (task' = NoTask \/ Goto("commit"))
           /\ CommitEvent => task.step = "commit" /\ Goto("publish")
           /\ PublishEvent => task.step = "publish" /\ Goto("after")
           /\ AppendFails => task.step \in {"commit", "publish"} /\ task' = NoTask
           /\ SyncDecision => task.step = "after" /\ task.event \in Decided /\ Goto("persist")
           /\ PersistDecided => task.step = "persist" /\ task' = NoTask
           /\ CommitFuse => task.step = "after" /\ task.event = "FUSED" /\ task' = NoTask
           /\ EndDrop => task.step = "after" /\ task.event = "DROPPED" /\ task' = NoTask
           /\ LedgerCrash => task # NoTask /\ task' = NoTask
<1>1. /\ \A c : StartRefresh(c) => /\ task = NoTask
                                   /\ task' = [step |-> "build", cand |-> c, event |-> "NONE"]
      /\ EndBuild => task.step = "build" /\ (task' = NoTask \/ Goto("reserve"))
      /\ Reserve => task.step = "reserve" /\ (task' = NoTask \/ Goto("manifest"))
  BY DEF StartRefresh, EndBuild, Reserve, RefreshFails, At
<1>2. /\ WriteManifest => task.step = "manifest" /\ Goto("insert")
      /\ InsertRow => task.step = "insert" /\ Goto("project")
      /\ ProjectRow => task.step = "project" /\ Goto("sync")
      /\ RecordFails => task.step \in {"manifest", "insert", "project", "sync"}
                        /\ task' = NoTask
  BY DEF WriteManifest, InsertRow, ProjectRow, RecordFails, RefreshFails, At
<1>3. /\ SyncCandidate => task.step = "sync" /\ task' = NoTask
      /\ WriteEventFile => task.step = "event" /\ (task' = NoTask \/ Goto("commit"))
      /\ CommitEvent => task.step = "commit" /\ Goto("publish")
      /\ PublishEvent => task.step = "publish" /\ Goto("after")
      /\ AppendFails => task.step \in {"commit", "publish"} /\ task' = NoTask
  BY DEF SyncCandidate, WriteEventFile, CommitEvent, PublishEvent, AppendFails,
         AppendRaises, At
<1>4. /\ SyncDecision => task.step = "after" /\ task.event \in Decided /\ Goto("persist")
      /\ PersistDecided => task.step = "persist" /\ task' = NoTask
      /\ CommitFuse => task.step = "after" /\ task.event = "FUSED" /\ task' = NoTask
      /\ EndDrop => task.step = "after" /\ task.event = "DROPPED" /\ task' = NoTask
      /\ LedgerCrash => task # NoTask /\ task' = NoTask
  BY DEF SyncDecision, PersistDecided, CommitFuse, EndDrop, LedgerCrash, At
<1> QED
  BY <1>1, <1>2, <1>3, <1>4

-----------------------------------------------------------------------------
(* The numbers, the manifests and the files.                               *)

\* What the commit of a row and the one of an event write.
LEMMA InsertedRow ==
    ASSUME LedgerTypeOK, InsertRow
    PROVE  /\ ledger'.folders = ledger.folders /\ ledger'.files = ledger.files
           /\ ledger'.states = ledger.states
           /\ Len(ledger'.rows) = Len(ledger.rows) + 1
           /\ NextNumber(ledger) = Len(ledger.rows) + 1 /\ Len(ledger.rows) \in Nat
           /\ DOMAIN ledger.rows = 1..Len(ledger.rows)
           /\ DOMAIN ledger'.rows = 1..(Len(ledger.rows) + 1)
           /\ \A n \in DOMAIN ledger.rows : ledger'.rows[n] = ledger.rows[n]
           /\ ledger'.rows[Len(ledger.rows) + 1] = [cand |-> task.cand, events |-> <<>>]
<1> DEFINE row == [cand |-> task.cand, events |-> <<>>]
<1>1. ledger.rows \in Seq(Row)
  BY LedgerFields DEF LedgerTypeOK
<1>2. ledger' = [ledger EXCEPT !.rows = Append(ledger.rows, row)]
  BY DEF InsertRow
<1>3. /\ ledger'.rows = Append(ledger.rows, row) /\ ledger'.folders = ledger.folders
      /\ ledger'.files = ledger.files /\ ledger'.states = ledger.states
  BY <1>2 DEF LedgerTypeOK, Ledger
<1>4. /\ Len(Append(ledger.rows, row)) = Len(ledger.rows) + 1
      /\ DOMAIN Append(ledger.rows, row) = 1..(Len(ledger.rows) + 1)
      /\ \A n \in DOMAIN ledger.rows : Append(ledger.rows, row)[n] = ledger.rows[n]
      /\ Append(ledger.rows, row)[Len(ledger.rows) + 1] = row
  BY <1>1
<1> QED
  BY <1>1, <1>3, <1>4 DEF NextNumber

LEMMA CommittedEvent ==
    ASSUME LedgerTypeOK, TaskIsSound, CommitEvent
    PROVE  /\ ledger'.folders = ledger.folders /\ ledger'.files = ledger.files
           /\ ledger'.states = ledger.states
           /\ DOMAIN ledger'.rows = DOMAIN ledger.rows
           /\ \A n \in DOMAIN ledger.rows :
                 /\ ledger'.rows[n].cand = ledger.rows[n].cand
                 /\ ledger.rows[n].events \in Seq(EventTypes)
                 /\ ledger.rows[n].cand # task.cand =>
                        ledger'.rows[n].events = ledger.rows[n].events
                 /\ ledger.rows[n].cand = task.cand =>
                        ledger'.rows[n].events = Append(ledger.rows[n].events, task.event)
<1>1. ledger.rows \in Seq(Row)
  BY LedgerFields DEF LedgerTypeOK
<1>2. task.cand \in Candidates /\ task.event \in EventTypes
  BY DEF CommitEvent, At, TaskIsSound, NoTask, Appending
<1>3. ledger' = [ledger EXCEPT !.rows = WithEvent(ledger.rows, task.cand, task.event)]
  BY DEF CommitEvent
<1>4. /\ ledger'.rows = WithEvent(ledger.rows, task.cand, task.event)
      /\ ledger'.folders = ledger.folders
      /\ ledger'.files = ledger.files /\ ledger'.states = ledger.states
  BY <1>3 DEF LedgerTypeOK, Ledger
<1> DEFINE after == WithEvent(ledger.rows, task.cand, task.event)
<1>5. /\ DOMAIN after = DOMAIN ledger.rows
      /\ \A n \in DOMAIN ledger.rows :
            /\ after[n].cand = ledger.rows[n].cand
            /\ after[n].events = IF ledger.rows[n].cand = task.cand
                                 THEN Append(ledger.rows[n].events, task.event)
                                 ELSE ledger.rows[n].events
  BY <1>1, <1>2, WithEventRows
<1>6. \A n \in DOMAIN ledger.rows : ledger.rows[n].events \in Seq(EventTypes)
  BY LedgerFields DEF LedgerTypeOK
<1> HIDE DEF after
<1>7. ledger'.rows = after
  BY <1>4 DEF after
<1> QED
  BY <1>4, <1>5, <1>6, <1>7

\* Appending an event leaves the ones before it.
LEMMA AppendedType ==
    ASSUME NEW s \in Seq(EventTypes), NEW type
    PROVE  /\ DOMAIN s = 1..Len(s) /\ Len(s) \in Nat
           /\ DOMAIN Append(s, type) = 1..(Len(s) + 1)
           /\ \A k \in DOMAIN s : Append(s, type)[k] = s[k]
           /\ Append(s, type)[Len(s) + 1] = type
  OBVIOUS

\* A committed event is one of the ledger, at the place its file says.
LEMMA CommittedFile ==
    ASSUME LedgerInvariant, CommitEvent
    PROVE  \E n \in DOMAIN ledger.rows :
              /\ ledger.rows[n].cand = task.cand
              /\ EventPlace(ledger, task.cand) = Len(ledger.rows[n].events)
              /\ \A k, type : FileOf(ledger, task.cand, k, type)
                                = {[delta |-> n, place |-> k, type |-> type]}
              /\ [delta |-> n, place |-> Len(ledger.rows[n].events) + 1, type |-> task.event]
                    \in ledger.files
<1>1. At("commit") /\ Lists(ledger, task.cand)
  BY DEF CommitEvent, LedgerInvariant, TaskIsListed, At
<1>2. PICK n \in DOMAIN ledger.rows : ledger.rows[n].cand = task.cand
  BY <1>1 DEF Lists
<1>3. NamedOnce /\ Numbered(ledger, named) /\ FileIsWritten
  BY StandingTyped, StandingAre DEF LedgerInvariant
<1>4. /\ EventPlace(ledger, task.cand) = Len(ledger.rows[n].events)
      /\ \A k, type : FileOf(ledger, task.cand, k, type)
                        = {[delta |-> n, place |-> k, type |-> type]}
  BY <1>3, RowOfCandidate, <1>2
<1>5. FileOf(ledger, task.cand, EventPlace(ledger, task.cand) + 1, task.event)
          \subseteq ledger.files
  BY <1>1, <1>3 DEF FileIsWritten
<1>6. [delta |-> n, place |-> Len(ledger.rows[n].events) + 1, type |-> task.event]
          \in ledger.files
  BY <1>4, <1>5
<1> QED
  BY <1>2, <1>4, <1>6

LEMMA LedgersStepSound == LedgerInvariant /\ [LedgerNext]_ledgerVars => LedgersAreSound'
<1> SUFFICES ASSUME LedgerInvariant, [LedgerNext]_ledgerVars, NEW m \in Standing'
             PROVE  SoundLedger(m, named', unlinked')
  BY DEF LedgersAreSound
<1>t. LedgerTypeOK /\ TaskIsSound /\ SoundLedger(ledger, named, unlinked) /\ ledger \in Ledger
  BY StandingTyped, StandingAre DEF LedgerInvariant
<1>1. CASE ~InsertRow /\ ~CommitEvent
  BY <1>1, LedgersStay, StandingTyped, GivenStay, LikeIsSound
<1>2. CASE InsertRow
  <2>1. /\ UNCHANGED <<copies, replaced, unlinked>>
        /\ named' = named \cup {[delta |-> NextNumber(ledger), cand |-> task.cand]}
        /\ At("insert")
    BY <1>2 DEF InsertRow
  <2>2. m \in Standing \/ m = ledger'
    BY <2>1 DEF Standing, OtherLedgers
  <2>3. CASE m \in Standing
    BY <2>3, StandingTyped, SameIsLike, <2>1, LikeIsSound
  <2>4. CASE m = ledger'
    <3> DEFINE last == Len(ledger.rows) + 1
    <3>1. /\ ledger'.folders = ledger.folders /\ ledger'.files = ledger.files
          /\ DOMAIN ledger.rows = 1..Len(ledger.rows) /\ Len(ledger.rows) \in Nat
          /\ DOMAIN ledger'.rows = 1..last
          /\ \A n \in DOMAIN ledger.rows : ledger'.rows[n] = ledger.rows[n]
          /\ ledger'.rows[last] = [cand |-> task.cand, events |-> <<>>]
          /\ NextNumber(ledger) = last
      BY <1>2, <1>t, InsertedRow
    <3>2. \A n \in DOMAIN ledger'.rows : n \in DOMAIN ledger.rows \/ n = last
      BY <3>1
    <3>3. {f.of : f \in {g \in ledger.folders : g.delta = last}} = {task.cand}
      BY <2>1, <3>1 DEF LedgerInvariant, ManifestIsWritten
    <3> HIDE DEF last
    <3>4. RowsVerify(ledger')
      <4> SUFFICES ASSUME NEW n \in DOMAIN ledger'.rows
                   PROVE  {f.of : f \in {g \in ledger'.folders : g.delta = n}}
                              = {ledger'.rows[n].cand}
        BY DEF RowsVerify
      <4>1. CASE n \in DOMAIN ledger.rows
        BY <1>t, <3>1, <4>1 DEF SoundLedger, RowsVerify
      <4>2. CASE n = last
        <5>1. ledger'.rows[n].cand = task.cand /\ ledger'.folders = ledger.folders
          BY <3>1, <4>2
        <5> QED
          BY <3>3, <4>2, <5>1
      <4> QED
        BY <3>2, <4>1, <4>2
    <3>5. HaveFiles(ledger', unlinked')
      BY <1>t, <2>1, <3>1, <3>2 DEF HaveFiles, SoundLedger
    <3>6. Numbered(ledger', named')
      BY <1>t, <2>1, <3>1, <3>2 DEF Numbered, SoundLedger
    <3> QED
      BY <2>4, <3>4, <3>5, <3>6 DEF SoundLedger
  <2> QED
    BY <2>2, <2>3, <2>4
<1>3. CASE CommitEvent
  <2>1. UNCHANGED <<copies, replaced, unlinked, named>>
    BY <1>3 DEF CommitEvent
  <2>2. m \in Standing \/ m = ledger'
    BY <2>1 DEF Standing, OtherLedgers
  <2>3. CASE m \in Standing
    BY <2>1, <2>3, StandingTyped
  <2>4. CASE m = ledger'
    <3>1. /\ ledger'.folders = ledger.folders /\ ledger'.files = ledger.files
          /\ DOMAIN ledger'.rows = DOMAIN ledger.rows
          /\ \A n \in DOMAIN ledger.rows :
                 /\ ledger'.rows[n].cand = ledger.rows[n].cand
                 /\ ledger.rows[n].events \in Seq(EventTypes)
                 /\ ledger.rows[n].cand # task.cand =>
                        ledger'.rows[n].events = ledger.rows[n].events
                 /\ ledger.rows[n].cand = task.cand =>
                        ledger'.rows[n].events = Append(ledger.rows[n].events, task.event)
      BY <1>3, <1>t, CommittedEvent
    <3>2. PICK h \in DOMAIN ledger.rows :
              /\ ledger.rows[h].cand = task.cand
              /\ [delta |-> h, place |-> Len(ledger.rows[h].events) + 1, type |-> task.event]
                    \in ledger.files
      BY <1>3, CommittedFile
    <3>3. RowsVerify(ledger')
      BY <1>t, <3>1 DEF SoundLedger, RowsVerify
    <3>4. HaveFiles(ledger', unlinked')
      <4> SUFFICES ASSUME NEW n \in DOMAIN ledger.rows, NEW k \in DOMAIN ledger'.rows[n].events
                   PROVE  \/ [delta |-> n, place |-> k, type |-> ledger'.rows[n].events[k]]
                                \in ledger'.files
                          \/ [cand |-> ledger'.rows[n].cand, place |-> k] \in unlinked'
        BY <3>1 DEF HaveFiles
      <4>1. CASE ledger.rows[n].cand # task.cand
        BY <1>t, <2>1, <3>1, <4>1 DEF SoundLedger, HaveFiles
      <4>2. CASE ledger.rows[n].cand = task.cand
        <5>1. n = h
          BY <1>t, <3>2, <4>2, RowsAreUnique DEF LedgerInvariant, SoundLedger
        <5>2. /\ ledger'.rows[n].events = Append(ledger.rows[n].events, task.event)
              /\ ledger.rows[n].events \in Seq(EventTypes)
          BY <3>1, <4>2
        <5>3. k \in DOMAIN ledger.rows[n].events \/ k = Len(ledger.rows[n].events) + 1
          BY <5>2, AppendedType
        <5>4. CASE k \in DOMAIN ledger.rows[n].events
          <6>1. ledger'.rows[n].events[k] = ledger.rows[n].events[k]
            BY <5>2, <5>4, AppendedType
          <6> QED
            BY <1>t, <2>1, <3>1, <5>4, <6>1 DEF SoundLedger, HaveFiles
        <5>5. CASE k = Len(ledger.rows[n].events) + 1
          <6>1. ledger'.rows[n].events[k] = task.event
            BY <5>2, <5>5, AppendedType
          <6> QED
            BY <3>1, <3>2, <5>1, <5>5, <6>1
        <5> QED
          BY <5>3, <5>4, <5>5
      <4> QED
        BY <4>1, <4>2
    <3>5. Numbered(ledger', named')
      BY <1>t, <2>1, <3>1 DEF SoundLedger, Numbered
    <3> QED
      BY <2>4, <3>3, <3>4, <3>5 DEF SoundLedger
  <2> QED
    BY <2>2, <2>3, <2>4
<1> QED
  BY <1>1, <1>2, <1>3

\* What becomes of the rows of the ledger, and of the one a fuse replaced.
LEMMA LedgerRowsStay ==
    ASSUME LedgerInvariant, [LedgerNext]_ledgerVars, ~InsertRow, ~CommitEvent,
           \A c \in Candidates : ~Promote(c)
    PROVE  \/ /\ ledger'.rows = ledger.rows /\ overtaken' = overtaken
              /\ replaced' \in {replaced, NoLedger}
           \/ /\ task.event = "FUSED" /\ replaced \in Ledger /\ ledger'.rows = replaced.rows
              /\ replaced' = NoLedger /\ overtaken' = overtaken \ Listed(replaced)
<1>t. LedgerTypeOK /\ TaskIsSound /\ ledger \in Ledger
  BY DEF LedgerInvariant, LedgerTypeOK
<1>w. ASSUME NEW l \in Ledger, l.rows = ledger.rows, task.step \in Recording, RefreshFails(l)
      PROVE  ledger'.rows = ledger.rows
  BY <1>t, <1>w, RefreshFailsLedgers
<1>x. ASSUME NEW l \in Ledger, l.rows = ledger.rows, task.step \in Appending,
             AppendRaises(l)
      PROVE  \/ /\ ledger'.rows = ledger.rows /\ overtaken' = overtaken
                /\ replaced' = replaced
             \/ /\ task.event = "FUSED" /\ replaced \in Ledger /\ ledger'.rows = replaced.rows
                /\ replaced' = NoLedger /\ overtaken' = overtaken \ Listed(replaced)
  BY <1>t, <1>x, FuseRaisesLedgers DEF AppendRaises
<1>1. ASSUME NEW c \in Candidates, StartRefresh(c) \/ DropDelta(c)
      PROVE  /\ ledger'.rows = ledger.rows /\ overtaken' = overtaken
             /\ replaced' \in {replaced, NoLedger}
  <2>1. PICK status \in {"REFRESHING", "DROPPED"} : ledger' = WithState(ledger, c, status)
    BY <1>1 DEF StartRefresh, DropDelta
  <2>2. status \in Statuses
    BY DEF Statuses
  <2>3. ledger'.rows = ledger.rows
    BY <1>t, <2>1, <2>2, WithStateLedger
  <2> QED
    BY <1>1, <2>3 DEF StartRefresh, DropDelta
<1>2. CASE EndBuild
  <2>1. /\ task.step \in Recording /\ task.cand \in Candidates
        /\ overtaken' = overtaken /\ replaced' = replaced
    BY <1>2, <1>t DEF EndBuild, At, Recording, TaskIsSound, NoTask
  <2>2. ledger'.rows = ledger.rows
    <3>1. CASE RefreshFails(ledger)
      BY <1>t, <1>w, <2>1, <3>1
    <3>2. CASE \E status \in {"NO_CHANGE", "AWAITING_FUSE"} :
                  ledger' = WithState(ledger, task.cand, status)
      <4>1. {"NO_CHANGE", "AWAITING_FUSE"} \subseteq Statuses
        BY DEF Statuses
      <4> QED
        BY <1>t, <2>1, <3>2, <4>1, WithStateLedger
    <3> QED
      BY <1>2, <3>1, <3>2 DEF EndBuild
  <2> QED
    BY <2>1, <2>2
<1>3. CASE Reserve
  BY <1>3, <1>t, <1>w, WithoutFolderLedger DEF Reserve, At, Recording, Ledger
<1>4. CASE WriteManifest
  <2> DEFINE l == WithoutFolder(ledger, NextNumber(ledger))
  <2>1. l \in Ledger /\ l.rows = ledger.rows
    BY <1>t, WithoutFolderLedger
  <2>2. /\ ledger' = [l EXCEPT !.folders =
                        @ \cup {[delta |-> NextNumber(ledger), of |-> task.cand]}]
        /\ overtaken' = overtaken /\ replaced' = replaced
    BY <1>4 DEF WriteManifest
  <2> HIDE DEF l
  <2>3. ledger'.rows = l.rows
    BY <2>1, <2>2 DEF Ledger
  <2> QED
    BY <2>1, <2>2, <2>3
<1>5. CASE RecordFails
  <2> DEFINE l == IF task.step \in {"manifest", "insert"}
                  THEN WithoutFolder(ledger, NextNumber(ledger)) ELSE ledger
  <2>1. /\ task.step \in Recording /\ RefreshFails(l) /\ replaced' = replaced
        /\ overtaken' = overtaken
    BY <1>5 DEF RecordFails, Recording
  <2>2. l \in Ledger /\ l.rows = ledger.rows
    BY <1>t, WithoutFolderLedger
  <2> HIDE DEF l
  <2> QED
    BY <1>w, <2>1, <2>2
<1>6. CASE WriteEventFile
  BY <1>6, <1>t, <1>x DEF WriteEventFile, At, Appending, Ledger
<1>7. CASE AppendFails
  BY <1>7, <1>t, UnlinkLedger, <1>x DEF AppendFails, Appending, WithoutItsFile
<1>8. CASE PersistDecided
  <2>1. task.cand \in Candidates /\ StatusOf(task.event) \in Statuses
    BY <1>8, <1>t, LedgerStatuses DEF PersistDecided, At, TaskIsSound, NoTask
  <2>2. /\ ledger' = WithState(ledger, task.cand, StatusOf(task.event))
        /\ overtaken' = overtaken /\ replaced' = replaced
    BY <1>8 DEF PersistDecided
  <2> QED
    BY <1>t, <2>1, <2>2, WithStateLedger
<1>9. CASE CommitFuse
  <2>1. task.cand \in Candidates
    BY <1>9, <1>t DEF CommitFuse, At, TaskIsSound, NoTask
  <2>2. ledger' = WithState(ledger, task.cand, "FUSED") /\ "FUSED" \in Statuses
    BY <1>9 DEF CommitFuse, Statuses
  <2>3. ledger'.rows = ledger.rows
    BY <1>t, <2>1, <2>2, WithStateLedger
  <2> QED
    BY <1>9, <2>3 DEF CommitFuse
<1>10. CASE \/ UNCHANGED ledgerVars \/ ProjectRow \/ PublishEvent \/ EndDrop \/ LedgerCrash
            \/ SyncCandidate \/ SyncDecision
            \/ \E c \in Candidates : \E d \in Decided : Decide(c, d)
  BY <1>10 DEF ledgerVars, ProjectRow, PublishEvent, EndDrop, LedgerCrash, Decide,
               SyncCandidate, SyncDecision
<1> QED
  BY <1>1, <1>2, <1>3, <1>4, <1>5, <1>6, <1>7, <1>8, <1>9, <1>10 DEF LedgerNext

\* The commits keep what the ledger holds.
LEMMA RowsGoOn ==
    ASSUME LedgerTypeOK, TaskIsSound, InsertRow \/ CommitEvent
    PROVE  /\ Continues(ledger, ledger')
           /\ \A x : HasNumber(ledger, x) => HasNumber(ledger', x)
<1>1. CASE InsertRow
  BY <1>1, InsertedRow DEF Continues, HasNumber
<1>2. CASE CommitEvent
  <2>1. /\ DOMAIN ledger'.rows = DOMAIN ledger.rows
        /\ \A n \in DOMAIN ledger.rows :
                 /\ ledger'.rows[n].cand = ledger.rows[n].cand
                 /\ ledger.rows[n].events \in Seq(EventTypes)
                 /\ ledger.rows[n].cand # task.cand =>
                        ledger'.rows[n].events = ledger.rows[n].events
                 /\ ledger.rows[n].cand = task.cand =>
                        ledger'.rows[n].events = Append(ledger.rows[n].events, task.event)
    BY <1>2, CommittedEvent
  <2>2. \A x : HasNumber(ledger, x) => HasNumber(ledger', x)
    BY <2>1 DEF HasNumber
  <2>3. ASSUME NEW n \in DOMAIN ledger.rows, NEW k \in DOMAIN ledger.rows[n].events
        PROVE  /\ k \in DOMAIN ledger'.rows[n].events
               /\ ledger'.rows[n].events[k] = ledger.rows[n].events[k]
    <3>1. CASE ledger.rows[n].cand # task.cand
      BY <2>1, <3>1
    <3>2. CASE ledger.rows[n].cand = task.cand
      <4>1. /\ ledger'.rows[n].events = Append(ledger.rows[n].events, task.event)
            /\ ledger.rows[n].events \in Seq(EventTypes)
        BY <2>1, <3>2
      <4>2. k \in 1..Len(ledger.rows[n].events) /\ Len(ledger.rows[n].events) \in Nat
        BY <4>1
      <4> QED
        BY <4>1, <4>2, AppendedType
    <3> QED
      BY <3>1, <3>2
  <2> QED
    BY <2>1, <2>2, <2>3 DEF Continues
<1> QED
  BY <1>1, <1>2

\* No number is given but when a row is committed, and a candidate stays started.
LEMMA GivenStep ==
    ASSUME [LedgerNext]_ledgerVars
    PROVE  (~InsertRow => named' = named) /\ started \subseteq started'
<1>1. CASE \E c \in Candidates :
             StartRefresh(c) \/ Promote(c) \/ DropDelta(c) \/ \E d \in Decided : Decide(c, d)
  BY <1>1 DEF StartRefresh, Promote, DropDelta, Decide
<1>2. CASE \/ EndBuild \/ Reserve \/ WriteManifest \/ InsertRow \/ ProjectRow \/ RecordFails
           \/ SyncCandidate \/ WriteEventFile \/ CommitEvent
  BY <1>2 DEF EndBuild, Reserve, WriteManifest, InsertRow, ProjectRow, RecordFails,
              SyncCandidate, WriteEventFile, CommitEvent
<1>3. CASE \/ PublishEvent \/ AppendFails \/ SyncDecision \/ PersistDecided \/ CommitFuse
           \/ EndDrop \/ LedgerCrash \/ UNCHANGED ledgerVars
  BY <1>3 DEF PublishEvent, AppendFails, SyncDecision, PersistDecided, CommitFuse, EndDrop,
              LedgerCrash, ledgerVars
<1> QED
  BY <1>1, <1>2, <1>3 DEF LedgerNext

\* A candidate is given its number once, and before it is given one none.
LEMMA NamedOnceStep == LedgerInvariant /\ [LedgerNext]_ledgerVars => NamedOnce'
<1> SUFFICES ASSUME LedgerInvariant, [LedgerNext]_ledgerVars PROVE NamedOnce'
  OBVIOUS
<1>t. LedgerTypeOK /\ TaskIsSound /\ NamedOnce /\ started \subseteq started'
  BY GivenStep DEF LedgerInvariant
<1>n. NoTask.step = "idle" /\ "idle" \notin Recording
  BY DEF NoTask, Recording
<1>1. CASE InsertRow
  BY <1>1, <1>t, TaskTable, GotoStep DEF InsertRow, NamedOnce, Recording
<1>2. ASSUME ~InsertRow,
             \/ task' = NoTask
             \/ task'.step \notin Recording
             \/ task' = task
             \/ /\ task'.cand = task.cand /\ task.step \in Recording
                /\ \/ task'.step \notin {"build", "reserve", "manifest", "insert"}
                   \/ task.step \in {"build", "reserve", "manifest", "insert"}
      PROVE  NamedOnce'
  BY <1>2, GivenStep, <1>t, <1>n DEF NamedOnce, Recording
<1>3. ASSUME NEW c \in Candidates, StartRefresh(c) PROVE NamedOnce'
  BY <1>3, <1>t DEF StartRefresh, NamedOnce
<1>4. CASE \/ EndBuild \/ Reserve \/ WriteManifest \/ ProjectRow
  BY <1>4, <1>t, TaskTable, <1>2, GotoStep DEF Recording
<1>5. CASE \/ RecordFails \/ SyncCandidate \/ AppendFails \/ PersistDecided \/ CommitFuse
           \/ EndDrop \/ LedgerCrash
  BY <1>5, <1>t, TaskTable, <1>n, GotoStep, <1>2
<1>6. CASE WriteEventFile \/ CommitEvent \/ PublishEvent \/ SyncDecision
  BY <1>6, <1>t, TaskTable, GotoStep, <1>2 DEF Recording
<1>7. ASSUME NEW c \in Candidates,
             Promote(c) \/ DropDelta(c) \/ \E d \in Decided : Decide(c, d)
      PROVE  NamedOnce'
  BY <1>7, <1>t, <1>n, TaskTable, <1>2 DEF Promote, DropDelta, Decide, Recording
<1>8. CASE UNCHANGED ledgerVars
  BY <1>8, <1>t DEF ledgerVars, NamedOnce
<1> QED
  BY <1>1, <1>3, <1>4, <1>5, <1>6, <1>7, <1>8 DEF LedgerNext

\* The ledger keeps the numbers, but for those a promotion leaves behind; and a fuse that
\* is undone brings those back.
LEMMA NumbersStep == LedgerInvariant /\ [LedgerNext]_ledgerVars => NumbersAreKept'
<1> SUFFICES ASSUME LedgerInvariant, [LedgerNext]_ledgerVars PROVE NumbersAreKept'
  OBVIOUS
<1>t. LedgerTypeOK /\ TaskIsSound /\ NumbersAreKept /\ NamedOnce /\ ledger \in Ledger
  BY DEF LedgerInvariant, LedgerTypeOK
<1>l. ASSUME NEW l \in Standing, NEW x \in named, Lists(l, x.cand) PROVE HasNumber(l, x)
  <2>1. PICK n \in DOMAIN l.rows : l.rows[n].cand = x.cand
    BY <1>l DEF Lists
  <2>2. [delta |-> n, cand |-> l.rows[n].cand] \in named
    BY StandingTyped DEF Numbered
  <2>3. [delta |-> n, cand |-> l.rows[n].cand] = x
    BY <1>t, <2>1, <2>2 DEF NamedOnce
  <2>4. x.delta = n
    BY <2>3
  <2> QED
    BY <2>1, <2>4 DEF HasNumber
<1>1. CASE InsertRow
  <2>1. /\ named' = named \cup {[delta |-> NextNumber(ledger), cand |-> task.cand]}
        /\ UNCHANGED <<replaced, overtaken>>
    BY <1>1 DEF InsertRow
  <2>2. replaced = NoLedger
    BY <1>1, <1>t DEF InsertRow, At, TaskIsSound, Recording
  <2>3. HasNumber(ledger', [delta |-> NextNumber(ledger), cand |-> task.cand])
    BY <1>1, <1>t, InsertedRow DEF HasNumber
  <2>4. \A x : HasNumber(ledger, x) => HasNumber(ledger', x)
    BY <1>1, <1>t, RowsGoOn
  <2> QED
    BY <1>t, <2>1, <2>2, <2>3, <2>4 DEF NumbersAreKept
<1>2. CASE CommitEvent
  BY <1>2, <1>t, RowsGoOn DEF CommitEvent, NumbersAreKept
<1>3. ASSUME NEW c \in Candidates, Promote(c) PROVE NumbersAreKept'
  <2>1. /\ copies[c] \in Ledger /\ copies[c] \in Standing /\ ledger \in Standing
        /\ ledger' = WithState(copies[c], c, "FUSING")
        /\ replaced' = WithState(ledger, c, "FUSING") /\ named' = named
        /\ overtaken' = overtaken \cup (Listed(ledger) \ Listed(copies[c]))
    BY <1>3, <1>t, StandingAre DEF Promote, LedgerTypeOK
  <2>s. "FUSING" \in Statuses
    BY DEF Statuses
  <2>2. ledger'.rows = copies[c].rows /\ replaced'.rows = ledger.rows
    BY <1>t, <2>1, <2>s, WithStateLedger
  <2>3. ASSUME NEW x \in named, x.cand \notin overtaken'
        PROVE  HasNumber(ledger', x) /\ HasNumber(replaced', x)
    <3>1. HasNumber(ledger, x)
      BY <1>t, <2>1, <2>3 DEF NumbersAreKept
    <3>2. x.cand \in Listed(ledger)
      BY <3>1, <1>t DEF HasNumber, Lists, LedgerTypeOK, Listed
    <3>3. Lists(copies[c], x.cand)
      BY <2>1, <2>3, <3>2 DEF Listed
    <3>4. HasNumber(copies[c], x)
      BY <1>l, <2>1, <3>3
    <3> QED
      BY <2>2, <3>1, <3>4, SameRows
  <2> QED
    BY <2>1, <2>3 DEF NumbersAreKept
<1>4. CASE ~InsertRow /\ ~CommitEvent /\ \A c \in Candidates : ~Promote(c)
  <2>1. named' = named
    BY <1>4, GivenStep
  <2>2. CASE /\ ledger'.rows = ledger.rows /\ overtaken' = overtaken
             /\ replaced' \in {replaced, NoLedger}
    BY <2>2, SameRows, <1>t, <2>1 DEF NumbersAreKept
  <2>3. CASE /\ task.event = "FUSED" /\ replaced \in Ledger /\ ledger'.rows = replaced.rows
             /\ replaced' = NoLedger /\ overtaken' = overtaken \ Listed(replaced)
    <3>1. replaced \in Standing /\ replaced # NoLedger
      BY <2>3, NoLedgerIsNoLedger, StandingAre
    <3>2. ASSUME NEW x \in named, x.cand \notin overtaken' PROVE HasNumber(replaced, x)
      BY <2>3, <3>2, <1>l, <3>1, <1>t DEF Listed, NumbersAreKept
    <3>3. \A x : HasNumber(ledger', x) <=> HasNumber(replaced, x)
      BY <2>3, SameRows
    <3> QED
      BY <2>1, <2>3, <3>2, <3>3 DEF NumbersAreKept
  <2> QED
    BY <1>4, <2>2, <2>3, LedgerRowsStay
<1> QED
  BY <1>1, <1>2, <1>3, <1>4

\* Where a command can come from that is about to commit a row or an event.
LEMMA CommitsComeFrom ==
    ASSUME LedgerInvariant, [LedgerNext]_ledgerVars, task'.step \in {"insert", "commit"}
    PROVE  \/ task'.step = "insert" /\ WriteManifest
           \/ task'.step = "commit" /\ WriteEventFile /\ task' # NoTask
           \/ UNCHANGED ledgerVars
<1>t. LedgerTypeOK
  BY DEF LedgerInvariant
<1>n. NoTask.step = "idle"
  BY DEF NoTask
<1>1. ASSUME NEW c \in Candidates,
             StartRefresh(c) \/ Promote(c) \/ DropDelta(c) \/ \E d \in Decided : Decide(c, d)
      PROVE  FALSE
  BY <1>1, <1>n DEF StartRefresh, Promote, DropDelta, Decide
<1>2. CASE \/ EndBuild \/ Reserve \/ InsertRow \/ ProjectRow \/ CommitEvent
           \/ PublishEvent \/ SyncDecision
  BY <1>2, <1>t, <1>n, TaskTable, GotoStep
<1>3. CASE \/ RecordFails \/ SyncCandidate \/ AppendFails \/ PersistDecided \/ CommitFuse
           \/ EndDrop \/ LedgerCrash
  BY <1>3, <1>t, <1>n, TaskTable
<1>4. CASE WriteManifest \/ WriteEventFile
  BY <1>4, <1>t, <1>n, TaskTable, GotoStep
<1> QED
  BY <1>1, <1>2, <1>3, <1>4 DEF LedgerNext

LEMMA ManifestStep == LedgerInvariant /\ [LedgerNext]_ledgerVars => ManifestIsWritten'
<1> SUFFICES ASSUME LedgerInvariant, [LedgerNext]_ledgerVars, task'.step = "insert"
             PROVE  {f.of : f \in {g \in ledger'.folders : g.delta = NextNumber(ledger')}}
                        = {task'.cand}
  BY DEF ManifestIsWritten, At
<1>1. CASE UNCHANGED ledgerVars
  BY <1>1 DEF ledgerVars, LedgerInvariant, ManifestIsWritten, At
<1>2. CASE WriteManifest
  <2>t. LedgerTypeOK /\ TaskIsSound /\ ledger \in Ledger
    BY DEF LedgerInvariant, LedgerTypeOK
  <2> DEFINE n == NextNumber(ledger)
             l == WithoutFolder(ledger, n)
             more == l.folders \cup {[delta |-> n, of |-> task.cand]}
  <2>1. n \in Nat
    BY <2>t, NextNumberIsFree
  <2>2. task.cand \in Candidates /\ task'.cand = task.cand
    BY <1>2, <2>t, GotoStep DEF WriteManifest, At, TaskIsSound, NoTask
  <2>3. /\ l \in Ledger /\ l.rows = ledger.rows
        /\ l.folders = {f \in ledger.folders : f.delta # n}
    BY <2>t, WithoutFolderLedger
  <2>4. ledger' = [l EXCEPT !.folders = more]
    BY <1>2 DEF WriteManifest
  <2> HIDE DEF n, l
  <2>5. more \subseteq Folder
    BY <2>1, <2>2, <2>3, LedgerFields DEF Folder
  <2>6. ledger'.rows = l.rows /\ ledger'.folders = more
    BY <2>3, <2>4, <2>5, FoldersReplaced
  <2>7. NextNumber(ledger') = n
    BY <2>3, <2>6 DEF NextNumber, n
  <2>8. \A f \in more : f.delta = n <=> f = [delta |-> n, of |-> task.cand]
    BY <2>3
  <2>9. {g \in more : g.delta = n} = {[delta |-> n, of |-> task.cand]}
    BY <2>8
  <2>10. {f.of : f \in {[delta |-> n, of |-> task.cand]}} = {task.cand}
    OBVIOUS
  <2> HIDE DEF more
  <2>11. {g \in ledger'.folders : g.delta = NextNumber(ledger')}
             = {[delta |-> n, of |-> task.cand]}
    BY <2>6, <2>7, <2>9
  <2> QED
    BY <2>2, <2>10, <2>11
<1> QED
  BY <1>1, <1>2, CommitsComeFrom

LEMMA FileStep == LedgerInvariant /\ [LedgerNext]_ledgerVars => FileIsWritten'
<1> SUFFICES ASSUME LedgerInvariant, [LedgerNext]_ledgerVars, task'.step = "commit"
             PROVE  FileOf(ledger', task'.cand, EventPlace(ledger', task'.cand) + 1, task'.event)
                        \subseteq ledger'.files
  BY DEF FileIsWritten, At
<1>1. CASE UNCHANGED ledgerVars
  BY <1>1 DEF ledgerVars, LedgerInvariant, FileIsWritten, At
<1>2. CASE WriteEventFile
  <2>t. LedgerTypeOK /\ TaskIsSound /\ ledger \in Ledger
    BY DEF LedgerInvariant, LedgerTypeOK
  <2>n. task' # NoTask
    BY DEF NoTask
  <2> DEFINE f == FileOf(ledger, task.cand, EventPlace(ledger, task.cand) + 1, task.event)
  <2>1. ledger' = [ledger EXCEPT !.files = @ \cup f] /\ Goto("commit")
    BY <1>2, <2>n DEF WriteEventFile, AppendRaises
  <2>2. task'.cand = task.cand /\ task'.event = task.event
    BY <2>1, <2>t, GotoStep
  <2> HIDE DEF f
  <2>3. ledger'.rows = ledger.rows /\ ledger'.files = ledger.files \cup f
    BY <2>t, <2>1 DEF Ledger
  <2>4. FileOf(ledger', task'.cand, EventPlace(ledger', task'.cand) + 1, task'.event) = f
    BY <2>2, <2>3, SameRows DEF f
  <2> QED
    BY <2>3, <2>4
<1> QED
  BY <1>1, <1>2, CommitsComeFrom

\* A command goes through its steps in order and keeps the copy it works on; a ledger is
\* set aside while a fuse runs, and only then.
LEMMA TaskStep == LedgerInvariant /\ [LedgerNext]_ledgerVars => TaskIsSound'
<1> SUFFICES ASSUME LedgerInvariant, [LedgerNext]_ledgerVars PROVE TaskIsSound'
  OBVIOUS
<1>t. LedgerTypeOK /\ TaskIsSound
  BY DEF LedgerInvariant
<1>n. /\ NoTask.step = "idle" /\ NoTask.event = "NONE" /\ NoTask.cand = NoCandidate
      /\ NoCandidate \notin Candidates
      /\ "idle" \notin Recording \cup Appending \cup {"persist"}
      /\ "NONE" \notin Decided \cup {"FUSED"} /\ "FUSED" \notin Decided
      /\ "persist" \notin Recording \cup Appending
      /\ Recording \cap Appending = {}
  BY LedgerAssumption DEF NoTask, Recording, Appending, Decided
<1>0. ASSUME task' = NoTask, replaced' = NoLedger PROVE TaskIsSound'
  BY <1>0, <1>n DEF TaskIsSound
<1>g. ASSUME NEW s \in {"reserve", "manifest", "insert", "project", "sync", "commit",
                        "publish", "after", "persist"},
             Goto(s), UNCHANGED replaced, task.step \in Recording \cup Appending,
             s \in Recording <=> task.step \in Recording,
             s = "persist" => task.event \in Decided /\ copies[task.cand] # NoLedger,
             \A c \in Candidates : copies'[c] = NoLedger <=> copies[c] = NoLedger
      PROVE  TaskIsSound'
  BY <1>g, <1>t, GotoStep, <1>n DEF TaskIsSound, Recording, Appending
<1>r. task.step \in Recording => replaced = NoLedger
  BY <1>t, <1>n DEF TaskIsSound
<1>1. ASSUME NEW c \in Candidates, StartRefresh(c) PROVE TaskIsSound'
  BY <1>1, <1>t, SyncedLedger, EmptyLedgerIsLedger, NoLedgerIsNoLedger, <1>n DEF
     StartRefresh, LedgerTypeOK, TaskIsSound, Appending
<1>2. ASSUME NEW c \in Candidates, Promote(c) PROVE TaskIsSound'
  <2>1. /\ task' = [step |-> "event", cand |-> c, event |-> "FUSED"]
        /\ replaced' = WithState(ledger, c, "FUSING")
        /\ copies' = [copies EXCEPT ![c] = NoLedger]
    BY <1>2 DEF Promote
  <2>2. "FUSING" \in Statuses /\ ledger \in Ledger
    BY <1>t DEF Statuses, LedgerTypeOK
  <2>3. replaced' # NoLedger
    BY <2>1, <2>2, WithStateLedger, NoLedgerIsNoLedger
  <2>4. copies'[c] = NoLedger
    BY <1>t, <2>1 DEF LedgerTypeOK
  <2>5. task'.step = "event" /\ task'.cand = c /\ task'.event = "FUSED" /\ task' # NoTask
    BY <1>n, <2>1
  <2> QED
    BY <1>n, <2>3, <2>4, <2>5 DEF TaskIsSound, Recording, EventTypes
<1>3. ASSUME NEW c \in Candidates, DropDelta(c) PROVE TaskIsSound'
  BY <1>3, <1>t, <1>n, <1>0 DEF DropDelta, TaskIsSound, Recording, EventTypes, Decided
<1>4. ASSUME NEW c \in Candidates, NEW d \in Decided, Decide(c, d) PROVE TaskIsSound'
  BY <1>4, <1>t, <1>n DEF Decide, TaskIsSound, Recording, EventTypes
<1>5. CASE EndBuild \/ Reserve
  BY <1>5, <1>0, <1>r, <1>g DEF EndBuild, Reserve, At, Recording, RefreshFails
<1>6. CASE WriteManifest \/ InsertRow \/ ProjectRow
  BY <1>6, <1>g DEF WriteManifest, InsertRow, ProjectRow, At, Recording
<1>7. CASE RecordFails \/ SyncCandidate
  BY <1>7, <1>0, <1>r DEF RecordFails, SyncCandidate, RefreshFails, At, Recording
<1>8. CASE WriteEventFile
  BY <1>8, <1>t, <1>0, <1>g, <1>n DEF WriteEventFile, At, Appending, AppendRaises,
     TaskIsSound, Recording
<1>9. CASE CommitEvent \/ PublishEvent
  BY <1>9, <1>g, <1>n DEF CommitEvent, PublishEvent, At, Appending, Recording
<1>10. CASE AppendFails
  BY <1>10, <1>t, <1>0 DEF AppendFails, AppendRaises, TaskIsSound
<1>11. CASE SyncDecision
  BY <1>11, <1>t, <1>n, SyncedLedger, NoLedgerIsNoLedger, <1>g DEF SyncDecision, At,
     Appending, TaskIsSound, LedgerTypeOK, Recording
<1>12. CASE PersistDecided \/ EndDrop
  BY <1>12, <1>t, <1>n, <1>0 DEF PersistDecided, EndDrop, TaskIsSound, At
<1>13. CASE CommitFuse \/ LedgerCrash
  BY <1>13, <1>0 DEF CommitFuse, LedgerCrash
<1>14. CASE UNCHANGED ledgerVars
  BY <1>14, <1>t DEF ledgerVars, TaskIsSound
<1> QED
  BY <1>1, <1>2, <1>3, <1>4, <1>5, <1>6, <1>7, <1>8, <1>9, <1>10, <1>11, <1>12, <1>13,
     <1>14 DEF LedgerNext

-----------------------------------------------------------------------------
(* What the steps write, of rows, files and states.                        *)

\* A ledger is another one but for the state of one refresh.
MarkedAs(l, m, c, status) ==
    /\ m \in Ledger /\ m.rows = l.rows /\ m.files = l.files
    /\ m.states[c] = status /\ \A x \in Candidates \ {c} : m.states[x] = l.states[x]

OthersStay(c) == \A x \in Candidates \ {c} : copies'[x] = copies[x]

NoCrash == ledgerFaults'.crash = ledgerFaults.crash

\* The command of a refresh fails.
CommandFails ==
    /\ task.step \in Recording /\ task' = NoTask
    /\ task.cand \in Candidates /\ copies[task.cand] \in Ledger
    /\ MarkedAs(ledger, ledger', task.cand, "FAILED")
    /\ MarkedAs(copies[task.cand], copies'[task.cand], task.cand, "FAILED")
    /\ OthersStay(task.cand) /\ replaced' = replaced /\ NoCrash

\* An append fails: l is the ledger it leaves.
Raises(l) ==
    /\ task.step \in {"event", "commit", "publish"} /\ task' = NoTask /\ NoCrash
    /\ task.cand \in Candidates
    /\ l \in Ledger /\ l.rows = ledger.rows /\ l.states = ledger.states
    /\ IF task.event = "FUSED"
       THEN /\ replaced \in Ledger /\ replaced' = NoLedger
            /\ MarkedAs(replaced, ledger', task.cand, "FUSE_FAILED")
            /\ MarkedAs(l, copies'[task.cand], task.cand, "FUSE_FAILED")
            /\ OthersStay(task.cand)
       ELSE ledger' = l /\ UNCHANGED <<copies, replaced>>

\* A step writes nothing of it.
NothingMoves ==
    /\ ledger'.rows = ledger.rows /\ ledger'.files = ledger.files
    /\ ledger'.states = ledger.states /\ UNCHANGED <<copies, replaced>> /\ NoCrash

LEMMA MarkedByState ==
    ASSUME NEW l \in Ledger, NEW c \in Candidates, NEW status \in Statuses
    PROVE  MarkedAs(l, WithState(l, c, status), c, status)
  BY WithStateLedger DEF MarkedAs

LEMMA RefreshFailsIsFails ==
    ASSUME LedgerTypeOK, TaskIsSound, task.step \in Recording, NEW l \in Ledger,
           l.rows = ledger.rows, l.files = ledger.files, l.states = ledger.states,
           RefreshFails(l), replaced' = replaced, NoCrash
    PROVE  CommandFails
  BY RefreshFailsLedgers, RefreshFailsTypes DEF CommandFails, MarkedAs, OthersStay

LEMMA AppendRaisesIsRaises ==
    ASSUME LedgerTypeOK, TaskIsSound, task.step \in {"event", "commit", "publish"},
           NEW l \in Ledger, l.rows = ledger.rows, l.states = ledger.states,
           AppendRaises(l), NoCrash
    PROVE  Raises(l)
<1>1. task.cand \in Candidates /\ task' = NoTask /\ task.step \in Appending
  BY DEF TaskIsSound, NoTask, AppendRaises, Appending
<1>2. CASE task.event = "FUSED"
  BY <1>1, <1>2, FuseRaisesLedgers, AppendRaisesTypes DEF Raises, MarkedAs, OthersStay
<1>3. CASE task.event # "FUSED"
  BY <1>1, <1>3 DEF Raises, AppendRaises
<1> QED
  BY <1>2, <1>3

LEMMA StartedTable ==
    ASSUME LedgerTypeOK, NEW c \in Candidates, StartRefresh(c)
    PROVE  /\ MarkedAs(ledger, ledger', c, "REFRESHING") /\ OthersStay(c)
           /\ copies'[c] \in Ledger /\ copies'[c].rows = ledger.rows
           /\ copies'[c].files = ledger.files
           /\ \A x \in Candidates : copies'[c].states[x] = "NOT_STARTED"
           /\ c \notin started /\ replaced' = replaced /\ NoCrash
<1>1. /\ ledger' = WithState(ledger, c, "REFRESHING") /\ "REFRESHING" \in Statuses
      /\ copies' = [copies EXCEPT ![c] = Synced(ledger, EmptyLedger)]
      /\ c \notin started /\ replaced' = replaced /\ NoCrash
  BY DEF StartRefresh, Statuses, NoCrash
<1>2. ledger \in Ledger
  BY DEF LedgerTypeOK
<1>3. copies'[c] = Synced(ledger, EmptyLedger) /\ OthersStay(c)
  BY <1>1 DEF LedgerTypeOK, OthersStay
<1>4. /\ Synced(ledger, EmptyLedger) \in Ledger
      /\ Synced(ledger, EmptyLedger).rows = ledger.rows
      /\ Synced(ledger, EmptyLedger).files = ledger.files
      /\ \A x \in Candidates : Synced(ledger, EmptyLedger).states[x] = "NOT_STARTED"
  <2>1. /\ EmptyLedger \in Ledger /\ EmptyLedger.files = {}
        /\ \A x \in Candidates : EmptyLedger.states[x] = "NOT_STARTED"
    BY EmptyLedgerIsLedger DEF EmptyLedger
  <2> DEFINE t == EmptyLedger
  <2>2. t \in Ledger
    BY <2>1
  <2> HIDE DEF t
  <2>3. /\ Synced(ledger, t) \in Ledger /\ Synced(ledger, t).rows = ledger.rows
        /\ Synced(ledger, t).states = t.states
        /\ Synced(ledger, t).files = t.files \cup ledger.files
    BY <1>2, <2>2, SyncedLedger
  <2> QED
    BY <2>1, <2>3 DEF t
<1> QED
  BY <1>1, <1>2, <1>3, <1>4, MarkedByState

\* The end of a build.
LEMMA BuiltTable ==
    ASSUME LedgerTypeOK, TaskIsSound, EndBuild
    PROVE  \/ CommandFails
           \/ /\ task.cand \in Candidates /\ task.step = "build"
              /\ replaced' = replaced /\ NoCrash /\ OthersStay(task.cand)
              /\ \/ /\ MarkedAs(ledger, ledger', task.cand, "NO_CHANGE")
                    /\ copies'[task.cand] = NoLedger /\ task' = NoTask
                 \/ /\ MarkedAs(ledger, ledger', task.cand, "AWAITING_FUSE")
                    /\ copies' = copies /\ Goto("reserve")
<1>1. /\ task.cand \in Candidates /\ task.step = "build" /\ task.step \in Recording
      /\ replaced' = replaced /\ NoCrash /\ ledger \in Ledger
      /\ {"NO_CHANGE", "AWAITING_FUSE"} \subseteq Statuses
  BY DEF EndBuild, At, TaskIsSound, NoTask, Recording, NoCrash, LedgerTypeOK, Statuses
<1>2. CASE RefreshFails(ledger)
  BY <1>1, <1>2, RefreshFailsIsFails
<1>3. CASE /\ ledger' = WithState(ledger, task.cand, "NO_CHANGE")
           /\ copies' = [copies EXCEPT ![task.cand] = NoLedger]
           /\ task' = NoTask
  BY <1>1, <1>3, MarkedByState DEF LedgerTypeOK, OthersStay
<1>4. CASE /\ ledger' = WithState(ledger, task.cand, "AWAITING_FUSE")
           /\ Goto("reserve")
           /\ UNCHANGED copies
  BY <1>1, <1>4, MarkedByState DEF LedgerTypeOK, OthersStay
<1> QED
  BY <1>2, <1>3, <1>4 DEF EndBuild

\* The directory and the manifest of a delta, and what undoes them.
LEMMA ReservedTable ==
    ASSUME LedgerTypeOK, TaskIsSound, Reserve \/ WriteManifest \/ RecordFails
    PROVE  CommandFails \/ (NothingMoves /\ \E s \in {"manifest", "insert"} : Goto(s)
                     /\ task.step \in {"reserve", "manifest"} /\ (Reserve \/ WriteManifest))
<1>t. ledger \in Ledger
  BY DEF LedgerTypeOK
<1> DEFINE n == NextNumber(ledger)
<1>1. /\ WithoutFolder(ledger, n) \in Ledger
      /\ WithoutFolder(ledger, n).rows = ledger.rows
      /\ WithoutFolder(ledger, n).files = ledger.files
      /\ WithoutFolder(ledger, n).states = ledger.states
  BY <1>t, WithoutFolderLedger
<1>2. CASE Reserve
  BY <1>2, <1>1, RefreshFailsIsFails, <1>t DEF Reserve, At, Recording, NoCrash, Ledger,
     NothingMoves
<1>3. CASE WriteManifest
  <2> DEFINE l == WithoutFolder(ledger, n)
  <2>1. /\ task.step = "manifest" /\ Goto("insert") /\ UNCHANGED <<copies, replaced>> /\ NoCrash
        /\ ledger' = [l EXCEPT !.folders = @ \cup {[delta |-> n, of |-> task.cand]}]
    BY <1>3 DEF WriteManifest, At, NoCrash
  <2>2. l \in Ledger /\ l.rows = ledger.rows /\ l.files = ledger.files /\ l.states = ledger.states
    BY <1>1
  <2> HIDE DEF l
  <2>3. ledger'.rows = l.rows /\ ledger'.files = l.files /\ ledger'.states = l.states
    BY <2>1, <2>2 DEF Ledger
  <2> QED
    BY <1>3, <2>1, <2>2, <2>3 DEF NothingMoves
<1>4. CASE RecordFails
  <2> DEFINE l == IF task.step \in {"manifest", "insert"}
                  THEN WithoutFolder(ledger, n) ELSE ledger
  <2>1. task.step \in Recording /\ RefreshFails(l) /\ replaced' = replaced
    BY <1>4 DEF RecordFails, Recording
  <2>2. l \in Ledger /\ l.rows = ledger.rows /\ l.files = ledger.files /\ l.states = ledger.states
    BY <1>t, <1>1
  <2>3. NoCrash
    BY <1>4, FaultIsCounted DEF RecordFails, NoCrash
  <2> HIDE DEF l
  <2> QED
    BY <2>1, <2>2, <2>3, RefreshFailsIsFails
<1> QED
  BY <1>2, <1>3, <1>4

LEMMA SyncedTable ==
    ASSUME LedgerTypeOK, TaskIsSound, SyncCandidate \/ SyncDecision
    PROVE  /\ task.cand \in Candidates /\ copies[task.cand] \in Ledger
           /\ ledger' = ledger /\ replaced' = replaced /\ NoCrash /\ OthersStay(task.cand)
           /\ copies'[task.cand] \in Ledger /\ copies'[task.cand].rows = ledger.rows
           /\ copies'[task.cand].files = copies[task.cand].files \cup ledger.files
           /\ \A x \in Candidates \ {task.cand} :
                 copies'[task.cand].states[x] = copies[task.cand].states[x]
<1>1. task.cand \in Candidates /\ copies[task.cand] \in Ledger /\ ledger \in Ledger
  BY DEF SyncCandidate, SyncDecision, At, TaskIsSound, NoTask, LedgerTypeOK, Recording
<1>2. ledger' = ledger /\ replaced' = replaced /\ NoCrash
  BY DEF SyncCandidate, SyncDecision, NoCrash
<1> DEFINE m == Synced(ledger, copies[task.cand])
<1>3. /\ m \in Ledger /\ m.rows = ledger.rows
      /\ m.files = copies[task.cand].files \cup ledger.files
      /\ m.states = copies[task.cand].states
  BY <1>1, SyncedLedger
<1>4. CASE SyncCandidate
  <2>1. /\ copies' = [copies EXCEPT ![task.cand] = WithState(m, task.cand, "AWAITING_FUSE")]
        /\ "AWAITING_FUSE" \in Statuses
    BY <1>4 DEF SyncCandidate, Statuses
  <2> HIDE DEF m
  <2>2. MarkedAs(m, WithState(m, task.cand, "AWAITING_FUSE"), task.cand, "AWAITING_FUSE")
    BY <1>1, <1>3, <2>1, MarkedByState
  <2>3. copies'[task.cand] = WithState(m, task.cand, "AWAITING_FUSE") /\ OthersStay(task.cand)
    BY <1>1, <2>1 DEF LedgerTypeOK, OthersStay
  <2> QED
    BY <1>1, <1>2, <1>3, <2>2, <2>3 DEF MarkedAs
<1>5. CASE SyncDecision
  <2>1. copies' = [copies EXCEPT ![task.cand] = m]
    BY <1>5 DEF SyncDecision
  <2> HIDE DEF m
  <2>2. copies'[task.cand] = m /\ OthersStay(task.cand)
    BY <1>1, <2>1 DEF LedgerTypeOK, OthersStay
  <2> QED
    BY <1>1, <1>2, <1>3, <2>2
<1> QED
  BY <1>4, <1>5

\* The file of an event, and an append that fails.
LEMMA EventTable ==
    ASSUME LedgerTypeOK, TaskIsSound, WriteEventFile \/ AppendFails
    PROVE  \/ Raises(ledger) /\ task.step = "event"
           \/ Raises(WithoutItsFile) /\ task.step \in {"commit", "publish"}
           \/ /\ task.step = "event" /\ Goto("commit") /\ Lists(ledger, task.cand)
              /\ UNCHANGED <<copies, replaced>> /\ NoCrash
              /\ ledger' \in Ledger /\ ledger'.rows = ledger.rows
              /\ ledger'.states = ledger.states
              /\ ledger'.files = ledger.files \cup
                    FileOf(ledger, task.cand, EventPlace(ledger, task.cand) + 1, task.event)
<1>t. ledger \in Ledger
  BY DEF LedgerTypeOK
<1>1. CASE AppendFails
  BY <1>1, FaultIsCounted, UnlinkLedger, AppendRaisesIsRaises DEF AppendFails,
     WithoutItsFile, NoCrash
<1>2. CASE WriteEventFile
  <2>1. task.step = "event" /\ NoCrash
    BY <1>2 DEF WriteEventFile, At, NoCrash
  <2>2. CASE AppendRaises(ledger)
    BY <1>t, <2>1, <2>2, AppendRaisesIsRaises
  <2> DEFINE f == FileOf(ledger, task.cand, EventPlace(ledger, task.cand) + 1, task.event)
  <2>3. CASE /\ Lists(ledger, task.cand)
             /\ ledger' = [ledger EXCEPT !.files = @ \cup f]
             /\ Goto("commit")
             /\ UNCHANGED <<copies, replaced, overtaken>>
    <3>1. /\ ledger'.rows = ledger.rows /\ ledger'.states = ledger.states
          /\ ledger'.files = ledger.files \cup f
      BY <1>t, <2>3 DEF Ledger
    <3>2. ledger' \in Ledger
      <4>1. task.event \in EventTypes
        BY <2>1 DEF TaskIsSound, Appending
      <4>2. EventPlace(ledger, task.cand) \in Nat
        BY <1>t, <2>3, PlaceOfEvent
      <4>3. f \subseteq EventFile
        BY <1>t, <4>1, <4>2, FilesOfEvent
      <4> HIDE DEF f
      <4>4. ledger.files \cup f \subseteq EventFile
        BY <1>t, <4>3, LedgerFields
      <4> QED
        BY <1>t, <2>3, <4>4, FilesReplaced
    <3> QED
      BY <2>1, <2>3, <3>1, <3>2
  <2> QED
    BY <1>2, <2>2, <2>3 DEF WriteEventFile
<1> QED
  BY <1>1, <1>2

LEMMA PersistTable ==
    ASSUME LedgerTypeOK, TaskIsSound, PersistDecided
    PROVE  /\ task.cand \in Candidates /\ copies[task.cand] \in Ledger
           /\ task.event \in Decided
           /\ MarkedAs(ledger, ledger', task.cand, StatusOf(task.event))
           /\ MarkedAs(copies[task.cand], copies'[task.cand], task.cand, StatusOf(task.event))
           /\ OthersStay(task.cand) /\ replaced' = replaced /\ NoCrash
<1>1. /\ task.cand \in Candidates /\ copies[task.cand] \in Ledger /\ ledger \in Ledger
      /\ task.event \in Decided /\ replaced' = replaced /\ NoCrash
  BY DEF PersistDecided, At, TaskIsSound, NoTask, LedgerTypeOK, NoCrash
<1>2. StatusOf(task.event) \in Statuses
  BY DEF StatusOf, Statuses
<1>3. /\ ledger' = WithState(ledger, task.cand, StatusOf(task.event))
      /\ copies' = [copies EXCEPT ![task.cand] =
                      WithState(copies[task.cand], task.cand, StatusOf(task.event))]
  BY DEF PersistDecided
<1>4. /\ copies'[task.cand] = WithState(copies[task.cand], task.cand, StatusOf(task.event))
      /\ OthersStay(task.cand)
  BY <1>1, <1>3 DEF LedgerTypeOK, OthersStay
<1> QED
  BY <1>1, <1>2, <1>3, <1>4, MarkedByState

LEMMA PromotedTable ==
    ASSUME LedgerTypeOK, NEW c \in Candidates, Promote(c)
    PROVE  /\ copies[c] \in Ledger /\ ledger.states[c] \in {"APPROVED", "FUSE_FAILED"}
           /\ task = NoTask /\ task' = [step |-> "event", cand |-> c, event |-> "FUSED"]
           /\ MarkedAs(copies[c], ledger', c, "FUSING") /\ MarkedAs(ledger, replaced', c, "FUSING")
           /\ copies'[c] = NoLedger /\ OthersStay(c) /\ NoCrash
<1>1. /\ copies[c] \in Ledger /\ ledger.states[c] \in {"APPROVED", "FUSE_FAILED"}
      /\ task = NoTask /\ task' = [step |-> "event", cand |-> c, event |-> "FUSED"]
      /\ ledger' = WithState(copies[c], c, "FUSING")
      /\ replaced' = WithState(ledger, c, "FUSING") /\ NoCrash
      /\ copies' = [copies EXCEPT ![c] = NoLedger]
  BY DEF Promote, LedgerTypeOK, NoCrash
<1>2. ledger \in Ledger /\ "FUSING" \in Statuses
  BY DEF LedgerTypeOK, Statuses
<1>3. copies'[c] = NoLedger /\ OthersStay(c)
  BY <1>1 DEF LedgerTypeOK, OthersStay
<1> QED
  BY <1>1, <1>2, <1>3, MarkedByState

LEMMA FusedTable ==
    ASSUME LedgerTypeOK, TaskIsSound, CommitFuse
    PROVE  /\ task.cand \in Candidates /\ MarkedAs(ledger, ledger', task.cand, "FUSED")
           /\ replaced' = NoLedger /\ copies' = copies /\ NoCrash
  BY MarkedByState DEF CommitFuse, At, TaskIsSound, NoTask, LedgerTypeOK, NoCrash, Statuses

LEMMA DroppedTable ==
    ASSUME LedgerTypeOK, NEW c \in Candidates, DropDelta(c)
    PROVE  /\ MarkedAs(ledger, ledger', c, "DROPPED") /\ OthersStay(c)
           /\ copies'[c] \in {copies[c], NoLedger} /\ replaced' = replaced /\ NoCrash
           /\ task = NoTask
           /\ task' = NoTask \/ task' = [step |-> "event", cand |-> c, event |-> "DROPPED"]
  BY MarkedByState DEF DropDelta, LedgerTypeOK, NoCrash, Statuses, OthersStay

\* The steps that only go on.
LEMMA QuietTable ==
    ASSUME LedgerTypeOK,
           \/ ProjectRow \/ PublishEvent \/ EndDrop \/ UNCHANGED ledgerVars
           \/ \E c \in Candidates : \E d \in Decided : Decide(c, d)
    PROVE  NothingMoves /\ ledger' = ledger
  BY DEF ProjectRow, PublishEvent, EndDrop, ledgerVars, Decide, NothingMoves, NoCrash

\* The build of a refresh ends and its command with it, or its delta is to be recorded.
BuildEnds ==
    /\ task.cand \in Candidates /\ task.step = "build" /\ task' = NoTask
    /\ replaced' = replaced /\ NoCrash /\ OthersStay(task.cand)
    /\ MarkedAs(ledger, ledger', task.cand, "NO_CHANGE") /\ copies'[task.cand] = NoLedger

BuildWaits ==
    /\ task.cand \in Candidates /\ task.step = "build" /\ Goto("reserve")
    /\ replaced' = replaced /\ NoCrash /\ copies' = copies
    /\ MarkedAs(ledger, ledger', task.cand, "AWAITING_FUSE")

\* The file of an event comes.
FileComes ==
    /\ task.step = "event" /\ Goto("commit") /\ Lists(ledger, task.cand)
    /\ UNCHANGED <<copies, replaced>> /\ NoCrash
    /\ ledger' \in Ledger /\ ledger'.rows = ledger.rows /\ ledger'.states = ledger.states
    /\ ledger'.files = ledger.files \cup
          FileOf(ledger, task.cand, EventPlace(ledger, task.cand) + 1, task.event)

AppendEnds == \/ Raises(ledger) /\ task.step = "event"
              \/ Raises(WithoutItsFile) /\ task.step \in {"commit", "publish"}

\* A command starts, goes on or ends and writes nothing of rows, files and states.
GoesQuietly ==
    /\ NothingMoves
    /\ \/ task.step \in {"reserve", "manifest"} /\ \E s \in {"manifest", "insert"} : Goto(s)
       \/ ProjectRow \/ PublishEvent \/ EndDrop \/ UNCHANGED ledgerVars
       \/ \E c \in Candidates : \E d \in Decided : Decide(c, d)

LEMMA StepTable ==
    ASSUME LedgerInvariant, [LedgerNext]_ledgerVars
    PROVE  \/ \E c \in Candidates : StartRefresh(c) \/ Promote(c) \/ DropDelta(c)
           \/ CommandFails \/ BuildEnds \/ BuildWaits \/ GoesQuietly \/ AppendEnds \/ FileComes
           \/ InsertRow \/ SyncCandidate \/ CommitEvent \/ SyncDecision
           \/ PersistDecided \/ CommitFuse \/ LedgerCrash
<1>t. LedgerTypeOK /\ TaskIsSound
  BY DEF LedgerInvariant
<1>1. CASE EndBuild
  BY <1>t, <1>1, BuiltTable DEF BuildEnds, BuildWaits
<1>2. CASE Reserve \/ WriteManifest \/ RecordFails
  BY <1>t, <1>2, ReservedTable DEF GoesQuietly
<1>3. CASE WriteEventFile \/ AppendFails
  BY <1>t, <1>3, EventTable DEF FileComes, AppendEnds
<1>4. CASE \/ ProjectRow \/ PublishEvent \/ EndDrop \/ UNCHANGED ledgerVars
           \/ \E c \in Candidates : \E d \in Decided : Decide(c, d)
  BY <1>t, <1>4, QuietTable DEF GoesQuietly
<1> QED
  BY <1>1, <1>2, <1>3, <1>4 DEF LedgerNext

\* Only a fuse sets a ledger aside.
LEMMA NothingSetAside ==
    ASSUME TaskIsSound, task = NoTask \/ task.step \in Recording \/ task.event # "FUSED"
    PROVE  replaced = NoLedger
  BY DEF TaskIsSound, NoTask

\* What a ledger tells, the ones that go on from it tell.
LEMMA StillTold ==
    ASSUME NEW l, NEW m, Continues(l, m)
    PROVE  /\ \A c : Lists(l, c) => Lists(m, c)
           /\ \A c, type : HasEvent(l, c, type) => HasEvent(m, c, type)
           /\ \A f : IsTold(l, f) => IsTold(m, f)
<1>1. \A c : Lists(l, c) => Lists(m, c)
  BY DEF Continues, Lists
<1>2. ASSUME NEW c, NEW type, HasEvent(l, c, type) PROVE HasEvent(m, c, type)
  BY <1>2 DEF HasEvent, Continues
<1>3. \A f : IsTold(l, f) => IsTold(m, f)
  BY DEF Continues, IsTold
<1> QED
  BY <1>1, <1>2, <1>3

\* The commit of a row lists its candidate, the one of an event lists none.
LEMMA InsertedLists ==
    ASSUME LedgerTypeOK, TaskIsSound, InsertRow
    PROVE  /\ Eventless(ledger', task.cand)
           /\ \A c : Lists(ledger', c) => Lists(ledger, c) \/ c = task.cand
<1> DEFINE last == Len(ledger.rows) + 1
<1>1. /\ Len(ledger.rows) \in Nat /\ DOMAIN ledger.rows = 1..Len(ledger.rows)
      /\ DOMAIN ledger'.rows = 1..last
      /\ \A n \in DOMAIN ledger.rows : ledger'.rows[n] = ledger.rows[n]
      /\ ledger'.rows[last] = [cand |-> task.cand, events |-> <<>>]
  BY InsertedRow
<1>2. last \in DOMAIN ledger'.rows
  BY <1>1
<1>3. \A n \in DOMAIN ledger'.rows : n \in DOMAIN ledger.rows \/ n = last
  BY <1>1
<1> HIDE DEF last
<1>4. ledger'.rows[last].cand = task.cand /\ ledger'.rows[last].events = <<>>
  BY <1>1
<1> QED
  BY <1>1, <1>2, <1>3, <1>4 DEF Eventless, Lists

LEMMA CommittedLists ==
    ASSUME LedgerInvariant, CommitEvent
    PROVE  /\ \A c : Lists(ledger', c) <=> Lists(ledger, c)
           /\ HasEvent(ledger', task.cand, task.event)
<1>t. LedgerTypeOK /\ TaskIsSound
  BY DEF LedgerInvariant
<1>1. /\ DOMAIN ledger'.rows = DOMAIN ledger.rows
      /\ \A n \in DOMAIN ledger.rows :
            /\ ledger'.rows[n].cand = ledger.rows[n].cand
            /\ ledger.rows[n].events \in Seq(EventTypes)
            /\ ledger.rows[n].cand = task.cand =>
                   ledger'.rows[n].events = Append(ledger.rows[n].events, task.event)
  BY <1>t, CommittedEvent
<1>2. PICK n \in DOMAIN ledger.rows : ledger.rows[n].cand = task.cand
  BY CommittedFile
<1> DEFINE place == Len(ledger.rows[n].events) + 1
<1>3. /\ place \in DOMAIN ledger'.rows[n].events
      /\ ledger'.rows[n].events[place] = task.event
  BY <1>1, <1>2, AppendedType
<1> HIDE DEF place
<1>4. HasEvent(ledger', task.cand, task.event)
  BY <1>1, <1>2, <1>3 DEF HasEvent
<1> QED
  BY <1>1, <1>4 DEF Lists

\* A candidate without a number is in no ledger.
LEMMA NotYetListed ==
    ASSUME LedgerInvariant, NEW c,
           \/ task.step \in {"build", "reserve", "manifest", "insert"} /\ c = task.cand
           \/ c \notin started
    PROVE  \A l \in Standing : ~Lists(l, c) /\ ~Eventless(l, c)
<1>1. \A x \in named : x.cand # c
  BY DEF LedgerInvariant, NamedOnce
<1>2. ASSUME NEW l \in Standing, Lists(l, c) PROVE FALSE
  BY <1>2, StandingTyped, <1>1 DEF Lists, Numbered
<1> QED
  BY <1>2, EventIsListed

-----------------------------------------------------------------------------
(* What the ledgers have of the candidate of a command.                    *)

LEMMA ListedStep == LedgerInvariant /\ [LedgerNext]_ledgerVars => TaskIsListed'
<1> SUFFICES ASSUME LedgerInvariant, [LedgerNext]_ledgerVars PROVE TaskIsListed'
  OBVIOUS
<1>t. LedgerTypeOK /\ TaskIsSound /\ TaskIsListed
  BY DEF LedgerInvariant
<1>n. /\ NoTask.step = "idle" /\ NoTask.event = "NONE"
      /\ "NONE" \notin Decided \cup {"FUSED"} /\ "FUSED" \notin Decided
  BY DEF NoTask, Decided
<1>o. \A s \in {"reserve", "manifest", "insert", "project", "sync"} : s \in Recording
  BY DEF Recording
<1>0. ASSUME task'.step \in {"idle", "build", "reserve", "manifest", "insert", "event"},
             task'.event # "FUSED"
      PROVE  TaskIsListed'
  BY <1>0 DEF TaskIsListed
<1>e. ASSUME NEW s \in {"commit", "publish", "after"}, Goto(s), Lists(ledger', task.cand),
             s # "commit" => HasEvent(ledger', task.cand, task.event),
             \A c : Lists(ledger', c) => Lists(ledger, c),
             \A c, type : HasEvent(ledger, c, type) => HasEvent(ledger', c, type),
             replaced' = replaced
      PROVE  TaskIsListed'
  BY <1>e, <1>t, GotoStep DEF TaskIsListed
<1>1. ASSUME NEW c \in Candidates, StartRefresh(c) \/ DropDelta(c) PROVE TaskIsListed'
  BY <1>1, <1>n, <1>0 DEF StartRefresh, DropDelta
<1>2. ASSUME NEW c \in Candidates, Promote(c) PROVE TaskIsListed'
  BY <1>2, <1>t, PromotedTable, NoLedgerIsNoLedger, SameRows DEF MarkedAs, LedgerInvariant,
     CopiesAgree, CopyAgrees, StatesAreTold, Tells, TaskIsListed
<1>3. CASE CommandFails \/ BuildEnds \/ AppendEnds \/ SyncCandidate \/ PersistDecided \/ CommitFuse
           \/ LedgerCrash \/ EndDrop
  <2>1. task' = NoTask
    BY <1>3, <1>t, TaskTable DEF CommandFails, BuildEnds, AppendEnds, Raises
  <2> QED
    BY <1>0, <1>n, <2>1
<1>4. CASE BuildWaits \/ (task.step \in {"reserve", "manifest"}
                          /\ \E s \in {"manifest", "insert"} : Goto(s))
  BY <1>4, <1>t, GotoStep, <1>0 DEF BuildWaits, TaskIsSound, Recording
<1>5. CASE InsertRow
  <2>1. /\ task'.step = "project" /\ task'.cand = task.cand /\ task'.event = "NONE"
        /\ copies' = copies /\ task.step = "insert"
    BY <1>5, <1>t, GotoStep DEF InsertRow, At, TaskIsSound, Recording
  <2>2. \A c \in Candidates : copies[c] # NoLedger => ~Lists(copies[c], task.cand)
    BY <2>1, StandingAre, NotYetListed
  <2>3. Eventless(ledger', task.cand)
    BY <1>5, <1>t, InsertedLists
  <2> QED
    BY <2>1, <2>2, <2>3 DEF TaskIsListed
<1>6. CASE ProjectRow
  BY <1>6, <1>t, GotoStep DEF ProjectRow, At, TaskIsSound, Recording, TaskIsListed
<1>7. CASE FileComes
  BY <1>7, SameRows, <1>e DEF FileComes
<1>8. CASE CommitEvent
  BY <1>8, CommittedLists, <1>t, RowsGoOn, StillTold, <1>e, EventIsListed DEF CommitEvent
<1>9. CASE PublishEvent
  BY <1>9, <1>t, <1>e DEF PublishEvent, At, TaskIsListed
<1>10. CASE SyncDecision
  BY <1>10, <1>t, GotoStep, SyncedTable, SameRows, <1>n DEF SyncDecision, At, TaskIsListed
<1>11. ASSUME NEW c \in Candidates, NEW d \in Decided, Decide(c, d) PROVE TaskIsListed'
  <2>1. /\ ledger' = ledger /\ copies' = copies /\ copies[c] # NoLedger
        /\ ledger.states[c] = "AWAITING_FUSE"
        /\ task' = [step |-> IF Lists(ledger, c) THEN "event" ELSE "persist",
                    cand |-> c, event |-> d]
    BY <1>11 DEF Decide
  <2>2. task'.cand = c /\ task'.event = d /\ d # "FUSED"
    BY <1>n, <2>1
  <2>3. CASE Lists(ledger, c)
    BY <1>0, <2>1, <2>2, <2>3
  <2>4. CASE ~Lists(ledger, c)
    BY <2>1, <2>4, <2>2 DEF LedgerInvariant, CopiesAgree, CopyAgrees, TaskIsListed
  <2> QED
    BY <2>3, <2>4
<1>12. CASE UNCHANGED ledgerVars
  BY <1>12, <1>t DEF ledgerVars, TaskIsListed
<1> QED
  BY <1>1, <1>2, <1>3, <1>4, <1>5, <1>6, <1>7, <1>8, <1>9, <1>10, <1>11, <1>12,
     StepTable DEF GoesQuietly

-----------------------------------------------------------------------------
(* What the states tell.                                                   *)

\* A state that is written tells what its ledger has.
Covered(l, c, status) ==
    Lists(l, c) => /\ status \in {"APPROVED", "FUSE_FAILED"} => HasEvent(l, c, "APPROVE")
                   /\ status = "REJECTED" => HasEvent(l, c, "REJECT")
                   /\ status = "FUSED" => HasEvent(l, c, "APPROVE") /\ HasEvent(l, c, "FUSED")

LEMMA MarkedTells ==
    ASSUME NEW l, NEW m, NEW c \in Candidates, NEW status, MarkedAs(l, m, c, status),
           \A x \in Candidates \ {c} : Covered(l, x, l.states[x]), Covered(l, c, status)
    PROVE  Tells(m)
<1>1. \A x \in Candidates : Covered(m, x, m.states[x])
  BY SameRows DEF MarkedAs, Covered
<1> QED
  BY <1>1 DEF Tells, Covered

LEMMA TellsCovered ==
    ASSUME NEW l, Tells(l)
    PROVE  \A c \in Candidates : Covered(l, c, l.states[c])
  BY DEF Tells, Covered

\* A ledger with the same states that goes on from another tells as much.
LEMMA TellsOn ==
    ASSUME NEW l, NEW m, Tells(l), m.states = l.states,
           \A c, type : HasEvent(l, c, type) => HasEvent(m, c, type),
           \A c \in Candidates : Lists(m, c) =>
               Lists(l, c) \/ m.states[c] \notin {"APPROVED", "FUSE_FAILED", "REJECTED", "FUSED"}
    PROVE  Tells(m)
  BY DEF Tells

\* The ledger after a step tells of every state.
LEMMA LedgerTells ==
    ASSUME LedgerInvariant, [LedgerNext]_ledgerVars
    PROVE  Tells(ledger')
<1>t. /\ LedgerTypeOK /\ TaskIsSound /\ TaskIsListed /\ StatesAreTold
      /\ Tells(ledger) /\ \A c \in Candidates : Covered(ledger, c, ledger.states[c])
  BY TellsCovered DEF LedgerInvariant, StatesAreTold
<1>m. ASSUME NEW c \in Candidates, NEW status, MarkedAs(ledger, ledger', c, status),
             status \notin {"APPROVED", "FUSE_FAILED", "REJECTED", "FUSED"}
      PROVE  Tells(ledger')
  BY <1>m, <1>t, MarkedTells DEF Covered
<1>s. ASSUME ledger'.rows = ledger.rows, ledger'.states = ledger.states
      PROVE  Tells(ledger')
  BY <1>s, <1>t, SameRows, TellsOn
<1>1. ASSUME NEW c \in Candidates, StartRefresh(c) \/ DropDelta(c) PROVE Tells(ledger')
  BY <1>1, <1>t, StartedTable, DroppedTable, <1>m
<1>2. CASE CommandFails \/ BuildEnds \/ BuildWaits
  BY <1>2, <1>m DEF CommandFails, BuildEnds, BuildWaits
<1>3. CASE GoesQuietly \/ FileComes
  BY <1>3, <1>s DEF GoesQuietly, NothingMoves, FileComes
<1>4. CASE SyncCandidate \/ SyncDecision \/ LedgerCrash
  BY <1>4, <1>s DEF SyncCandidate, SyncDecision, LedgerCrash
<1>5. ASSUME NEW l, Raises(l) PROVE Tells(ledger')
  BY <1>5, NoLedgerIsNoLedger, <1>t, TellsCovered, MarkedTells, <1>s DEF Raises,
     StatesAreTold, TaskIsListed, Covered
<1>6. CASE InsertRow
  <2>1. /\ ledger'.states = ledger.states /\ task.step = "insert"
        /\ task.cand \in Candidates
    BY <1>6, <1>t, InsertedRow DEF InsertRow, At, TaskIsSound, NoTask
  <2>2. ledger.states[task.cand] = "AWAITING_FUSE"
    BY <1>t, <2>1 DEF StatesAreTold, TaskIsTold, Recording
  <2>3. \A c, type : HasEvent(ledger, c, type) => HasEvent(ledger', c, type)
    BY <1>6, <1>t, RowsGoOn, StillTold
  <2>4. \A c \in Candidates : Lists(ledger', c) =>
           Lists(ledger, c)
           \/ ledger'.states[c] \notin {"APPROVED", "FUSE_FAILED", "REJECTED", "FUSED"}
    BY <1>6, <1>t, <2>1, <2>2, InsertedLists
  <2> QED
    BY <1>t, <2>1, <2>3, <2>4, TellsOn
<1>7. CASE CommitEvent
  BY <1>7, <1>t, CommittedEvent, RowsGoOn, StillTold, CommittedLists, TellsOn
<1>8. CASE PersistDecided
  BY <1>8, <1>t, PersistTable, MarkedTells DEF PersistDecided, At, TaskIsListed, Covered,
     StatusOf, Decided
<1>9. ASSUME NEW c \in Candidates, Promote(c) PROVE Tells(ledger')
  <2>1. MarkedAs(copies[c], ledger', c, "FUSING") /\ copies[c] # NoLedger
    BY <1>9, <1>t, PromotedTable, NoLedgerIsNoLedger
  <2>2. \A x \in Candidates \ {c} : copies[c].states[x] = "NOT_STARTED"
    BY <1>t, <2>1 DEF StatesAreTold, TaskIsTold, CopiesTell
  <2>3. /\ Covered(copies[c], c, "FUSING")
        /\ \A x \in Candidates \ {c} : Covered(copies[c], x, copies[c].states[x])
    BY <2>2 DEF Covered
  <2> QED
    BY <2>1, <2>3, MarkedTells
<1>10. CASE CommitFuse
  BY <1>10, <1>t, FusedTable, MarkedTells DEF CommitFuse, At, TaskIsListed, Covered
<1> QED
  BY <1>1, <1>2, <1>3, <1>4, <1>5, <1>6, <1>7, <1>8, <1>9, <1>10, StepTable DEF AppendEnds

\* The ledger set aside is the one of the brain when the fuse began.
LEMMA SetAsideStays ==
    ASSUME LedgerInvariant, [LedgerNext]_ledgerVars, \A c \in Candidates : ~Promote(c)
    PROVE  replaced' \in {replaced, NoLedger}
<1>1. CASE \E c \in Candidates : StartRefresh(c) \/ DropDelta(c) \/ \E d \in Decided : Decide(c, d)
  BY <1>1 DEF StartRefresh, DropDelta, Decide
<1>2. CASE \/ EndBuild \/ Reserve \/ WriteManifest \/ InsertRow \/ ProjectRow \/ RecordFails
           \/ SyncCandidate \/ WriteEventFile \/ CommitEvent
  BY <1>2 DEF EndBuild, Reserve, WriteManifest, InsertRow, ProjectRow, RecordFails,
              SyncCandidate, WriteEventFile, CommitEvent, AppendRaises
<1>3. CASE \/ PublishEvent \/ AppendFails \/ SyncDecision \/ PersistDecided \/ CommitFuse
           \/ EndDrop \/ LedgerCrash \/ UNCHANGED ledgerVars
  BY <1>3 DEF PublishEvent, AppendFails, SyncDecision, PersistDecided, CommitFuse, EndDrop,
              LedgerCrash, ledgerVars, AppendRaises
<1> QED
  BY <1>1, <1>2, <1>3 DEF LedgerNext

LEMMA CopiesTellStep ==
    ASSUME LedgerInvariant, [LedgerNext]_ledgerVars
    PROVE  CopiesTell'
<1>t. LedgerTypeOK /\ TaskIsSound /\ StatesAreTold /\ CopiesTell
  BY DEF LedgerInvariant, StatesAreTold
<1>c. ASSUME NEW c \in Candidates, OthersStay(c),
             \/ copies'[c] = NoLedger \/ copies'[c] = copies[c]
             \/ \A x \in Candidates \ {c} : copies'[c].states[x] = "NOT_STARTED"
      PROVE  CopiesTell'
  BY <1>c, <1>t DEF CopiesTell, OthersStay
<1>0. ASSUME copies' = copies PROVE CopiesTell'
  BY <1>0, <1>t DEF CopiesTell
<1>1. ASSUME NEW c \in Candidates, StartRefresh(c) \/ Promote(c) \/ DropDelta(c)
      PROVE  CopiesTell'
  BY <1>1, <1>c, <1>t, StartedTable, PromotedTable, DroppedTable
<1>2. CASE CommandFails \/ PersistDecided \/ SyncCandidate \/ SyncDecision
  <2>1. /\ task.cand \in Candidates /\ copies[task.cand] # NoLedger
        /\ OthersStay(task.cand)
        /\ \A x \in Candidates \ {task.cand} :
              copies'[task.cand].states[x] = copies[task.cand].states[x]
    BY <1>2, <1>t, PersistTable, SyncedTable, NoLedgerIsNoLedger DEF CommandFails, MarkedAs
  <2> QED
    BY <1>c, <1>t, <2>1 DEF CopiesTell
<1>3. CASE BuildEnds
  BY <1>3, <1>c DEF BuildEnds
<1>4. CASE BuildWaits \/ GoesQuietly \/ FileComes \/ InsertRow \/ CommitEvent \/ CommitFuse
           \/ LedgerCrash
  BY <1>4, <1>0 DEF BuildWaits, GoesQuietly, NothingMoves, FileComes, InsertRow, CommitEvent,
                    CommitFuse, LedgerCrash
<1>5. ASSUME NEW l, Raises(l) PROVE CopiesTell'
  BY <1>5, <1>t, <1>c, <1>0 DEF Raises, MarkedAs, StatesAreTold, TaskIsTold, CopiesTell
<1> QED
  BY <1>1, <1>2, <1>3, <1>4, <1>5, StepTable DEF AppendEnds

LEMMA TaskIsToldStep ==
    ASSUME LedgerInvariant, [LedgerNext]_ledgerVars
    PROVE  TaskIsTold'
<1>t. LedgerTypeOK /\ TaskIsSound /\ TaskIsTold
  BY DEF LedgerInvariant, StatesAreTold
<1>n. /\ NoTask.step = "idle" /\ NoTask.event = "NONE"
      /\ "idle" \notin Recording /\ "event" \notin Recording /\ "persist" \notin Recording
      /\ "NONE" \notin Decided \cup {"FUSED"} /\ "FUSED" \notin Decided
      /\ "DROPPED" \notin Decided \cup {"FUSED"}
  BY DEF NoTask, Recording, Decided
<1>0. ASSUME task' = NoTask PROVE TaskIsTold'
  BY <1>0, <1>n DEF TaskIsTold
<1>g. ASSUME NEW s, Goto(s), ledger'.states = ledger.states, replaced' = replaced,
             s \in Recording \ {"build"} => task.step \in Recording \ {"build"},
             s # "build"
      PROVE  TaskIsTold'
  BY <1>g, <1>t, GotoStep DEF TaskIsTold
<1>1. ASSUME NEW c \in Candidates, StartRefresh(c) PROVE TaskIsTold'
  BY <1>1, <1>t, StartedTable, <1>n DEF MarkedAs, StartRefresh, TaskIsTold
<1>2. ASSUME NEW c \in Candidates, Promote(c) PROVE TaskIsTold'
  BY <1>2, <1>t, PromotedTable, NoLedgerIsNoLedger, <1>n DEF MarkedAs, LedgerInvariant,
     StatesAreTold, CopiesTell, TaskIsTold
<1>3. ASSUME NEW c \in Candidates, DropDelta(c) PROVE TaskIsTold'
  BY <1>3, <1>n DEF DropDelta, TaskIsTold
<1>4. ASSUME NEW c \in Candidates, NEW d \in Decided, Decide(c, d) PROVE TaskIsTold'
  BY <1>4, <1>n DEF Decide, TaskIsTold
<1>5. CASE CommandFails \/ BuildEnds \/ AppendEnds \/ SyncCandidate \/ PersistDecided \/ CommitFuse
           \/ LedgerCrash \/ EndDrop
  <2>1. task' = NoTask
    BY <1>5, <1>t, TaskTable DEF CommandFails, BuildEnds, AppendEnds, Raises
  <2> QED
    BY <1>0, <2>1
<1>6. CASE BuildWaits
  BY <1>6, <1>t, GotoStep, <1>n DEF BuildWaits, MarkedAs, TaskIsSound, Recording,
     TaskIsTold
<1>7. CASE GoesQuietly /\ task.step \in {"reserve", "manifest"}
                 /\ \E s \in {"manifest", "insert"} : Goto(s)
  BY <1>7, <1>g DEF GoesQuietly, NothingMoves, Recording
<1>8. CASE InsertRow \/ CommitEvent
  BY <1>8, <1>t, InsertedRow, CommittedEvent, <1>g DEF InsertRow, CommitEvent, At,
     Recording
<1>9. CASE ProjectRow \/ PublishEvent \/ SyncDecision
  BY <1>9, <1>g DEF ProjectRow, PublishEvent, SyncDecision, At, Recording
<1>10. CASE FileComes
  BY <1>10, <1>g DEF FileComes, Recording
<1>11. CASE UNCHANGED ledgerVars
  BY <1>11, <1>t DEF ledgerVars, TaskIsTold
<1> QED
  BY <1>1, <1>2, <1>3, <1>4, <1>5, <1>6, <1>7, <1>8, <1>9, <1>10, <1>11, StepTable DEF
     GoesQuietly

LEMMA StatesStep == LedgerInvariant /\ [LedgerNext]_ledgerVars => StatesAreTold'
<1> SUFFICES ASSUME LedgerInvariant, [LedgerNext]_ledgerVars PROVE StatesAreTold'
  OBVIOUS
<1>1. Tells(ledger') /\ TaskIsTold' /\ CopiesTell'
  BY LedgerTells, TaskIsToldStep, CopiesTellStep
<1>2. replaced' # NoLedger => Tells(replaced')
  BY SetAsideStays, PromotedTable, TellsCovered, MarkedTells DEF LedgerInvariant,
     StatesAreTold, Covered
<1> QED
  BY <1>1, <1>2 DEF StatesAreTold

-----------------------------------------------------------------------------
(* What the copies have.                                                   *)

\* What the copy of candidate c has, seen from ledger l.
CopyAgree(l, copy, c) ==
    /\ l.states[c] \in {"APPROVED", "FUSE_FAILED"} /\ Lists(copy, c) =>
          HasEvent(copy, c, "APPROVE")
    /\ l.states[c] = "AWAITING_FUSE" /\ ~Lists(l, c) => ~Lists(copy, c)

\* A step does to ledger and copies what leaves the agreement of a candidate alone.
LEMMA AgreesOn ==
    ASSUME NEW l, NEW m, NEW c, NEW copy, NEW after, CopyAgree(l, copy, c),
           m.states[c] = l.states[c], Lists(l, c) => Lists(m, c), after.rows = copy.rows
    PROVE  CopyAgree(m, after, c)
  BY SameRows DEF CopyAgree

LEMMA AgreesUntold ==
    ASSUME NEW l, NEW c, NEW copy,
           l.states[c] \notin {"APPROVED", "FUSE_FAILED", "AWAITING_FUSE"}
    PROVE  CopyAgree(l, copy, c)
  BY DEF CopyAgree

LEMMA CopiesAgreeAre ==
    ASSUME NEW l
    PROVE  CopyAgrees(l) <=>
              \A c \in Candidates : copies[c] # NoLedger => CopyAgree(l, copies[c], c)
  BY DEF CopyAgrees, CopyAgree

LEMMA CopiesAgreeStep == LedgerInvariant /\ [LedgerNext]_ledgerVars => CopiesAgree'
<1> SUFFICES ASSUME LedgerInvariant, [LedgerNext]_ledgerVars PROVE CopiesAgree'
  OBVIOUS
<1>t. LedgerTypeOK /\ TaskIsSound /\ TaskIsListed /\ StatesAreTold
  BY DEF LedgerInvariant
<1>a. /\ \A c \in Candidates : copies[c] # NoLedger => CopyAgree(ledger, copies[c], c)
      /\ replaced # NoLedger => \A c \in Candidates :
            copies[c] # NoLedger => CopyAgree(replaced, copies[c], c)
  BY CopiesAgreeAre DEF LedgerInvariant, CopiesAgree
<1> DEFINE Agree(l) ==
        \A c \in Candidates : copies'[c] # NoLedger => CopyAgree(l, copies'[c], c)
<1>q. ASSUME Agree(ledger'), replaced' # NoLedger => Agree(replaced')
      PROVE  CopiesAgree'
  BY <1>q DEF CopiesAgree, CopyAgrees, CopyAgree
<1> HIDE DEF Agree
\* The ledger of the brain is marked for one candidate, no ledger is set aside.
<1>m. ASSUME NEW c \in Candidates, NEW status, MarkedAs(ledger, ledger', c, status),
             OthersStay(c), replaced' = NoLedger,
             \/ status \notin {"APPROVED", "FUSE_FAILED", "AWAITING_FUSE"}
             \/ copies'[c] # NoLedger => CopyAgree(ledger', copies'[c], c)
      PROVE  CopiesAgree'
  <2>1. \A x \in Candidates \ {c} : copies[x] # NoLedger => CopyAgree(ledger', copies[x], x)
    BY <1>m, <1>a, AgreesOn, SameRows DEF MarkedAs
  <2>2. copies'[c] # NoLedger => CopyAgree(ledger', copies'[c], c)
    BY <1>m, AgreesUntold DEF MarkedAs
  <2>3. Agree(ledger')
    BY <1>m, <2>1, <2>2 DEF Agree, OthersStay
  <2> QED
    BY <1>m, <1>q, <2>3
\* Nothing of it moves, or the ledger goes on.
<1>s. ASSUME copies' = copies, ledger'.states = ledger.states,
             \A c : Lists(ledger, c) => Lists(ledger', c), replaced' \in {replaced, NoLedger}
      PROVE  CopiesAgree'
  BY <1>s, <1>a, AgreesOn, <1>q DEF Agree
<1>1. ASSUME NEW c \in Candidates, StartRefresh(c) \/ DropDelta(c) PROVE CopiesAgree'
  BY <1>1, <1>t, NothingSetAside, StartedTable, DroppedTable, <1>m DEF StartRefresh,
     DropDelta
<1>2. CASE CommandFails \/ BuildEnds
  BY <1>2, <1>t, NothingSetAside, <1>m DEF CommandFails, BuildEnds, Recording
<1>3. CASE BuildWaits
  BY <1>3, <1>t, NothingSetAside, NotYetListed, StandingAre, <1>m DEF BuildWaits,
     Recording, CopyAgree, MarkedAs, OthersStay
<1>4. CASE GoesQuietly \/ FileComes
  BY <1>4, <1>s, SameRows DEF GoesQuietly, NothingMoves, FileComes
<1>5. CASE LedgerCrash
  BY <1>5, <1>s DEF LedgerCrash
<1>6. CASE InsertRow \/ CommitEvent
  BY <1>6, <1>t, InsertedRow, CommittedEvent, RowsGoOn, StillTold, <1>s DEF InsertRow,
     CommitEvent
<1>7. CASE SyncCandidate \/ SyncDecision
  <2>1. /\ task.cand \in Candidates /\ ledger' = ledger /\ replaced' = replaced
        /\ OthersStay(task.cand) /\ copies'[task.cand].rows = ledger.rows
    BY <1>7, <1>t, SyncedTable
  <2>2. task.step \in Recording \/ task.event # "FUSED"
    BY <1>7 DEF SyncCandidate, SyncDecision, At, Recording, Decided
  <2>3. replaced = NoLedger
    BY <1>t, <2>2, NothingSetAside
  <2>4. CopyAgree(ledger, ledger, task.cand)
    BY <1>t, <2>1 DEF StatesAreTold, Tells, CopyAgree
  <2>5. CopyAgree(ledger, copies'[task.cand], task.cand)
    BY <2>1, <2>4, AgreesOn
  <2>6. Agree(ledger')
    BY <1>a, <2>1, <2>5 DEF Agree, OthersStay
  <2> QED
    BY <1>q, <2>1, <2>3, <2>6
<1>8. ASSUME NEW l, Raises(l) PROVE CopiesAgree'
  <2>1. CASE task.event = "FUSED"
    <3>1. /\ task.cand \in Candidates /\ replaced # NoLedger /\ replaced' = NoLedger
          /\ OthersStay(task.cand) /\ copies'[task.cand].rows = ledger.rows
          /\ MarkedAs(replaced, ledger', task.cand, "FUSE_FAILED")
      BY <1>8, <2>1, NoLedgerIsNoLedger DEF Raises, MarkedAs
    <3>2. Lists(ledger, task.cand) => HasEvent(ledger, task.cand, "APPROVE")
      BY <1>t, <2>1 DEF TaskIsListed
    <3>3. Lists(copies'[task.cand], task.cand) => HasEvent(copies'[task.cand], task.cand, "APPROVE")
      BY <3>1, <3>2, SameRows
    <3>4. CopyAgree(ledger', copies'[task.cand], task.cand)
      BY <3>1, <3>3 DEF CopyAgree, MarkedAs
    <3>5. \A x \in Candidates \ {task.cand} :
             copies[x] # NoLedger => CopyAgree(ledger', copies[x], x)
      BY <1>a, <3>1, AgreesOn, SameRows DEF MarkedAs
    <3>6. Agree(ledger')
      BY <3>1, <3>4, <3>5 DEF Agree, OthersStay
    <3> QED
      BY <1>q, <3>1, <3>6
  <2>2. CASE task.event # "FUSED"
    BY <1>s, <1>8, <2>2, SameRows DEF Raises
  <2> QED
    BY <2>1, <2>2
<1>9. CASE PersistDecided
  <2>1. /\ task.cand \in Candidates /\ task.event \in Decided /\ task.step = "persist"
        /\ MarkedAs(ledger, ledger', task.cand, StatusOf(task.event))
        /\ copies'[task.cand].rows = copies[task.cand].rows
        /\ OthersStay(task.cand) /\ replaced' = replaced
    BY <1>9, <1>t, PersistTable DEF PersistDecided, At, MarkedAs
  <2>2. replaced = NoLedger
    BY <1>t, <2>1, NothingSetAside DEF Decided
  <2>3. Lists(copies[task.cand], task.cand) =>
           HasEvent(copies[task.cand], task.cand, task.event)
    BY <1>t, <2>1 DEF TaskIsListed
  <2>4. Lists(copies'[task.cand], task.cand) =>
           HasEvent(copies'[task.cand], task.cand, task.event)
    BY <2>1, <2>3, SameRows
  <2>5. ledger'.states[task.cand] = StatusOf(task.event)
    BY <2>1 DEF MarkedAs
  <2>6. CopyAgree(ledger', copies'[task.cand], task.cand)
    BY <2>1, <2>4, <2>5 DEF CopyAgree, StatusOf, Decided
  <2> QED
    BY <1>m, <2>1, <2>2, <2>6
<1>10. ASSUME NEW c \in Candidates, Promote(c) PROVE CopiesAgree'
  BY <1>10, <1>t, PromotedTable, NoLedgerIsNoLedger, AgreesUntold, <1>a, AgreesOn,
     SameRows, <1>q DEF StatesAreTold, CopiesTell, MarkedAs, Agree, OthersStay
<1>11. CASE CommitFuse
  BY <1>11, <1>t, FusedTable, <1>m DEF OthersStay
<1> QED
  BY <1>1, <1>2, <1>3, <1>4, <1>5, <1>6, <1>7, <1>8, <1>9, <1>10, <1>11, StepTable
     DEF AppendEnds

\* A copy without events after a step is one from before it, but for the one made when
\* the delta was recorded.
LEMMA CopyRowsStay ==
    ASSUME LedgerInvariant, [LedgerNext]_ledgerVars, NEW c \in Candidates,
           copies'[c] # NoLedger, Eventless(copies'[c], c)
    PROVE  \/ copies[c] # NoLedger /\ copies'[c].rows = copies[c].rows
           \/ SyncCandidate /\ c = task.cand
<1>t. /\ LedgerTypeOK /\ TaskIsSound /\ TaskIsListed /\ NamedOnce
      /\ Numbered(ledger, named)
  BY StandingTyped, StandingAre DEF LedgerInvariant
<1>0. ASSUME NEW x \in Candidates, OthersStay(x),
             x = c => \/ copies[c] # NoLedger /\ copies'[c].rows = copies[c].rows
                      \/ copies'[c] = copies[c]
      PROVE  copies[c] # NoLedger /\ copies'[c].rows = copies[c].rows
  BY <1>0 DEF OthersStay
<1>1. ASSUME NEW x \in Candidates, StartRefresh(x)
      PROVE  copies[c] # NoLedger /\ copies'[c].rows = copies[c].rows
  BY <1>1, <1>t, StartedTable, NotYetListed, StandingAre, SameRows, <1>0
<1>2. ASSUME NEW x \in Candidates, Promote(x) \/ DropDelta(x)
      PROVE  copies[c] # NoLedger /\ copies'[c].rows = copies[c].rows
  BY <1>2, <1>t, PromotedTable, DroppedTable, <1>0
<1>3. CASE CommandFails \/ PersistDecided
  BY <1>3, <1>t, PersistTable, NoLedgerIsNoLedger, <1>0 DEF CommandFails, MarkedAs
<1>4. CASE BuildEnds
  BY <1>4, <1>0 DEF BuildEnds
<1>5. CASE BuildWaits \/ GoesQuietly \/ FileComes \/ InsertRow \/ CommitEvent \/ CommitFuse
           \/ LedgerCrash
  BY <1>5 DEF BuildWaits, GoesQuietly, NothingMoves, FileComes, InsertRow, CommitEvent,
              CommitFuse, LedgerCrash
<1>6. CASE SyncCandidate
  BY <1>6, <1>t, SyncedTable DEF OthersStay
<1>7. CASE SyncDecision
  BY <1>7, <1>t, SyncedTable, NoEventsNone, SameRows, <1>0 DEF SyncDecision, At,
     TaskIsListed
<1>8. ASSUME NEW l, Raises(l)
      PROVE  copies[c] # NoLedger /\ copies'[c].rows = copies[c].rows
  <2>1. CASE task.event = "FUSED"
    BY <1>8, <2>1, <1>t, NoEventsNone, EventIsListed, SameRows, <1>0 DEF Raises, MarkedAs,
       TaskIsListed
  <2>2. CASE task.event # "FUSED"
    BY <1>8, <2>2 DEF Raises
  <2> QED
    BY <2>1, <2>2
<1> QED
  BY <1>1, <1>2, <1>3, <1>4, <1>5, <1>6, <1>7, <1>8, StepTable DEF AppendEnds

LEMMA OlderStep == LedgerInvariant /\ [LedgerNext]_ledgerVars => CopiesAreOlder'
<1> SUFFICES ASSUME LedgerInvariant, [LedgerNext]_ledgerVars, NEW c \in Candidates,
                    copies'[c] # NoLedger, Eventless(copies'[c], c),
                    NEW m \in Standing', Lists(m, c)
             PROVE  Continues(copies'[c], m)
  BY DEF CopiesAreOlder
<1>t. /\ LedgerTypeOK /\ TaskIsSound /\ TaskIsListed /\ CopiesAreOlder
  BY DEF LedgerInvariant
<1>1. CASE SyncCandidate /\ c = task.cand
  BY <1>1, <1>t, SyncedTable, NothingSetAside, GoesOnItself, SameRows DEF SyncCandidate,
     At, Recording, TaskIsListed, Standing, OtherLedgers, OthersStay
<1>2. CASE copies[c] # NoLedger /\ copies'[c].rows = copies[c].rows
  <2>1. Eventless(copies[c], c)
    BY <1>2, SameRows
  <2>2. \A l \in Standing : Lists(l, c) => Continues(copies[c], l)
    BY <1>2, <1>t, <2>1 DEF CopiesAreOlder
  <2>3. \E l : Lists(l, c) /\ Continues(copies[c], l) /\ Continues(l, m)
    <3>1. CASE ~InsertRow /\ ~CommitEvent
      BY <3>1, LedgersStay, GoesOnItself, SameRows, <2>2 DEF Like
    <3>2. CASE InsertRow \/ CommitEvent
      <4>1. copies' = copies /\ replaced' = replaced
        BY <3>2 DEF InsertRow, CommitEvent
      <4>2. m \in Standing \/ m = ledger'
        BY <4>1 DEF Standing, OtherLedgers
      <4>3. CASE m \in Standing
        BY <2>2, <4>3, GoesOnItself
      <4>4. CASE m = ledger'
        <5>1. Continues(ledger, ledger')
          BY <1>t, <3>2, RowsGoOn
        <5>2. Lists(ledger, c)
          BY <4>4, CommittedLists, <1>2, <2>1, NotYetListed, StandingAre, <1>t,
             InsertedLists, <3>2 DEF InsertRow, At
        <5> QED
          BY <2>2, <4>4, <5>1, <5>2, StandingAre
      <4> QED
        BY <4>2, <4>3, <4>4
    <3> QED
      BY <3>1, <3>2
  <2>4. Continues(copies[c], m)
    BY <2>3, GoesOnTwice
  <2> QED
    BY <1>2, <2>4, SameRows
<1> QED
  BY <1>1, <1>2, CopyRowsStay

-----------------------------------------------------------------------------
(* The files without an event.                                             *)

LEMMA MarkedFiles ==
    ASSUME NEW l, NEW m, NEW c, NEW status, MarkedAs(l, m, c, status), FilesTold(l)
    PROVE  FilesTold(m)
  BY SameRows DEF MarkedAs, FilesTold

\* Without a crash after a step there was none before it.
LEMMA NoCrashStep ==
    ASSUME LedgerInvariant, [LedgerNext]_ledgerVars, ledgerFaults'.crash = 0
    PROVE  /\ ~LedgerCrash
           /\ OthersAreTold /\ LedgerIsTold /\ WaitingAreUntouched /\ CopyIsLess
           /\ \A c \in Candidates : copies[c] # NoLedger => FilesTold(copies[c])
           /\ replaced # NoLedger => FilesTold(replaced)
           /\ task.step # "commit" => FilesTold(ledger)
<1>t. LedgerTypeOK /\ FilesAreTold
  BY DEF LedgerInvariant
<1>1. ~LedgerCrash
  BY <1>t, FaultIsCounted DEF LedgerCrash
<1>2. NoCrash
  <2>1. ASSUME NEW c \in Candidates, StartRefresh(c) \/ Promote(c) \/ DropDelta(c) PROVE NoCrash
    BY <2>1 DEF StartRefresh, Promote, DropDelta, NoCrash
  <2>2. CASE CommandFails \/ BuildEnds \/ BuildWaits \/ GoesQuietly \/ AppendEnds \/ FileComes
    BY <2>2 DEF CommandFails, BuildEnds, BuildWaits, GoesQuietly, NothingMoves, AppendEnds,
       Raises, FileComes
  <2>3. CASE \/ InsertRow \/ SyncCandidate \/ CommitEvent \/ SyncDecision
             \/ PersistDecided \/ CommitFuse
    BY <2>3 DEF InsertRow, SyncCandidate, CommitEvent, SyncDecision, PersistDecided,
                CommitFuse, NoCrash
  <2> QED
    BY <1>1, <2>1, <2>2, <2>3, StepTable
<1>3. ledgerFaults.crash = 0
  BY <1>2 DEF NoCrash
<1>4. OthersAreTold /\ LedgerIsTold /\ WaitingAreUntouched /\ CopyIsLess
  BY <1>t, <1>3 DEF FilesAreTold
<1>5. /\ \A c \in Candidates : copies[c] # NoLedger => FilesTold(copies[c])
      /\ replaced # NoLedger => FilesTold(replaced)
  BY <1>4 DEF OthersAreTold, OtherLedgers
<1>6. task.step # "commit" => FilesTold(ledger)
  BY <1>4 DEF LedgerIsTold, At, FilesTold
<1> QED
  BY <1>1, <1>4, <1>5, <1>6

\* An append that fails leaves no file too many.
LEMMA RaisesTold ==
    ASSUME LedgerInvariant, LedgerIsTold, AppendEnds
    PROVE  \E l : Raises(l) /\ FilesTold(l)
<1>1. CASE Raises(ledger) /\ task.step = "event"
  BY <1>1 DEF LedgerIsTold, At, FilesTold
<1>2. CASE Raises(WithoutItsFile) /\ task.step \in {"commit", "publish"}
  BY UnlinkLedger, SameRows, <1>2 DEF LedgerInvariant, LedgerIsTold, At, FilesTold
<1> QED
  BY <1>1, <1>2 DEF AppendEnds

\* The event of a file that came is committed.
LEMMA CommittedTold ==
    ASSUME LedgerInvariant, LedgerIsTold, CommitEvent
    PROVE  FilesTold(ledger')
<1>t. LedgerTypeOK /\ TaskIsSound
  BY DEF LedgerInvariant
<1>1. /\ ledger'.files = ledger.files
      /\ DOMAIN ledger'.rows = DOMAIN ledger.rows
      /\ \A n \in DOMAIN ledger.rows :
            /\ ledger.rows[n].events \in Seq(EventTypes)
            /\ ledger.rows[n].cand = task.cand =>
                   ledger'.rows[n].events = Append(ledger.rows[n].events, task.event)
  BY <1>t, CommittedEvent
<1>2. PICK n \in DOMAIN ledger.rows :
          /\ ledger.rows[n].cand = task.cand
          /\ EventPlace(ledger, task.cand) = Len(ledger.rows[n].events)
          /\ \A k, type : FileOf(ledger, task.cand, k, type)
                            = {[delta |-> n, place |-> k, type |-> type]}
  BY CommittedFile
<1> DEFINE place == Len(ledger.rows[n].events) + 1
           file == [delta |-> n, place |-> place, type |-> task.event]
<1>3. /\ place \in DOMAIN ledger'.rows[n].events
      /\ ledger'.rows[n].events[place] = task.event
  BY <1>1, <1>2, AppendedType
<1>4. FileOf(ledger, task.cand, EventPlace(ledger, task.cand) + 1, task.event) = {file}
  BY <1>2
<1>5. file.delta = n /\ file.place = place /\ file.type = task.event
  OBVIOUS
<1>6. IsTold(ledger', file)
  BY <1>1, <1>3, <1>5 DEF IsTold
<1>7. \A f : IsTold(ledger, f) => IsTold(ledger', f)
  BY <1>t, RowsGoOn, StillTold
<1> HIDE DEF file
<1> QED
  BY <1>1, <1>4, <1>6, <1>7 DEF LedgerIsTold, FilesTold

\* The files of the ledgers after a step.
LEMMA FilesToldStep ==
    ASSUME LedgerInvariant, [LedgerNext]_ledgerVars, ledgerFaults'.crash = 0
    PROVE  OthersAreTold' /\ LedgerIsTold'
<1>t. /\ LedgerTypeOK /\ TaskIsSound /\ TaskIsListed /\ CopiesAreOlder
      /\ ledger \in Ledger
  BY DEF LedgerInvariant, LedgerTypeOK
<1>f. /\ OthersAreTold /\ LedgerIsTold /\ WaitingAreUntouched /\ CopyIsLess
      /\ \A c \in Candidates : copies[c] # NoLedger => FilesTold(copies[c])
      /\ replaced # NoLedger => FilesTold(replaced)
      /\ task.step # "commit" => FilesTold(ledger)
      /\ ~LedgerCrash
  BY NoCrashStep
<1>o. ASSUME \A c \in Candidates : copies'[c] # NoLedger => FilesTold(copies'[c]),
             replaced' # NoLedger => FilesTold(replaced')
      PROVE  OthersAreTold'
  BY <1>o DEF OthersAreTold, OtherLedgers
<1>l. FilesTold(ledger') => LedgerIsTold'
  BY DEF FilesTold, LedgerIsTold
\* The copy of one candidate is another one.
<1>c. ASSUME NEW c \in Candidates, OthersStay(c), FilesTold(ledger'),
             copies'[c] # NoLedger => FilesTold(copies'[c]), replaced' \in {replaced, NoLedger}
      PROVE  OthersAreTold' /\ LedgerIsTold'
  BY <1>c, <1>f, <1>o, <1>l DEF OthersStay
<1>s. ASSUME copies' = copies, replaced' \in {replaced, NoLedger}
      PROVE  OthersAreTold'
  BY <1>s, <1>f, <1>o
<1>1. ASSUME NEW c \in Candidates, StartRefresh(c) PROVE OthersAreTold' /\ LedgerIsTold'
  BY <1>1, <1>t, StartedTable, <1>f, SameRows, MarkedFiles, <1>c DEF StartRefresh, NoTask,
     FilesTold
<1>2. ASSUME NEW c \in Candidates, DropDelta(c) PROVE OthersAreTold' /\ LedgerIsTold'
  BY <1>2, <1>t, DroppedTable, <1>f, MarkedFiles, <1>c DEF DropDelta, NoTask
<1>3. ASSUME NEW c \in Candidates, Promote(c) PROVE OthersAreTold' /\ LedgerIsTold'
  <2>1. /\ MarkedAs(copies[c], ledger', c, "FUSING") /\ MarkedAs(ledger, replaced', c, "FUSING")
        /\ copies'[c] = NoLedger /\ OthersStay(c) /\ copies[c] # NoLedger
    BY <1>3, <1>t, PromotedTable, NoLedgerIsNoLedger
  <2>2. FilesTold(ledger) /\ FilesTold(copies[c])
    BY <1>3, <1>f, <2>1 DEF Promote, NoTask
  <2>3. FilesTold(ledger') /\ FilesTold(replaced')
    BY <2>1, <2>2, MarkedFiles
  <2> QED
    BY <1>f, <1>l, <1>o, <2>1, <2>3 DEF OthersStay
<1>4. CASE CommandFails
  BY <1>4, NoLedgerIsNoLedger, <1>f, MarkedFiles, <1>c DEF CommandFails, Recording
<1>5. CASE BuildEnds \/ BuildWaits
  BY <1>5, <1>f, MarkedFiles, <1>c DEF BuildEnds, BuildWaits, OthersStay
<1>6. CASE GoesQuietly
  <2>1. /\ copies' = copies /\ replaced' = replaced
        /\ ledger'.rows = ledger.rows /\ ledger'.files = ledger.files
    BY <1>6 DEF GoesQuietly, NothingMoves
  <2>2. CASE task.step # "commit"
    BY <1>f, <2>1, <2>2, SameRows, <1>l, <1>s DEF FilesTold
  <2>3. CASE task.step = "commit"
    <3>1. UNCHANGED ledgerVars
      BY <1>6, <2>3 DEF GoesQuietly, ProjectRow, PublishEvent, EndDrop, Decide, At, NoTask
    <3> QED
      BY <1>f, <1>s, <3>1 DEF ledgerVars, LedgerIsTold, At
  <2> QED
    BY <2>2, <2>3
<1>7. CASE AppendEnds
  BY <1>7, <1>f, RaisesTold, NoLedgerIsNoLedger, MarkedFiles, <1>c, <1>l, <1>s DEF Raises
<1>8. CASE FileComes
  <2> DEFINE f == FileOf(ledger, task.cand, EventPlace(ledger, task.cand) + 1, task.event)
  <2>1. /\ task'.step = "commit" /\ task'.cand = task.cand /\ task'.event = task.event
        /\ ledger'.rows = ledger.rows /\ ledger'.files = ledger.files \cup f
        /\ task.step = "event" /\ copies' = copies /\ replaced' = replaced
    BY <1>8, <1>t, GotoStep DEF FileComes
  <2>2. FileOf(ledger', task'.cand, EventPlace(ledger', task'.cand) + 1, task'.event) = f
    BY <2>1, SameRows
  <2>3. \A g \in ledger.files : IsTold(ledger', g)
    BY <1>f, <2>1, SameRows DEF FilesTold
  <2>4. LedgerIsTold'
    BY <2>1, <2>2, <2>3 DEF LedgerIsTold, At
  <2> QED
    BY <1>s, <2>1, <2>4
<1>9. CASE InsertRow
  <2>1. ledger'.files = ledger.files /\ copies' = copies /\ replaced' = replaced
    BY <1>9, <1>t, InsertedRow DEF InsertRow
  <2>2. FilesTold(ledger)
    BY <1>9, <1>f DEF InsertRow, At
  <2>3. FilesTold(ledger')
    BY <1>9, <1>t, <2>1, <2>2, RowsGoOn, StillTold DEF FilesTold
  <2> QED
    BY <1>l, <1>s, <2>1, <2>3
<1>10. CASE CommitEvent
  <2>1. FilesTold(ledger')
    BY <1>10, <1>f, CommittedTold
  <2> QED
    BY <1>10, <1>l, <1>s, <2>1 DEF CommitEvent
<1>11. CASE SyncCandidate \/ SyncDecision
  <2>1. /\ task.cand \in Candidates /\ copies[task.cand] # NoLedger /\ ledger' = ledger
        /\ replaced' = replaced /\ OthersStay(task.cand)
        /\ copies'[task.cand].rows = ledger.rows
        /\ copies'[task.cand].files = copies[task.cand].files \cup ledger.files
    BY <1>11, <1>t, SyncedTable, NoLedgerIsNoLedger
  <2>2. FilesTold(ledger)
    BY <1>11, <1>f DEF SyncCandidate, SyncDecision, At
  <2>3. \A f \in copies[task.cand].files : IsTold(ledger, f)
    <3>1. CASE SyncCandidate
      BY <3>1, <1>f, <2>2 DEF SyncCandidate, At, Recording, CopyIsLess, FilesTold
    <3>2. CASE SyncDecision
      <4>1. task.step = "after" /\ task.event \in Decided /\ task.step \notin Recording \cup {"persist"}
        BY <3>2 DEF SyncDecision, At, Recording
      <4>2. ledger.states[task.cand] = "AWAITING_FUSE"
        BY <4>1 DEF LedgerInvariant, StatesAreTold, TaskIsTold
      <4>3. Eventless(copies[task.cand], task.cand)
        BY <1>f, <2>1, <4>1, <4>2 DEF WaitingAreUntouched, Untouched
      <4>4. Lists(ledger, task.cand)
        BY <1>t, <4>1 DEF TaskIsListed
      <4>5. Continues(copies[task.cand], ledger)
        BY <1>t, <2>1, <4>3, <4>4, StandingAre DEF CopiesAreOlder
      <4>6. FilesTold(copies[task.cand])
        BY <1>f, <2>1
      <4> QED
        BY <4>5, <4>6, StillTold DEF FilesTold
    <3> QED
      BY <1>11, <3>1, <3>2
  <2>4. FilesTold(copies'[task.cand])
    BY <2>1, <2>2, <2>3, SameRows DEF FilesTold
  <2> QED
    BY <1>c, <2>1, <2>2, <2>4
<1>12. CASE PersistDecided
  BY <1>12, <1>t, PersistTable, NoLedgerIsNoLedger, <1>f, MarkedFiles, <1>c DEF
     PersistDecided, At
<1>13. CASE CommitFuse
  BY <1>13, <1>t, FusedTable, <1>f, MarkedFiles, <1>l, <1>s DEF CommitFuse, At
<1> QED
  BY <1>f, <1>1, <1>2, <1>3, <1>4, <1>5, <1>6, <1>7, <1>8, <1>9, <1>10, <1>11, <1>12,
     <1>13, StepTable

\* The copy of a refresh that waits for its decision is the one made at its delta.
LEMMA UntouchedStep ==
    ASSUME LedgerInvariant, [LedgerNext]_ledgerVars, ledgerFaults'.crash = 0
    PROVE  WaitingAreUntouched'
<1>t. LedgerTypeOK /\ TaskIsSound /\ TaskIsListed
  BY DEF LedgerInvariant
<1>f. WaitingAreUntouched /\ ~LedgerCrash
  BY NoCrashStep
<1>n. /\ NoTask.step = "idle" /\ "idle" \notin Recording
      /\ {"event", "commit", "publish", "after"} \cap (Recording \cup {"persist"}) = {}
  BY DEF NoTask, Recording
\* A candidate is untouched, seen from l after the step.
<1> DEFINE Keeps(l, c) == copies'[c] # NoLedger /\ l.states[c] = "AWAITING_FUSE" =>
                             \/ task'.cand = c /\ task'.step \in Recording \cup {"persist"}
                             \/ Eventless(copies'[c], c)
<1>q. ASSUME \A c \in Candidates : Keeps(ledger', c),
             replaced' # NoLedger => \A c \in Candidates : Keeps(replaced', c)
      PROVE  WaitingAreUntouched'
  BY <1>q DEF WaitingAreUntouched, Untouched
\* It was, when no command was at work on it.
<1>k. ASSUME NEW l, NEW m, NEW c \in Candidates, Untouched(l), m.states[c] = l.states[c],
             copies'[c] = copies[c],
             task.step \notin Recording \cup {"persist"} \/ task.cand # c
      PROVE  Keeps(m, c)
  BY <1>k DEF Untouched
<1> HIDE DEF Keeps
<1>u. ASSUME NEW l, NEW c, l.states[c] # "AWAITING_FUSE" PROVE Keeps(l, c)
  BY <1>u DEF Keeps
\* The ledger is marked for one candidate, and the others are let be.
<1>m. ASSUME NEW c \in Candidates, NEW l, NEW status, Untouched(l), OthersStay(c),
             MarkedAs(l, ledger', c, status), replaced' = NoLedger, Keeps(ledger', c),
             task.step \notin Recording \cup {"persist"} \/ task.cand = c
      PROVE  WaitingAreUntouched'
  <2>1. \A x \in Candidates \ {c} : Keeps(ledger', x)
    BY <1>m, <1>k DEF MarkedAs, OthersStay
  <2> QED
    BY <1>m, <1>q, <2>1
\* Nothing of it moves.
<1>s. ASSUME copies' = copies, ledger'.states = ledger.states, replaced' = replaced,
             \/ task.step \notin Recording \cup {"persist"}
             \/ task'.cand = task.cand /\ task'.step \in Recording \cup {"persist"}
      PROVE  WaitingAreUntouched'
  BY <1>s, <1>f, <1>q DEF Untouched, Keeps, WaitingAreUntouched
<1>w. Untouched(ledger) /\ (replaced # NoLedger => Untouched(replaced))
  BY <1>f DEF WaitingAreUntouched
<1>1. ASSUME NEW c \in Candidates, StartRefresh(c) \/ DropDelta(c) PROVE WaitingAreUntouched'
  BY <1>1, <1>t, NothingSetAside, StartedTable, DroppedTable, <1>u, <1>m, <1>n, <1>w DEF
     StartRefresh, DropDelta, MarkedAs
<1>2. ASSUME NEW c \in Candidates, Promote(c) PROVE WaitingAreUntouched'
  <2>1. /\ MarkedAs(copies[c], ledger', c, "FUSING") /\ MarkedAs(ledger, replaced', c, "FUSING")
        /\ OthersStay(c) /\ task = NoTask /\ copies[c] # NoLedger
    BY <1>2, <1>t, PromotedTable, NoLedgerIsNoLedger
  <2>2. \A x \in Candidates \ {c} : copies[c].states[x] = "NOT_STARTED"
    BY <2>1 DEF LedgerInvariant, StatesAreTold, CopiesTell
  <2>3. \A x \in Candidates : Keeps(ledger', x)
    BY <1>u, <2>1, <2>2 DEF MarkedAs
  <2>4. Keeps(replaced', c)
    BY <1>u, <2>1 DEF MarkedAs
  <2>5. \A x \in Candidates \ {c} : Keeps(replaced', x)
    BY <1>k, <1>n, <1>w, <2>1 DEF MarkedAs, OthersStay
  <2> QED
    BY <1>q, <2>3, <2>4, <2>5
<1>3. CASE CommandFails \/ BuildEnds
  BY <1>3, <1>t, NothingSetAside, <1>u, <1>m, <1>w DEF CommandFails, BuildEnds, Recording,
     MarkedAs
<1>4. CASE BuildWaits
  BY <1>4, <1>t, GotoStep, NothingSetAside, <1>m, <1>w DEF BuildWaits, Recording, Keeps,
     OthersStay
<1>5. CASE GoesQuietly
  <2>1. copies' = copies /\ ledger'.states = ledger.states /\ replaced' = replaced
    BY <1>5 DEF GoesQuietly, NothingMoves
  <2>2. CASE UNCHANGED ledgerVars
    BY <2>2, <1>s, <2>1 DEF ledgerVars
  <2>3. CASE \/ ProjectRow
             \/ task.step \in {"reserve", "manifest"} /\ \E s \in {"manifest", "insert"} : Goto(s)
    BY <1>t, <2>3, GotoStep, <1>s, <2>1 DEF ProjectRow, Recording
  <2>4. CASE PublishEvent \/ EndDrop \/ \E c \in Candidates : \E d \in Decided : Decide(c, d)
    BY <1>n, <2>4, <1>s, <2>1 DEF PublishEvent, EndDrop, Decide, At
  <2> QED
    BY <1>5, <2>2, <2>3, <2>4 DEF GoesQuietly
<1>6. ASSUME NEW l, Raises(l) PROVE WaitingAreUntouched'
  BY <1>6, <1>n, NoLedgerIsNoLedger, <1>u, <1>m, <1>w, <1>s DEF Raises, MarkedAs
<1>7. CASE FileComes
  BY <1>7, <1>n, <1>s DEF FileComes
<1>8. CASE InsertRow
  BY <1>8, <1>t, InsertedRow, GotoStep, <1>s DEF InsertRow, Recording
<1>9. CASE CommitEvent
  BY <1>9, <1>t, CommittedEvent, <1>n, <1>s DEF CommitEvent, At
<1>10. CASE SyncCandidate \/ SyncDecision
  <2>1. /\ task.cand \in Candidates /\ ledger' = ledger /\ replaced' = replaced
        /\ OthersStay(task.cand) /\ copies'[task.cand].rows = ledger.rows
    BY <1>10, <1>t, SyncedTable
  <2>2. task.step \in Recording \/ task.event # "FUSED"
    BY <1>10 DEF SyncCandidate, SyncDecision, At, Recording, Decided
  <2>3. replaced' = NoLedger
    BY <1>t, <2>1, <2>2, NothingSetAside
  <2>4. Keeps(ledger', task.cand)
    BY <1>t, <2>1, SameRows, GotoStep, <1>10 DEF TaskIsListed, SyncCandidate, At, Keeps,
       SyncDecision
  <2>5. \A x \in Candidates \ {task.cand} : Keeps(ledger', x)
    BY <1>k, <1>w, <2>1 DEF OthersStay
  <2> QED
    BY <1>q, <2>3, <2>4, <2>5
<1>11. CASE PersistDecided
  BY <1>11, <1>t, PersistTable, NothingSetAside, <1>u, <1>m, <1>w DEF Decided, StatusOf,
     MarkedAs
<1>12. CASE CommitFuse
  BY <1>12, <1>t, FusedTable, <1>u, <1>m, <1>w DEF MarkedAs, OthersStay
<1> QED
  BY <1>f, <1>1, <1>2, <1>3, <1>4, <1>5, <1>6, <1>7, <1>8, <1>9, <1>10, <1>11, <1>12,
     StepTable DEF AppendEnds

\* While a delta is recorded the copy has no file the ledger has not.
LEMMA CopyIsLessStep ==
    ASSUME LedgerInvariant, [LedgerNext]_ledgerVars, ledgerFaults'.crash = 0
    PROVE  CopyIsLess'
<1>t. LedgerTypeOK /\ TaskIsSound
  BY DEF LedgerInvariant
<1>f. CopyIsLess /\ ~LedgerCrash
  BY NoCrashStep
<1>0. task'.step \notin Recording => CopyIsLess'
  BY DEF CopyIsLess
<1>g. ASSUME task.step \in Recording, task'.cand = task.cand, copies' = copies,
             ledger'.files = ledger.files
      PROVE  CopyIsLess'
  BY <1>f, <1>g DEF CopyIsLess
<1>1. ASSUME NEW c \in Candidates, StartRefresh(c) PROVE CopyIsLess'
  <2>1. /\ ledger'.files = ledger.files /\ copies'[c].files = ledger.files
        /\ task'.cand = c
    BY <1>1, <1>t, StartedTable DEF MarkedAs, StartRefresh
  <2> QED
    BY <2>1 DEF CopyIsLess
<1>2. ASSUME NEW c \in Candidates,
             Promote(c) \/ DropDelta(c) \/ \E d \in Decided : Decide(c, d)
      PROVE  CopyIsLess'
  BY <1>0, <1>2 DEF Promote, DropDelta, Decide, NoTask, Recording
<1>3. CASE BuildWaits
  BY <1>3, <1>t, GotoStep, <1>g DEF BuildWaits, Recording, MarkedAs
<1>4. CASE GoesQuietly /\ (ProjectRow \/ (task.step \in {"reserve", "manifest"}
                                    /\ \E s \in {"manifest", "insert"} : Goto(s)))
  BY <1>4, <1>t, GotoStep, <1>g DEF GoesQuietly, NothingMoves, Recording, ProjectRow, At
<1>5. CASE InsertRow
  BY <1>5, <1>t, InsertedRow, GotoStep, <1>g DEF InsertRow, Recording, At
<1>6. CASE CommandFails \/ BuildEnds \/ AppendEnds \/ SyncCandidate \/ PersistDecided \/ CommitFuse
           \/ EndDrop
  <2>1. task' = NoTask
    BY <1>6, <1>t, TaskTable DEF CommandFails, BuildEnds, AppendEnds, Raises
  <2> QED
    BY <1>0, <2>1 DEF NoTask, Recording
<1>7. CASE FileComes \/ CommitEvent \/ PublishEvent \/ SyncDecision
  BY <1>7, <1>t, GotoStep, <1>0 DEF FileComes, CommitEvent, PublishEvent, SyncDecision,
     Recording
<1>8. CASE UNCHANGED ledgerVars
  BY <1>8, <1>f DEF ledgerVars, CopyIsLess
<1> QED
  BY <1>f, <1>1, <1>2, <1>3, <1>4, <1>5, <1>6, <1>7, <1>8, StepTable DEF GoesQuietly

LEMMA FilesAreToldStep == LedgerInvariant /\ [LedgerNext]_ledgerVars => FilesAreTold'
  BY FilesToldStep, UntouchedStep, CopyIsLessStep DEF FilesAreTold

-----------------------------------------------------------------------------
(* The ledger is kept.                                                     *)

\* What the invariant says holds in every state.
LEMMA LedgerInvariantCorrect == LedgerSpec => []LedgerInvariant
<1>1. LedgerInit => LedgerInvariant
  <2> SUFFICES ASSUME LedgerInit PROVE LedgerInvariant
    OBVIOUS
  <2>1. /\ ledger = EmptyLedger /\ EmptyLedger \in Ledger /\ EmptyLedger.rows = <<>>
        /\ EmptyLedger.files = {}
        /\ \A c \in Candidates : EmptyLedger.states[c] = "NOT_STARTED"
    BY EmptyLedgerIsLedger DEF LedgerInit, EmptyLedger
  <2>2. /\ \A c \in Candidates : copies[c] = NoLedger
        /\ copies \in [Candidates -> Ledger \cup {NoLedger}]
        /\ replaced = NoLedger
        /\ receipts \in [Candidates -> Decided \cup {"NONE"}]
        /\ started = {} /\ named = {} /\ overtaken = {} /\ unlinked = {}
        /\ ledgerFaults = [fail |-> 0, crash |-> 0]
    BY DEF LedgerInit
  <2>3. /\ task = NoTask /\ task.step = "idle" /\ task.event = "NONE"
        /\ task.cand = NoCandidate
    BY DEF LedgerInit, NoTask
  <2>4. LedgerTypeOK
    BY <2>1, <2>2, <2>3 DEF LedgerTypeOK, NoTask, LedgerSteps
  <2>5. TaskIsSound
    BY <2>2, <2>3 DEF TaskIsSound, Recording, Appending, Decided
  <2>6. OtherLedgers = {} /\ Standing = {ledger} /\ DOMAIN ledger.rows = {}
    BY <2>1, <2>2 DEF OtherLedgers, Standing
  <2>7. LedgersAreSound
    BY <2>6 DEF LedgersAreSound, SoundLedger, RowsVerify, HaveFiles, Numbered
  <2>8. NamedOnce /\ NumbersAreKept
    BY <2>2, <2>3 DEF NamedOnce, NumbersAreKept, Recording
  <2>9. ManifestIsWritten /\ FileIsWritten /\ TaskIsListed
    BY <2>3 DEF ManifestIsWritten, FileIsWritten, TaskIsListed, At
  <2>10. StatesAreTold
    BY <2>1, <2>3, <2>2 DEF Tells, TaskIsTold, Recording, Decided, StatesAreTold,
       CopiesTell
  <2>11. CopiesAgree /\ CopiesAreOlder
    BY <2>2 DEF CopiesAgree, CopyAgrees, CopiesAreOlder
  <2>12. FilesAreTold
    BY <2>1, <2>6, <2>2, <2>3 DEF OthersAreTold, LedgerIsTold, WaitingAreUntouched,
       Untouched, CopyIsLess, Recording, FilesAreTold
  <2> QED
    BY <2>4, <2>5, <2>7, <2>8, <2>9, <2>10, <2>11, <2>12 DEF LedgerInvariant
<1>2. LedgerInvariant /\ [LedgerNext]_ledgerVars => LedgerInvariant'
  BY LedgerTypeStep, TaskStep, LedgersStepSound, NamedOnceStep, NumbersStep, ManifestStep,
     FileStep, ListedStep, StatesStep, CopiesAgreeStep, OlderStep, FilesAreToldStep DEF
     LedgerInvariant
<1> QED
  BY <1>1, <1>2, PTL DEF LedgerSpec

\* Every row of every ledger has its manifest and, unless an append failed after its
\* commit, the files of its events; without a crash there is no file too many.
THEOREM LedgerMatchesItsDisk == LedgerSpec => []LedgerMatchesDisk
<1>1. LedgerInvariant => LedgerMatchesDisk
  <2> SUFFICES ASSUME LedgerInvariant PROVE LedgerMatchesDisk
    OBVIOUS
  <2>1. \A l \in Ledgers : l \in Standing
    BY StandingAre DEF Ledgers
  <2>2. \A l \in Ledgers : RowsVerify(l) /\ EventsHaveFiles(l)
    BY <2>1, StandingTyped DEF SoundLedger, HaveFiles, EventsHaveFiles
  <2>3. ASSUME ledgerFaults.crash = 0, task.step # "commit" PROVE Orphans(ledger) = {}
    BY <2>3 DEF LedgerInvariant, FilesAreTold, LedgerIsTold, At, IsTold, EventsOf, Orphans
  <2> QED
    BY <2>2, <2>3 DEF LedgerMatchesDisk
<1> QED
  BY <1>1, LedgerInvariantCorrect, PTL

\* A delta keeps its number, unless a candidate was fused whose copy had been made
\* before the delta was recorded.
THEOREM NumbersStayGiven == LedgerSpec => []DeltasKeepTheirNumbers
<1>1. LedgerInvariant => DeltasKeepTheirNumbers
  BY NoLedgerIsNoLedger DEF DeltasKeepTheirNumbers, LedgerInvariant, NumbersAreKept,
     LedgerTypeOK, HasNumber
<1> QED
  BY <1>1, LedgerInvariantCorrect, PTL

\* A decision or a fuse that the state of a refresh tells of is in the ledger, if the
\* ledger lists its delta.
THEOREM StatesStayInTheLedger == LedgerSpec => []StatesAreInTheLedger
<1>1. ASSUME NEW l, NEW c, NEW type, HasEvent(l, c, type)
      PROVE  type \in {e[2] : e \in EventsOf(l, c)}
  <2>1. PICK n \in DOMAIN l.rows : /\ l.rows[n].cand = c
                                   /\ \E k \in DOMAIN l.rows[n].events : l.rows[n].events[k] = type
    BY <1>1 DEF HasEvent
  <2>2. PICK k \in DOMAIN l.rows[n].events : l.rows[n].events[k] = type
    BY <2>1
  <2>3. <<k, type>> \in EventsOf(l, c)
    BY <2>1, <2>2 DEF EventsOf
  <2> QED
    BY <2>3
<1>2. LedgerInvariant => StatesAreInTheLedger
  BY <1>1 DEF StatesAreInTheLedger, LedgerInvariant, StatesAreTold, Tells, Listed
<1> QED
  BY <1>2, LedgerInvariantCorrect, PTL

-----------------------------------------------------------------------------
(* What a refresh takes in.                                                *)

\* A row of the index is of what the source held at the stat of the row.
RowsTrue(index) ==
    \A s \in RefreshSources :
        index[s] # Unindexed =>
            /\ index[s].stat <= stat[s]
            /\ index[s].stat = stat[s] => index[s].hash = text[s]

StatsListed == \A s \in RefreshSources : stat[s] <= listChanges

SettledStay == \A s \in Settled : text[s] = asClassified[s]

\* What a class says of a source, as long as the brain is the one that was classified.
ClassHolds(s) ==
    /\ classes[s] = "REMOVED_TOMBSTONE" =>
           Indexed(s) /\ (classified[s] # "active" \/ asClassified[s] = NoText)
    /\ classes[s] = "UNCHANGED_REUSE" =>
           IF classified[s] = "active"
           THEN Indexed(s) /\ brainIndex[s].available /\ brainIndex[s].hash = asClassified[s]
           ELSE ~Available(s)
    /\ classes[s] \in {"CHANGED_REBUILD", "NEW_REGISTER"} =>
           classified[s] = "active" /\ asClassified[s] # NoText
    /\ classes[s] = "BLOCKED" => classified[s] = "active" /\ asClassified[s] = NoText

ClassesHold ==
    inputStep # "idle" \/ inputOutcome # "none" => \A s \in RefreshSources : ClassHolds(s)

\* The index of the candidate without the sources that are gone.
WithoutRemoved(s) ==
    IF s \in Removed \ ResearchSources THEN [brainIndex[s] EXCEPT !.available = FALSE]
    ELSE brainIndex[s]

CandidateFits ==
    /\ inputStep = "tombstones" => newIndex = brainIndex
    /\ inputStep \in {"build", "products", "review"} => Removed \cap ChatSources = {}
    /\ inputStep = "build" => \A s \in RefreshSources : newIndex[s] = WithoutRemoved(s)
    /\ inputStep \in {"products", "review"} =>
         \A s \in RefreshSources :
            /\ s \notin Rebuilt => newIndex[s] = WithoutRemoved(s)
            /\ s \in Rebuilt =>
                 /\ newIndex[s] # Unindexed /\ newIndex[s].available
                 /\ s \in Settled => newIndex[s].hash = asClassified[s]

OutcomesFit ==
    /\ inputStep \in {"tombstones", "build", "products"} => inputOutcome = "none"
    /\ inputStep = "review" <=> inputOutcome = "review"

InputInvariant ==
    /\ InputTypeOK /\ StatsListed /\ RowsTrue(brainIndex) /\ RowsTrue(newIndex)
    /\ SettledStay /\ ClassesHold /\ CandidateFits /\ OutcomesFit
    /\ UnchangedIsTrue /\ FailureHasCause

-----------------------------------------------------------------------------
LEMMA InputStart == InputInit => InputInvariant
<1> SUFFICES ASSUME InputInit PROVE InputInvariant
  OBVIOUS
<1>1. PICK old \in SUBSET RefreshSources :
          /\ text = [s \in RefreshSources |-> FirstText]
          /\ brainIndex = [s \in RefreshSources |->
                 IF s \in old THEN [hash |-> FirstText, available |-> TRUE, stat |-> 0,
                                    older |-> FALSE]
                 ELSE Unindexed]
  BY DEF InputInit
<1>2. /\ registered = [s \in RefreshSources |-> "active"]
      /\ stat = [s \in RefreshSources |-> 0] /\ listChanges = 0 /\ newIndex = brainIndex
      /\ classes = [s \in RefreshSources |-> "UNTOLD"]
      /\ classified = registered /\ asClassified = text /\ unsettled = {}
      /\ inputStep = "idle" /\ inputOutcome = "none" /\ takeIns = 0
  BY DEF InputInit
<1> DEFINE r == [hash |-> FirstText, available |-> TRUE, stat |-> 0, older |-> FALSE]
<1>3. r \in IndexRows /\ r.stat = 0 /\ r.hash = FirstText
  BY SourceRefreshAssumption DEF IndexRows
<1>4. brainIndex = [s \in RefreshSources |-> IF s \in old THEN r ELSE Unindexed]
  BY <1>1
<1> HIDE DEF r
<1>5. InputTypeOK
  BY <1>3, <1>4, <1>2, <1>1, SourceRefreshAssumption DEF Registrations, Classes,
     InputTypeOK
<1>6. RowsTrue(brainIndex) /\ RowsTrue(newIndex)
  BY <1>1, <1>2, <1>3, <1>4 DEF RowsTrue
<1>7. StatsListed /\ SettledStay /\ ClassesHold /\ CandidateFits /\ OutcomesFit
      /\ UnchangedIsTrue /\ FailureHasCause
  BY <1>1, <1>2 DEF StatsListed, SettledStay, Settled, ClassesHold, CandidateFits, OutcomesFit,
     UnchangedIsTrue, FailureHasCause
<1> QED
  BY <1>5, <1>6, <1>7 DEF InputInvariant

-----------------------------------------------------------------------------
\* The list changes: the files do not.
LEMMA ListMoves ==
    ASSUME InputInvariant, ChangeSources, registered' \in Registrations,
           UNCHANGED <<text, stat, unsettled>>
    PROVE  InputInvariant'
<1>1. /\ listChanges < MaxListChanges /\ listChanges' = listChanges + 1
      /\ UNCHANGED <<brainIndex, newIndex, classes, classified, inputStep, inputOutcome,
                     takeIns, asClassified>>
  BY DEF ChangeSources
<1>2. InputTypeOK
  BY DEF InputInvariant
<1>3. listChanges' \in 0..MaxListChanges /\ listChanges \in Nat
  BY <1>1, <1>2, SourceRefreshAssumption DEF InputTypeOK
<1>4. InputTypeOK'
  BY <1>1, <1>2, <1>3 DEF InputTypeOK
<1>5. StatsListed'
  BY <1>1, <1>2, <1>3 DEF StatsListed, InputInvariant, InputTypeOK
<1>6. RowsTrue(brainIndex)' /\ RowsTrue(newIndex)'
  BY <1>1 DEF InputInvariant, RowsTrue
<1>7. SettledStay' /\ ClassesHold' /\ CandidateFits' /\ OutcomesFit'
  BY <1>1 DEF InputInvariant, SettledStay, Settled, ClassesHold, ClassHolds, Indexed,
     Available,
     CandidateFits, WithoutRemoved, Removed, Rebuilt, OutcomesFit
<1>8. UnchangedIsTrue' /\ FailureHasCause'
  BY <1>1 DEF InputInvariant, UnchangedIsTrue, FailureHasCause, Settled, InScope, Indexed,
     Removed, Rebuilt
<1> QED
  BY <1>4, <1>5, <1>6, <1>7, <1>8 DEF InputInvariant

LEMMA EditListedKeeps ==
    ASSUME InputInvariant, NEW s \in RefreshSources, NEW t \in SourceTexts \cup {NoText},
           EditListed(s, t)
    PROVE  InputInvariant'
<1>1. /\ listChanges < MaxListChanges /\ listChanges' = listChanges + 1
      /\ UNCHANGED <<brainIndex, newIndex, classes, classified, inputStep, inputOutcome,
                     takeIns, asClassified, registered>>
      /\ text' = [text EXCEPT ![s] = t]
      /\ stat' = [stat EXCEPT ![s] = listChanges']
      /\ unsettled' = unsettled \cup {s}
  BY DEF EditListed, ChangeSources
<1>2. InputTypeOK /\ StatsListed
  BY DEF InputInvariant
<1>3. /\ listChanges' \in 0..MaxListChanges /\ listChanges \in Nat
      /\ \A x \in RefreshSources : stat[x] \in Nat
  BY <1>1, <1>2, SourceRefreshAssumption DEF InputTypeOK
<1>4. /\ text'[s] = t /\ stat'[s] = listChanges + 1
      /\ \A x \in RefreshSources \ {s} : text'[x] = text[x] /\ stat'[x] = stat[x]
      /\ text' \in [RefreshSources -> SourceTexts \cup {NoText}]
      /\ stat' \in [RefreshSources -> 0..MaxListChanges]
  BY <1>1, <1>2, <1>3 DEF InputTypeOK
<1>5. InputTypeOK'
  BY <1>1, <1>2, <1>3, <1>4 DEF InputTypeOK
<1>6. StatsListed'
  BY <1>1, <1>2, <1>3, <1>4 DEF StatsListed
<1>7. ASSUME NEW index \in [RefreshSources -> IndexRows \cup {Unindexed}], RowsTrue(index)
      PROVE  \A x \in RefreshSources :
                 index[x] # Unindexed =>
                     /\ index[x].stat <= stat'[x]
                     /\ index[x].stat = stat'[x] => index[x].hash = text'[x]
  BY <1>2, <1>7, <1>3, <1>4 DEF RowsTrue, IndexRows, StatsListed
<1>8. RowsTrue(brainIndex)' /\ RowsTrue(newIndex)'
  BY <1>1, <1>2, <1>7 DEF InputInvariant, RowsTrue, InputTypeOK
<1>9. Settled' = Settled \ {s}
  BY <1>1 DEF Settled
<1>10. SettledStay'
  BY <1>1, <1>4, <1>9 DEF InputInvariant, SettledStay, Settled
<1>11. ClassesHold' /\ CandidateFits' /\ OutcomesFit'
  BY <1>1, <1>9 DEF InputInvariant, ClassesHold, ClassHolds, Indexed, Available,
     CandidateFits, WithoutRemoved, Removed, Rebuilt, OutcomesFit
<1>12. UnchangedIsTrue' /\ FailureHasCause'
  BY <1>1, <1>9 DEF InputInvariant, UnchangedIsTrue, FailureHasCause, InScope, Indexed,
     Removed, Rebuilt
<1> QED
  BY <1>5, <1>6, <1>8, <1>10, <1>11, <1>12 DEF InputInvariant

-----------------------------------------------------------------------------
\* The class a source is given is right.
LEMMA ClassRight ==
    ASSUME InputInvariant, NEW s \in RefreshSources
    PROVE  /\ ClassOf(s) \in Classes
           /\ ClassOf(s) = "REMOVED_TOMBSTONE" =>
                  Indexed(s) /\ (registered[s] # "active" \/ text[s] = NoText)
           /\ ClassOf(s) = "UNCHANGED_REUSE" =>
                  IF registered[s] = "active"
                  THEN Indexed(s) /\ brainIndex[s].available /\ brainIndex[s].hash = text[s]
                  ELSE ~Available(s)
           /\ ClassOf(s) \in {"CHANGED_REBUILD", "NEW_REGISTER"} =>
                  registered[s] = "active" /\ text[s] # NoText
           /\ ClassOf(s) = "BLOCKED" => registered[s] = "active" /\ text[s] = NoText
<1>1. StatIsRecorded(s) /\ Indexed(s) => brainIndex[s].hash = text[s]
  BY DEF StatIsRecorded, Indexed, InputInvariant, RowsTrue
<1>2. CASE registered[s] # "active"
  BY <1>2 DEF ClassOf, Classes, Available
<1>3. CASE registered[s] = "active" /\ text[s] = NoText
  BY <1>3 DEF ClassOf, Classes
<1>4. CASE registered[s] = "active" /\ text[s] # NoText /\ ~Available(s)
  BY <1>4 DEF ClassOf, Classes
<1>5. CASE registered[s] = "active" /\ text[s] # NoText /\ Available(s)
  BY <1>1, <1>5 DEF ClassOf, Classes, Available
<1> QED
  BY <1>2, <1>3, <1>4, <1>5

LEMMA StartInputsKeeps ==
    ASSUME InputInvariant, NEW scope \in SUBSET RefreshSources, StartInputs(scope)
    PROVE  InputInvariant'
<1>1. /\ inputStep = "idle" /\ takeIns < MaxTakeIns /\ takeIns' = takeIns + 1
      /\ classes' = [s \in RefreshSources |-> IF s \in scope THEN ClassOf(s) ELSE "UNTOLD"]
      /\ classified' = registered /\ asClassified' = text /\ unsettled' = {}
      /\ newIndex' = brainIndex
      /\ UNCHANGED <<registered, text, stat, listChanges, brainIndex>>
  BY DEF StartInputs
<1>2. InputTypeOK
  BY DEF InputInvariant
<1>3. \/ inputStep' = "idle" /\ inputOutcome' = "blocked"
      \/ /\ \A s \in scope : classes'[s] \notin Changing \cup {"BLOCKED"}
         /\ inputStep' = "idle" /\ inputOutcome' = "unchanged"
      \/ inputStep' = "tombstones" /\ inputOutcome' = "none"
  BY DEF StartInputs
<1>4. classes' \in [RefreshSources -> Classes]
  BY <1>1, ClassRight DEF Classes
<1>5. InputTypeOK'
  BY <1>1, <1>2, SourceRefreshAssumption, <1>3, <1>4 DEF InputTypeOK
<1>6. StatsListed' /\ RowsTrue(brainIndex)' /\ RowsTrue(newIndex)' /\ SettledStay'
  BY <1>1 DEF InputInvariant, StatsListed, RowsTrue, SettledStay, Settled
<1>7. \A s \in RefreshSources : ClassHolds(s)'
  BY <1>1, ClassRight DEF ClassHolds, Indexed, Available
<1>8. ClassesHold' /\ CandidateFits' /\ OutcomesFit' /\ FailureHasCause'
  BY <1>1, <1>3, <1>7 DEF ClassesHold, CandidateFits, OutcomesFit, FailureHasCause
<1>9. UnchangedIsTrue'
  BY <1>1, <1>3, <1>4, <1>7 DEF UnchangedIsTrue, Settled, InScope, Classes, Changing,
     ClassHolds, Indexed
<1> QED
  BY <1>5, <1>6, <1>8, <1>9 DEF InputInvariant

-----------------------------------------------------------------------------
\* A step of the refresh changes the index of the candidate at most.
LEMMA RefreshMoves ==
    ASSUME InputInvariant, UNCHANGED InputFolder, inputStep # "idle",
           inputStep' \in {"idle", "tombstones", "build", "products", "review"},
           inputOutcome' \in {"none", "blocked", "failed", "abandoned", "unchanged", "review"},
           newIndex' \in [RefreshSources -> IndexRows \cup {Unindexed}], RowsTrue(newIndex)',
           CandidateFits', OutcomesFit', UnchangedIsTrue', FailureHasCause'
    PROVE  InputInvariant'
<1>1. InputTypeOK'
  BY DEF InputInvariant, InputTypeOK, InputFolder
<1>2. StatsListed' /\ RowsTrue(brainIndex)' /\ SettledStay'
  BY DEF InputInvariant, InputFolder, StatsListed, RowsTrue, SettledStay, Settled
<1>3. ClassesHold'
  BY DEF InputInvariant, InputFolder, ClassesHold, ClassHolds, Indexed, Available
<1> QED
  BY <1>1, <1>2, <1>3 DEF InputInvariant

\* A source that is gone is indexed.
LEMMA RemovedIsIndexed ==
    ASSUME InputInvariant, inputStep # "idle", NEW s \in Removed
    PROVE  brainIndex[s] \in IndexRows /\ brainIndex[s] # Unindexed
  BY DEF InputInvariant, InputTypeOK, ClassesHold, ClassHolds, Removed, Indexed

LEMMA FailInputsKeeps ==
    ASSUME InputInvariant, inputStep \in {"tombstones", "build"}, FailInputs,
           \/ Rebuilt \cap unsettled # {}
           \/ Removed \cap ChatSources # {}
           \/ \E s \in Rebuilt \cap ChatSources : Indexed(s) /\ brainIndex[s].hash # asClassified[s]
    PROVE  InputInvariant'
<1>1. /\ inputStep' = "idle" /\ inputOutcome' = "failed"
      /\ UNCHANGED InputFolder /\ newIndex' = newIndex
  BY DEF FailInputs
<1>2. newIndex' \in [RefreshSources -> IndexRows \cup {Unindexed}] /\ RowsTrue(newIndex)'
  BY <1>1 DEF InputInvariant, InputTypeOK, RowsTrue, InputFolder
<1>3. CandidateFits' /\ OutcomesFit' /\ UnchangedIsTrue'
  BY <1>1 DEF CandidateFits, OutcomesFit, UnchangedIsTrue
<1>4. FailureHasCause'
  BY <1>1 DEF FailureHasCause, InputFolder, Rebuilt, Removed, Indexed
<1> QED
  BY <1>1, <1>2, <1>3, <1>4, RefreshMoves

LEMMA TakeOutKeeps == InputInvariant /\ TakeOut => InputInvariant'
<1> SUFFICES ASSUME InputInvariant, TakeOut PROVE InputInvariant'
  OBVIOUS
<1>1. CASE Removed \cap ChatSources # {} /\ FailInputs
  BY <1>1, FailInputsKeeps DEF TakeOut
<1>2. CASE /\ Removed \cap ChatSources = {}
           /\ newIndex' = [s \in RefreshSources |->
                 IF s \in Removed \ ResearchSources
                 THEN [newIndex[s] EXCEPT !.available = FALSE] ELSE newIndex[s]]
           /\ inputStep' = "build" /\ UNCHANGED <<InputFolder, inputOutcome>>
  <2>1. inputStep = "tombstones" /\ newIndex = brainIndex /\ inputOutcome = "none"
        /\ UNCHANGED InputFolder /\ InputTypeOK /\ RowsTrue(brainIndex)
    BY <1>2 DEF TakeOut, InputInvariant, CandidateFits, OutcomesFit
  <2>2. newIndex' = [s \in RefreshSources |-> WithoutRemoved(s)]
    BY <1>2, <2>1 DEF WithoutRemoved
  <2>3. ASSUME NEW s \in RefreshSources
        PROVE  /\ WithoutRemoved(s) \in IndexRows \cup {Unindexed}
               /\ WithoutRemoved(s) # Unindexed =>
                    /\ brainIndex[s] # Unindexed
                    /\ WithoutRemoved(s).stat = brainIndex[s].stat
                    /\ WithoutRemoved(s).hash = brainIndex[s].hash
    BY <2>1, RemovedIsIndexed DEF WithoutRemoved, IndexRows, InputTypeOK
  <2>4. newIndex' \in [RefreshSources -> IndexRows \cup {Unindexed}]
    BY <2>2, <2>3
  <2>5. RowsTrue(newIndex)'
    BY <2>1, <2>2, <2>3 DEF RowsTrue, InputFolder
  <2>6. CandidateFits'
    BY <1>2, <2>1, <2>2 DEF CandidateFits, InputFolder, Removed, WithoutRemoved
  <2>7. OutcomesFit' /\ UnchangedIsTrue' /\ FailureHasCause'
    BY <1>2, <2>1 DEF OutcomesFit, UnchangedIsTrue, FailureHasCause
  <2> QED
    BY <1>2, <2>1, <2>4, <2>5, <2>6, <2>7, RefreshMoves
<1> QED
  BY <1>1, <1>2 DEF TakeOut

\* The rows of the sources that are ingested are of what these hold.
LEMMA IndexWithTrue ==
    ASSUME InputInvariant, NEW index \in [RefreshSources -> IndexRows \cup {Unindexed}],
           RowsTrue(index), NEW some \in SUBSET RefreshSources,
           \A s \in some : text[s] # NoText
    PROVE  /\ IndexWith(index, some) \in [RefreshSources -> IndexRows \cup {Unindexed}]
           /\ RowsTrue(IndexWith(index, some))
           /\ \A s \in RefreshSources \ some : IndexWith(index, some)[s] = index[s]
           /\ \A s \in some : /\ IndexWith(index, some)[s] # Unindexed
                              /\ IndexWith(index, some)[s].available
                              /\ IndexWith(index, some)[s].hash = text[s]
<1> DEFINE AsTaken(s) == [hash |-> text[s], available |-> TRUE, stat |-> stat[s],
              older |-> /\ s \in ResearchSources /\ index[s] # Unindexed
                        /\ index[s].older \/ index[s].hash # text[s]]
<1>1. InputTypeOK
  BY DEF InputInvariant
<1>2. ASSUME NEW s \in some
      PROVE  AsTaken(s) \in IndexRows /\ AsTaken(s).hash = text[s] /\ AsTaken(s).stat = stat[s]
             /\ AsTaken(s).available
  BY <1>1 DEF InputTypeOK, IndexRows
<1> HIDE DEF AsTaken
<1>3. IndexWith(index, some) = [s \in RefreshSources |-> IF s \in some THEN AsTaken(s) ELSE index[s]]
  BY DEF IndexWith, AsTaken
<1>4. \A s \in some : AsTaken(s) # Unindexed
  BY <1>2, UnindexedIsNoRow
<1>5. \A s \in RefreshSources : stat[s] \in Nat
  BY <1>1, SourceRefreshAssumption DEF InputTypeOK
<1>6. IndexWith(index, some) \in [RefreshSources -> IndexRows \cup {Unindexed}]
  BY <1>2, <1>3
<1>7. RowsTrue(IndexWith(index, some))
  BY <1>2, <1>3, <1>4, <1>5 DEF RowsTrue
<1> QED
  BY <1>2, <1>3, <1>4, <1>6, <1>7

LEMMA BuildCandidateKeeps == InputInvariant /\ BuildCandidate => InputInvariant'
<1> SUFFICES ASSUME InputInvariant, BuildCandidate PROVE InputInvariant'
  OBVIOUS
<1>1. /\ inputStep = "build" /\ InputTypeOK /\ inputOutcome = "none" /\ SettledStay
      /\ Removed \cap ChatSources = {} /\ RowsTrue(newIndex)
      /\ \A s \in RefreshSources : newIndex[s] = WithoutRemoved(s)
  BY DEF BuildCandidate, InputInvariant, CandidateFits, OutcomesFit
<1>2. \A s \in Rebuilt : asClassified[s] # NoText /\ s \in RefreshSources /\ s \notin Removed
  BY <1>1 DEF InputInvariant, ClassesHold, ClassHolds, Rebuilt, Removed
<1>3. CASE (\E s \in Rebuilt : ~Ingestible(newIndex, s)) /\ FailInputs
  <2>1. PICK s \in Rebuilt : ~Ingestible(newIndex, s)
    BY <1>3
  <2>2. CASE s \in unsettled
    BY <1>1, <1>3, <2>1, <2>2, FailInputsKeeps
  <2>3. CASE s \notin unsettled
    BY <1>1, <1>2, <2>3, <2>1, <1>3, FailInputsKeeps DEF SettledStay, Settled, Ingestible,
       WithoutRemoved, Indexed
  <2> QED
    BY <2>2, <2>3
<1>4. CASE /\ \A s \in Rebuilt : Ingestible(newIndex, s)
           /\ newIndex' = IndexWith(newIndex, Rebuilt)
           /\ inputStep' = "products" /\ UNCHANGED <<InputFolder, inputOutcome>>
  <2>1. Rebuilt \in SUBSET RefreshSources /\ \A s \in Rebuilt : text[s] # NoText
    BY <1>4 DEF Rebuilt, Ingestible
  <2> DEFINE n == IndexWith(newIndex, Rebuilt)
  <2>2. /\ n \in [RefreshSources -> IndexRows \cup {Unindexed}] /\ RowsTrue(n)
        /\ \A s \in RefreshSources \ Rebuilt : n[s] = newIndex[s]
        /\ \A s \in Rebuilt : n[s] # Unindexed /\ n[s].available /\ n[s].hash = text[s]
    BY <1>1, <2>1, IndexWithTrue DEF InputTypeOK
  <2>3. newIndex' = n
    BY <1>4
  <2> HIDE DEF n
  <2>4. RowsTrue(newIndex)'
    BY <1>4, <2>2, <2>3 DEF RowsTrue, InputFolder
  <2>5. CandidateFits'
    BY <1>1, <2>2, <1>4, <2>3 DEF SettledStay, Settled, InputFolder, Removed, Rebuilt,
       WithoutRemoved, CandidateFits
  <2>6. OutcomesFit' /\ UnchangedIsTrue' /\ FailureHasCause'
    BY <1>1, <1>4 DEF OutcomesFit, UnchangedIsTrue, FailureHasCause
  <2> QED
    BY <1>1, <1>4, <2>2, <2>3, <2>4, <2>5, <2>6, RefreshMoves
<1> QED
  BY <1>3, <1>4 DEF BuildCandidate

LEMMA ProductsFailKeeps == InputInvariant /\ ProductsFail => InputInvariant'
<1> SUFFICES ASSUME InputInvariant, ProductsFail PROVE InputInvariant'
  OBVIOUS
<1>1. /\ inputStep = "products" /\ inputStep' = "idle" /\ inputOutcome' = "abandoned"
      /\ UNCHANGED InputFolder /\ newIndex' = newIndex
  BY DEF ProductsFail
<1>2. newIndex' \in [RefreshSources -> IndexRows \cup {Unindexed}] /\ RowsTrue(newIndex)'
  BY <1>1 DEF InputInvariant, InputTypeOK, RowsTrue, InputFolder
<1>3. CandidateFits' /\ OutcomesFit' /\ UnchangedIsTrue' /\ FailureHasCause'
  BY <1>1 DEF CandidateFits, OutcomesFit, UnchangedIsTrue, FailureHasCause
<1> QED
  BY <1>1, <1>2, <1>3, RefreshMoves

\* A candidate whose products are there holds what was classified.
LEMMA CandidateHolds ==
    ASSUME InputInvariant, inputStep \in {"products", "review"}, NEW s \in Settled
    PROVE  /\ classified[s] = "active" /\ asClassified[s] # NoText /\ s \in InScope =>
                  /\ newIndex[s] # Unindexed /\ newIndex[s].available
                  /\ newIndex[s].hash = asClassified[s]
           /\ classified[s] # "active" /\ s \in InScope \ ResearchSources =>
                  newIndex[s] = Unindexed \/ ~newIndex[s].available
           /\ s \notin InScope => newIndex[s] = brainIndex[s]
<1>1. /\ s \in RefreshSources /\ ClassHolds(s) /\ CandidateFits /\ InputTypeOK
      /\ classes[s] \in Classes
  BY DEF InputInvariant, ClassesHold, Settled, InputTypeOK
<1>2. s \notin Removed /\ s \notin Rebuilt => newIndex[s] = brainIndex[s]
  BY <1>1 DEF CandidateFits, WithoutRemoved
<1>3. s \in Removed \ ResearchSources => ~newIndex[s].available
  BY RemovedIsIndexed, <1>1 DEF CandidateFits, WithoutRemoved, Removed, Rebuilt, IndexRows
<1>4. s \in Rebuilt => /\ newIndex[s] # Unindexed /\ newIndex[s].available
                       /\ newIndex[s].hash = asClassified[s]
  BY <1>1 DEF CandidateFits
<1>5. ASSUME classified[s] = "active", asClassified[s] # NoText, s \in InScope
      PROVE  /\ newIndex[s] # Unindexed /\ newIndex[s].available
             /\ newIndex[s].hash = asClassified[s]
  BY <1>1, <1>2, <1>4, <1>5 DEF ClassHolds, Classes, InScope, Removed, Rebuilt, Indexed
<1>6. ASSUME classified[s] # "active", s \in InScope \ ResearchSources
      PROVE  newIndex[s] = Unindexed \/ ~newIndex[s].available
  BY <1>1, <1>6, <1>3, <1>2 DEF ClassHolds, Removed, Rebuilt, Available, Indexed, Classes,
     InScope
<1>7. s \notin InScope => newIndex[s] = brainIndex[s]
  BY <1>1, <1>2 DEF InScope, Removed, Rebuilt
<1> QED
  BY <1>5, <1>6, <1>7

LEMMA CompareCandidateKeeps == InputInvariant /\ CompareCandidate => InputInvariant'
<1> SUFFICES ASSUME InputInvariant, CompareCandidate PROVE InputInvariant'
  OBVIOUS
<1>1. /\ inputStep = "products" /\ UNCHANGED InputFolder /\ newIndex' = newIndex
      /\ \/ inputStep' = "review" /\ inputOutcome' = "review"
         \/ /\ SameBrain(newIndex, brainIndex)
            /\ inputStep' = "idle" /\ inputOutcome' = "unchanged"
  BY DEF CompareCandidate
<1>2. newIndex' \in [RefreshSources -> IndexRows \cup {Unindexed}] /\ RowsTrue(newIndex)'
  BY <1>1 DEF InputInvariant, InputTypeOK, RowsTrue, InputFolder
<1>3. CandidateFits'
  BY <1>1 DEF InputInvariant, CandidateFits, InputFolder, Removed, Rebuilt, Settled,
     WithoutRemoved
<1>4. OutcomesFit' /\ FailureHasCause'
  BY <1>1 DEF OutcomesFit, FailureHasCause
<1>5. UnchangedIsTrue'
  BY <1>1, CandidateHolds DEF UnchangedIsTrue, InputFolder, Settled, InScope, Indexed,
     SameBrain
<1> QED
  BY <1>1, <1>2, <1>3, <1>4, <1>5, RefreshMoves

-----------------------------------------------------------------------------
LEMMA DecideInputsKeeps ==
    ASSUME InputInvariant, NEW fused \in BOOLEAN, DecideInputs(fused)
    PROVE  InputInvariant'
<1>1. /\ brainIndex' = (IF fused THEN newIndex ELSE brainIndex)
      /\ registered' = (IF fused THEN classified ELSE registered)
      /\ inputStep' = "idle" /\ inputOutcome' = "none"
      /\ UNCHANGED <<text, stat, listChanges, newIndex, classes, classified,
                     takeIns, asClassified, unsettled>>
  BY DEF DecideInputs
<1>2. InputTypeOK'
  BY <1>1 DEF InputInvariant, InputTypeOK
<1>3. StatsListed' /\ RowsTrue(brainIndex)' /\ RowsTrue(newIndex)' /\ SettledStay'
  BY <1>1 DEF InputInvariant, StatsListed, RowsTrue, SettledStay, Settled
<1>4. ClassesHold' /\ CandidateFits' /\ OutcomesFit' /\ UnchangedIsTrue' /\ FailureHasCause'
  BY <1>1 DEF ClassesHold, CandidateFits, OutcomesFit, UnchangedIsTrue, FailureHasCause
<1> QED
  BY <1>2, <1>3, <1>4 DEF InputInvariant

LEMMA BuildRegisteredKeeps ==
    ASSUME InputInvariant, NEW some \in SUBSET RefreshSources, BuildRegistered(some)
    PROVE  InputInvariant'
<1>1. /\ inputStep = "idle" /\ takeIns < MaxTakeIns /\ takeIns' = takeIns + 1
      /\ brainIndex' = IndexWith(brainIndex, some) /\ inputOutcome' = "none"
      /\ UNCHANGED <<registered, text, stat, listChanges, newIndex, classes, classified,
                     inputStep, asClassified, unsettled>>
      /\ \A s \in some : text[s] # NoText
  BY DEF BuildRegistered, Ingestible
<1>2. InputTypeOK
  BY DEF InputInvariant
<1> DEFINE n == IndexWith(brainIndex, some)
<1>3. n \in [RefreshSources -> IndexRows \cup {Unindexed}] /\ RowsTrue(n)
  BY <1>1, <1>2, IndexWithTrue DEF InputTypeOK, InputInvariant
<1>4. brainIndex' = n
  BY <1>1
<1> HIDE DEF n
<1>5. takeIns' \in 0..MaxTakeIns
  BY <1>1, <1>2, SourceRefreshAssumption DEF InputTypeOK
<1>6. InputTypeOK'
  BY <1>1, <1>2, <1>3, <1>4, <1>5 DEF InputTypeOK
<1>7. StatsListed' /\ RowsTrue(brainIndex)' /\ RowsTrue(newIndex)' /\ SettledStay'
  BY <1>1, <1>3, <1>4 DEF InputInvariant, StatsListed, RowsTrue, SettledStay, Settled
<1>8. ClassesHold' /\ CandidateFits' /\ OutcomesFit' /\ UnchangedIsTrue' /\ FailureHasCause'
  BY <1>1 DEF ClassesHold, CandidateFits, OutcomesFit, UnchangedIsTrue, FailureHasCause
<1> QED
  BY <1>6, <1>7, <1>8 DEF InputInvariant

-----------------------------------------------------------------------------
LEMMA InputStepKeeps == InputInvariant /\ [InputNext]_inputVars => InputInvariant'
<1> SUFFICES ASSUME InputInvariant, [InputNext]_inputVars PROVE InputInvariant'
  OBVIOUS
<1>1. ASSUME NEW s \in RefreshSources, NEW a \in {"active", "inactive"}, AddSource(s, a)
      PROVE  InputInvariant'
  BY <1>1, ListMoves DEF AddSource, InputInvariant, InputTypeOK, Registrations
<1>2. ASSUME NEW s \in RefreshSources, RemoveSources({s}) PROVE InputInvariant'
  BY <1>2, ListMoves DEF RemoveSources, InputInvariant, InputTypeOK, Registrations
<1>3. ASSUME NEW scope \in {RefreshSources, PlainSources}, StartInputs(scope)
      PROVE  InputInvariant'
  BY <1>3, StartInputsKeeps DEF RefreshSources
<1>4. ASSUME NEW s \in RefreshSources, BuildRegistered({s}) PROVE InputInvariant'
  BY <1>4, BuildRegisteredKeeps
<1>5. CASE UNCHANGED inputVars
  BY <1>5 DEF inputVars, InputInvariant, InputTypeOK, StatsListed, RowsTrue, SettledStay,
     Settled,
     ClassesHold, ClassHolds, Indexed, Available, CandidateFits, WithoutRemoved, Removed,
     Rebuilt,
     OutcomesFit, UnchangedIsTrue, FailureHasCause, InScope
<1> QED
  BY <1>1, <1>2, <1>3, <1>4, <1>5, EditListedKeeps, TakeOutKeeps, BuildCandidateKeeps,
     ProductsFailKeeps, CompareCandidateKeeps, DecideInputsKeeps DEF InputNext

\* InputInvariant holds in every state of the refreshes.
THEOREM InputInvariantCorrect == InputSpec => []InputInvariant
<1> QED
  BY InputStart, InputStepKeeps, PTL DEF InputSpec

\* A refresh tells truly which sources it took in (refresh_brain.py).
THEOREM InputsTold == InputSpec => []InputsAreTold
<1>1. InputInvariant => InputsAreTold
  BY CandidateHolds DEF InputInvariant, OutcomesFit, CandidateHoldsInputs, InputsAreTold
<1> QED
  BY <1>1, InputInvariantCorrect, PTL

-----------------------------------------------------------------------------
(* The versions that are restored.                                         *)

\* What is at a name is registered for the rollback that made it and captured it.
RestoredFits(f, l) ==
    /\ f = NoFolder => l = {}
    /\ \A o \in l \ {NoOrigin} : f.by = o /\ f.stage = "captured"

\* What a rollback of an origin has made by the time of a step.
RestoringFits(o, step, f, l) ==
    /\ step = "create" => f = NoFolder
    /\ step \in {"fill", "render", "export", "capture", "compare", "register", "receipt"} =>
           f # NoFolder /\ f.by = o
    /\ step \in {"compare", "register", "receipt"} => f.stage = "captured"
    /\ step # "receipt" => l = {}

RollsBack(o, n) == ~RollbackAt(o, "idle") /\ NameAsked(o) = n

\* A name that nobody took meanwhile is asked for by one rollback.
OneRollbackOf(n) ==
    n \notin contested =>
        /\ RestoredFits(folders[n], listed[n])
        /\ \A o \in Origins : RollsBack(o, n) =>
               RestoringFits(o, rollback[o].step, folders[n], listed[n])
        /\ \A o, p \in Origins : RollsBack(o, n) /\ RollsBack(p, n) => o = p

\* Whatever else becomes of a name: its folder is left to a brain that is registered.
LeftToItsBrain(n) ==
    /\ \A o \in Origins : RollsBack(o, n) /\ RollbackAt(o, "receipt") => o \in listed[n]
    /\ folders[n] # NoFolder /\ folders[n].receipt => listed[n] # {}
    /\ folders[n] # NoFolder =>
           n \in halfMade \/ listed[n] # {} \/ \E o \in Origins : RollsBack(o, n)

RollbackInvariant ==
    RollbackTypeOK /\ \A n \in RestoredNames : OneRollbackOf(n) /\ LeftToItsBrain(n)

-----------------------------------------------------------------------------
LEMMA RollbackStart == RollbackInit => RollbackInvariant
<1> SUFFICES ASSUME RollbackInit PROVE RollbackInvariant
  OBVIOUS
<1>1. (CHOOSE n \in RestoredNames : TRUE) \in RestoredNames
  BY RollbackAssumption
<1>2. RollbackTypeOK
  BY <1>1, RollbackAssumption DEF RollbackInit, RollbackTypeOK, RollbackSteps
<1>3. \A o \in Origins : RollbackAt(o, "idle")
  BY DEF RollbackInit, RollbackAt
<1>4. ASSUME NEW n \in RestoredNames PROVE OneRollbackOf(n) /\ LeftToItsBrain(n)
  BY <1>3 DEF RollbackInit, OneRollbackOf, LeftToItsBrain, RollsBack, RestoredFits
<1> QED
  BY <1>2, <1>4 DEF RollbackInvariant

-----------------------------------------------------------------------------
\* A step of a rollback changes what is at its name only.
RollbackMovesTo(o, n, step, f, l) ==
    /\ o \in Origins /\ ~RollbackAt(o, "idle")
    /\ n \in RestoredNames /\ n = NameAsked(o)
    /\ step \in RollbackSteps /\ RollbackGoes(o, step)
    /\ f \in Folders \cup {NoFolder} /\ folders' = [folders EXCEPT ![n] = f]
    /\ l \in SUBSET (Origins \cup {NoOrigin}) /\ listed' = [listed EXCEPT ![n] = l]
    /\ rollbackFaults' \in 0..MaxRollbackFaults /\ UNCHANGED <<originEdits, rollbacks>>
    /\ contested' = contested
    /\ halfMade' \in SUBSET RestoredNames /\ halfMade \subseteq halfMade'
    /\ n \notin contested => RestoredFits(f, l) /\ (step # "idle" => RestoringFits(o, step, f, l))
    /\ step = "receipt" => o \in l
    /\ f # NoFolder /\ f.receipt => l # {}
    /\ listed[n] \subseteq l
    /\ step = "idle" => f = NoFolder \/ n \in halfMade' \/ l # {}

LEMMA RollbackMoves ==
    ASSUME RollbackInvariant, NEW o, NEW n, NEW step, NEW f, NEW l,
           RollbackMovesTo(o, n, step, f, l)
    PROVE  RollbackInvariant'
<1>0. o \in Origins /\ n \in RestoredNames
  BY DEF RollbackMovesTo
<1> USE DEF RollbackMovesTo
<1>1. RollbackTypeOK'
  BY DEF RollbackInvariant, RollbackTypeOK, RollbackGoes
<1>2. /\ \A p \in Origins : rollback'[p].name = rollback[p].name
      /\ \A p \in Origins \ {o} : rollback'[p] = rollback[p]
      /\ rollback'[o].step = step
      /\ rollback[o].name = n /\ rollback[o].step # "idle"
  BY DEF RollbackInvariant, RollbackTypeOK, RollbackGoes, NameAsked, RollbackAt
<1>3. /\ \A m \in RestoredNames \ {n} : folders'[m] = folders[m] /\ listed'[m] = listed[m]
      /\ folders'[n] = f /\ listed'[n] = l
  BY DEF RollbackInvariant, RollbackTypeOK
<1>4. ASSUME NEW m \in RestoredNames PROVE OneRollbackOf(m)'
  BY <1>2, <1>3 DEF OneRollbackOf, RollsBack, RollbackAt, NameAsked, RollbackInvariant
<1>5. ASSUME NEW m \in RestoredNames PROVE LeftToItsBrain(m)'
  <2>1. LeftToItsBrain(m)
    BY DEF RollbackInvariant
  <2>2. CASE m = n
    BY <1>2, <1>3, <2>1, <2>2 DEF LeftToItsBrain, RollsBack, RollbackAt, NameAsked
  <2>3. CASE m # n
    BY <1>2, <2>3, <1>3, <2>1 DEF RollsBack, RollbackAt, NameAsked, LeftToItsBrain
  <2> QED
    BY <2>2, <2>3
<1> QED
  BY <1>1, <1>4, <1>5 DEF RollbackInvariant

\* What a step finds at the name of its rollback.
LEMMA NameFits ==
    ASSUME RollbackInvariant, NEW o \in Origins, ~RollbackAt(o, "idle")
    PROVE  /\ NameAsked(o) \in RestoredNames
           /\ folders[NameAsked(o)] \in Folders \cup {NoFolder}
           /\ listed[NameAsked(o)] \in SUBSET (Origins \cup {NoOrigin})
           /\ folders = [folders EXCEPT ![NameAsked(o)] = folders[NameAsked(o)]]
           /\ listed = [listed EXCEPT ![NameAsked(o)] = listed[NameAsked(o)]]
           /\ NameAsked(o) \notin contested =>
                  /\ RestoredFits(folders[NameAsked(o)], listed[NameAsked(o)])
                  /\ RestoringFits(o, rollback[o].step, folders[NameAsked(o)], listed[NameAsked(o)])
           /\ RollbackAt(o, "receipt") => o \in listed[NameAsked(o)]
           /\ folders[NameAsked(o)] # NoFolder /\ folders[NameAsked(o)].receipt =>
                  listed[NameAsked(o)] # {}
           /\ rollbackFaults \in 0..MaxRollbackFaults /\ halfMade \in SUBSET RestoredNames
<1>1. NameAsked(o) \in RestoredNames
  BY DEF RollbackInvariant, RollbackTypeOK, NameAsked
<1>2. OneRollbackOf(NameAsked(o)) /\ LeftToItsBrain(NameAsked(o))
  BY <1>1 DEF RollbackInvariant
<1>3. RollsBack(o, NameAsked(o))
  BY DEF RollsBack
<1> QED
  BY <1>1, <1>2, <1>3 DEF RollbackInvariant, RollbackTypeOK, OneRollbackOf, LeftToItsBrain

LEMMA PaysTyped ==
    ASSUME RollbackInvariant, RollbackPays
    PROVE  rollbackFaults' \in 0..MaxRollbackFaults
BY RollbackAssumption DEF RollbackInvariant, RollbackTypeOK, RollbackPays

LEMMA EmptyFolderTyped ==
    ASSUME NEW o \in Origins \cup {NoOrigin}
    PROVE  /\ EmptyFolder(o) \in Folders /\ EmptyFolder(o) # NoFolder
           /\ EmptyFolder(o).by = o /\ ~EmptyFolder(o).receipt
<1>1. EmptyFolder(o) \in Folders
  BY DEF EmptyFolder, Folders, Stages
<1>2. EmptyFolder(o) # NoFolder
  BY <1>1, NoFolderIsNone
<1> QED
  BY <1>1, <1>2 DEF EmptyFolder

LEMMA MakeFolderKeeps ==
    ASSUME RollbackInvariant, NEW o \in Origins, MakeFolder(o)
    PROVE  RollbackInvariant'
<1> DEFINE n == NameAsked(o)
<1>1. ~RollbackAt(o, "idle") /\ rollback[o].step = "create"
  BY DEF MakeFolder, RollbackAt
<1>2. EmptyFolder(o) \in Folders /\ EmptyFolder(o).by = o /\ ~EmptyFolder(o).receipt
      /\ EmptyFolder(o) # NoFolder
  BY EmptyFolderTyped
<1>3. CASE folders[n] = NoFolder
  <2>1. folders' = [folders EXCEPT ![n] = EmptyFolder(o)] /\ RollbackGoes(o, "fill")
    BY <1>3 DEF MakeFolder
  <2>2. n \notin contested => RestoredFits(EmptyFolder(o), listed[n])
                              /\ RestoringFits(o, "fill", EmptyFolder(o), listed[n])
    BY <1>1, <1>2, NameFits DEF RestoringFits, RestoredFits
  <2>3. /\ n \in RestoredNames /\ listed[n] \in SUBSET (Origins \cup {NoOrigin})
       /\ listed = [listed EXCEPT ![n] = listed[n]] /\ halfMade \in SUBSET RestoredNames
       /\ rollbackFaults \in 0..MaxRollbackFaults
    BY <1>1, NameFits
  <2>4. UNCHANGED <<listed, originEdits, rollbacks, rollbackFaults, halfMade, contested>>
    BY DEF MakeFolder
  <2>5. "fill" \in RollbackSteps
    BY DEF RollbackSteps
  <2> HIDE DEF n
  <2>6. RollbackMovesTo(o, n, "fill", EmptyFolder(o), listed[n])
    BY <1>1, <1>2, <2>1, <2>2, <2>3, <2>4, <2>5 DEF RollbackMovesTo, n
  <2> QED
    BY <2>6, RollbackMoves
<1>4. CASE folders[n] # NoFolder
  BY <1>4, <1>1, NameFits, RollbackMoves DEF MakeFolder, RestoringFits, RollbackMovesTo,
     RollbackSteps
<1> QED
  BY <1>3, <1>4

\* A step that writes into the folder.
LEMMA AdvanceKeeps ==
    ASSUME RollbackInvariant, NEW o \in Origins,
           NEW step \in {"fill", "render", "export", "capture"}, NEW part \in Stages,
           NEW next \in {"render", "export", "capture", "compare"},
           next = "compare" => part = "captured", Advance(o, step, part, next)
    PROVE  RollbackInvariant'
<1> DEFINE n == NameAsked(o)
           f == [folders[n] EXCEPT !.stage = part]
<1>1. ~RollbackAt(o, "idle") /\ rollback[o].step = step
  BY DEF Advance, RollbackAt
<1>2. CASE folders[n] # NoFolder
  <2>1. folders' = [folders EXCEPT ![n].stage = part] /\ RollbackGoes(o, next)
    BY <1>2 DEF Advance
  <2>2. f \in Folders /\ f.by = folders[n].by /\ f.stage = part
        /\ f.receipt = folders[n].receipt /\ f # NoFolder
    BY <1>1, <1>2, NameFits, NoFolderIsNone DEF Folders
  <2>3. folders' = [folders EXCEPT ![n] = f]
    BY <2>1
  <2> HIDE DEF f
  <2>4. n \notin contested => RestoredFits(f, listed[n]) /\ RestoringFits(o, next, f, listed[n])
    BY <1>1, NameFits, <2>2 DEF RestoringFits, RestoredFits
  <2>5. next \in RollbackSteps /\ next # "idle" /\ next # "receipt"
    BY DEF RollbackSteps
  <2>6. f.receipt => listed[n] # {}
    BY <1>1, <1>2, <2>2, NameFits
  <2>7. /\ n \in RestoredNames /\ listed[n] \in SUBSET (Origins \cup {NoOrigin})
       /\ listed = [listed EXCEPT ![n] = listed[n]] /\ halfMade \in SUBSET RestoredNames
       /\ rollbackFaults \in 0..MaxRollbackFaults
    BY <1>1, NameFits
  <2>8. UNCHANGED <<listed, originEdits, rollbacks, rollbackFaults, halfMade, contested>>
    BY DEF Advance
  <2> HIDE DEF n
  <2>9. RollbackMovesTo(o, n, next, f, listed[n])
    BY <1>1, <2>1, <2>2, <2>3, <2>4, <2>5, <2>6, <2>7, <2>8 DEF RollbackMovesTo, n
  <2> QED
    BY <2>9, RollbackMoves
<1>3. CASE folders[n] = NoFolder
  BY <1>3, <1>1, NameFits, RollbackMoves DEF Advance, RestoringFits, RollbackMovesTo,
     RollbackSteps
<1> QED
  BY <1>2, <1>3

LEMMA CompareOriginKeeps ==
    ASSUME RollbackInvariant, NEW o \in Origins, CompareOrigin(o)
    PROVE  RollbackInvariant'
<1>1. ~RollbackAt(o, "idle") /\ rollback[o].step = "compare"
  BY DEF CompareOrigin, RollbackAt
<1>2. \/ RollbackGoes(o, "register") \/ RollbackGoes(o, "failed")
  BY DEF CompareOrigin
<1>3. CASE RollbackGoes(o, "register")
  <2>1. NameAsked(o) \notin contested =>
            RestoringFits(o, "register", folders[NameAsked(o)], listed[NameAsked(o)])
    BY <1>1, NameFits DEF RestoringFits
  <2>2. RollbackMovesTo(o, NameAsked(o), "register", folders[NameAsked(o)], listed[NameAsked(o)])
    BY <1>1, <1>3, <2>1, NameFits DEF RollbackMovesTo, CompareOrigin, RollbackSteps
  <2> QED
    BY <2>2, RollbackMoves
<1>4. CASE RollbackGoes(o, "failed")
  <2>1. NameAsked(o) \notin contested =>
            RestoringFits(o, "failed", folders[NameAsked(o)], listed[NameAsked(o)])
    BY <1>1, NameFits DEF RestoringFits
  <2>2. RollbackMovesTo(o, NameAsked(o), "failed", folders[NameAsked(o)], listed[NameAsked(o)])
    BY <1>1, <1>4, <2>1, NameFits DEF RollbackMovesTo, CompareOrigin, RollbackSteps
  <2> QED
    BY <2>2, RollbackMoves
<1> QED
  BY <1>2, <1>3, <1>4

LEMMA RegisterRestoredKeeps ==
    ASSUME RollbackInvariant, NEW o \in Origins, RegisterRestored(o)
    PROVE  RollbackInvariant'
<1> DEFINE n == NameAsked(o)
           l == listed[n] \cup {o}
           f == IF folders[n] # NoFolder THEN folders[n] ELSE EmptyFolder(NoOrigin)
<1>1. ~RollbackAt(o, "idle") /\ rollback[o].step = "register"
      /\ RollbackGoes(o, "receipt")
  BY DEF RegisterRestored, RollbackAt
<1>2. EmptyFolder(NoOrigin) \in Folders
  BY DEF EmptyFolder, Folders, Stages
<1>3. f \in Folders \cup {NoFolder} /\ folders' = [folders EXCEPT ![n] = f]
  BY <1>1, <1>2, NameFits DEF RegisterRestored
<1>4. l \in SUBSET (Origins \cup {NoOrigin}) /\ listed' = [listed EXCEPT ![n] = l]
  BY <1>1, NameFits DEF RegisterRestored
<1>5. n \notin contested => RestoredFits(f, l) /\ RestoringFits(o, "receipt", f, l)
  BY <1>1, NameFits DEF RestoringFits, RestoredFits
<1>6. o \in l
  OBVIOUS
<1> HIDE DEF f, l
<1>7. listed[n] \subseteq l
  BY DEF l
<1>8. /\ n \in RestoredNames /\ listed[n] \in SUBSET (Origins \cup {NoOrigin})
      /\ listed = [listed EXCEPT ![n] = listed[n]] /\ halfMade \in SUBSET RestoredNames
      /\ rollbackFaults \in 0..MaxRollbackFaults
  BY <1>1, NameFits
<1>9. UNCHANGED <<originEdits, rollbacks, rollbackFaults, halfMade, contested>>
  BY DEF RegisterRestored
<1>10. "receipt" \in RollbackSteps
  BY DEF RollbackSteps
<1>11. f # NoFolder /\ f.receipt => l # {}
  BY <1>6
<1> HIDE DEF n
<1>12. RollbackMovesTo(o, n, "receipt", f, l)
  BY <1>1, <1>3, <1>4, <1>5, <1>6, <1>7, <1>8, <1>9, <1>10, <1>11 DEF RollbackMovesTo, n
<1> QED
  BY <1>12, RollbackMoves

LEMMA WriteProductReceiptKeeps ==
    ASSUME RollbackInvariant, NEW o \in Origins, WriteProductReceipt(o)
    PROVE  RollbackInvariant'
<1> DEFINE n == NameAsked(o)
           f == [folders[n] EXCEPT !.receipt = TRUE]
<1>1. ~RollbackAt(o, "idle") /\ rollback[o].step = "receipt" /\ RollbackGoes(o, "idle")
  BY DEF WriteProductReceipt, RollbackAt
<1>2. o \in listed[n]
  BY <1>1, NameFits DEF RollbackAt
<1>3. rollbackFaults' \in 0..MaxRollbackFaults
  BY <1>1, NameFits, PaysTyped DEF WriteProductReceipt
<1>4. CASE folders' = folders
  BY <1>1, <1>2, <1>3, <1>4, NameFits, RollbackMoves DEF RollbackMovesTo,
     WriteProductReceipt, RollbackSteps
<1>5. CASE folders[n] # NoFolder /\ folders' = [folders EXCEPT ![n].receipt = TRUE]
  <2>1. f \in Folders /\ f.by = folders[n].by /\ f.stage = folders[n].stage /\ f # NoFolder
    BY <1>1, <1>5, NameFits, NoFolderIsNone DEF Folders
  <2>2. folders' = [folders EXCEPT ![n] = f]
    BY <1>5
  <2> HIDE DEF f
  <2>3. n \notin contested => RestoredFits(f, listed[n])
    BY <1>1, <2>1, NameFits DEF RestoredFits
  <2>4. /\ n \in RestoredNames /\ listed[n] \in SUBSET (Origins \cup {NoOrigin})
       /\ listed = [listed EXCEPT ![n] = listed[n]] /\ halfMade \in SUBSET RestoredNames
       /\ rollbackFaults \in 0..MaxRollbackFaults
    BY <1>1, NameFits
  <2>5. UNCHANGED <<listed, originEdits, rollbacks, halfMade, contested>>
    BY DEF WriteProductReceipt
  <2>6. "idle" \in RollbackSteps
    BY DEF RollbackSteps
  <2> HIDE DEF n
  <2>7. RollbackMovesTo(o, n, "idle", f, listed[n])
    BY <1>1, <1>2, <1>3, <2>1, <2>2, <2>3, <2>4, <2>5, <2>6 DEF RollbackMovesTo, n
  <2> QED
    BY <2>7, RollbackMoves
<1> QED
  BY <1>4, <1>5 DEF WriteProductReceipt

LEMMA FailRollbackKeeps ==
    ASSUME RollbackInvariant, NEW o \in Origins, FailRollback(o)
    PROVE  RollbackInvariant'
<1>1. ~RollbackAt(o, "idle") /\ rollback[o].step # "receipt" /\ RollbackGoes(o, "failed")
  BY DEF FailRollback, RollbackAt, Unregistered
<1>2. NameAsked(o) \notin contested =>
          RestoringFits(o, "failed", folders[NameAsked(o)], listed[NameAsked(o)])
  BY <1>1, NameFits DEF RestoringFits
<1>3. RollbackMovesTo(o, NameAsked(o), "failed", folders[NameAsked(o)], listed[NameAsked(o)])
  BY <1>1, <1>2, NameFits, PaysTyped DEF RollbackMovesTo, FailRollback, RollbackSteps
<1> QED
  BY <1>3, RollbackMoves

LEMMA RemoveFolderKeeps ==
    ASSUME RollbackInvariant, NEW o \in Origins, RemoveFolder(o)
    PROVE  RollbackInvariant'
<1>1. ~RollbackAt(o, "idle") /\ rollback[o].step = "failed" /\ RollbackGoes(o, "idle")
  BY DEF RemoveFolder, RollbackAt
<1>2. NameAsked(o) \notin contested => RestoredFits(NoFolder, listed[NameAsked(o)])
  BY <1>1, NameFits DEF RestoringFits, RestoredFits
<1> DEFINE n == NameAsked(o)
<1>3. /\ n \in RestoredNames /\ listed[n] \in SUBSET (Origins \cup {NoOrigin})
      /\ listed = [listed EXCEPT ![n] = listed[n]] /\ halfMade \in SUBSET RestoredNames
      /\ rollbackFaults \in 0..MaxRollbackFaults
  BY <1>1, NameFits
<1>4. UNCHANGED <<listed, originEdits, rollbacks, contested>>
  BY DEF RemoveFolder
<1>5. "idle" \in RollbackSteps
  BY DEF RollbackSteps
<1> HIDE DEF n
<1>6. ASSUME folders' = [folders EXCEPT ![n] = NoFolder],
             UNCHANGED <<rollbackFaults, halfMade>>
      PROVE  RollbackInvariant'
  BY <1>1, <1>2, <1>3, <1>4, <1>5, <1>6, RollbackMoves DEF RollbackMovesTo, n
<1>7. ASSUME RollbackPays, halfMade' = halfMade \cup {n}, UNCHANGED folders
      PROVE  RollbackInvariant'
  BY <1>1, NameFits, <1>3, <1>4, <1>5, <1>7, PaysTyped, RollbackMoves DEF n,
     RollbackMovesTo
<1> QED
  BY <1>6, <1>7 DEF RemoveFolder, n

LEMMA CrashRollbackKeeps ==
    ASSUME RollbackInvariant, NEW o \in Origins, CrashRollback(o)
    PROVE  RollbackInvariant'
  BY NameFits, PaysTyped, RollbackMoves DEF CrashRollback, RollbackMovesTo, RollbackSteps

-----------------------------------------------------------------------------
LEMMA StartRollbackKeeps ==
    ASSUME RollbackInvariant, NEW o \in Origins, NEW n \in RestoredNames, StartRollback(o, n)
    PROVE  RollbackInvariant'
<1> DEFINE r == [step |-> "create", name |-> n, edits |-> originEdits[o]]
<1>1. /\ rollback[o].step = "idle" /\ folders[n] = NoFolder
      /\ rollback' = [rollback EXCEPT ![o] = r]
      /\ UNCHANGED <<folders, listed, originEdits, rollbackFaults, halfMade>>
      /\ rollbacks < MaxRollbacks /\ rollbacks' = rollbacks + 1
      /\ contested' = IF \E p \in Origins : RollsBack(p, n) THEN contested \cup {n}
                      ELSE contested
  BY DEF StartRollback, RollbackAt, RollsBack
<1>2. r \in [step : RollbackSteps, name : RestoredNames, edits : 0..MaxOriginEdits]
      /\ r.step = "create" /\ r.name = n
  BY DEF RollbackInvariant, RollbackTypeOK, RollbackSteps
<1> HIDE DEF r
<1>3. RollbackTypeOK'
  BY <1>1, <1>2, RollbackAssumption DEF RollbackInvariant, RollbackTypeOK
<1>4. rollback'[o] = r /\ \A p \in Origins \ {o} : rollback'[p] = rollback[p]
  BY <1>1 DEF RollbackInvariant, RollbackTypeOK
<1>5. ASSUME NEW m \in RestoredNames PROVE OneRollbackOf(m)'
  <2>1. OneRollbackOf(m) /\ (m \notin contested' => m \notin contested)
    BY <1>1 DEF RollbackInvariant
  <2>2. CASE m = n
    BY <1>1, <2>1, <2>2, <1>4, <1>2 DEF OneRollbackOf, RestoredFits, RollsBack, RollbackAt,
       NameAsked, RestoringFits
  <2>3. CASE m # n
    BY <1>1, <1>2, <1>4, <2>3, <2>1 DEF RollsBack, RollbackAt, NameAsked, OneRollbackOf
  <2> QED
    BY <2>2, <2>3
<1>6. ASSUME NEW m \in RestoredNames PROVE LeftToItsBrain(m)'
  BY <1>1, <1>2, <1>4 DEF RollbackInvariant, RollsBack, RollbackAt, NameAsked,
     LeftToItsBrain
<1> QED
  BY <1>3, <1>5, <1>6 DEF RollbackInvariant

LEMMA CreateByHandKeeps ==
    ASSUME RollbackInvariant, NEW n \in RestoredNames, CreateByHand(n)
    PROVE  RollbackInvariant'
<1> DEFINE f == IF folders[n] # NoFolder THEN folders[n] ELSE EmptyFolder(NoOrigin)
           l == listed[n] \cup {NoOrigin}
<1>1. EmptyFolder(NoOrigin) \in Folders /\ EmptyFolder(NoOrigin) # NoFolder
  BY EmptyFolderTyped
<1>2. /\ folders' = [folders EXCEPT ![n] = f] /\ f \in Folders /\ f # NoFolder
      /\ listed' = [listed EXCEPT ![n] = l] /\ l \in SUBSET (Origins \cup {NoOrigin})
  BY <1>1 DEF CreateByHand, RollbackInvariant, RollbackTypeOK
<1>3. /\ rollbacks < MaxRollbacks /\ rollbacks' = rollbacks + 1
      /\ contested' = IF \E o \in Origins : RollsBack(o, n) THEN contested \cup {n}
                      ELSE contested
      /\ UNCHANGED <<originEdits, rollback, rollbackFaults, halfMade>>
  BY DEF CreateByHand, RollsBack
<1>4. folders[n] # NoFolder => f = folders[n]
  OBVIOUS
<1>5. NoOrigin \in l /\ l \ {NoOrigin} = listed[n] \ {NoOrigin} /\ listed[n] \subseteq l
  OBVIOUS
<1> HIDE DEF f, l
<1>6. RollbackTypeOK'
  BY <1>2, <1>3, RollbackAssumption DEF RollbackInvariant, RollbackTypeOK
<1>7. \A m \in RestoredNames : IF m = n THEN folders'[m] = f /\ listed'[m] = l
                               ELSE folders'[m] = folders[m] /\ listed'[m] = listed[m]
  BY <1>2 DEF RollbackInvariant, RollbackTypeOK
<1>8. \A o \in Origins, m \in RestoredNames : RollsBack(o, m)' <=> RollsBack(o, m)
  BY <1>3 DEF RollsBack, RollbackAt, NameAsked
<1>9. ASSUME NEW m \in RestoredNames PROVE OneRollbackOf(m)'
  BY <1>3, <1>2, <1>4, <1>5, <1>7, <1>8 DEF RollbackInvariant, OneRollbackOf, RestoredFits
<1>10. ASSUME NEW m \in RestoredNames PROVE LeftToItsBrain(m)'
  BY <1>3, <1>5, <1>7, <1>8 DEF RollbackInvariant, LeftToItsBrain, RollbackAt
<1> QED
  BY <1>6, <1>9, <1>10 DEF RollbackInvariant

LEMMA EditOriginKeeps ==
    ASSUME RollbackInvariant, NEW o \in Origins, EditOrigin(o)
    PROVE  RollbackInvariant'
<1>1. /\ UNCHANGED <<folders, listed, rollback, rollbacks, rollbackFaults, halfMade, contested>>
      /\ originEdits[o] < MaxOriginEdits
      /\ originEdits' = [originEdits EXCEPT ![o] = originEdits[o] + 1]
  BY DEF EditOrigin
<1>2. RollbackTypeOK'
  BY <1>1, RollbackAssumption DEF RollbackInvariant, RollbackTypeOK
<1>3. ASSUME NEW m \in RestoredNames PROVE OneRollbackOf(m)' /\ LeftToItsBrain(m)'
  BY <1>1 DEF RollbackInvariant, OneRollbackOf, LeftToItsBrain, RollsBack, RollbackAt,
     NameAsked
<1> QED
  BY <1>2, <1>3 DEF RollbackInvariant

-----------------------------------------------------------------------------
\* Whatever runs at once, fails or is edited, and whoever takes a name that was free.
THEOREM RollbackInvariantCorrect == RollbackSpec => []RollbackInvariant
<1>1. ASSUME RollbackInvariant, [RollbackNext]_rollbackVars PROVE RollbackInvariant'
  <2>1. CASE UNCHANGED rollbackVars
    BY <1>1, <2>1 DEF RollbackInvariant, RollbackTypeOK, rollbackVars, OneRollbackOf,
       LeftToItsBrain, RollsBack, RollbackAt, NameAsked
  <2>2. ASSUME NEW n \in RestoredNames, CreateByHand(n) PROVE RollbackInvariant'
    BY <1>1, <2>2, CreateByHandKeeps
  <2>3. ASSUME NEW o \in Origins, EditOrigin(o) PROVE RollbackInvariant'
    BY <1>1, <2>3, EditOriginKeeps
  <2>4. ASSUME NEW o \in Origins, NEW n \in RestoredNames, StartRollback(o, n)
        PROVE RollbackInvariant'
    BY <1>1, <2>4, StartRollbackKeeps
  <2>5. ASSUME NEW o \in Origins, MakeFolder(o) PROVE RollbackInvariant'
    BY <1>1, <2>5, MakeFolderKeeps
  <2>6. ASSUME NEW o \in Origins,
               FillRestored(o) \/ RenderRestored(o) \/ ExportRestored(o) \/ CaptureRestored(o)
        PROVE RollbackInvariant'
    BY <1>1, <2>6, AdvanceKeeps DEF FillRestored, RenderRestored, ExportRestored,
       CaptureRestored, Stages
  <2>7. ASSUME NEW o \in Origins, CompareOrigin(o) \/ RegisterRestored(o)
                                  \/ WriteProductReceipt(o)
        PROVE RollbackInvariant'
    BY <1>1, <2>7, CompareOriginKeeps, RegisterRestoredKeeps, WriteProductReceiptKeeps
  <2>8. ASSUME NEW o \in Origins, FailRollback(o) \/ RemoveFolder(o) \/ CrashRollback(o)
        PROVE RollbackInvariant'
    BY <1>1, <2>8, FailRollbackKeeps, RemoveFolderKeeps, CrashRollbackKeeps
  <2> QED
    BY <1>1, <2>1, <2>2, <2>3, <2>4, <2>5, <2>6, <2>7, <2>8 DEF RollbackNext
<1> QED
  BY <1>1, RollbackStart, PTL DEF RollbackSpec

\* A brain that is registered for a rollback is all there and of that rollback alone,
\* unless its name was taken meanwhile; a failed one leaves no folder unless the worker
\* died.
THEOREM RollbacksTrue == RollbackSpec => []RollbacksAreWhole
<1>1. RollbackInvariant => RollbacksAreWhole
  BY DEF RollbacksAreWhole, RollbackInvariant, RegisteredIsComplete, OneRollbackOf,
     RestoredFits, FailedLeavesNothing, LeftToItsBrain, RollingBack, RollsBack
<1> QED
  BY <1>1, RollbackInvariantCorrect, PTL

-----------------------------------------------------------------------------
(* The list that is served.                                                *)

ListRequests == [step : ListSteps, refresh : BOOLEAN, route : Routes, history : SUBSET Routes,
             left : SUBSET Routes, payload : Payloads, found : Scans,
             loaded : CacheFiles \cup {NoCatalog}, skipped : BOOLEAN, must : SUBSET Routes,
             raced : Races]

\* What was listed of a database, for as long as nobody writes it.
ShowsDatabase(entry, now, since) == entry.rows = now.rows /\ entry.versions >= since

\* A list that is kept: it is of the roots that its fingerprint tells of, and of their
\* databases until they are written again.
SnapshotFits(k, stamps, now, since) ==
    /\ "file" \notin k.raced =>
          LET toldOf == {r \in DOMAIN k.fingerprint : k.fingerprint[r] > 0}
          IN  DOMAIN k.payload \subseteq toldOf /\ (~k.skipped => DOMAIN k.payload = toldOf)
    /\ k.raced = {} =>
          \A r \in DOMAIN k.payload :
              /\ k.fingerprint[r] <= stamps[r]
              /\ k.fingerprint[r] = stamps[r] => ShowsDatabase(k.payload[r], now[r], since[r])

FileFits(f, stamps, now, since) ==
    /\ f \in CacheFiles
    /\ \A r \in Routes : f.scanned[r] = "found" => stamps[r] > 0
    /\ f.snapshot # NoCatalog => SnapshotFits(f.snapshot, stamps, now, since)

\* What a list that is being made has looked at.
LookedAt(q) == q.history \ q.left

AddFits(q) ==
    /\ q.step \in {"add", "added", "list"} => ~q.refresh /\ ~q.skipped /\ DOMAIN q.payload = {}
    /\ q.step \in {"add", "added"} => q.must \subseteq {q.route}

ScanFits(q, f, stamps, now, since) ==
    q.step \in {"added", "found"} =>
        /\ FileFits(q.loaded, stamps, now, since)
        /\ q.found = "found" => stamps[q.route] > 0
        /\ q.route \in q.must => q.found = "found"
        /\ "file" \notin q.raced => q.loaded = f
        /\ q.step = "found" => q.route \in q.left

ListFits(q, f) ==
    /\ q.step \in {"list", "read", "found", "store"} /\ "file" \notin q.raced /\ ~q.refresh =>
          \A r \in q.must : f.scanned[r] = "found"
    /\ q.step \in {"read", "found", "store"} /\ "file" \notin q.raced =>
          /\ q.left \subseteq q.history
          /\ \A r \in q.must \cap LookedAt(q) : f.scanned[r] = "found"
          /\ DOMAIN q.payload \subseteq {r \in LookedAt(q) : f.scanned[r] = "found"}
          /\ ~q.skipped => {r \in LookedAt(q) : f.scanned[r] = "found"} \subseteq DOMAIN q.payload
    /\ q.step = "store" => q.left = {}
    /\ q.step = "answer" /\ ~q.skipped /\ "file" \notin q.raced =>
          q.must \cap q.history \subseteq DOMAIN q.payload

RowsFit(q, now, since) ==
    q.step \in {"read", "found", "store"} /\ q.raced = {} =>
        \A r \in DOMAIN q.payload : ShowsDatabase(q.payload[r], now[r], since[r])

RequestFits(q, f, stamps, now, since) ==
    /\ q \in ListRequests
    /\ \A r \in q.must : stamps[r] > 0
    /\ AddFits(q) /\ ScanFits(q, f, stamps, now, since) /\ ListFits(q, f) /\ RowsFit(q, now, since)

DatabasesFit ==
    /\ stamp \in [Routes -> Stamps] /\ database \in [Routes -> Entries]
    /\ versionsSeen \in [Routes -> 0..MaxCatalogEvents]
    /\ \A r \in Routes :
        /\ stamp[r] <= catalogEvents + 1 /\ database[r].rows <= catalogEvents
        /\ database[r].versions <= catalogEvents /\ versionsSeen[r] <= database[r].versions
    /\ routes \subseteq Routes
    /\ catalogs \in 0..MaxCatalogs /\ catalogEvents \in 0..MaxCatalogEvents

CacheInvariant ==
    /\ DatabasesFit
    /\ FileFits(catalogFile, stamp, database, versionsSeen)
    /\ request \in [Desktops -> ListRequests]
    /\ \A w \in Desktops : RequestFits(request[w], catalogFile, stamp, database, versionsSeen)

-----------------------------------------------------------------------------
LEMMA PayloadIsFunction ==
    ASSUME NEW p
    PROVE  /\ p \in Payloads => DOMAIN p \subseteq Routes /\ p \in [DOMAIN p -> Entries]
           /\ \A R \in SUBSET Routes : p \in [R -> Entries] => p \in Payloads
BY DEF Payloads

LEMMA NoRequestFits ==
    ASSUME NEW f, NEW stamps, NEW now, NEW since
    PROVE  RequestFits(NoRequest, f, stamps, now, since)
<1>1. [r \in {} |-> 0] \in [{} -> Entries]
  OBVIOUS
<1>2. [r \in {} |-> 0] \in Payloads
  BY <1>1, PayloadIsFunction
<1>3. NoRequest \in ListRequests
  BY <1>2, CatalogCacheAssumption DEF NoRequest, ListRequests, ListSteps, Scans, Races
<1>4. NoRequest.step = "idle" /\ NoRequest.must = {}
  BY DEF NoRequest
<1> QED
  BY <1>3, <1>4 DEF RequestFits, AddFits, ScanFits, ListFits, RowsFit

LEMMA CacheStart == CacheInit => CacheInvariant
<1> SUFFICES ASSUME CacheInit PROVE CacheInvariant
  OBVIOUS
<1>1. /\ routes = {MainRoute} /\ database = [r \in Routes |-> [rows |-> 0, versions |-> 0]]
      /\ versionsSeen = [r \in Routes |-> 0] /\ catalogFile = EmptyFile
      /\ request = [w \in Desktops |-> NoRequest] /\ catalogs = 0 /\ catalogEvents = 0
  BY DEF CacheInit
<1>2. PICK R \in {{MainRoute}, Routes} :
        stamp = [r \in Routes |-> IF r \in R THEN 1 ELSE 0]
  BY DEF CacheInit
<1>3. stamp \in [Routes -> Stamps] /\ \A r \in Routes : stamp[r] <= 1
  BY <1>2, CatalogCacheAssumption DEF Stamps
<1>4. DatabasesFit
  BY <1>1, <1>3, CatalogCacheAssumption DEF DatabasesFit, Entries
<1>5. FileFits(catalogFile, stamp, database, versionsSeen)
  BY <1>1 DEF FileFits, EmptyFile, CacheFiles, Scans
<1> QED
  BY <1>1, <1>4, <1>5, NoRequestFits DEF CacheInvariant, RequestFits

-----------------------------------------------------------------------------
\* The databases move on: a write gives another stamp, a version does not.
MovesOn(stamps, now, since, stamps2, now2, since2) ==
    \A r \in Routes :
        /\ stamps[r] \in Nat /\ stamps2[r] \in Nat /\ stamps[r] <= stamps2[r]
        /\ stamps2[r] = stamps[r] => now2[r].rows = now[r].rows /\ since2[r] = since[r]

LEMMA FileMovesOn ==
    ASSUME NEW f, NEW stamps, NEW now, NEW since, NEW stamps2, NEW now2, NEW since2,
           FileFits(f, stamps, now, since), MovesOn(stamps, now, since, stamps2, now2, since2)
    PROVE  FileFits(f, stamps2, now2, since2)
<1>1. f \in CacheFiles /\ \A r \in Routes : f.scanned[r] = "found" => stamps2[r] > 0
  BY DEF FileFits, MovesOn
<1>2. ASSUME f.snapshot # NoCatalog PROVE SnapshotFits(f.snapshot, stamps2, now2, since2)
  <2> DEFINE k == f.snapshot
  <2>1. SnapshotFits(k, stamps, now, since) /\ k \in KeptCatalogs
    BY <1>1, <1>2 DEF FileFits, CacheFiles
  <2>2. DOMAIN k.payload \subseteq Routes
    BY <2>1, PayloadIsFunction DEF KeptCatalogs
  <2>3. k.raced = {} => DOMAIN k.payload \subseteq DOMAIN k.fingerprint
    BY <2>1 DEF SnapshotFits
  <2>4. k.raced = {} => \A r \in DOMAIN k.payload : k.fingerprint[r] \in Nat
    BY <2>1, <2>3, CatalogCacheAssumption DEF KeptCatalogs, Fingerprints, Stamps
  <2> HIDE DEF k
  <2>5. k.raced = {} =>
          \A r \in DOMAIN k.payload :
              /\ k.fingerprint[r] <= stamps2[r]
              /\ k.fingerprint[r] = stamps2[r] => ShowsDatabase(k.payload[r], now2[r], since2[r])
    BY <2>1, <2>4, <2>2 DEF SnapshotFits, MovesOn, ShowsDatabase
  <2>6. SnapshotFits(k, stamps2, now2, since2)
    BY <2>1, <2>5 DEF SnapshotFits
  <2> QED
    BY <2>6 DEF k
<1> QED
  BY <1>1, <1>2 DEF FileFits

\* Whoever makes a list is told of a write of the file, and of one of a database.
LEMMA ToldRequestFits ==
    ASSUME NEW q, NEW f, NEW f2, NEW race \in {"file", "database"},
           NEW stamps, NEW now, NEW since, NEW stamps2, NEW now2, NEW since2,
           RequestFits(q, f, stamps, now, since),
           MovesOn(stamps, now, since, stamps2, now2, since2),
           race = "database" => f2 = f
    PROVE  RequestFits(IF q.step # "idle" THEN [q EXCEPT !.raced = @ \cup {race}] ELSE q,
                       f2, stamps2, now2, since2)
<1>1. q \in ListRequests /\ \A r \in q.must : r \in Routes /\ stamps2[r] > 0
  BY DEF RequestFits, ListRequests, MovesOn
<1>2. CASE q.step = "idle"
  BY <1>1, <1>2 DEF RequestFits, AddFits, ScanFits, ListFits, RowsFit
<1>3. CASE q.step # "idle"
  <2> DEFINE p == [q EXCEPT !.raced = @ \cup {race}]
  <2>1. p \in ListRequests
    BY <1>1 DEF ListRequests, Races
  <2>2. /\ p.step = q.step /\ p.refresh = q.refresh /\ p.route = q.route
        /\ p.history = q.history /\ p.left = q.left /\ p.payload = q.payload
        /\ p.found = q.found /\ p.loaded = q.loaded /\ p.skipped = q.skipped
        /\ p.must = q.must /\ p.raced = q.raced \cup {race}
    BY <1>1 DEF ListRequests
  <2> HIDE DEF p
  <2>3. AddFits(p)
    BY <2>2 DEF RequestFits, AddFits
  <2>4. ScanFits(p, f2, stamps2, now2, since2)
    BY <2>2, <1>1, FileMovesOn DEF ScanFits, RequestFits, ListRequests, MovesOn
  <2>5. ListFits(p, f2)
    BY <2>2 DEF RequestFits, LookedAt, ListFits
  <2>6. RowsFit(p, now2, since2)
    BY <2>2 DEF RowsFit
  <2>7. RequestFits(p, f2, stamps2, now2, since2)
    BY <1>1, <2>1, <2>2, <2>3, <2>4, <2>5, <2>6 DEF RequestFits
  <2> QED
    BY <1>3, <2>7 DEF p
<1> QED
  BY <1>2, <1>3

\* Nothing is told of a version that is captured.
LEMMA UntoldRequestFits ==
    ASSUME NEW q, NEW f, NEW stamps, NEW now, NEW since, NEW now2,
           RequestFits(q, f, stamps, now, since),
           MovesOn(stamps, now, since, stamps, now2, since)
    PROVE  RequestFits(q, f, stamps, now2, since)
<1>1. q \in ListRequests
  BY DEF RequestFits
<1>2. DOMAIN q.payload \subseteq Routes
  BY <1>1, PayloadIsFunction DEF ListRequests
<1>3. ScanFits(q, f, stamps, now2, since)
  BY FileMovesOn DEF RequestFits, ScanFits
<1>4. RowsFit(q, now2, since)
  BY <1>2 DEF RequestFits, RowsFit, MovesOn, ShowsDatabase
<1> QED
  BY <1>3, <1>4 DEF RequestFits

LEMMA StampsAreNumbers ==
    ASSUME DatabasesFit
    PROVE  /\ \A r \in Routes : stamp[r] \in Nat /\ database[r].rows \in Nat
                                /\ database[r].versions \in Nat /\ versionsSeen[r] \in Nat
           /\ MovesOn(stamp, database, versionsSeen, stamp, database, versionsSeen)
  BY CatalogCacheAssumption DEF DatabasesFit, Stamps, Entries, MovesOn

LEMMA WriteDatabaseKeeps ==
    ASSUME CacheInvariant, NEW r \in Routes, NEW extra \in {0, 1}, WriteDatabase(r, extra),
           UNCHANGED <<routes, catalogFile, catalogs>>
    PROVE  CacheInvariant'
<1>1. /\ catalogEvents < MaxCatalogEvents /\ catalogEvents' = catalogEvents + 1
      /\ stamp' = [stamp EXCEPT ![r] = @ + 1]
      /\ database' = [database EXCEPT ![r].rows = @ + extra]
      /\ request' = Raced(request, Desktops, "database")
      /\ versionsSeen' = [versionsSeen EXCEPT ![r] = database[r].versions]
  BY DEF WriteDatabase, Happens
<1>2. /\ stamp \in [Routes -> Stamps] /\ database \in [Routes -> Entries]
      /\ versionsSeen \in [Routes -> 0..MaxCatalogEvents]
      /\ \A s \in Routes :
          /\ stamp[s] \in Nat /\ stamp[s] <= catalogEvents + 1
          /\ database[s].rows \in Nat /\ database[s].rows <= catalogEvents
          /\ database[s].versions \in Nat /\ database[s].versions <= catalogEvents
          /\ versionsSeen[s] <= database[s].versions
      /\ catalogEvents \in Nat /\ MaxCatalogEvents \in Nat
  BY StampsAreNumbers, CatalogCacheAssumption DEF CacheInvariant, DatabasesFit
<1>3. stamp' \in [Routes -> Stamps] /\ \A s \in Routes : stamp'[s] <= catalogEvents' + 1
  BY <1>1, <1>2 DEF Stamps
<1>4. /\ database'[r] = [database[r] EXCEPT !.rows = @ + extra]
      /\ \A s \in Routes \ {r} : database'[s] = database[s]
  BY <1>1, <1>2
<1>5. database[r].rows + extra \in 0..MaxCatalogEvents
  BY <1>1, <1>2
<1>6. /\ database'[r] \in Entries /\ database'[r].rows = database[r].rows + extra
      /\ database'[r].versions = database[r].versions
  BY <1>2, <1>4, <1>5 DEF Entries
<1>7. database' \in [Routes -> Entries]
  BY <1>1, <1>2, <1>6
<1>8. versionsSeen' \in [Routes -> 0..MaxCatalogEvents]
  BY <1>1, <1>2
<1>9. \A s \in Routes :
        /\ database'[s].rows <= catalogEvents' /\ database'[s].versions <= catalogEvents'
        /\ versionsSeen'[s] <= database'[s].versions
  BY <1>1, <1>2, <1>4, <1>6
<1>10. DatabasesFit'
  BY <1>1, <1>2, <1>3, <1>7, <1>8, <1>9 DEF CacheInvariant, DatabasesFit
<1>11. MovesOn(stamp, database, versionsSeen, stamp', database', versionsSeen')
  BY <1>1, <1>2, <1>4 DEF MovesOn
<1>12. FileFits(catalogFile', stamp', database', versionsSeen')
  BY <1>11, FileMovesOn DEF CacheInvariant
<1>13. \A w \in Desktops :
         /\ RequestFits(request[w], catalogFile, stamp, database, versionsSeen)
         /\ request'[w] = IF request[w].step # "idle"
                          THEN [request[w] EXCEPT !.raced = @ \cup {"database"}]
                          ELSE request[w]
  BY <1>1 DEF CacheInvariant, Raced
<1>14. \A w \in Desktops : RequestFits(request'[w], catalogFile', stamp', database', versionsSeen')
  <2> SUFFICES ASSUME NEW w \in Desktops
               PROVE  RequestFits(request'[w], catalogFile', stamp', database', versionsSeen')
    OBVIOUS
  <2>1. RequestFits(IF request[w].step # "idle"
                    THEN [request[w] EXCEPT !.raced = @ \cup {"database"}] ELSE request[w],
                    catalogFile, stamp', database', versionsSeen')
    BY <1>11, <1>13, ToldRequestFits
  <2> QED
    BY <1>13, <2>1
<1>15. request' \in [Desktops -> ListRequests]
  BY <1>1, <1>14 DEF Raced, RequestFits
<1> QED
  BY <1>10, <1>12, <1>14, <1>15 DEF CacheInvariant

LEMMA CaptureBrainVersionKeeps ==
    ASSUME CacheInvariant, NEW r \in Routes, CaptureBrainVersion(r)
    PROVE  CacheInvariant'
<1>1. /\ catalogEvents < MaxCatalogEvents /\ catalogEvents' = catalogEvents + 1
      /\ database' = [database EXCEPT ![r].versions = @ + 1]
      /\ UNCHANGED <<routes, stamp, versionsSeen, catalogFile, request, catalogs>>
  BY DEF CaptureBrainVersion, Happens
<1>2. /\ stamp \in [Routes -> Stamps] /\ database \in [Routes -> Entries]
      /\ versionsSeen \in [Routes -> 0..MaxCatalogEvents]
      /\ \A s \in Routes :
          /\ stamp[s] \in Nat /\ stamp[s] <= catalogEvents + 1
          /\ database[s].rows \in Nat /\ database[s].rows <= catalogEvents
          /\ database[s].versions \in Nat /\ database[s].versions <= catalogEvents
          /\ versionsSeen[s] <= database[s].versions /\ versionsSeen[s] \in Nat
      /\ catalogEvents \in Nat /\ MaxCatalogEvents \in Nat
  BY StampsAreNumbers, CatalogCacheAssumption DEF CacheInvariant, DatabasesFit
<1>4. /\ database'[r] = [database[r] EXCEPT !.versions = @ + 1]
      /\ \A s \in Routes \ {r} : database'[s] = database[s]
  BY <1>1, <1>2
<1>5. database[r].versions + 1 \in 0..MaxCatalogEvents
  BY <1>1, <1>2
<1>6. /\ database'[r] \in Entries /\ database'[r].rows = database[r].rows
      /\ database'[r].versions = database[r].versions + 1
  BY <1>2, <1>4, <1>5 DEF Entries
<1>7. database' \in [Routes -> Entries]
  BY <1>1, <1>2, <1>6
<1>9. \A s \in Routes :
        /\ stamp[s] <= catalogEvents' + 1
        /\ database'[s].rows <= catalogEvents' /\ database'[s].versions <= catalogEvents'
        /\ versionsSeen[s] <= database'[s].versions
  BY <1>1, <1>2, <1>4, <1>6
<1>10. DatabasesFit'
  BY <1>1, <1>2, <1>7, <1>9 DEF CacheInvariant, DatabasesFit
<1>11. MovesOn(stamp, database, versionsSeen, stamp, database', versionsSeen)
  <2>1. \A s \in Routes : database'[s].rows = database[s].rows
    BY <1>4, <1>6
  <2> QED
    BY <1>2, <2>1 DEF MovesOn
<1>12. FileFits(catalogFile', stamp', database', versionsSeen')
  BY <1>1, <1>11, FileMovesOn DEF CacheInvariant
<1>14. \A w \in Desktops : RequestFits(request[w], catalogFile, stamp, database', versionsSeen)
  BY <1>11, UntoldRequestFits DEF CacheInvariant
<1> QED
  BY <1>1, <1>10, <1>12, <1>14 DEF CacheInvariant

\* A write of the file by one worker, of which the others are told.
LEMMA FileWriteKeeps ==
    ASSUME CacheInvariant, NEW W \in SUBSET Desktops, NEW after \in [W -> ListRequests],
           DatabasesFit', UNCHANGED <<stamp, database, versionsSeen>>,
           FileFits(catalogFile', stamp, database, versionsSeen),
           request' = Raced([w \in Desktops |-> IF w \in W THEN after[w] ELSE request[w]],
                            Desktops \ W, "file"),
           \A w \in W : RequestFits(after[w], catalogFile', stamp, database, versionsSeen)
    PROVE  CacheInvariant'
<1>1. MovesOn(stamp, database, versionsSeen, stamp, database, versionsSeen)
  BY StampsAreNumbers DEF CacheInvariant
<1>2. \A w \in W : request'[w] = after[w]
  BY DEF Raced
<1>3. \A w \in Desktops \ W :
         request'[w] = IF request[w].step # "idle"
                       THEN [request[w] EXCEPT !.raced = @ \cup {"file"}] ELSE request[w]
  BY DEF Raced
<1>4. \A w \in Desktops \ W :
        RequestFits(request'[w], catalogFile', stamp, database, versionsSeen)
  <2> SUFFICES ASSUME NEW w \in Desktops \ W
               PROVE  RequestFits(request'[w], catalogFile', stamp, database, versionsSeen)
    OBVIOUS
  <2>1. RequestFits(request[w], catalogFile, stamp, database, versionsSeen)
    BY DEF CacheInvariant
  <2>2. RequestFits(IF request[w].step # "idle"
                    THEN [request[w] EXCEPT !.raced = @ \cup {"file"}] ELSE request[w],
                    catalogFile', stamp, database, versionsSeen)
    BY <1>1, <2>1, ToldRequestFits
  <2> QED
    BY <1>3, <2>2
<1>5. \A w \in Desktops : RequestFits(request'[w], catalogFile', stamp, database, versionsSeen)
  BY <1>2, <1>4
<1>6. request' \in [Desktops -> ListRequests]
  BY <1>5 DEF Raced, RequestFits
<1> QED
  BY <1>5, <1>6 DEF CacheInvariant

\* A step of one worker that leaves the file.
LEMMA RequestMoves ==
    ASSUME CacheInvariant, NEW w \in Desktops, NEW q, DatabasesFit',
           UNCHANGED <<stamp, database, versionsSeen, catalogFile>>,
           request' = [request EXCEPT ![w] = q],
           RequestFits(q, catalogFile, stamp, database, versionsSeen)
    PROVE  CacheInvariant'
<1>1. q \in ListRequests
  BY DEF RequestFits
<1> QED
  BY <1>1 DEF CacheInvariant

\* The roots are dropped, and what was found in them forgotten.
LEMMA ForgetRoutesKeeps ==
    ASSUME CacheInvariant, Happens, routes' \subseteq Routes,
           UNCHANGED <<stamp, database, versionsSeen, catalogs>>,
           FileFits(catalogFile', stamp, database, versionsSeen),
           request' = Raced(request, Desktops, "file")
    PROVE  CacheInvariant'
<1>1. DatabasesFit'
  BY CatalogCacheAssumption, StampsAreNumbers DEF CacheInvariant, DatabasesFit, Happens
<1>2. request \in [Desktops -> ListRequests]
  BY DEF CacheInvariant
<1>3. request = [w \in Desktops |-> IF w \in {} THEN request[w] ELSE request[w]]
  BY <1>2
<1>4. request' = Raced([w \in Desktops |-> IF w \in {} THEN [v \in {} |-> NoRequest][w]
                                           ELSE request[w]], Desktops \ {}, "file")
  BY <1>2 DEF Raced
<1>5. [v \in {} |-> NoRequest] \in [{} -> ListRequests]
  OBVIOUS
<1> QED
  BY <1>1, <1>4, <1>5, FileWriteKeeps

LEMMA ForgottenFileFits ==
    ASSUME CacheInvariant, NEW scanned \in [Routes -> Scans],
           \A r \in Routes : scanned[r] \in {catalogFile.scanned[r], "never"}
    PROVE  FileFits([scanned |-> scanned, snapshot |-> NoCatalog], stamp, database, versionsSeen)
BY DEF CacheInvariant, FileFits, CacheFiles

LEMMA DropRouteKeeps ==
    ASSUME CacheInvariant, NEW r \in Routes, DropRoute(r)
    PROVE  CacheInvariant'
<1>1. /\ Happens /\ routes' = routes \ {r}
      /\ UNCHANGED <<stamp, database, versionsSeen, catalogs>>
      /\ request' = Raced(request, Desktops, "file")
      /\ catalogFile' = IF catalogFile.scanned[r] = "never" THEN catalogFile
                        ELSE [scanned |-> [catalogFile.scanned EXCEPT ![r] = "never"],
                              snapshot |-> NoCatalog]
  BY DEF DropRoute
<1>2. FileFits(catalogFile', stamp, database, versionsSeen)
  BY <1>1, ForgottenFileFits DEF CacheInvariant, FileFits, CacheFiles, Scans
<1>3. routes' \subseteq Routes
  BY <1>1 DEF CacheInvariant, DatabasesFit
<1> QED
  BY <1>1, <1>2, <1>3, ForgetRoutesKeeps

LEMMA InitWorkspaceKeeps == CacheInvariant /\ InitWorkspace => CacheInvariant'
<1> SUFFICES ASSUME CacheInvariant, InitWorkspace PROVE CacheInvariant'
  OBVIOUS
<1> DEFINE scanned == [s \in Routes |-> IF s = MainRoute THEN catalogFile.scanned[MainRoute]
                                        ELSE "never"]
<1>1. /\ Happens /\ routes' = {MainRoute}
      /\ UNCHANGED <<stamp, database, versionsSeen, catalogs>>
      /\ request' = Raced(request, Desktops, "file")
      /\ catalogFile' = [scanned |-> scanned, snapshot |-> NoCatalog]
  BY DEF InitWorkspace, RetainOnly
<1>2. FileFits(catalogFile', stamp, database, versionsSeen)
  <2>1. scanned \in [Routes -> Scans]
    BY CatalogCacheAssumption DEF CacheInvariant, FileFits, CacheFiles, Scans
  <2>2. \A s \in Routes : scanned[s] \in {catalogFile.scanned[s], "never"}
    OBVIOUS
  <2> HIDE DEF scanned
  <2> QED
    BY <1>1, <2>1, <2>2, ForgottenFileFits
<1> QED
  BY <1>1, <1>2, ForgetRoutesKeeps, CatalogCacheAssumption

-----------------------------------------------------------------------------
\* A list that begins: it is served what is kept, or it looks at every root.
LEMMA ListingFits ==
    ASSUME CacheInvariant, NEW q \in ListRequests, \A r \in q.must : stamp[r] > 0,
           DOMAIN q.payload = {}, ~q.skipped,
           "file" \notin q.raced /\ ~q.refresh =>
               \A r \in q.must : catalogFile.scanned[r] = "found"
    PROVE  RequestFits(Listing(q), catalogFile, stamp, database, versionsSeen)
<1> DEFINE k == catalogFile.snapshot
           served == ~q.refresh /\ Served(catalogFile, routes)
<1>1. routes \in SUBSET Routes /\ catalogFile \in CacheFiles
  BY DEF CacheInvariant, DatabasesFit, FileFits
<1>2. CASE served
  <2> DEFINE p == [q EXCEPT !.step = "answer", !.history = routes, !.payload = k.payload,
                            !.skipped = k.skipped, !.raced = @ \cup k.raced]
  <2>1. Listing(q) = p
    BY <1>2 DEF Listing
  <2>2. k # NoCatalog /\ k \in KeptCatalogs /\ SnapshotFits(k, stamp, database, versionsSeen)
    BY <1>1, <1>2 DEF Served, CacheFiles, CacheInvariant, FileFits
  <2>3. k.fingerprint = [r \in routes |-> IF catalogFile.scanned[r] = "found" THEN stamp[r]
                                          ELSE 0]
    BY <1>2 DEF Served, Fingerprint, IsFound
  <2>a. k.payload \in Payloads /\ k.skipped \in BOOLEAN /\ k.raced \in Races
    BY <2>2 DEF KeptCatalogs
  <2> HIDE DEF k, served
  <2>4. /\ p \in ListRequests /\ p.step = "answer" /\ p.must = q.must /\ p.history = routes
        /\ p.payload = k.payload /\ p.skipped = k.skipped /\ p.raced = q.raced \cup k.raced
    BY <1>1, <2>a DEF ListRequests, ListSteps, Races
  <2> HIDE DEF p
  <2>5. ASSUME ~k.skipped, "file" \notin q.raced \cup k.raced, ~q.refresh
        PROVE  q.must \cap routes \subseteq DOMAIN k.payload
    BY <2>2, <2>5, <2>3 DEF SnapshotFits
  <2>6. ListFits(p, catalogFile)
    BY <1>2, <2>4, <2>5 DEF ListFits, served
  <2> QED
    BY <2>1, <2>4, <2>6 DEF RequestFits, AddFits, ScanFits, RowsFit
<1>3. CASE ~served
  <2> DEFINE p == [q EXCEPT !.step = "read", !.history = routes, !.left = routes]
  <2>1. Listing(q) = p
    BY <1>3 DEF Listing
  <2>2. /\ p \in ListRequests /\ p.step = "read" /\ p.must = q.must /\ p.history = routes
        /\ p.left = routes /\ p.payload = q.payload /\ p.raced = q.raced /\ p.refresh = q.refresh
    BY <1>1 DEF ListRequests, ListSteps
  <2> HIDE DEF p
  <2>3. LookedAt(p) = {}
    BY <2>2 DEF LookedAt
  <2>4. ListFits(p, catalogFile) /\ RowsFit(p, database, versionsSeen)
    BY <2>2, <2>3 DEF ListFits, RowsFit
  <2>5. RequestFits(p, catalogFile, stamp, database, versionsSeen)
    BY <2>2, <2>4 DEF RequestFits, AddFits, ScanFits
  <2> QED
    BY <2>1, <2>5
<1> QED
  BY <1>2, <1>3

LEMMA StartCatalogKeeps ==
    ASSUME CacheInvariant, NEW w \in Desktops, NEW refresh \in BOOLEAN,
           StartCatalog(w, refresh)
    PROVE  CacheInvariant'
<1> DEFINE q == [NoRequest EXCEPT !.refresh = refresh,
                                  !.must = IF refresh THEN {r \in routes : Exists(r)} ELSE {}]
<1>1. /\ catalogs < MaxCatalogs /\ catalogs' = catalogs + 1
      /\ request' = [request EXCEPT ![w] = Listing(q)]
      /\ UNCHANGED <<routes, stamp, database, versionsSeen, catalogFile, catalogEvents>>
  BY DEF StartCatalog
<1>2. NoRequest \in ListRequests /\ routes \subseteq Routes
  BY NoRequestFits DEF RequestFits, CacheInvariant, DatabasesFit
<1>3. /\ q \in ListRequests /\ (~q.refresh => q.must = {}) /\ DOMAIN q.payload = {} /\ ~q.skipped
      /\ \A r \in q.must : stamp[r] > 0
  BY <1>2 DEF ListRequests, NoRequest, Exists
<1>4. RequestFits(Listing(q), catalogFile, stamp, database, versionsSeen)
  BY <1>3, ListingFits
<1>5. DatabasesFit'
  BY <1>1, CatalogCacheAssumption DEF CacheInvariant, DatabasesFit
<1> QED
  BY <1>1, <1>4, <1>5, RequestMoves

LEMMA AddRouteKeeps ==
    ASSUME CacheInvariant, NEW w \in Desktops, NEW r \in Routes, AddRoute(w, r)
    PROVE  CacheInvariant'
<1> DEFINE q == [NoRequest EXCEPT !.step = "add", !.route = r,
                                  !.must = IF Exists(r) THEN {r} ELSE {}]
<1>1. /\ catalogs < MaxCatalogs /\ catalogs' = catalogs + 1 /\ routes' = routes \cup {r}
      /\ request' = [request EXCEPT ![w] = q]
      /\ UNCHANGED <<stamp, database, versionsSeen, catalogFile, catalogEvents>>
  BY DEF AddRoute
<1>2. NoRequest \in ListRequests
  BY NoRequestFits DEF RequestFits
<1>3. /\ q \in ListRequests /\ q.step = "add" /\ q.route = r /\ q.refresh = NoRequest.refresh
      /\ q.payload = NoRequest.payload /\ q.skipped = NoRequest.skipped
      /\ q.must = IF Exists(r) THEN {r} ELSE {}
  BY <1>2 DEF ListRequests, ListSteps
<1>4. DOMAIN NoRequest.payload = {} /\ ~NoRequest.skipped /\ ~NoRequest.refresh
  BY DEF NoRequest
<1> HIDE DEF q
<1>5. RequestFits(q, catalogFile, stamp, database, versionsSeen)
  BY <1>3, <1>4 DEF RequestFits, AddFits, ScanFits, ListFits, RowsFit, Exists
<1>6. DatabasesFit'
  BY <1>1, CatalogCacheAssumption DEF CacheInvariant, DatabasesFit
<1> QED
  BY <1>1, <1>5, <1>6, RequestMoves

LEMMA ScanRouteKeeps ==
    ASSUME CacheInvariant, NEW w \in Desktops, NEW r \in Routes, ScanRoute(w, r)
    PROVE  CacheInvariant'
<1> DEFINE q == request[w]
           found == IF Exists(r) THEN "found" ELSE "empty"
           step == IF q.step = "add" THEN "added" ELSE "found"
           p == [q EXCEPT !.step = step, !.route = r, !.loaded = catalogFile, !.found = found]
<1>1. /\ \/ q.step = "add" /\ r = q.route
         \/ q.step = "read" /\ r \in q.left
      /\ UNCHANGED <<routes, stamp, database, versionsSeen, catalogFile, catalogs,
                     catalogEvents>>
  BY DEF ScanRoute, IsNext
<1>2. request' = [request EXCEPT ![w] = p]
  BY DEF ScanRoute, CacheInvariant
<1>3. /\ q \in ListRequests /\ RequestFits(q, catalogFile, stamp, database, versionsSeen)
      /\ FileFits(catalogFile, stamp, database, versionsSeen) /\ catalogFile \in CacheFiles
  BY DEF CacheInvariant, FileFits
<1>4. /\ p \in ListRequests /\ p.step = step /\ p.route = r /\ p.loaded = catalogFile
      /\ p.found = found /\ p.refresh = q.refresh /\ p.history = q.history /\ p.left = q.left
      /\ p.payload = q.payload /\ p.skipped = q.skipped /\ p.must = q.must
      /\ p.raced = q.raced
  BY <1>3 DEF ListRequests, ListSteps, Scans
<1>5. (found = "found") <=> stamp[r] > 0
  BY DEF Exists
<1> HIDE DEF p, found
<1>6. \A s \in q.must : stamp[s] > 0
  BY <1>3 DEF RequestFits
<1>7. ASSUME q.step = "add" PROVE RequestFits(p, catalogFile, stamp, database, versionsSeen)
  BY <1>1, <1>3, <1>7, <1>4, <1>5, <1>6 DEF RequestFits, AddFits, ScanFits, ListFits,
     RowsFit
<1>8. ASSUME q.step = "read" PROVE RequestFits(p, catalogFile, stamp, database, versionsSeen)
  BY <1>1, <1>8, <1>3, <1>4, <1>5, <1>6 DEF AddFits, ScanFits, LookedAt, RequestFits,
     ListFits, RowsFit
<1>9. RequestFits(p, catalogFile, stamp, database, versionsSeen)
  BY <1>1, <1>7, <1>8
<1>10. DatabasesFit'
  BY <1>1 DEF CacheInvariant, DatabasesFit
<1> QED
  BY <1>1, <1>2, <1>9, <1>10, RequestMoves

-----------------------------------------------------------------------------
\* A root that was looked at is written to what was loaded, and the rest of it stays.
LEMMA ScannedFileFits ==
    ASSUME CacheInvariant, NEW w \in Desktops, request[w].step \in {"added", "found"}
    PROVE  LET q == request[w]
               f == [q.loaded EXCEPT !.scanned[q.route] = q.found]
           IN  /\ FileFits(f, stamp, database, versionsSeen)
               /\ f.scanned[q.route] = q.found
               /\ \A r \in Routes \ {q.route} : f.scanned[r] = q.loaded.scanned[r]
<1> DEFINE q == request[w]
           f == [q.loaded EXCEPT !.scanned[q.route] = q.found]
<1>1. /\ q \in ListRequests /\ FileFits(q.loaded, stamp, database, versionsSeen)
      /\ q.found = "found" => stamp[q.route] > 0
  BY DEF CacheInvariant, RequestFits, ScanFits
<1>2. q.loaded \in CacheFiles /\ q.route \in Routes /\ q.found \in Scans
  BY <1>1 DEF FileFits, ListRequests
<1> HIDE DEF q
<1>3. /\ f \in CacheFiles /\ f.snapshot = q.loaded.snapshot
      /\ f.scanned = [q.loaded.scanned EXCEPT ![q.route] = q.found]
      /\ q.loaded.scanned \in [Routes -> Scans]
  BY <1>2 DEF CacheFiles
<1>4. /\ f.scanned[q.route] = q.found
      /\ \A r \in Routes \ {q.route} : f.scanned[r] = q.loaded.scanned[r]
  BY <1>2, <1>3
<1> HIDE DEF f
<1>5. FileFits(f, stamp, database, versionsSeen)
  BY <1>1, <1>2, <1>3, <1>4 DEF FileFits
<1> QED
  BY <1>4, <1>5 DEF f, q

\* The write of one worker is told to the others.
LEMMA WriteFileKeeps ==
    ASSUME CacheInvariant, NEW w \in Desktops, NEW f, NEW after,
           WriteFile(w, f, after), DatabasesFit', UNCHANGED <<stamp, database, versionsSeen>>,
           FileFits(f, stamp, database, versionsSeen),
           RequestFits(after, f, stamp, database, versionsSeen)
    PROVE  CacheInvariant'
<1>1. after \in ListRequests /\ request \in [Desktops -> ListRequests]
  BY DEF RequestFits, CacheInvariant
<1>2. catalogFile' = f /\ request' = Raced([request EXCEPT ![w] = after], Desktops \ {w}, "file")
  BY DEF WriteFile
<1> DEFINE a == [v \in {w} |-> after]
<1>3. a \in [{w} -> ListRequests] /\ a[w] = after
  BY <1>1
<1>4. [request EXCEPT ![w] = after] = [v \in Desktops |-> IF v \in {w} THEN a[v] ELSE request[v]]
  BY <1>1
<1> HIDE DEF a
<1> QED
  BY ZenonT(30), <1>2, <1>3, <1>4, FileWriteKeeps

LEMMA RecordAddedRouteKeeps ==
    ASSUME CacheInvariant, NEW w \in Desktops, RecordAddedRoute(w)
    PROVE  CacheInvariant'
<1> DEFINE q == request[w]
           f == [q.loaded EXCEPT !.scanned[q.route] = q.found]
           p == [q EXCEPT !.step = "list", !.loaded = NoCatalog]
<1>1. /\ q.step = "added" /\ WriteFile(w, f, p)
      /\ UNCHANGED <<routes, stamp, database, versionsSeen, catalogs, catalogEvents>>
  BY DEF RecordAddedRoute
<1>2. q \in ListRequests /\ RequestFits(q, catalogFile, stamp, database, versionsSeen)
  BY DEF CacheInvariant
<1>3. FileFits(f, stamp, database, versionsSeen) /\ f.scanned[q.route] = q.found
  BY <1>1, ScannedFileFits
<1>4. /\ p \in ListRequests /\ p.step = "list" /\ p.refresh = q.refresh /\ p.payload = q.payload
      /\ p.skipped = q.skipped /\ p.must = q.must /\ p.raced = q.raced
  BY <1>2 DEF ListRequests, ListSteps
<1>5. /\ ~q.refresh /\ ~q.skipped /\ DOMAIN q.payload = {} /\ q.must \subseteq {q.route}
      /\ q.route \in q.must => q.found = "found"
      /\ \A r \in q.must : stamp[r] > 0
  BY <1>1, <1>2 DEF RequestFits, AddFits, ScanFits
<1> HIDE DEF p, f, q
<1>6. RequestFits(p, f, stamp, database, versionsSeen)
  BY <1>3, <1>4, <1>5 DEF RequestFits, AddFits, ScanFits, ListFits, RowsFit
<1>7. DatabasesFit'
  BY <1>1 DEF CacheInvariant, DatabasesFit
<1> QED
  BY <1>1, <1>3, <1>6, <1>7, WriteFileKeeps

LEMMA ListCatalogKeeps ==
    ASSUME CacheInvariant, NEW w \in Desktops, ListCatalog(w)
    PROVE  CacheInvariant'
<1> DEFINE q == request[w]
<1>1. /\ q.step = "list" /\ request' = [request EXCEPT ![w] = Listing(q)]
      /\ UNCHANGED <<routes, stamp, database, versionsSeen, catalogFile, catalogs,
                     catalogEvents>>
  BY DEF ListCatalog, CacheInvariant
<1>2. q \in ListRequests /\ RequestFits(q, catalogFile, stamp, database, versionsSeen)
  BY DEF CacheInvariant
<1> HIDE DEF q
<1>3. /\ ~q.refresh /\ ~q.skipped /\ DOMAIN q.payload = {} /\ \A r \in q.must : stamp[r] > 0
      /\ "file" \notin q.raced => \A r \in q.must : catalogFile.scanned[r] = "found"
  BY <1>1, <1>2 DEF RequestFits, AddFits, ListFits
<1>4. RequestFits(Listing(q), catalogFile, stamp, database, versionsSeen)
  BY <1>2, <1>3, ListingFits
<1>5. DatabasesFit'
  BY <1>1 DEF CacheInvariant, DatabasesFit
<1> QED
  BY <1>1, <1>4, <1>5, RequestMoves

\* What a root shows is taken to the list.
LEMMA TakeRowsFits ==
    ASSUME CacheInvariant, NEW q \in ListRequests, NEW r \in q.left, NEW found \in BOOLEAN,
           NEW skipped \in BOOLEAN, NEW f, \A s \in q.must : stamp[s] > 0,
           "file" \notin q.raced =>
               /\ q.left \subseteq q.history
               /\ ~q.refresh => \A s \in q.must : f.scanned[s] = "found"
               /\ \A s \in q.must \cap LookedAt(q) : f.scanned[s] = "found"
               /\ DOMAIN q.payload \subseteq {s \in LookedAt(q) : f.scanned[s] = "found"}
               /\ ~q.skipped => {s \in LookedAt(q) : f.scanned[s] = "found"} \subseteq DOMAIN q.payload
               /\ f.scanned[r] = "found" <=> found
               /\ r \in q.must => found,
           q.raced = {} =>
               \A s \in DOMAIN q.payload : ShowsDatabase(q.payload[s], database[s], versionsSeen[s])
    PROVE  RequestFits(TakeRows(q, r, found, skipped), f, stamp, database, versionsSeen)
<1> DEFINE more == IF found /\ ~skipped THEN {r} ELSE {}
           payload == [s \in DOMAIN q.payload \cup more |->
                          IF s = r THEN database[r] ELSE q.payload[s]]
           step == IF q.left = {r} THEN "store" ELSE "read"
           skips == q.skipped \/ skipped
           p == [q EXCEPT !.left = @ \ {r}, !.step = step, !.payload = payload,
                          !.skipped = skips, !.loaded = NoCatalog]
<1>1. TakeRows(q, r, found, skipped) = p
  BY DEF TakeRows
<1>2. r \in Routes /\ database[r] \in Entries /\ skips \in BOOLEAN
  BY DEF ListRequests, CacheInvariant, DatabasesFit
<1>3. q.payload \in [DOMAIN q.payload -> Entries] /\ DOMAIN q.payload \subseteq Routes
  BY PayloadIsFunction DEF ListRequests
<1>4. /\ payload \in [DOMAIN q.payload \cup more -> Entries]
      /\ DOMAIN q.payload \cup more \subseteq Routes
  BY <1>2, <1>3
<1>5. payload \in Payloads
  BY <1>4, PayloadIsFunction
<1>6. /\ DOMAIN payload = DOMAIN q.payload \cup more
      /\ \A s \in DOMAIN payload : payload[s] = IF s = r THEN database[r] ELSE q.payload[s]
  OBVIOUS
<1> HIDE DEF payload, skips, step
<1>7. /\ p \in ListRequests /\ p.left = q.left \ {r} /\ p.step = step /\ p.payload = payload
      /\ p.skipped = skips /\ p.history = q.history /\ p.refresh = q.refresh
      /\ p.must = q.must /\ p.raced = q.raced
  <2>1. step \in ListSteps
    BY DEF step, ListSteps
  <2> QED
    BY <1>2, <1>5, <2>1 DEF ListRequests
<1> HIDE DEF p
<1>8. (step = "store" => p.left = {}) /\ step \in {"store", "read"}
  BY <1>7 DEF step
<1>9. ListFits(p, f)
  <2> SUFFICES ASSUME "file" \notin q.raced
               PROVE  /\ ~q.refresh => \A s \in q.must : f.scanned[s] = "found"
                      /\ p.left \subseteq q.history
                      /\ \A s \in q.must \cap LookedAt(p) : f.scanned[s] = "found"
                      /\ DOMAIN payload \subseteq {s \in LookedAt(p) : f.scanned[s] = "found"}
                      /\ ~skips => {s \in LookedAt(p) : f.scanned[s] = "found"} \subseteq DOMAIN payload
    BY <1>7, <1>8 DEF ListFits
  <2>1. LookedAt(p) = LookedAt(q) \cup {r} /\ r \notin LookedAt(q)
    BY <1>7 DEF LookedAt
  <2>2. skips <=> q.skipped \/ skipped
    BY DEF skips
  <2> QED
    BY <1>6, <1>7, <2>1, <2>2
<1>10. RowsFit(p, database, versionsSeen)
  BY <1>2, <1>6, <1>7 DEF CacheInvariant, DatabasesFit, ShowsDatabase, Entries, RowsFit
<1>11. AddFits(p) /\ ScanFits(p, f, stamp, database, versionsSeen)
  BY <1>7, <1>8 DEF AddFits, ScanFits
<1> QED
  BY <1>1, <1>7, <1>9, <1>10, <1>11 DEF RequestFits

LEMMA OneMoreCatalogEvent ==
    ASSUME CacheInvariant, NEW skipped, NEW found, CanBeRead(skipped, found),
           UNCHANGED <<routes, stamp, database, versionsSeen, catalogs>>
    PROVE  DatabasesFit'
  BY StampsAreNumbers, CatalogCacheAssumption DEF CanBeRead, Happens, CacheInvariant,
     DatabasesFit

LEMMA RecordRouteKeeps ==
    ASSUME CacheInvariant, NEW w \in Desktops, NEW skipped \in BOOLEAN, RecordRoute(w, skipped)
    PROVE  CacheInvariant'
<1> DEFINE q == request[w]
           f == [q.loaded EXCEPT !.scanned[q.route] = q.found]
           o == [q EXCEPT !.found = "never"]
           found == q.found = "found"
<1>1. /\ q.step = "found" /\ CanBeRead(skipped, found)
      /\ WriteFile(w, f, TakeRows(o, q.route, found, skipped))
      /\ UNCHANGED <<routes, stamp, database, versionsSeen, catalogs>>
  BY DEF RecordRoute
<1>2. q \in ListRequests /\ RequestFits(q, catalogFile, stamp, database, versionsSeen)
  BY DEF CacheInvariant
<1>3. /\ FileFits(f, stamp, database, versionsSeen) /\ f.scanned[q.route] = q.found
      /\ \A r \in Routes \ {q.route} : f.scanned[r] = q.loaded.scanned[r]
  BY <1>1, ScannedFileFits
<1>4. /\ o \in ListRequests /\ o.step = q.step /\ o.refresh = q.refresh /\ o.payload = q.payload
      /\ o.skipped = q.skipped /\ o.must = q.must /\ o.raced = q.raced
      /\ o.history = q.history /\ o.left = q.left
  BY <1>2 DEF ListRequests, Scans
<1>5. /\ q.route \in q.left /\ q.route \in Routes /\ q.must \subseteq Routes
      /\ q.history \subseteq Routes
      /\ q.route \in q.must => q.found = "found"
      /\ \A r \in q.must : stamp[r] > 0
      /\ "file" \notin q.raced => q.loaded = catalogFile
  BY <1>1, <1>2 DEF RequestFits, ScanFits, ListRequests
<1> HIDE DEF f, o
<1>6. "file" \notin q.raced =>
        /\ q.left \subseteq q.history
        /\ ~q.refresh => \A s \in q.must : f.scanned[s] = "found"
        /\ \A s \in q.must \cap LookedAt(q) : f.scanned[s] = "found"
        /\ DOMAIN q.payload \subseteq {s \in LookedAt(q) : f.scanned[s] = "found"}
        /\ ~q.skipped => {s \in LookedAt(q) : f.scanned[s] = "found"} \subseteq DOMAIN q.payload
        /\ f.scanned[q.route] = "found" <=> found
        /\ q.route \in q.must => found
  BY <1>3, <1>5, <1>1, <1>2 DEF RequestFits, ListFits, LookedAt
<1>7. q.raced = {} =>
         \A s \in DOMAIN q.payload : ShowsDatabase(q.payload[s], database[s], versionsSeen[s])
  BY <1>1, <1>2 DEF RequestFits, RowsFit
<1>8. LookedAt(o) = LookedAt(q) /\ found \in BOOLEAN
  BY <1>4 DEF LookedAt
<1> HIDE DEF q, found
<1>9. RequestFits(TakeRows(o, q.route, found, skipped), f, stamp, database, versionsSeen)
  BY <1>4, <1>5, <1>6, <1>7, <1>8, TakeRowsFits
<1>10. DatabasesFit'
  BY <1>1, OneMoreCatalogEvent
<1> QED
  BY <1>1, <1>3, <1>9, <1>10, WriteFileKeeps

LEMMA ReadKnownRouteKeeps ==
    ASSUME CacheInvariant, NEW w \in Desktops, NEW r \in Routes, NEW skipped \in BOOLEAN,
           ReadKnownRoute(w, r, skipped)
    PROVE  CacheInvariant'
<1> DEFINE q == request[w]
           found == IsFound(catalogFile, r)
<1>1. /\ q.step = "read" /\ r \in q.left /\ ~q.refresh /\ CanBeRead(skipped, found)
      /\ request' = [request EXCEPT ![w] = TakeRows(q, r, found, skipped)]
      /\ UNCHANGED <<routes, stamp, database, versionsSeen, catalogFile, catalogs>>
  BY DEF ReadKnownRoute, IsNext, CacheInvariant
<1>2. q \in ListRequests /\ RequestFits(q, catalogFile, stamp, database, versionsSeen)
  BY DEF CacheInvariant
<1>3. (catalogFile.scanned[r] = "found" <=> found) /\ found \in BOOLEAN
  BY DEF IsFound
<1> HIDE DEF q, found
<1>4. "file" \notin q.raced =>
        /\ q.left \subseteq q.history
        /\ ~q.refresh => \A s \in q.must : catalogFile.scanned[s] = "found"
        /\ \A s \in q.must \cap LookedAt(q) : catalogFile.scanned[s] = "found"
        /\ DOMAIN q.payload \subseteq {s \in LookedAt(q) : catalogFile.scanned[s] = "found"}
        /\ ~q.skipped =>
              {s \in LookedAt(q) : catalogFile.scanned[s] = "found"} \subseteq DOMAIN q.payload
  BY <1>1, <1>2 DEF RequestFits, ListFits
<1>5. /\ \A s \in q.must : stamp[s] > 0
      /\ q.raced = {} =>
         \A s \in DOMAIN q.payload : ShowsDatabase(q.payload[s], database[s], versionsSeen[s])
  BY <1>1, <1>2 DEF RequestFits, RowsFit
<1>6. RequestFits(TakeRows(q, r, found, skipped), catalogFile, stamp, database, versionsSeen)
  BY <1>1, <1>2, <1>3, <1>4, <1>5, TakeRowsFits
<1>7. DatabasesFit'
  BY <1>1, OneMoreCatalogEvent
<1> QED
  BY <1>1, <1>6, <1>7, RequestMoves

\* The list is kept under the fingerprint of the roots as they were found.
LEMMA KeepCatalogKeeps ==
    ASSUME CacheInvariant, NEW w \in Desktops, KeepCatalog(w)
    PROVE  CacheInvariant'
<1> DEFINE q == request[w]
           print == Fingerprint(q.history, catalogFile)
           p == [q EXCEPT !.step = "answer"]
           k == [fingerprint |-> print, payload |-> q.payload, skipped |-> q.skipped,
                 raced |-> q.raced]
           f == [catalogFile EXCEPT !.snapshot = k]
<1>1. /\ q.step = "store"
      /\ \/ request' = [request EXCEPT ![w] = p] /\ UNCHANGED catalogFile
         \/ print # NoCatalog /\ WriteFile(w, f, p)
      /\ UNCHANGED <<routes, stamp, database, versionsSeen, catalogs, catalogEvents>>
  BY DEF KeepCatalog
<1>2. /\ q \in ListRequests /\ RequestFits(q, catalogFile, stamp, database, versionsSeen)
      /\ FileFits(catalogFile, stamp, database, versionsSeen) /\ catalogFile \in CacheFiles
  BY DEF CacheInvariant, FileFits
<1>3. /\ q.history \in SUBSET Routes /\ q.payload \in Payloads /\ q.skipped \in BOOLEAN
      /\ q.raced \in Races
  BY <1>2 DEF ListRequests
<1>4. /\ p \in ListRequests /\ p.step = "answer" /\ p.refresh = q.refresh /\ p.payload = q.payload
      /\ p.skipped = q.skipped /\ p.must = q.must /\ p.raced = q.raced
      /\ p.history = q.history
  BY <1>2 DEF ListRequests, ListSteps
<1>5. q.left = {} /\ LookedAt(q) = q.history
  BY <1>1, <1>2 DEF RequestFits, ListFits, LookedAt
<1>6. "file" \notin q.raced =>
        /\ \A r \in q.must \cap q.history : catalogFile.scanned[r] = "found"
        /\ DOMAIN q.payload \subseteq {r \in q.history : catalogFile.scanned[r] = "found"}
        /\ ~q.skipped =>
              {r \in q.history : catalogFile.scanned[r] = "found"} \subseteq DOMAIN q.payload
  BY <1>1, <1>2, <1>5 DEF RequestFits, ListFits
<1>7. \A r \in q.must : stamp[r] > 0
  BY <1>2 DEF RequestFits
<1> HIDE DEF p
<1>8. \A g : RequestFits(p, g, stamp, database, versionsSeen)
  BY <1>6, <1>4, <1>7 DEF ListFits, RequestFits, AddFits, ScanFits, RowsFit
<1>9. DatabasesFit'
  BY <1>1 DEF CacheInvariant, DatabasesFit
<1>10. ASSUME print # NoCatalog PROVE FileFits(f, stamp, database, versionsSeen)
  <2>1. print = [r \in q.history |-> IF catalogFile.scanned[r] = "found" THEN stamp[r] ELSE 0]
    BY <1>10 DEF Fingerprint, IsFound
  <2>2. \A r \in Routes : stamp[r] \in Stamps /\ stamp[r] \in Nat /\ 0 \in Stamps
    BY StampsAreNumbers, CatalogCacheAssumption DEF CacheInvariant, DatabasesFit, Stamps
  <2>3. print \in [q.history -> Stamps]
    BY <1>3, <2>1, <2>2
  <2>4. print \in Fingerprints
    BY <1>3, <2>3 DEF Fingerprints
  <2>5. /\ k \in KeptCatalogs /\ k.fingerprint = print /\ k.payload = q.payload
        /\ k.skipped = q.skipped /\ k.raced = q.raced
    BY <1>3, <2>4 DEF KeptCatalogs
  <2> HIDE DEF k
  <2>6. f \in CacheFiles /\ f.scanned = catalogFile.scanned /\ f.snapshot = k
    BY <1>2, <2>5 DEF CacheFiles
  <2> HIDE DEF f, print, q
  <2>7. \A r \in Routes : catalogFile.scanned[r] = "found" => stamp[r] > 0
    BY <1>2 DEF FileFits
  <2>8. {r \in DOMAIN print : print[r] > 0}
           = {r \in q.history : catalogFile.scanned[r] = "found"}
    BY <1>3, <2>1, <2>2, <2>7
  <2>9. "file" \notin k.raced =>
           LET toldOf == {r \in DOMAIN k.fingerprint : k.fingerprint[r] > 0}
           IN  DOMAIN k.payload \subseteq toldOf /\ (~k.skipped => DOMAIN k.payload = toldOf)
    BY <1>6, <2>5, <2>8
  <2>10. ASSUME k.raced = {}, NEW r \in DOMAIN k.payload
         PROVE  /\ k.fingerprint[r] <= stamp[r]
                /\ ShowsDatabase(k.payload[r], database[r], versionsSeen[r])
    BY <1>6, <2>5, <2>10, <1>1, <1>2, <1>3, <2>1, <2>2 DEF RequestFits, RowsFit
  <2>11. SnapshotFits(k, stamp, database, versionsSeen)
    BY <2>9, <2>10 DEF SnapshotFits
  <2> QED
    BY <2>6, <2>7, <2>11 DEF FileFits
<1> HIDE DEF q, f, print
<1>11. CASE request' = [request EXCEPT ![w] = p] /\ UNCHANGED catalogFile
  BY <1>1, <1>8, <1>9, <1>11, RequestMoves
<1>12. CASE print # NoCatalog /\ WriteFile(w, f, p)
  BY <1>1, <1>8, <1>9, <1>10, <1>12, WriteFileKeeps
<1> QED
  BY <1>1, <1>11, <1>12

LEMMA AnswerCatalogKeeps ==
    ASSUME CacheInvariant, NEW w \in Desktops, AnswerCatalog(w)
    PROVE  CacheInvariant'
  BY NoRequestFits, RequestMoves DEF AnswerCatalog, CacheInvariant, DatabasesFit

LEMMA CacheInvariantCorrect == CacheSpec => []CacheInvariant
<1>1. CacheInvariant /\ [CacheNext]_cacheVars => CacheInvariant'
  <2>1. CacheInvariant /\ UNCHANGED cacheVars => CacheInvariant'
    BY DEF CacheInvariant, cacheVars, DatabasesFit
  <2>2. ASSUME CacheInvariant, NEW r \in Routes, EditBrains(r) \/ SelectBrain(r)
        PROVE  CacheInvariant'
    BY <2>2, WriteDatabaseKeeps DEF EditBrains, SelectBrain
  <2> QED
    BY <2>1, <2>2, CaptureBrainVersionKeeps, DropRouteKeeps, InitWorkspaceKeeps,
       StartCatalogKeeps, AddRouteKeeps, ScanRouteKeeps, RecordAddedRouteKeeps,
       ListCatalogKeeps, RecordRouteKeeps, ReadKnownRouteKeeps, KeepCatalogKeeps,
       AnswerCatalogKeeps DEF CacheNext
<1> QED
  BY <1>1, CacheStart, PTL DEF CacheSpec

\* The list of the brains that is served from the cache, when nothing was written while it was
\* made, shows the rows of every database as they are and no version less than when the
\* database was last written, and a list that was asked for misses no workspace it must show.
THEOREM CatalogSnapshotTrue == CacheSpec => []CatalogSnapshotIsTrue
<1>1. ASSUME CacheInvariant PROVE ServedListShowsTheRows /\ ServedListShowsTheVersions
  <2> SUFFICES ASSUME ServedUnraced
               PROVE  ServedListShowsTheRows /\ ServedListShowsTheVersions
    BY DEF ServedListShowsTheRows, ServedListShowsTheVersions
  <2> DEFINE k == catalogFile.snapshot
  <2>1. /\ k # NoCatalog /\ k.raced = {} /\ SnapshotFits(k, stamp, database, versionsSeen)
        /\ \A r \in Routes : IsFound(catalogFile, r) => stamp[r] > 0
    BY <1>1 DEF ServedUnraced, Served, CacheInvariant, FileFits, IsFound
  <2>2. /\ routes \subseteq Routes
        /\ k.fingerprint = [r \in routes |-> IF IsFound(catalogFile, r) THEN stamp[r] ELSE 0]
    BY <1>1 DEF ServedUnraced, Served, Fingerprint, CacheInvariant, DatabasesFit
  <2> DEFINE toldOf == {r \in DOMAIN k.fingerprint : k.fingerprint[r] > 0}
  <2>3. toldOf = {r \in routes : IsFound(catalogFile, r)}
    BY <2>1, <2>2
  <2>4. DOMAIN k.payload \subseteq toldOf /\ (~k.skipped => DOMAIN k.payload = toldOf)
    BY <2>1 DEF SnapshotFits
  <2>5. \A r \in DOMAIN k.payload : ShowsDatabase(k.payload[r], database[r], versionsSeen[r])
    BY <2>2, <2>3, <2>4, <2>1 DEF SnapshotFits
  <2> QED
    BY <2>3, <2>4, <2>5 DEF ServedListShowsTheRows, ServedListShowsTheVersions, ShowsDatabase
<1>2. CacheInvariant => AskedListIsComplete
  BY DEF CacheInvariant, RequestFits, ListFits, AskedListIsComplete
<1>3. CacheInvariant => CatalogSnapshotIsTrue
  BY <1>1, <1>2 DEF CatalogSnapshotIsTrue
<1> QED
  BY <1>3, CacheInvariantCorrect, PTL
==============================================================================
