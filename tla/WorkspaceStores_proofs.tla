------------------------ MODULE WorkspaceStores_proofs ------------------------
(***************************************************************************)
(* The workspace implements each of its stores: of its steps, the runs of  *)
(* a store are steps of that store and every other run leaves what the     *)
(* store keeps alone.  What was proved of a store by itself holds of the   *)
(* workspace.                                                              *)
(***************************************************************************)
EXTENDS WorkspaceStores, BrainFiles_proofs, LocalFiles_proofs,
        WorkspaceRecords_proofs, TLAPS

\* A step of the workspace moves each store by a step of that store, or not at all.
StoresMove ==
    /\ UNCHANGED running
    /\ [LedgerNext]_ledgerVars
    /\ [RegistryNext]_registryVars
    /\ [TurnNext]_turnVars
    /\ [PlanNext]_planVars
    /\ [MutationNext]_mutationVars
    /\ [CatalogNext]_catalogVars
    /\ [MigrationNext]_migrationVars
    /\ [LocalNext]_localVars
    /\ [IngestionNext]_ingestionVars
    /\ [BuildNext]_buildVars
    /\ [PackageNext]_packageVars
    /\ [AppendNext]_appendVars
    /\ [TruthNext]_truthVars
    /\ [InputNext]_inputVars
    /\ [RollbackNext]_rollbackVars
    /\ [HandoffNext]_handoffVars
    /\ [ViewNext]_viewVars
    /\ [CacheNext]_cacheVars
    /\ [RootNext]_rootVars
    /\ [ProgressNext]_progressVars
    /\ [EvidenceNext]_evidenceVars

LEMMA StoresMoveAlone == [WorkspaceNext]_storeVars => StoresMove
<1> SUFFICES ASSUME [WorkspaceNext]_storeVars PROVE StoresMove
  OBVIOUS
<1>1. CASE UNCHANGED storeVars
  BY <1>1 DEF storeVars, StoresMove
<1>2. CASE LedgerRuns
  BY <1>2 DEF LedgerRuns, StoresMove
<1>3. CASE RegistryRuns
  BY <1>3 DEF RegistryRuns, StoresMove
<1>4. CASE TurnsRun
  BY <1>4 DEF TurnsRun, StoresMove
<1>5. CASE PlanRuns
  BY <1>5 DEF PlanRuns, StoresMove
<1>6. CASE SectorRuns
  BY <1>6 DEF SectorRuns, StoresMove
<1>7. CASE CatalogRuns
  BY <1>7 DEF CatalogRuns, StoresMove
<1>8. CASE MigrationRuns
  BY <1>8 DEF MigrationRuns, StoresMove
<1>9. CASE LocalRuns
  BY <1>9 DEF LocalRuns, StoresMove
<1>10. CASE IngestionRuns
  BY <1>10 DEF IngestionRuns, StoresMove
<1>11. CASE BuildRuns
  BY <1>11 DEF BuildRuns, StoresMove
<1>12. CASE PackageRuns
  BY <1>12 DEF PackageRuns, StoresMove
<1>13. CASE LineageRuns
  BY <1>13 DEF LineageRuns, StoresMove
<1>14. CASE TruthRuns
  BY <1>14 DEF TruthRuns, StoresMove
<1>15. CASE InputsRun
  BY <1>15 DEF InputsRun, StoresMove
<1>16. CASE RollbackRuns
  BY <1>16 DEF RollbackRuns, StoresMove
<1>17. CASE HandoffRuns
  BY <1>17 DEF HandoffRuns, StoresMove
<1>18. CASE TelemetryRuns
  BY <1>18 DEF TelemetryRuns, StoresMove
<1>19. CASE ViewsRun
  BY <1>19 DEF ViewsRun, StoresMove
<1>20. CASE RootRuns
  BY <1>20 DEF RootRuns, StoresMove
<1>21. CASE ProgressRuns
  BY <1>21 DEF ProgressRuns, StoresMove
<1>22. CASE EvidenceRuns
  BY <1>22 DEF EvidenceRuns, StoresMove
<1> QED
  BY <1>1, <1>2, <1>3, <1>4, <1>5, <1>6, <1>7, <1>8, <1>9, <1>10, <1>11, <1>12, <1>13,
     <1>14, <1>15, <1>16, <1>17, <1>18, <1>19, <1>20, <1>21, <1>22 DEF WorkspaceNext

-----------------------------------------------------------------------------
\* The workspace, seen at the sector, is the mutation gate.
THEOREM WorkspaceMutates == WorkspaceSpec => MutationSpec
<1>1. WorkspaceInit => MutationInit
  BY DEF WorkspaceInit
<1>2. [WorkspaceNext]_storeVars => [MutationNext]_mutationVars
  BY StoresMoveAlone DEF StoresMove
<1> QED
  BY <1>1, <1>2, PTL DEF WorkspaceSpec, MutationSpec

\* The workspace, seen at the roots, is the migration to the canonical root.
THEOREM WorkspaceMigrates == WorkspaceSpec => MigrationSpec
<1>1. WorkspaceInit => MigrationInit
  BY DEF WorkspaceInit
<1>2. [WorkspaceNext]_storeVars => [MigrationNext]_migrationVars
  BY StoresMoveAlone DEF StoresMove
<1> QED
  BY <1>1, <1>2, PTL DEF WorkspaceSpec, MigrationSpec

\* The workspace, seen at the local database, is the store of the local data.
THEOREM WorkspaceKeepsLocalData == WorkspaceSpec => LocalSpec
<1>1. WorkspaceInit => LocalInit
  BY DEF WorkspaceInit
<1>2. [WorkspaceNext]_storeVars => [LocalNext]_localVars
  BY StoresMoveAlone DEF StoresMove
<1> QED
  BY <1>1, <1>2, PTL DEF WorkspaceSpec, LocalSpec

\* The workspace, seen at the table of processes, is the process registry.
THEOREM WorkspaceRegisters == WorkspaceSpec => RegistrySpec
<1>1. WorkspaceInit => RegistryInit
  BY DEF WorkspaceInit
<1>2. [WorkspaceNext]_storeVars => [RegistryNext]_registryVars
  BY StoresMoveAlone DEF StoresMove
<1> QED
  BY <1>1, <1>2, PTL DEF WorkspaceSpec, RegistrySpec

\* The workspace, seen at the turns of the models, is the execution of models.
THEOREM WorkspaceTakesTurns == WorkspaceSpec => TurnSpec
<1>1. WorkspaceInit => TurnInit
  BY DEF WorkspaceInit
<1>2. [WorkspaceNext]_storeVars => [TurnNext]_turnVars
  BY StoresMoveAlone DEF StoresMove
<1> QED
  BY <1>1, <1>2, PTL DEF WorkspaceSpec, TurnSpec

\* The workspace, seen at the plan, is the governance of its deltas.
THEOREM WorkspacePlans == WorkspaceSpec => PlanSpec
<1>1. WorkspaceInit => PlanInit
  BY DEF WorkspaceInit
<1>2. [WorkspaceNext]_storeVars => [PlanNext]_planVars
  BY StoresMoveAlone DEF StoresMove
<1> QED
  BY <1>1, <1>2, PTL DEF WorkspaceSpec, PlanSpec

\* The workspace, seen at the folders of its brains, is what the sessions leave there.
THEOREM WorkspaceKeepsEvidence == WorkspaceSpec => EvidenceSpec
<1>1. WorkspaceInit => EvidenceInit
  BY DEF WorkspaceInit
<1>2. [WorkspaceNext]_storeVars => [EvidenceNext]_evidenceVars
  BY StoresMoveAlone DEF StoresMove
<1> QED
  BY <1>1, <1>2, PTL DEF WorkspaceSpec, EvidenceSpec

\* The workspace, seen at the ledger of a brain, is the ledger of project deltas.
THEOREM WorkspaceKeepsLedger == WorkspaceSpec => LedgerSpec
<1>1. WorkspaceInit => LedgerInit
  BY DEF WorkspaceInit
<1>2. [WorkspaceNext]_storeVars => [LedgerNext]_ledgerVars
  BY StoresMoveAlone DEF StoresMove
<1> QED
  BY <1>1, <1>2, PTL DEF WorkspaceSpec, LedgerSpec

\* The workspace, seen at a source folder, is what a refresh says of it.
THEOREM WorkspaceTellsTruth == WorkspaceSpec => TruthSpec
<1>1. WorkspaceInit => TruthInit
  BY DEF WorkspaceInit
<1>2. [WorkspaceNext]_storeVars => [TruthNext]_truthVars
  BY StoresMoveAlone DEF StoresMove
<1> QED
  BY <1>1, <1>2, PTL DEF WorkspaceSpec, TruthSpec

\* The workspace, seen at the list of its brains, is the catalog.
THEOREM WorkspaceListsBrains == WorkspaceSpec => CatalogSpec
<1>1. WorkspaceInit => CatalogInit
  BY DEF WorkspaceInit
<1>2. [WorkspaceNext]_storeVars => [CatalogNext]_catalogVars
  BY StoresMoveAlone DEF StoresMove
<1> QED
  BY <1>1, <1>2, PTL DEF WorkspaceSpec, CatalogSpec

\* The workspace, seen at the list that is served, is the cache of the catalogs.
THEOREM WorkspaceServesLists == WorkspaceSpec => CacheSpec
<1>1. WorkspaceInit => CacheInit
  BY DEF WorkspaceInit
<1>2. [WorkspaceNext]_storeVars => [CacheNext]_cacheVars
  BY StoresMoveAlone DEF StoresMove
<1> QED
  BY <1>1, <1>2, PTL DEF WorkspaceSpec, CacheSpec

\* The workspace, seen at the graphs that are shown, is the telemetry overlay.
THEOREM WorkspaceShowsGraphs == WorkspaceSpec => ViewSpec
<1>1. WorkspaceInit => ViewInit
  BY DEF WorkspaceInit
<1>2. [WorkspaceNext]_storeVars => [ViewNext]_viewVars
  BY StoresMoveAlone DEF StoresMove
<1> QED
  BY <1>1, <1>2, PTL DEF WorkspaceSpec, ViewSpec

\* The workspace, seen at the file of a build, is the progress of its pipeline.
THEOREM WorkspaceTellsProgress == WorkspaceSpec => ProgressSpec
<1>1. WorkspaceInit => ProgressInit
  BY DEF WorkspaceInit
<1>2. [WorkspaceNext]_storeVars => [ProgressNext]_progressVars
  BY StoresMoveAlone DEF StoresMove
<1> QED
  BY <1>1, <1>2, PTL DEF WorkspaceSpec, ProgressSpec

\* The workspace, seen at the rows of a sector, is the ingestion of the sources.
THEOREM WorkspaceIngests == WorkspaceSpec => IngestionSpec
<1>1. WorkspaceInit => IngestionInit
  BY DEF WorkspaceInit
<1>2. [WorkspaceNext]_storeVars => [IngestionNext]_ingestionVars
  BY StoresMoveAlone DEF StoresMove
<1> QED
  BY <1>1, <1>2, PTL DEF WorkspaceSpec, IngestionSpec

\* The workspace, seen at the histories, is the appends to them.
THEOREM WorkspaceAppends == WorkspaceSpec => AppendSpec
<1>1. WorkspaceInit => AppendInit
  BY DEF WorkspaceInit
<1>2. [WorkspaceNext]_storeVars => [AppendNext]_appendVars
  BY StoresMoveAlone DEF StoresMove
<1> QED
  BY <1>1, <1>2, PTL DEF WorkspaceSpec, AppendSpec

\* The workspace, seen at the index of a brain, is what a refresh takes in.
THEOREM WorkspaceTakesIn == WorkspaceSpec => InputSpec
<1>1. WorkspaceInit => InputInit
  BY DEF WorkspaceInit
<1>2. [WorkspaceNext]_storeVars => [InputNext]_inputVars
  BY StoresMoveAlone DEF StoresMove
<1> QED
  BY <1>1, <1>2, PTL DEF WorkspaceSpec, InputSpec

\* The workspace, seen at the products of a brain, is the build.
THEOREM WorkspaceBuilds == WorkspaceSpec => BuildSpec
<1>1. WorkspaceInit => BuildInit
  BY DEF WorkspaceInit
<1>2. [WorkspaceNext]_storeVars => [BuildNext]_buildVars
  BY StoresMoveAlone DEF StoresMove
<1> QED
  BY <1>1, <1>2, PTL DEF WorkspaceSpec, BuildSpec

\* The workspace, seen at the portable folder, is the commands on it.
THEOREM WorkspacePacks == WorkspaceSpec => PackageSpec
<1>1. WorkspaceInit => PackageInit
  BY DEF WorkspaceInit
<1>2. [WorkspaceNext]_storeVars => [PackageNext]_packageVars
  BY StoresMoveAlone DEF StoresMove
<1> QED
  BY <1>1, <1>2, PTL DEF WorkspaceSpec, PackageSpec

\* The workspace, seen at the restored versions, is the rollbacks.
THEOREM WorkspaceRestores == WorkspaceSpec => RollbackSpec
<1>1. WorkspaceInit => RollbackInit
  BY DEF WorkspaceInit
<1>2. [WorkspaceNext]_storeVars => [RollbackNext]_rollbackVars
  BY StoresMoveAlone DEF StoresMove
<1> QED
  BY <1>1, <1>2, PTL DEF WorkspaceSpec, RollbackSpec

\* The workspace, seen at the good snapshots, is the handoffs.
THEOREM WorkspaceHandsOver == WorkspaceSpec => HandoffSpec
<1>1. WorkspaceInit => HandoffInit
  BY DEF WorkspaceInit
<1>2. [WorkspaceNext]_storeVars => [HandoffNext]_handoffVars
  BY StoresMoveAlone DEF StoresMove
<1> QED
  BY <1>1, <1>2, PTL DEF WorkspaceSpec, HandoffSpec

\* The workspace, seen at the folder of a new brain, is its initialization.
THEOREM WorkspacePreparesRoots == WorkspaceSpec => RootSpec
<1>1. WorkspaceInit => RootInit
  BY DEF WorkspaceInit
<1>2. [WorkspaceNext]_storeVars => [RootNext]_rootVars
  BY StoresMoveAlone DEF StoresMove
<1> QED
  BY <1>1, <1>2, PTL DEF WorkspaceSpec, RootSpec

-----------------------------------------------------------------------------
\* Whatever else the workspace does, a ledger agrees with its files and with what the
\* states of the refreshes tell, no delta takes the number of another, and what a
\* refresh says of a file is so (project_delta_ledger.py, refresh_delta_truth.py).
THEOREM LedgerStays == WorkspaceSpec => []LedgerIsKept
<1>1. LedgerMatchesDisk /\ StatesAreInTheLedger /\ DeltasKeepTheirNumbers /\ OverlayIsTrue
          => LedgerIsKept
  BY DEF LedgerIsKept
<1> QED
  BY <1>1, WorkspaceKeepsLedger, LedgerMatchesItsDisk, StatesStayInTheLedger,
     NumbersStayGiven, WorkspaceTellsTruth, OverlayTrue, PTL

\* Whatever else the workspace does, what a migration puts at the canonical root is
\* what it found, and a local row and what it names beside the database tell the
\* same (canonical_migration.py, local_workspace.py).
THEOREM LocalFilesKept == WorkspaceSpec => []LocalFilesAreKept
<1>1. MigrationIsFaithful /\ LocalDataIsKept => LocalFilesAreKept
  BY DEF LocalFilesAreKept
<1> QED
  BY <1>1, WorkspaceMigrates, MigrationFaithful, WorkspaceKeepsLocalData, LocalDataKept, PTL

\* Whatever else the workspace does, a mutation of a sector is settled with its
\* receipt, its grant and its event, or put back (env15_project_schema.py).
THEOREM WorkspaceMutationsSettle == WorkspaceSpec => []MutationsAreSettled
<1> QED
  BY WorkspaceMutates, MutationsSettle, PTL

\* Whatever else the workspace does, a worker that entered itself alone stays entered, and
\* the table has the context and the peaks it was told (process_registry.py).
THEOREM RegistryStays == WorkspaceSpec => []RegistryIsKept
<1>1. RegistryKeepsWhatItWasTold => RegistryIsKept
  BY DEF RegistryIsKept
<1> QED
  BY <1>1, WorkspaceRegisters, RegistryKept, PTL

\* Whatever else the workspace does, a turn is recorded as it went, the plan is the
\* one of its deltas, and outputs, acceptances and the selection stay as they were told
\* (model_execution.py, plan_delta_governance.py, selected_brain_state.py,
\* review_qualification.py).
THEOREM TurnsAndPlanStay == WorkspaceSpec => []TurnsAndPlanAreKept
<1>1. NothingIsSentUnrecorded /\ TurnsAreClosed /\ PlanIsKept /\ EvidenceIsKept
          => TurnsAndPlanAreKept
  BY DEF TurnsAndPlanAreKept
<1> QED
  BY <1>1, WorkspaceTakesTurns, NothingUnrecorded, TurnsClose, WorkspacePlans, PlanKept,
     WorkspaceKeepsEvidence, EvidenceKept, PTL

\* Whatever else the workspace does, the sectors of a brain hold what its sources held
\* when they were taken in, once each, and what is taken as unchanged is in them
\* (env15_ingestion.py, env15_chat_lineage.py, refresh_brain.py).
THEOREM SourcesStayTaken == WorkspaceSpec => []SourcesAreTaken
<1>1. IngestionIsTrue /\ AppendsAreKept /\ InputsAreTold => SourcesAreTaken
  BY DEF SourcesAreTaken
<1> QED
  BY <1>1, WorkspaceIngests, IngestionTrue, WorkspaceAppends, AppendsKept, WorkspaceTakesIn,
     InputsTold, PTL

\* Whatever else the workspace does, what a build, a create of the portable folder, a
\* rollback, a handoff and the initialization of a brain leave behind is of the brain it
\* was made of and belongs together (ipc_worker.py, portable_brain_package.py,
\* rollback_product.py, codex_handoff.py, env15_project_schema.py).
THEOREM ProductsStay == WorkspaceSpec => []ProductsAreTrue
<1>1. BuildIsTrue /\ PackageIsTrue /\ RollbacksAreWhole /\ HandoffsAreTrue /\ RootIsTrue
          => ProductsAreTrue
  BY DEF ProductsAreTrue
<1> QED
  BY <1>1, WorkspaceBuilds, BuildsAreTrue, WorkspacePacks, PackagesTrue, WorkspaceRestores,
     RollbacksTrue, WorkspaceHandsOver, HandoffsTrue, WorkspacePreparesRoots, RootsTrue, PTL

\* Whatever else the workspace does, the desktop is shown what there is: the brains, the
\* graphs, the list that is served and the progress of a build (brain_delete.py,
\* telemetry_overlay.py, ipc_worker.py, stable_runtime_v53.py).
THEOREM ViewsStay == WorkspaceSpec => []ViewsAreTrue
<1>1. CatalogIsTrue /\ TelemetryIsTrue /\ CatalogSnapshotIsTrue /\ ProgressIsTrue
          => ViewsAreTrue
  BY DEF ViewsAreTrue
<1> QED
  BY <1>1, WorkspaceListsBrains, CatalogTrue, WorkspaceShowsGraphs, TelemetryTrue,
     WorkspaceServesLists, CatalogSnapshotTrue, WorkspaceTellsProgress, ProgressTrue, PTL

\* What a worker asks of the cache of the catalogs is of the declared types.
LEMMA CacheTypes == CacheInvariant => CacheTypeOK
<1> SUFFICES ASSUME CacheInvariant PROVE CacheTypeOK
  OBVIOUS
<1>1. ASSUME NEW w \in Desktops
      PROVE  LET q == request[w]
             IN  /\ q.step \in ListSteps /\ q.route \in Routes
                 /\ {q.refresh, q.skipped} \subseteq BOOLEAN
                 /\ q.left \cup q.must \subseteq Routes /\ q.history \subseteq Routes
                 /\ q.payload \in Payloads /\ q.loaded \in CacheFiles \cup {NoCatalog}
                 /\ q.found \in Scans /\ q.raced \in Races
  <2>1. request[w] \in ListRequests
    BY DEF CacheInvariant
  <2> QED
    BY <2>1 DEF ListRequests
<1> QED
  BY <1>1 DEF CacheTypeOK, CacheInvariant, DatabasesFit, FileFits

\* Whatever each store does, what it keeps is of the declared types.
THEOREM TypesStay == WorkspaceSpec => []WorkspaceTypeOK
<1>1. LedgerInvariant /\ CatalogInvariant
          => LedgerTypeOK /\ CatalogTypeOK
  BY DEF LedgerInvariant, CatalogInvariant
<1>2. WorkspaceSpec => [](LedgerTypeOK /\ RegistryTypeOK /\ TurnTypeOK /\ PlanTypeOK
                         /\ MutationTypeOK /\ CatalogTypeOK /\ MigrationTypeOK)
  BY <1>1, WorkspaceKeepsLedger, LedgerInvariantCorrect, WorkspaceRegisters,
     RegistryTypeCorrect, WorkspaceTakesTurns, TurnTypeCorrect, WorkspacePlans,
     PlanTypeCorrect, WorkspaceMutates, MutationTypes, WorkspaceListsBrains,
     CatalogInvariantCorrect, WorkspaceMigrates, MigrationTypes, PTL
<1>3. IngestionInvariant /\ BuildInvariant /\ PackageInvariant /\ AppendInvariant
      /\ TruthInvariant /\ InputInvariant
          => IngestionTypeOK /\ BuildTypeOK /\ PackageTypeOK /\ AppendTypeOK
             /\ TruthTypeOK /\ InputTypeOK
  BY DEF IngestionInvariant, BuildInvariant, PackageInvariant, AppendInvariant,
     TruthInvariant, InputInvariant
<1>4. WorkspaceSpec => [](LocalTypeOK /\ IngestionTypeOK /\ BuildTypeOK
                         /\ PackageTypeOK /\ AppendTypeOK /\ TruthTypeOK
                         /\ InputTypeOK)
  BY <1>3, WorkspaceKeepsLocalData, LocalTypes, WorkspaceIngests,
     IngestionInvariantCorrect, WorkspaceBuilds, BuildInvariantCorrect,
     WorkspacePacks, PackageInvariantCorrect, WorkspaceAppends,
     AppendInvariantCorrect, WorkspaceTellsTruth, TruthInvariantCorrect,
     WorkspaceTakesIn, InputInvariantCorrect, PTL
<1>5. RollbackInvariant /\ HandoffInvariant /\ TelemetryInvariant /\ CacheInvariant
      /\ RootInvariant /\ ProgressInvariant
          => RollbackTypeOK /\ HandoffTypeOK /\ ViewTypeOK /\ CacheTypeOK
             /\ RootTypeOK /\ ProgressTypeOK
  BY CacheTypes DEF RollbackInvariant, HandoffInvariant, TelemetryInvariant,
     RootInvariant, ProgressInvariant
<1>6. WorkspaceSpec => [](RollbackTypeOK /\ HandoffTypeOK /\ ViewTypeOK
                         /\ CacheTypeOK /\ RootTypeOK /\ ProgressTypeOK
                         /\ EvidenceTypeOK)
  BY <1>5, WorkspaceRestores, RollbackInvariantCorrect, WorkspaceHandsOver,
     HandoffInvariantCorrect, WorkspaceShowsGraphs, TelemetryInvariantCorrect,
     WorkspaceServesLists, CacheInvariantCorrect, WorkspacePreparesRoots,
     RootInvariantCorrect, WorkspaceTellsProgress, ProgressInvariantCorrect,
     WorkspaceKeepsEvidence, EvidenceTypeCorrect, PTL
<1>7. WorkspaceSpec => [](running \in Stores)
  <2>1. WorkspaceInit => running \in Stores
    BY DEF WorkspaceInit
  <2>2. running \in Stores /\ [WorkspaceNext]_storeVars => (running \in Stores)'
    BY StoresMoveAlone DEF StoresMove, Stores
  <2> QED
    BY <2>1, <2>2, PTL DEF WorkspaceSpec
<1>8. running \in Stores /\ LedgerTypeOK /\ RegistryTypeOK /\ TurnTypeOK
      /\ PlanTypeOK /\ MutationTypeOK /\ CatalogTypeOK /\ MigrationTypeOK
      /\ LocalTypeOK /\ IngestionTypeOK /\ BuildTypeOK /\ PackageTypeOK
      /\ AppendTypeOK /\ TruthTypeOK /\ InputTypeOK /\ RollbackTypeOK
      /\ HandoffTypeOK /\ ViewTypeOK /\ CacheTypeOK /\ RootTypeOK /\ ProgressTypeOK
      /\ EvidenceTypeOK
          => WorkspaceTypeOK
  BY DEF WorkspaceTypeOK, Stores
<1> QED
  BY <1>2, <1>4, <1>6, <1>7, <1>8, PTL
===============================================================================
