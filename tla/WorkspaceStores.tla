--------------------------- MODULE WorkspaceStores ---------------------------
(***************************************************************************)
(* The stores of a workspace side by side: the ledger of deltas, the       *)
(* process registry, the turns of a connected model, the plan of a brain,  *)
(* the mutation of a sector, the list of the brains, the copy to the       *)
(* canonical root, the local data, the ingestion of the sources, the build *)
(* of a brain, its portable folder, the histories that only grow, what a   *)
(* refresh takes in and says has changed, the restored versions, what is   *)
(* handed to the next session, what the desktop is shown, the folder of a  *)
(* new brain, the progress of a build, and what sessions leave beside the  *)
(* sectors.                                                                *)
(*                                                                         *)
(* No command of one reads or writes what another one keeps, so that every *)
(* property is about one of them and a behaviour of the workspace is an    *)
(* interleaving of behaviours of the stores: it is enough to let one of    *)
(* them run, any one, while the others rest.                               *)
(***************************************************************************)
EXTENDS DeltaLedger, ProcessRegistry, ModelExecution, PlanDeltas,
        SectorMutation, BrainCatalog, CanonicalMigration, LocalWorkspace,
        SourceIngestion, BrainBuild, PortablePackage, LineageAppends,
        RefreshTruth, SourceRefresh, RollbackProduct, CodexHandoff,
        TelemetryViews, CatalogCache, BrainRoot, PipelineProgress,
        SessionEvidence

Stores == {"ledger", "registry", "turns", "plan", "sector", "catalog",
           "migration", "local", "ingestion", "build", "package", "lineage",
           "truth", "inputs", "rollback", "handoff", "telemetry", "views",
           "root", "progress", "evidence"}

VARIABLE running   \* the store that runs

storeVars == <<running, ledgerVars, registryVars, turnVars, planVars,
               mutationVars, catalogVars, migrationVars, localVars,
               ingestionVars, buildVars, packageVars, appendVars, truthVars,
               inputVars, rollbackVars, handoffVars, viewVars, cacheVars,
               rootVars, progressVars, evidenceVars>>

\* A store that rests has one initial state.
WorkspaceInit ==
    /\ running \in Stores
    /\ LedgerInit /\ RegistryInit /\ TurnInit /\ PlanInit /\ MutationInit
    /\ CatalogInit /\ LocalInit /\ IngestionInit /\ BuildInit /\ AppendInit
    /\ RollbackInit /\ HandoffInit /\ ViewInit /\ EvidenceInit
    /\ MigrationInit
    /\ running # "migration" => sourceTree = EmptyTree /\ targetTree = NoTree
    /\ PackageInit
    /\ running # "package" => operations = NoLedgerYet
    /\ TruthInit
    /\ running # "truth" => git /\ worktree = CHOOSE t \in OneFile : TRUE
    /\ InputInit
    /\ running # "inputs" => brainIndex = [s \in RefreshSources |-> Unindexed]
    /\ CacheInit
    /\ running # "views" => stamp = [r \in Routes |-> IF r = MainRoute THEN 1 ELSE 0]
    /\ RootInit
    /\ running # "root" => root = NoRoot
    /\ ProgressInit
    /\ running # "progress" => file = Nothing

LedgerRuns ==
    /\ running = "ledger"
    /\ UNCHANGED <<running, registryVars, turnVars, planVars, mutationVars,
                   catalogVars, migrationVars, localVars, ingestionVars,
                   buildVars, packageVars, appendVars, truthVars, inputVars,
                   rollbackVars, handoffVars, viewVars, cacheVars, rootVars,
                   progressVars, evidenceVars>>
    /\ LedgerNext

RegistryRuns ==
    /\ running = "registry"
    /\ UNCHANGED <<running, ledgerVars, turnVars, planVars, mutationVars,
                   catalogVars, migrationVars, localVars, ingestionVars,
                   buildVars, packageVars, appendVars, truthVars, inputVars,
                   rollbackVars, handoffVars, viewVars, cacheVars, rootVars,
                   progressVars, evidenceVars>>
    /\ RegistryNext

TurnsRun ==
    /\ running = "turns"
    /\ UNCHANGED <<running, ledgerVars, registryVars, planVars, mutationVars,
                   catalogVars, migrationVars, localVars, ingestionVars,
                   buildVars, packageVars, appendVars, truthVars, inputVars,
                   rollbackVars, handoffVars, viewVars, cacheVars, rootVars,
                   progressVars, evidenceVars>>
    /\ TurnNext

PlanRuns ==
    /\ running = "plan"
    /\ UNCHANGED <<running, ledgerVars, registryVars, turnVars, mutationVars,
                   catalogVars, migrationVars, localVars, ingestionVars,
                   buildVars, packageVars, appendVars, truthVars, inputVars,
                   rollbackVars, handoffVars, viewVars, cacheVars, rootVars,
                   progressVars, evidenceVars>>
    /\ PlanNext

SectorRuns ==
    /\ running = "sector"
    /\ UNCHANGED <<running, ledgerVars, registryVars, turnVars, planVars,
                   catalogVars, migrationVars, localVars, ingestionVars,
                   buildVars, packageVars, appendVars, truthVars, inputVars,
                   rollbackVars, handoffVars, viewVars, cacheVars, rootVars,
                   progressVars, evidenceVars>>
    /\ MutationNext

CatalogRuns ==
    /\ running = "catalog"
    /\ UNCHANGED <<running, ledgerVars, registryVars, turnVars, planVars,
                   mutationVars, migrationVars, localVars, ingestionVars,
                   buildVars, packageVars, appendVars, truthVars, inputVars,
                   rollbackVars, handoffVars, viewVars, cacheVars, rootVars,
                   progressVars, evidenceVars>>
    /\ CatalogNext

MigrationRuns ==
    /\ running = "migration"
    /\ UNCHANGED <<running, ledgerVars, registryVars, turnVars, planVars,
                   mutationVars, catalogVars, localVars, ingestionVars,
                   buildVars, packageVars, appendVars, truthVars, inputVars,
                   rollbackVars, handoffVars, viewVars, cacheVars, rootVars,
                   progressVars, evidenceVars>>
    /\ MigrationNext

LocalRuns ==
    /\ running = "local"
    /\ UNCHANGED <<running, ledgerVars, registryVars, turnVars, planVars,
                   mutationVars, catalogVars, migrationVars, ingestionVars,
                   buildVars, packageVars, appendVars, truthVars, inputVars,
                   rollbackVars, handoffVars, viewVars, cacheVars, rootVars,
                   progressVars, evidenceVars>>
    /\ LocalNext

IngestionRuns ==
    /\ running = "ingestion"
    /\ UNCHANGED <<running, ledgerVars, registryVars, turnVars, planVars,
                   mutationVars, catalogVars, migrationVars, localVars,
                   buildVars, packageVars, appendVars, truthVars, inputVars,
                   rollbackVars, handoffVars, viewVars, cacheVars, rootVars,
                   progressVars, evidenceVars>>
    /\ IngestionNext

BuildRuns ==
    /\ running = "build"
    /\ UNCHANGED <<running, ledgerVars, registryVars, turnVars, planVars,
                   mutationVars, catalogVars, migrationVars, localVars,
                   ingestionVars, packageVars, appendVars, truthVars,
                   inputVars, rollbackVars, handoffVars, viewVars, cacheVars,
                   rootVars, progressVars, evidenceVars>>
    /\ BuildNext

PackageRuns ==
    /\ running = "package"
    /\ UNCHANGED <<running, ledgerVars, registryVars, turnVars, planVars,
                   mutationVars, catalogVars, migrationVars, localVars,
                   ingestionVars, buildVars, appendVars, truthVars, inputVars,
                   rollbackVars, handoffVars, viewVars, cacheVars, rootVars,
                   progressVars, evidenceVars>>
    /\ PackageNext

LineageRuns ==
    /\ running = "lineage"
    /\ UNCHANGED <<running, ledgerVars, registryVars, turnVars, planVars,
                   mutationVars, catalogVars, migrationVars, localVars,
                   ingestionVars, buildVars, packageVars, truthVars, inputVars,
                   rollbackVars, handoffVars, viewVars, cacheVars, rootVars,
                   progressVars, evidenceVars>>
    /\ AppendNext

TruthRuns ==
    /\ running = "truth"
    /\ UNCHANGED <<running, ledgerVars, registryVars, turnVars, planVars,
                   mutationVars, catalogVars, migrationVars, localVars,
                   ingestionVars, buildVars, packageVars, appendVars,
                   inputVars, rollbackVars, handoffVars, viewVars, cacheVars,
                   rootVars, progressVars, evidenceVars>>
    /\ TruthNext

InputsRun ==
    /\ running = "inputs"
    /\ UNCHANGED <<running, ledgerVars, registryVars, turnVars, planVars,
                   mutationVars, catalogVars, migrationVars, localVars,
                   ingestionVars, buildVars, packageVars, appendVars,
                   truthVars, rollbackVars, handoffVars, viewVars, cacheVars,
                   rootVars, progressVars, evidenceVars>>
    /\ InputNext

RollbackRuns ==
    /\ running = "rollback"
    /\ UNCHANGED <<running, ledgerVars, registryVars, turnVars, planVars,
                   mutationVars, catalogVars, migrationVars, localVars,
                   ingestionVars, buildVars, packageVars, appendVars,
                   truthVars, inputVars, handoffVars, viewVars, cacheVars,
                   rootVars, progressVars, evidenceVars>>
    /\ RollbackNext

HandoffRuns ==
    /\ running = "handoff"
    /\ UNCHANGED <<running, ledgerVars, registryVars, turnVars, planVars,
                   mutationVars, catalogVars, migrationVars, localVars,
                   ingestionVars, buildVars, packageVars, appendVars,
                   truthVars, inputVars, rollbackVars, viewVars, cacheVars,
                   rootVars, progressVars, evidenceVars>>
    /\ HandoffNext

TelemetryRuns ==
    /\ running = "telemetry"
    /\ UNCHANGED <<running, ledgerVars, registryVars, turnVars, planVars,
                   mutationVars, catalogVars, migrationVars, localVars,
                   ingestionVars, buildVars, packageVars, appendVars,
                   truthVars, inputVars, rollbackVars, handoffVars, cacheVars,
                   rootVars, progressVars, evidenceVars>>
    /\ ViewNext

ViewsRun ==
    /\ running = "views"
    /\ UNCHANGED <<running, ledgerVars, registryVars, turnVars, planVars,
                   mutationVars, catalogVars, migrationVars, localVars,
                   ingestionVars, buildVars, packageVars, appendVars,
                   truthVars, inputVars, rollbackVars, handoffVars, viewVars,
                   rootVars, progressVars, evidenceVars>>
    /\ CacheNext

RootRuns ==
    /\ running = "root"
    /\ UNCHANGED <<running, ledgerVars, registryVars, turnVars, planVars,
                   mutationVars, catalogVars, migrationVars, localVars,
                   ingestionVars, buildVars, packageVars, appendVars,
                   truthVars, inputVars, rollbackVars, handoffVars, viewVars,
                   cacheVars, progressVars, evidenceVars>>
    /\ RootNext

ProgressRuns ==
    /\ running = "progress"
    /\ UNCHANGED <<running, ledgerVars, registryVars, turnVars, planVars,
                   mutationVars, catalogVars, migrationVars, localVars,
                   ingestionVars, buildVars, packageVars, appendVars,
                   truthVars, inputVars, rollbackVars, handoffVars, viewVars,
                   cacheVars, rootVars, evidenceVars>>
    /\ ProgressNext

EvidenceRuns ==
    /\ running = "evidence"
    /\ UNCHANGED <<running, ledgerVars, registryVars, turnVars, planVars,
                   mutationVars, catalogVars, migrationVars, localVars,
                   ingestionVars, buildVars, packageVars, appendVars,
                   truthVars, inputVars, rollbackVars, handoffVars, viewVars,
                   cacheVars, rootVars, progressVars>>
    /\ EvidenceNext

WorkspaceNext ==
    \/ LedgerRuns \/ RegistryRuns \/ TurnsRun \/ PlanRuns \/ SectorRuns
    \/ CatalogRuns \/ MigrationRuns \/ LocalRuns \/ IngestionRuns \/ BuildRuns
    \/ PackageRuns \/ LineageRuns \/ TruthRuns \/ InputsRun \/ RollbackRuns
    \/ HandoffRuns \/ TelemetryRuns \/ ViewsRun \/ RootRuns \/ ProgressRuns
    \/ EvidenceRuns

WorkspaceSpec == WorkspaceInit /\ [][WorkspaceNext]_storeVars

-----------------------------------------------------------------------------
\* A store that rests keeps its initial state: the properties ask about the one that
\* runs.  First the types.
WorkspaceTypeOK ==
    CASE running = "ledger"    -> LedgerTypeOK
      [] running = "registry"  -> RegistryTypeOK
      [] running = "turns"     -> TurnTypeOK
      [] running = "plan"      -> PlanTypeOK
      [] running = "sector"    -> MutationTypeOK
      [] running = "catalog"   -> CatalogTypeOK
      [] running = "migration" -> MigrationTypeOK
      [] running = "local"     -> LocalTypeOK
      [] running = "ingestion" -> IngestionTypeOK
      [] running = "build"     -> BuildTypeOK
      [] running = "package"   -> PackageTypeOK
      [] running = "lineage"   -> AppendTypeOK
      [] running = "truth"     -> TruthTypeOK
      [] running = "inputs"    -> InputTypeOK
      [] running = "rollback"  -> RollbackTypeOK
      [] running = "handoff"   -> HandoffTypeOK
      [] running = "telemetry" -> ViewTypeOK
      [] running = "views"     -> CacheTypeOK
      [] running = "root"      -> RootTypeOK
      [] running = "progress"  -> ProgressTypeOK
      [] running = "evidence"  -> EvidenceTypeOK

\* The ledger agrees with its files and with what the states of the refreshes tell,
\* and no delta takes the number of another; what a refresh says of a file is so.
LedgerIsKept ==
    CASE running = "ledger" -> /\ LedgerMatchesDisk /\ StatesAreInTheLedger
                               /\ DeltasKeepTheirNumbers
      [] running = "truth"  -> OverlayIsTrue
      [] OTHER -> TRUE

\* The registry tells of the workers that entered themselves, and of the peaks.
RegistryIsKept == running = "registry" => RegistryKeepsWhatItWasTold

\* What a migration puts at the canonical root is what it found, and a local row and
\* what it names beside the database tell the same.
LocalFilesAreKept ==
    CASE running = "migration" -> MigrationIsFaithful
      [] running = "local"     -> LocalDataIsKept
      [] OTHER -> TRUE

\* A turn of a connected model is recorded before anything is sent, and closed
\* whatever becomes of it; the plan it works on keeps its steers, and the folder of the
\* brain what it proposed and what the user accepted.
TurnsAndPlanAreKept ==
    CASE running = "turns"    -> NothingIsSentUnrecorded /\ TurnsAreClosed
      [] running = "plan"     -> PlanIsKept
      [] running = "evidence" -> EvidenceIsKept
      [] OTHER -> TRUE

\* What a build leaves behind belongs together and is of the brain it was made of, its
\* authority, packages and version, and so are the portable folder, what is restored,
\* what is handed over and the folder of a new brain.
ProductsAreTrue ==
    CASE running = "build"    -> BuildIsTrue
      [] running = "package"  -> PackageIsTrue
      [] running = "rollback" -> RollbacksAreWhole
      [] running = "handoff"  -> HandoffsAreTrue
      [] running = "root"     -> RootIsTrue
      [] OTHER -> TRUE

\* What is in the sectors of a brain is what its sources held when they were taken in,
\* once each, and what is taken as unchanged is in them.
SourcesAreTaken ==
    CASE running = "ingestion" -> IngestionIsTrue
      [] running = "lineage"   -> AppendsAreKept
      [] running = "inputs"    -> InputsAreTold
      [] OTHER -> TRUE

\* What the desktop is shown is what there is.
ViewsAreTrue ==
    CASE running = "catalog"   -> CatalogIsTrue
      [] running = "telemetry" -> TelemetryIsTrue
      [] running = "views"     -> CatalogSnapshotIsTrue
      [] running = "progress"  -> ProgressIsTrue
      [] OTHER -> TRUE
===============================================================================
