# Evidence Lane: the verification project

Evidence Lane keeps *brains*: folders of SQLite and JSON files built from a
user's sources, with immutable versions, on one Windows machine.  A desktop host
(Rust) talks over pipes to a Python worker; the worker changes a brain only under
a lock; a refresh of a brain is built beside it as a *candidate*, decided by a
person and promoted by a separate command, the *fuse*.

This directory holds TLA+ modules of the parts of that machinery that have
states, steps and failures, the TLC runs that check them on small instances and
the theorems TLAPS proves about them for every instance.  Every definition is
translated from the source; `PROJECT.json` says from which lines (`map`), and
`B/` below stands for `src/backend/src/sqlite_brain_builder/`.

## 1. Inventory

### The parts and how they interact

| Part | State it keeps | Operations | Talks to |
|---|---|---|---|
| Native host (the app), `src/frontend/src-tauri/src/main.rs` | two worker processes, each behind a mutex | request (write a line, read until the answer, on failure kill, respawn and send again), prewarm | the workers, over stdin/stdout |
| Worker, `B/ipc_worker.py` | the lock files `.evidenceos_runtime/.../locks/*.lock`, in-process locks, the open task contexts | serve a request: start the task event, take the lock, run the handler, finish the task event, answer | everything below |
| Refresh, `B/refresh_brain.py` | `CURRENT_REFRESH.json`, `history/<candidate>.json`, operation receipts, candidate and archive directories | start, decide, fuse, drop, cancel, retry, cleanup, status | versions, review, delta ledger, sources table |
| Reviews, `B/runtime/review_qualification.py` | review packets, decision receipts | write a packet, record and verify a decision | refresh |
| Versions, `B/brain_versions.py` | content objects, version records, the manifest, tombstones | capture, verify, drop, materialise, roll back | refresh, buildAll, handoff |
| Good snapshots, `B/codex_handoff.py` | the latest-good authority | mark the passing build good, write the handoff folder | versions, refresh (baseline) |
| Task events, `B/runtime/universal_process_truth.py` | one event per workspace, one mirror per brain, with history | start, update, snapshot | worker, interface |
| Build pipeline, `B/runtime/pipeline_state.py` | one state file with its lock file and its history | begin, update, complete, fail, cancel, read | buildAll, interface |
| Process registry, `B/runtime/process_registry.py` | table of the application's processes, the active context, peaks | initialize, snapshot, set the context, sample | both workers |
| Delta ledger, `B/runtime/project_delta_ledger.py` | rows and events in SQLite, a directory and files per delta | record, append, verify, project | refresh, rollback |
| Plan governance, `B/runtime/plan_delta_governance.py` | the plan sector: deltas, events, prompts, a pointer; two files | register a plan, append a steer, set a disposition | connected models |
| Governed mutations, `B/runtime/env15_project_schema.py` | the router (grants, events, receipts, head), a snapshot per sector | one mutation of one sector | everything that writes a sector |
| Folder of a new brain, `B/runtime/env15_resource.py`, `env15_project_schema.py` | the folder, the folders beside it while it is made | initialize | build |
| Ingestion, `B/runtime/env15_ingestion.py`, `env15_code_ingestion.py`, `structural_ingestion.py` | the rows, chunks, projection and search of a source; the fingerprint cache | ingest, set active | build, refresh |
| Lineage, `B/runtime/env15_chat_lineage.py`, `env15_research.py` | histories that are only appended to, a cursor, receipts | append a chat, append a research source | build, refresh |
| Refresh inputs, `B/refresh_brain.py`, `refresh_delta_truth.py` | the registered list; what git and two indexes say has changed | classify, take in, report | refresh |
| Build, `B/runtime/stable_runtime_v53.py` and the packages | the authority files, topology, three packages, a version | build, buildAll | versions, handoff |
| Portable folder, `B/runtime/portable_brain_package.py` | a snapshot, an append-only ledger with files beside it, archives | create, append, export, validate | models, handoff |
| Rollback products, `B/rollback_product.py` | the folder of a restored brain, its row | roll back to a new brain | versions, catalog |
| Handoff, `B/codex_handoff.py` | good versions with their packages, handoffs | mark good, hand over | versions, packages |
| Catalog, `B/ipc_worker.py`, `brain_delete.py` | rows, folders and tombstones of the brains | create, discover, rename, remove, delete | build |
| Catalog list, `B/ipc_worker.py`, `workspace/workspace_roots.py` | one cache file for all workers, the registered roots | show, ask anew, add and drop a root | interface |
| Telemetry, `B/telemetry_overlay.py` | caches in each worker, the last graph on disk | query, select | interface |
| Local workspace, `B/workspace/local_workspace.py` | rows beside secrets, files and turns | credential, asset and chat commands | models |
| Connectors and turns, `B/workspace/model_connectors.py`, `model_execution.py` | connectors; slips, runs, events and receipts of a turn | upsert, activate, delete, discover, execute | plan, lineage |
| Session evidence, `B/workspace/selected_brain_state.py`, `B/runtime/review_qualification.py`, `B/ipc_worker.py` | proposed outputs with receipts and an index, receipts of continuations, the selection | propose, accept by continuation, select | models, versions, refresh |
| Migration, `B/workspace/canonical_migration.py` | a manifest, a staged copy, the canonical root | execute, verify | desktop |
| Parsing, topology, rendering, interface | none that outlives a command | compute and render | worker |

### What is hard in this code

* **Two directories are renamed and the records are inside them.**  The state of
  a refresh is read from the directory that is at the canonical path; a fuse
  renames that directory away and another one in, and undoes both when a later
  step fails.  Every step can be the last one before a crash.
* **Decisions are recorded in two places** (receipt and state), in two writes.
* **Candidates wait.**  While one waits the brain can be rebuilt, versions
  captured or dropped, sources added, another candidate approved.
* **The lock is a file** whose owner may be dead; telling a dead owner from a
  live one and removing its file are two steps.
* **The host sends a request again** when the worker dies in the middle of it.
* **Progress arrives late**: task and pipeline events are updated by whoever
  holds a context, in read-modify-write cycles over files.
* **A row and a file are two writes.**  Nearly every store keeps rows in SQLite and
  files beside them, and undoes the one when the other fails; the undo can fail.
* **Files are read several times.**  Sources, databases and packages belong to
  somebody who may edit them between the stat, the hash and the text.
* **Caches answer by size and time**, or by a key computed before what they keep.
* **The lock is of one brain.**  The registry, the connectors, the catalog list, the
  name of a restored brain and the runtime folder of a brain that is being made are
  shared by workers under different locks or none.

`PROJECT.json` lists each hazard at its line with the properties that cover it.

### What makes each part correct

* Refresh: only what a person approved is promoted, it replaces the brain it was
  compared with, no captured version and no decision is lost, a failed fuse
  leaves the brain as it was and can be resumed, a begun fuse ends.
* Lock: one command at a time per brain, over processes and crashes; a lock
  never outlives its holder for good.
* Versions: the manifest lists only verifiable records, dropping keeps lineage,
  a crash leaves the old or the new manifest.
* Host: every request gets one answer; a command takes effect at most once, or
  twice only where that is harmless.
* Events and pipeline: a terminal status stays, progress never falls, each event
  is about the task it names.
* Registry: a registered process stays until it is unregistered or dead.
* Ledgers (deltas, plan, sector mutations, portable folder): rows, files, pointers and
  receipts tell the same story whatever step was the last one; numbers are not
  given twice.
* Ingestion, lineage and refresh inputs: what is accepted is what the source held;
  what is taken as unchanged is indexed; a history has every text once.
* Build and products: what a completed build leaves belongs together; a restored
  brain is complete or absent; a handoff holds the package of its version.
* Views: what is served from a cache is what would be computed, the list of the
  brains is true.

## 2. Plan

Done, in this order:

1. `RefreshFuse`: the governed refresh, with proofs.
2. `MutationLock`: the lock file, on Windows and on POSIX; mutual exclusion proved.
3. `VersionHistory` and `VersionStore`: what the version store promises and the
   writes of capture, drop and rollback that implement it; the refinement proved.
4. `TaskEvents`: the app, its worker, resent requests, the task event, its mirror
   and the status of the build pipeline; its safety proved.
5. `DeltaLedger`, `ProcessRegistry`, `ModelExecution`, `PlanDeltas`: the ledgers and
   tables that commands write step by step.
6. `SectorMutation`, by which every sector is written; `SourceIngestion`,
   `LineageAppends`, `SourceRefresh` and `RefreshTruth`, what is written with it and
   how a refresh decides what to write.
7. `BrainRoot`, `BrainBuild`, `PortablePackage`, `RollbackProduct`, `CodexHandoff`:
   the folder of a brain and everything made of it.
8. `BrainCatalog`, `CatalogCache`, `TelemetryViews`, `PipelineProgress`,
   `LocalWorkspace`, `CanonicalMigration`, `SessionEvidence`: the workspace around the
   brains, what sessions leave in it, and what the desktop is shown.
9. `WorkspaceStores`, which puts the modules of 5 to 8 side by side, with the proofs of
   all of them.

An abstract specification of a refresh, which `RefreshFuse` would implement as
`VersionStore` implements `VersionHistory`, would be the next thing to write.

`RefreshFuse` and `VersionStore` assume that the commands of one brain run one at
a time, which is `OneHolder` of `MutationLock`; `TaskEvents` takes the lock as one
step for the same reason.  They are separate modules because the state they share
is that one fact.  `BrainRoot`, `RollbackProduct`, `ProcessRegistry`,
`TelemetryViews` and `CatalogCache` are about what is done without that lock, and
have several actors.

## 3. The modules

### RefreshFuse

A directory is a record (`Dir`) with the content of the brain, its version store,
its tombstones, its latest good snapshot, the refresh states kept in it
(`hist`, `B/refresh_brain.py` history files), and the review packet and decision
receipt of the candidate it was built as.  `canonical`, `candidate[c]` and
`archive[c]` are the three places a directory can be; the renames of a fuse move
whole records between them, so a state is lost, or comes back, with its directory,
as in the code.  `op` is the command that runs under the lock with the state
dictionary it holds in memory (`mem`).

| Actions | Code |
|---|---|
| `BeginRefresh`, `RefuseRefresh`, `Materialize`, `FinishBuild`, `FailBuild`, `Retry` | `start_refresh_brain`, `retry_refresh_brain` |
| `WriteReceipt`, `PersistDecision` | `record_refresh_hil_decision`: the receipt first, the state second |
| `StartFuse`, `ArchiveCanonical`, `PromoteCandidate`, `RestoreArchive`, `CaptureFused`, `CommitFused`, `FinishFuse`, `UndoPromote`, `UndoArchive` | `fuse_refresh_candidate`, one action for each step a failure or a crash can come after |
| `Drop`, `Cancel`, `Cleanup` | `drop_refresh_candidate`, `cancel_refresh_brain`, `cleanup_unfused_refresh_candidate` |
| `CaptureVersion`, `MarkGood`, `Rebuild`, `DropVersion`, `Register` | what else the user does to the brain while a candidate waits |
| `StatusRead` | `get_refresh_status` in another process, which creates the directory it looks into |
| `OutsideEdit`, `Crash` | a file changed outside the program; the worker dies |

Content is a model value and stands for its hash.  A state is written to three
files (history, `CURRENT_REFRESH.json`, operation receipt), here in one step; the
copy in `CURRENT_REFRESH.json` and the operation receipt are not modelled.  The
delta ledger is only a step that may fail.  Cancelling a build that runs is not
reachable, because cancelling needs the lock the build holds.

### MutationLock

One brain's lock file, by system calls: create with O_EXCL, write the owner,
close, unlink; and for a contender open, read and close, judge, unlink.  A file is
known by the worker and incarnation that created it, which is what the recorded
process id and creation time are compared for.  `OpenFilesStay` is the platform:
on Windows a file somebody has open cannot be unlinked.  The worker is
single-threaded, so the RLock before the file is never waited for.  Not modelled:
a missing `psutil`, a missing creation time and a lookup that is denied (the
file then counts as live, as an unnamed one does), and the errors of a path whose
deletion is pending.

### VersionHistory and VersionStore

`VersionHistory` is the promise: a list that grows at its end and whose entries,
the last one excepted, can become tombstones, each step atomic.  `VersionStore`
has the writes: content objects file by file, the record, the manifest; the drop
with its staging directory, its undo, and the recycle bin; the rollback, file by
file, with its receipt at the end.  `records`, `manifest`, `staged` and `outputs`
are the files; `op` is the command with what it has read.  A file's content can
change while a capture reads it.  `Loads` is the verification every reader makes.
`captured` remembers each record as it was written, which is what a rollback is compared
with, also when the version has been dropped since.

### TaskEvents

`request` and `child` are the app's (`PersistentWorker::request` in `main.rs`),
`lines` the stdin of a worker, `worker` its place in `_serve_request` with the part
of the code it is in (`part`), which decides where an exception goes: to the
except clause of the build, to the one of `_serve_request`, or out of the process.
`event`, `mirror` and `pipeline` are the three files a task is reported in.  Every
publication is an update of `event`, a read of both files by the mirroring, a
write of the mirror and a line printed to the app; an app that is gone makes the
print raise, in the middle of the command.  The mirror keeps its last `MirrorLimit`
entries (`Recent`), so a record ends with an entry and need not hold it for good.
`effects` counts how often a command
took effect.

The lock is taken in one step, and the lock of a dead worker is free at once
(`MutationLock` has the steps).  A result other than failure is `completed`, which
stands for `skipped` and `hil_waiting` too.  The progress of a build is one event
before its effect; other commands report progress that changes no status.

### The stores of a workspace

Twenty-one modules, one per thing a workspace keeps, put side by side by
`WorkspaceStores`.  Each has the commands of its store as the writes they consist of,
what the user or another program does to it meanwhile, failures of a write, and the
death of the worker between two.  The columns say what the state stands for and what
is left out; the exact lines are in `map`.

| Module | State and code | Abstracted or left out |
|---|---|---|
| `DeltaLedger` | the ledger of a brain and the copies of it in the candidates: `rows`, `folders`, `files`, the refresh states; `task` is the command with its step (`record_project_delta`, `append_delta_event`, and the refresh commands around them) | a manifest is the refresh it is of; the renames of a fuse are one step (`RefreshFuse` takes them apart) |
| `ProcessRegistry` | `table` is the file; a worker first reads whose table it is, then removes it, then enters itself; a sample is a read and a write | what a sample measures is one number; the unused functions of the module |
| `ModelExecution` | the connectors, and for each turn the records it has left and its place in `execute_model_connector` | requests and responses |
| `PlanDeltas` | `rows` with their events and links, `pointer`, `currents`, the two files | the lanes of a steer are a choice; slips are in `ModelExecution` |
| `SectorMutation` | the sector, the snapshot before it, the router as committed and as its open transaction has it, the receipt files | a content is the set of mutations that are in it; what the `finally` clause does to grant and event is one step, which can fail (`RevokeFails`) |
| `BrainCatalog` | rows with a status and a stamp, folders, tombstones; local stamps and UTC stamps are compared as the texts they are | a name stands for its folder |
| `CanonicalMigration` | the source tree, the manifest, the staged and the canonical tree, and an application that edits the source; the migration's own files go over copied ones of their names (`Overwritten`) | the content of a file is the edit that wrote it, or `Written` |
| `LocalWorkspace` | a credential and its secret, a setting and its file, a chat and its turns | the rows that are one SQL statement |
| `SourceIngestion` | a source (stat, content), the cache, the row with chunks, projection and search; three lanes, one for each way to ingest | how text is parsed; a mutation is one step (`SectorMutation`) |
| `BrainBuild` | the sectors, the parts of the authority, the topology, the packages with what each was made from, the version; `unauthored`, `unpacked` and `detached` remember how far builds that failed got | a lane has one source; the reconciliation of the live router is left out |
| `PortablePackage` | the snapshot, the ledger with its schema version, the files beside it, archives by identity, and what was answered for each | an archive is the folder it was made of; a leftover `.candidate` is removed by the next snapshot |
| `LineageAppends` | the text of a source as a sequence of lines, the turns, the cursor, the copy of the sector, receipts | a custom idempotency key, the normalisation of documents; putting the copy back is one step, which is not torn |
| `RefreshTruth` | a working tree, an index and commits, two snapshots of the brain, and the rows of the report | similarity of renamed contents, merge conflicts, time limits of git |
| `SourceRefresh` | the registered list, the files, the index of the brain, the classes of a refresh and the index of its candidate | one source of each kind; the ingestion of a source is one step |
| `RollbackProduct` | the folders of restored names with the rollback that made them, the rows, two rollbacks under different locks | rendering and archives are a step each |
| `CodexHandoff` | versions, packages by build, the good pair, the registered handoffs, archives on disk | a package is the build it came from |
| `TelemetryViews` | the caches of two workers, the stored graph, versions, the index edited under them | one database; the LRU limits and the scoping of nodes |
| `CatalogCache` | the databases of the roots, the cache file, two processes that load, change and write it | discovery is an edit of a database |
| `BrainRoot` | the folder and the three folders beside it, file by kind, and the records other workers write without the lock, which move with the runtime folder they are in, nested ones too | one initializer, by the lock |
| `PipelineProgress` | the state file with its history, the build's place, and a reader that takes event and history one after the other | all counters are one; percents and stages are few |
| `SessionEvidence` | outputs as objects, receipts and index of each brain, acceptance receipts, the selection; capture, candidate, fuse, restore and migration as the copies they make of these | validation of an output refuses only; the context of a brain is its outputs; names of a folder are the brain |

The invariants of the run `workspace`, by store:

| Invariant | Stores | What could go wrong |
|---|---|---|
| `LedgerIsKept` | delta ledger, refresh truth | a row without its file, a decision the ledger lacks, a number given twice; a changed file without a row in the report, or with the wrong colour |
| `RegistryIsKept` | registry | a worker, the context or a peak lost to somebody's write |
| `TurnsAndPlanAreKept` | turns, plan, session evidence | an output told of that is gone or another one, an acceptance that covers more than was asked; a prompt sent unrecorded or without consent, a turn left open, a plan whose pointer, prompt and files disagree |
| `MutationsAreSettled` | sector mutation | a receipt for what was undone, a grant left open |
| `ViewsAreTrue` | catalog, catalog list, telemetry, progress | a brain listed without its folder or twice, one revived; a stale graph or list; progress that falls |
| `LocalFilesAreKept` | migration, local data | an incomplete canonical root, a row that promises what is not there |
| `SourcesAreTaken` | ingestion, lineage, refresh inputs | an edited source taken as unchanged, a text twice in a history or not at all |
| `ProductsAreTrue` | build, portable folder, rollbacks, handoffs, brain folder | packages of different brains together, a stale snapshot reused, a half-made folder registered, records destroyed |
| `WorkspaceTypeOK` | all | (types) |

## 4. The runs

| Run | Instance | Shows |
|---|---|---|
| `refresh_core` | 2 candidates, 2 contents, 3 versions, 1 crash, a reader of another process | only approved candidates of an unchanged baseline are promoted, receipts are final, recorded versions survive |
| `refresh_faults` | 1 candidate, 1 source, 2 failing calls, 1 edit, 1 crash | a fused version is the reviewed one, a failed fuse keeps the brain and can be resumed, a fuse ends |
| `lock` | 2 workers on Windows, 2 crashes of each | one holder, no silent leftover, every wait ends |
| `versions` | 2 files, 3 versions, 2 failing writes, 1 crash of a drop or a rollback, 1 edit in a capture | no record lost, drops all or nothing, receipted rollbacks are what was captured, lineage, refinement of `VersionHistory` |
| `requests` | 1 app, a build and a command of one brain, a command of another, 1 failing file or stream, 1 death, records of 2 entries | requests answered, completed means done, no effect more than twice, records of a brain its own |
| `workspace` | the twenty-one stores of `WorkspaceStores`, each on its own, 1 to 3 failures or deaths of the worker in each | what each store keeps, in the nine invariants of the table above |
| `dropped_promoted`, `tombstones`, `lock_leak`, `version_empty_file`, `task_receipt`, `task_mirror` | the smallest instance that has the case | the findings below |

**Why the bounds are enough.**  Two candidates are what it takes to have two
approvals of one baseline, a retry, and a candidate that waits while another is
fused.  Three versions let a dropped one have a predecessor and a successor.  One
fault breaks a step, the second one its undo; one death of a worker makes the app send
a request again.  With `MirrorLimit` 2 (256 in the code) the third entry of a record
pushes out the first.  A capture is not crashed in `versions`: a failing write leaves
the files that a crash there does, and an edit matters only while files are read.  Two
workers are what the lock is for, and the two incarnations after their crashes
make four owners.  Two contents are equal or different.  In the stores, one fault
cuts a command off and the commands after it meet what it left; a second one is
granted where an undo has steps of its own (the local data, the rollbacks) and a third
to the mutation of a sector, whose mutation, restoration and successor can each fail.
A store has as many commands as it takes to do something, undo or repeat it and look
at the result; two sources, files or names where one can take the place of another.
Where a store has several actors it has two.  The bounds are constants, in the guards
of the actions that count.  Those of `workspace` are low: every action is taken there
and every seeded error is found, and what they leave out is covered by the proofs of
its invariants for all values (section 5).

**Fairness.**  `refresh_faults`: the worker runs a command it accepted to its end
(it is single-threaded and has no time limit).  `lock`: handlers return, the
system schedules each worker, and the deadline of an acquisition passes; no
fairness between workers is needed.  `requests`: the threads of the app and the
worker run and handlers end.  Deadlock is checked except in `TaskEvents`, where
the requests are finitely many and an app that has none is at rest, and in
`workspace`, where the commands of a store are.  The stores of `workspace` have no
fairness and no liveness property: nothing there waits, and a command that fails is
not tried again by the program.

**One store at a time.**  `WorkspaceStores` starts with the choice of the store that
runs.  No action of a store reads or changes a variable of another one, so that a
state of the workspace is a combination of reachable states of the stores and each
invariant, which is about one of them, holds of the interleaving of all exactly if it
holds of each alone.  What the stores do share in the program (a refresh that ingests
sources by mutations of sectors, a build that captures a version) is a step in the
one and a module in the other, as the notes above say.

### Findings

| Run | What the code does |
|---|---|
| `dropped_promoted` | after a crash behind the second rename, dropping the candidate records "verified brain unchanged" about a brain that is the candidate |
| `tombstones` | a version dropped while a candidate waits is listed again, and its tombstone gone, after the fuse |
| `lock_leak` | on Windows a contender's read makes the owner's unlink fail: the command reports an error and the brain is BUSY until that worker ends |
| `version_empty_file` | an empty authoritative file gives a version that never verifies: its size 0 is read as no size |
| `task_receipt` | the receipt hash of every ended build is the hash of an earlier event |
| `task_mirror` | with two apps the record of one brain gets the event of another |

The properties of `workspace` hold because each names the case it excepts, by a
history variable.  Fifteen of these cases are findings too:

| Property | What the code does |
|---|---|
| `LedgerIsKept` | the number of a delta that a fuse overtook is given again, under a policy called MONOTONIC_NO_RENUMBER (`overtaken`) |
| `LedgerIsKept` | an error of the projection, after the commit, unlinks the file of the committed event (`unlinked`) |
| `RegistryIsKept` | a removal or a sample erases a worker that entered itself meanwhile, which a comment says never happens (`overlapped`) |
| `MutationsAreSettled` | a mutation that fails after the router was committed is copied back and keeps its receipt, snapshot and head (`failedAt`); one whose revocation fails keeps its grant (`unrevoked`) |
| `TurnsAndPlanAreKept` | a prompt made a second time is named by the pointer and not by `is_current` (`recurred`) |
| `TurnsAndPlanAreKept` | a brain restored under another name holds the outputs of the brain it was, under an index of that name, and cannot be selected (`Inherited`) |
| `TurnsAndPlanAreKept` | a fuse leaves the receipts of accepted continuations in the archive; a repeated one is recorded anew (`fusedAway`) |
| `TurnsAndPlanAreKept` | a known output is refused after a migration, for its absolute path (`place`) |
| `ViewsAreTrue` | deletion takes the row of a name updated last, whatever its status, and local stamps are compared with UTC (`excused`) |
| `SourcesAreTaken` | a chat taken out of the registered list makes every later refresh fail |
| `SourcesAreTaken` | an append undone after its hash or receipt was recorded is taken as done (`misled`) |
| `ProductsAreTrue` | a build after one that failed behind its ingestion reuses the products of the earlier brain (`unpacked`) |
| `ProductsAreTrue` | a build that ends between its ChatGPT and its Codex package leaves a Codex archive of the build before, which the next build in the same mode reuses: it names a ChatGPT archive that is gone (`detached`) |
| `ProductsAreTrue` | the cleanup of a failed rollback removes a brain that took its name meanwhile (`contested`) |
| `ProductsAreTrue` | records written while a brain folder is initialized are destroyed or stranded (`crossed`) |

### Other observations

Met while modelling; no run is spent on them.

* Versions captured while a candidate waits are not in the brain's list after the
  fuse (`B/refresh_brain.py:785`); they survive in the archive, which is what
  `RecordedVersionsSurvive` says, while `README.md:48` speaks of the brain.
* The source list is replaced before the receipt and the ledger event
  (`B/refresh_brain.py:2004`); a failure behind that undoes the directories, not the list.
* A fuse that is undone after its capture and resumed captures a version that
  follows the one of the undone attempt (`B/refresh_brain.py:1976`).
* `_load_state` never returns nothing, so the guard of the drop at
  `B/refresh_brain.py:1593` cannot fire and an id never started can be dropped.
* A status read of another process (a second app, or a worker whose app was
  closed) between the two renames creates an empty directory at the canonical path
  (`B/refresh_brain.py:150`): promotion and undo both fail, and the failed fuse is
  recorded with `verified_brain_unchanged` (line 2080).  With `ConcurrentReader`
  TRUE and one fault `FailedFuseKeepsBrain` fails.
* On POSIX (`OpenFilesStay` FALSE) the late unlink of a stale lock can hit the new
  lock of another worker (`B/ipc_worker.py:2952`) and `OneHolder` fails; on Windows
  it can hit a lock its live owner has already closed, which harms nobody.
* A crash between creating the lock file and writing the owner into it leaves a
  lock nobody can judge (`B/ipc_worker.py:3219`): BUSY until a person removes it.
* The size in a record is read after the object was copied
  (`B/brain_versions.py:297`): with contents of two sizes and one edit in a
  capture, the version never verifies.
* A crash in a drop between moving the record and writing the manifest leaves a
  listed version without its record (`B/brain_versions.py:504`), and
  `list_brain_versions` raises until someone moves it back.
* `_brain_runtime_key` queries a column `name` that `brain_project` does not have
  and always falls back to the slug.
* The app reads an answer without a time limit (`main.rs:848`), holding the mutex:
  a handler that hangs stops every later command.
* A request whose worker died is sent again under its id: a command that took
  effect before the death runs twice (`effects` 2), and the second run's refusal
  is what the user sees.
* A second stream failure, in the second attempt, is answered as an error while the
  worker goes on with the command (`main.rs:886`); `AnswerIsLast` is about one
  failure for that reason.
* When the mirror of a started task cannot be written, or both attempts die, the
  event stays `running` (`B/ipc_worker.py:2566`).
* An error after a task was ended as completed (the mirror, a print to a closed
  app, `_brain_summary` after `pipeline.complete`) ends it again as failed
  (`B/ipc_worker.py:5559`), and the pipeline still says completed.  The comment at
  line 2773 calls terminal values immutable.
* With two apps `_finish_authoritative_task` ends whatever task the event is about
  (`B/ipc_worker.py:2744`): `CompletedTookEffect` fails too.

**Of the stores.**  These are in the models as what can happen, except where the note
says that the module leaves them out.

*Refresh and ledgers*

* AWAITING_FUSE is persisted before the delta of the refresh is recorded; a crash
  between them leaves a candidate without a delta.  The file of an event that a crash
  left without its row refuses that decision for good.
* A removed research source, or one whose older version is indexed, counts as
  REMOVED_TOMBSTONE in every refresh, so that no refresh finds nothing to do
  (`B/refresh_brain.py:531`).
* A file that git calls renamed has a red DELETED row for its old path too
  (`B/runtime/refresh_delta_truth.py:679`), and one staged and then removed is told as
  it was staged.  A validation is of the file as it is then, which may not be what the
  candidate indexed.
* A crash while the plan sector is created leaves
  DELTA_SECTOR_UNREGISTERED_ARTIFACT_CONFLICT for good; a steer that supersedes another
  one leaves that one pending.

*Sectors and sources*

* A grant stays ISSUED after a crash, when the sector cannot be made writable, which is
  done before the `try` (`B/runtime/env15_project_schema.py:602`), or when the revocation
  itself fails (line 691), which the same locked router can cause that failed the commit.
* A projection that fails after the ingestion was committed is never made: the retry
  finds the source unchanged.  Setting a source active does not restore its search rows.
* `_structured_chunks` reads its text without comparing the hash, and the semantic
  projection is staged before the source is hashed: an edit in between leaves chunks or a
  projection of another content.
* The id of a code file depends on its relative path alone
  (`B/runtime/stable_runtime_v53.py:533`): a second source with a file of that name is
  refused.
* The stat a lineage append records is taken after the text was read
  (`B/runtime/env15_chat_lineage.py:283`, `:330`): an edit in between is taken as
  unchanged by the next refresh.
* `chat.lineage.append` takes the lock of the brain named in its payload, by default
  "New Brain".  Going back to an earlier text is skipped as unchanged, and a different
  continuation of it then refused as diverged.

*Build and products*

* A build that fails after its ingestion and before its finalization is never made up
  for: the next build skips every source and keeps the authority of the brain before.
* A failure between the ChatGPT package and the removal of an old Gemini package gives
  GEMINI_CHATGPT_DERIVATION_HASH_MISMATCH in every build until a source changes.
* REFERENCE_ONLY sources are written without a governed mutation
  (`B/runtime/stable_runtime_v53.py:1250`).
* The hash of the live router in the pointers is stale after every full build behind a
  mutation (left out of `BrainBuild`).
* A crash while the portable ledger is created leaves one that every later create
  refuses (`B/runtime/portable_brain_package.py:977`); one during an export leaves a
  partial archive that is EXISTING_PORTABLE_EXPORT_INVALID from then on; one while
  `STEER_PROMPT_ANSWER_LOG.json` is written makes every later steer commit its row and
  fail.  Exporting an unchanged snapshot behind later appends answers with the old
  archive.
* A rollback whose receipt fails leaves a registered brain with an error; a crash leaves
  a folder nobody registered that blocks the name.
* The validation of a handoff does not compare the members of the package with the
  declared hash (`B/codex_handoff.py:254`).  Marking good pairs the newest version with
  the newest package, also when the build that made the package failed before its
  capture.  A dropped earlier good version refuses every handoff until two newer ones are
  marked, and one that is the baseline of a refresh every later refresh
  (`B/brain_versions.py:468`).
* The initialization of a brain: a record written between the rename and the last check
  fails it with the new brain in place and the earlier records in
  `.<brain>.preinit-runtime-*` for ever (`B/runtime/env15_project_schema.py:139`); one
  written just before the move back nests the earlier folder in the new one.

*Workspace and views*

* Two creations of one name make twins, and deleting records no tombstone; building a
  removed brain lists it again and keeps its tombstone.
* A source that holds a file of a name the migration writes itself (`config/`, and all of
  a root that is canonical already) has it overwritten in the target
  (`B/workspace/canonical_migration.py:505`, `:527`): the verification fails with the
  target in place, and every retry is refused.
* A `credential.set` that fails behind `set_secret` on a deleted row leaves the new
  secret in the store of the system, and the deletion answers that there is none
  (`B/workspace/local_workspace.py:567`).
* Versions are in no fingerprint of the catalog list, which can be behind with them; two
  processes that write the file lose each other's scans.
* The stored graph always says `deltas: {}` (`B/telemetry_overlay.py:1843`), so a
  selection shows none; the slower query of another worker replaces the stored graph by
  an older one.
* A pipeline whose `fail` is refused stays "running" (`B/ipc_worker.py:5423`);
  `pipeline.snapshot` reads the event and the history under two locks.
* `set_active_model_connector` reads that a connector is enabled before its transaction
  begins, so one that is disabled meanwhile becomes active.

## 5. The proofs

All eight proof modules are for every value of the constants under the assumptions
the modules name: sets may be infinite and the bounds any natural numbers.  Most of the
assumptions say that a constant standing for "none" is not one of the things it stands
beside (`NoRowIsNothing`, `UnindexedIsNoRow`, `AbsentIsNone`, `NoSnapshotIsNone`,
`NoFolderIsNone`, `NoRootIsNone`, `NoStateIsNoEvent`), or that there is at least one
use mode, content or name.  Each of the twenty-one stores has an inductive invariant of
its own, which contains its types, and no safety property of a passing run is without a theorem.

**RefreshFuse_proofs.**  The properties are not inductive: that a promoted
directory was approved rests on where the directories of a running fuse are.
`FuseInvariant` adds `DirsInPlace` (which of the three paths each directory of the
running step is at), `OneDirectoryEach` (a candidate in its place is no brain, an
id is one directory), `FuseIsApproved` (the approval travels with it, in memory
and in the directory) and `ArchiveHolds` (what can still be undone is in the
archive).  One lemma per action shows that it keeps the conjuncts; `Correctness`
combines them, and `HumanGate`, `BaselineReplaced`, `VersionsSurvive` follow.
`ReceiptsAreFinal` is an action property, from the same invariant.  How a fuse ends
rests on more (`RecoveryInvariant`, an invariant of `refresh_faults`): no directory
that a fuse moves is empty or tells of a fuse that has ended (`DirsSound`,
`FuseSound`), and what the command has in memory when it is about to succeed is what it
captured and registered (`MemorySound`).  `FusedIsReviewed` and `FuseCanResume` follow,
the latter with or without a reader, and the action property `FuseCommitsSources`.
`FailureKeepsBrain` holds only without a reader of the status in another process
(`~ConcurrentReader`): the shell it makes at the path takes the place of the brain, as
the observation above says.

**MutationLock_proofs.**  `LockInvariant`: the running command has the file at the
path open and it is its own, which on a platform where open files cannot be
unlinked is why nobody removes it; `Exclusion` follows, under `OpenFilesStay`.
`LeftoversAreReported` needs no such assumption, only `LeftoverInvariant`.

**VersionStore_proofs.**  `HistoryInvariant` keeps what a running capture or drop
knows about the manifest; `Lineage` is its first conjunct.  `Refinement` maps the
list to the manifest, or, while a drop can still be undone, to the manifest it
would put back; each action is an append, a drop or a stutter of `VersionHistory`.
`RecordInvariant` says where the record of every version is, at each step of a drop and
of its undo, and that what is recorded is stored; `RollbackInvariant` that what
is recorded is what was captured, and the folder of a rollback that but for the files
left to copy.  Together they are
`StoreInvariant`, which the run checks.  `RollbackComplete` needs no assumption;
`RecordsKept` and `DropSettled` need `SizesTell`: no file is empty and none changes its
size while it is captured.  Otherwise a record is in its place and does not load, which
the run `version_empty_file` shows.  That a missing record is none that could be
written (`AbsentIsNoRecord`) is an assumption on the constant `Absent`.

**TaskEvents_proofs.**  The types are inductive only together with `PlacesFit`,
which place belongs to which part of the code: a worker looks up the brain of its
request only while it has one.  `DeliveryInvariant` counts, for any number of apps,
how often the line of a request has been written (twice at most, `Written`) and
says that each line still unread, and each command not yet executed, has an effect
left; `AtMostTwiceCorrect` follows.  What the files say needs one app (`OneAppOnly`;
the run `task_mirror` shows why): `TruthInvariant` says that the event and the
pipeline are about the request that is served from the moment its task is started,
so that `completed` is written behind an effect, and that what the mirroring has
read is still what the files say.  `RecordInvariant` adds what is on disk when the
answer is printed, and what the record of a brain ends with, since earlier entries are cut
off: that gives `OkRecordedCorrect`, for any `MirrorLimit` above 0.  `AnswerIsLast` needs what an open
app sees of the failures: a worker it finds dead and a request it sends again are
each one of the `Troubles`, of which the property allows one, and a worker that has
started its task finds an event (`EventThere`).  `AnswerInvariant` says so, again for any
number of apps.

**BrainFiles_proofs.**  `MutationsAreSettled` speaks of the moments at which no
mutation runs and says nothing of the steps between, so it is far from inductive.  It
allows a grant that stays open where its revocation failed, and there alone.
`SectorInvariant` says where the five records stand at every step: the sector is the
snapshot, or the snapshot and the mutation that runs (`SectorInPlace`); what the router
and its open transaction say of that mutation, and at which steps a failure can have
found it (`GrantInPlace`, `DraftInPlace`); the snapshot and head while only early
failures happened (`HeadsInPlace`); and that of the mutations that do not run both
states of the router say the same and it is so (`OthersAreSettled`, `NothingBefore`).
Each step touches one mutation: `SettledStays` carries the others over.  TLC confirmed
`SectorInvariant` with three mutations and four faults before it was proved.
What is ingested is right because times only grow: `StatsGrow` says that a stat was had
by one content, so that a cache that knows the stat knows the content.
`IngestionInvariant` says what a row holds (`RowsAreWhole`) and, step by step, which of
the things an ingestion has read are still those of the source (`ReadingFits`).  A history is proved to be the text of its source turn by
turn: each turn has the text of the one before it and what it added (`Reassembles`), so
that no sequence has to be summed up; `BackupFits` of `AppendInvariant` says that the
copy of the sector is the history without the turn of the append that runs, which is why
putting it back loses nothing but that turn.
A build goes through twenty-two steps, and `BuildInvariant` says of each how much of the
authority is already that of the new sectors (`AuthorityFits`) and which products it has
made by then (`MadeSoFar`); that the products of a pipeline that completed belong together
(`Together`); and when those that are there are of the sectors (`CurrentProducts`,
`ArchivesAreChained`).  Of the portable folder, `PackageInvariant` says what has been read
of each database and whether it can have changed since (`DatabasesRead`, `StatsOfEdits`),
that the snapshot is of what was read (`SnapshotIsOf`), how far the ledger, the files
beside it, the manifest and the archives are at each step (`LedgerFits`, `SidecarsFit`,
`ManifestFits`, `FolderIsWhole`, `ArchivesFit`).
`HandoffInvariant` says what a handoff has checked at each of its steps (`HandoffFits`)
and that marks, versions and packages are in step until a build fails (`MarksFit`);
`RootInvariant` what each of the four folders of a new brain holds (`FolderFits`) and in
which of them a record is (`RecordsFit`).

**LocalFiles_proofs.**  `MigrationIsFaithful` needs what is true before the target
appears: `StagingFollows` says which files of the staging folder agree with the
manifest at each step of the copy, and when its routes are rewritten; `ManifestFollows`
that a file listed and not edited since is as it was listed; `TargetIsSafe` that there
is a target only after the move, complete, and until the next migration begins.  No
source has the content `Written`, so a comparison that was passed says of each file that
the migration did not write over it (`ComparisonFollows`).
Of the local database, a row and what it names outside it are changed one after the
other, so the invariant says, for each step of each command, which of the two is ahead:
`SecretFollows` of the credential and its secret, `FileFollows` of the setting and the
file in hand, `TurnsFollow` of the lineage of the chat and the turns of its brain.
`LocalAssumption` says that secrets, files and turns left behind have different names.
What a refresh says of a folder is true of the files nobody works on while it looks:
`TruthInvariant` says that they are as they were found (`FolderIsAsFound`), which change
of each was taken from the looks so far (`TakenIsAsFound`, `LooksInOrder`), and that a
folder in which git found nothing is its last commit (`CleanIsCommitted`).
A fuse makes the copy of its candidate the ledger, with whatever that copy lacks.
`LedgerInvariant` therefore speaks of the ledger, of the one a fuse replaced and of every
copy: a number has one candidate (`NamedOnce`, `NumbersAreKept`), each ledger goes on,
row by row, from the copies whose candidates it lists (`CopiesAreOlder`), a copy tells
of no decision that the ledger lacks (`StatesAreTold`, `CopiesAgree`), and without a
death a file has its event but for the append that runs (`FilesAreTold`).  TLC confirmed
it with two candidates, three events and two failures (123,140 states).
`LedgerMatchesItsDisk`, `NumbersStayGiven` and `StatesStayInTheLedger` follow.
For what a refresh takes in, `InputInvariant` says that a file not changed since it was
classified is as it was classified (`SettledStay`, `ClassesHold`) and which sources the
candidate already has (`CandidateFits`).  A restored name is worked on by one rollback,
unless it is `contested`: `OneRollbackOf` of `RollbackInvariant` says which and how far,
`LeftToItsBrain` whose the folder is.  Of the list of the brains, `CacheInvariant` says
that the file, and what each worker holds of it, agree with the databases whose stamps
they name, unless something was written meanwhile (`FileFits`, `RequestFits`).

**WorkspaceRecords_proofs.**  A worker that entered itself stays in the table although
every worker writes back tables it read before.  `RegistryInvariant` says why:
whoever holds a table read it with the entry in it (`InTheTable`, `Holds`), and two
workers that were both between reading and entering count as overlapped
(`OneAfterTheOther`, `EnteredAlone`).  A turn writes one record at each step, so
`TurnInvariant` says which records are there from a step on (`GoesWell`), which of them a
failure has to close (`GoesWrong`), that what was sent went behind its records
(`WasPrepared`) to the connector that is active (`IsConnected`).  A command on the plan
writes the row, the prompt, its file and the pointer's file in turn: `PromptInPlace` of
`PlanInvariant` says how far the prompt follows the deltas at each of these steps.  That
the next number is above every earlier one is `HighestThere`: a set of numbers of deltas
has a highest one, since the naturals are well-founded.  Of the session evidence,
`EvidenceInvariant` speaks of every folder there is, the version and the candidate
included (`FoldersFit`), since any of them can become the folder of a brain: its index has
a text once and as its receipt says, and only a hand removes or edits an object
(`FolderSound`); a proposal that runs has done what comes before its step (`StepFits`), and
why one was refused is still so (`RefusedRightly`).  A receipt names the last one before it
because receipts are in the order of their times until the clock is set back
(`AcceptancesFit`).  That a missing folder is no folder and a missing receipt none that
could be written (`AbsentIsNoOutput`) is an assumption on the constants.
What the desktop is shown has three more invariants.  `ProgressInvariant`: the history of a
build is in order and nothing in it comes after an end (`HistoryInOrder`), and what a
reader has read is not later than the file (`ReadIsBehind`).  `CatalogInvariant`: of the
rows of a name the newest is the active one (`NewestIsActive`), a removed brain is
buried (`RemovedAreBuried`), and how far a command on it is (`ErrandFits`).
`TelemetryInvariant`: every graph that is kept, in memory or on disk, is of the index it
names (`KeptIsTrue`), and so is the one a query is about to answer with (`QueryIsTrue`).

**WorkspaceStores_proofs.**  A step of the workspace is a step of the store that runs and
leaves what every other store keeps alone (`StoresMove`), so `WorkspaceSpec` implements
the specification of each of the twenty-one stores; there is one theorem for each
(`WorkspaceBuilds`, `WorkspaceIngests`, `WorkspaceMutates` and so on).  What the modules
before prove of one store is so of the workspace: `LedgerStays`, `RegistryStays`,
`TurnsAndPlanStay`, `WorkspaceMutationsSettle`, `LocalFilesKept`, `SourcesStayTaken`,
`ProductsStay`, `ViewsStay` and `TypesStay` are the nine invariants that the run
`workspace` checks on its instance.

## 6. What is only model-checked, and what is not modelled

Only checked by TLC, on the instances above: the liveness properties (`FuseResolves`,
`AcquireEnds`, `EveryRequestIsAnswered`), which the prover does not do.
`DropIsAllOrNothing`, `RecordsAreKept` and `FailedFuseKeepsBrain` are proved under an
assumption, and false without it, as section 5 says.

Not modelled, each with its reason in `PROJECT.json`: what is inside a content
(parsing, topology, the layout of packages, the nodes of a graph), the interface, the
legacy Qt window, the release scripts, the static lane tables, the metrics worker but
for its samples, SQLite's own transactions, a disk that loses what was written.  The
Git lineage of the earlier runtime (`B/runtime/stable_runtime_v53.py:1616`) is built
into a fresh, disposable database and has no state to lose.  Two consequences are
worth knowing: that the files of a version belong together is outside `VersionStore`,
whose files are independent, and a failure to send a candidate to the recycle bin is
outside `RefreshFuse`.
