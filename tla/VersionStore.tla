----------------------------- MODULE VersionStore -----------------------------
(***************************************************************************)
(* The version store of one brain on disk (brain_versions.py).             *)
(*                                                                         *)
(* Content objects, one signed record per version, one manifest that lists *)
(* the versions and the tombstones, a staging directory for a version that *)
(* is being dropped, and the directories rollbacks write.  Each write is a *)
(* step, because a crash or an error can come between any two of them.     *)
(* Commands run one at a time (module MutationLock); a brain file can be   *)
(* changed outside the program while a capture reads it.                   *)
(***************************************************************************)
EXTENDS Naturals

CONSTANTS
    Files,        \* authoritative files of the brain
    Contents,     \* contents a file can have; an object is its content
    Size,         \* the size of each content
    Absent,       \* a file that is not there
    MaxVersions,  \* bound: versions captured
    MaxFaults,    \* bound: writes, moves or sends to the recycle bin that fail
    MaxCrashes,   \* bound: crashes of the worker
    MaxEdits,     \* bound: edits made outside the program
    CrashIn       \* the commands in which a crash can come

Commands == {"capture", "drop", "rollback"}

ASSUME StoreAssumption ==
    /\ Absent \notin Contents
    /\ Size \in [Contents -> Nat]
    /\ MaxVersions \in Nat /\ MaxFaults \in Nat
    /\ MaxCrashes \in Nat /\ MaxEdits \in Nat
    /\ CrashIn \subseteq Commands

\* A record that is not there is no record.
ASSUME AbsentIsNoRecord ==
    Absent \notin [Files -> [content : Contents, size : Nat] \cup {Absent}]

Ids == 1..MaxVersions

\* What a record says of one file.
FileEntry == [content : Contents, size : Nat]

-----------------------------------------------------------------------------
VARIABLES
    brain,     \* the content of each authoritative file
    objects,   \* objects/: the contents stored
    records,   \* records/: for each version its file entries, or Absent
    manifest,  \* BRAIN_VERSION_MANIFEST: the versions and the tombstones
    staged,    \* .version_drop_staging/<id>: none, an empty directory, a record
    outputs,   \* rollback directories: none, or the files written and a receipt
    op,        \* the running command
    nextId,    \* the next version id
    captured,  \* history: the record of each version as it was written
    faults     \* how often each kind of fault has happened

vars == <<brain, objects, records, manifest, staged, outputs, op, nextId, captured,
          faults>>

Entry == [id : Ids, prev : Ids \cup {0}]

Manifest == [versions : SUBSET Entry, dropped : SUBSET Entry]

\* The file entries of a version: Absent for a file the brain did not have.
Snapshot == [Files -> FileEntry \cup {Absent}]

NoFiles == [f \in Files |-> Absent]

Steps == {"idle", "install", "stat", "record", "list",
          "move", "unlist", "trash", "relist", "unmove",
          "copy", "receipt"}

\* entry is the manifest entry of the version the command is about, files what
\* it has read so far, todo what is left of it, saved original_manifest.
Idle == [step |-> "idle", command |-> "none", entry |-> [id |-> 0, prev |-> 0],
         files |-> NoFiles, todo |-> {}, file |-> Absent,
         saved |-> [versions |-> {}, dropped |-> {}]]

Output == [state : {"none", "made", "receipted"}, files : [Files -> Contents \cup {Absent}]]

NoOutput == [state |-> "none", files |-> NoFiles]

Operation == [step : Steps, command : Commands \cup {"none"},
              entry : [id : Ids \cup {0}, prev : Ids \cup {0}],
              files : Snapshot, todo : SUBSET Files, file : Files \cup {Absent},
              saved : Manifest]

\* What the step of a command says of its fields.
OperationFits ==
    /\ op.step \in {"install", "stat"} => nextId \in Ids
    /\ op.step = "stat" => op.file \in Files /\ op.files[op.file] \in FileEntry
    /\ op.step \in {"list", "move", "unlist", "trash", "relist", "unmove", "copy"} =>
           op.entry \in Entry
    /\ op.step = "move" => records[op.entry.id] # Absent
    /\ op.step = "copy" => \A f \in op.todo : op.files[f] # Absent

TypeOK ==
    /\ brain \in [Files -> Contents \cup {Absent}]
    /\ objects \subseteq Contents
    /\ records \in [Ids -> Snapshot \cup {Absent}]
    /\ manifest \in Manifest
    /\ staged \in [Ids -> {"none", "empty", "record"}]
    /\ outputs \in [Ids -> Output]
    /\ op \in Operation
    /\ OperationFits
    /\ nextId \in Nat
    /\ captured \in [Ids -> Snapshot \cup {Absent}]
    /\ faults \in [fail : 0..MaxFaults, crash : 0..MaxCrashes, edit : 0..MaxEdits]

Init ==
    /\ brain \in [Files -> Contents \cup {Absent}]
    /\ objects = {}
    /\ records = [i \in Ids |-> Absent]
    /\ manifest = [versions |-> {}, dropped |-> {}]
    /\ staged = [i \in Ids |-> "none"]
    /\ outputs = [i \in Ids |-> NoOutput]
    /\ op = Idle
    /\ nextId = 1
    /\ captured = [i \in Ids |-> Absent]
    /\ faults = [fail |-> 0, crash |-> 0, edit |-> 0]

-----------------------------------------------------------------------------
Present == {f \in Files : brain[f] # Absent}

IsLast(e, entries) == e \in entries /\ \A o \in entries : o.id <= e.id

\* manifest["versions"][-1]["version_id"], 0 when there is none.
PreviousId(m) == IF m.versions = {} THEN {0}
                 ELSE {e.id : e \in {o \in m.versions : IsLast(o, m.versions)}}

\* verify_version_snapshot of a record: every object is there with the recorded
\* size.  A recorded size of 0 is read as no size ("or -1").
Verifies(record) ==
    \A f \in Files : record[f] # Absent =>
        /\ record[f].content \in objects
        /\ record[f].size # 0
        /\ Size[record[f].content] = record[f].size

\* load_brain_version_record: the entry is listed, its record is there, and its
\* objects verify.
Loads(e) ==
    /\ e \in manifest.versions
    /\ records[e.id] # Absent
    /\ Verifies(records[e.id])

Return == op' = Idle

\* mutant: the wrong field
GoToCommand(step) == op' = [op EXCEPT !.command = step]

GoTo(step) == op' = [op EXCEPT !.step = step]

Fault ==
    /\ faults.fail < MaxFaults
    /\ faults' = [faults EXCEPT !.fail = @ + 1]

NoFault == UNCHANGED faults

-----------------------------------------------------------------------------
(* capture_brain_version                                                   *)

StartCapture ==
    /\ op = Idle
    /\ Present # {}
    /\ nextId \in Ids
    /\ op' = [Idle EXCEPT !.step = "install", !.command = "capture", !.todo = Present]
    /\ UNCHANGED <<brain, objects, records, manifest, staged, outputs, nextId, captured,
                   faults>>

\* One file is hashed and its object installed; a file that changes in between
\* fails the command (VERSION_OBJECT_COPY_HASH_MISMATCH), as does a full disk.
InstallObject ==
    /\ op.step = "install" /\ op.todo # {}
    /\ \/ \E f \in op.todo :
            /\ NoFault
            /\ IF brain[f] = Absent THEN Return /\ UNCHANGED objects
               ELSE /\ objects' = objects \cup {brain[f]}
                    /\ op' = [op EXCEPT !.step = "stat", !.file = f,
                                        !.files[f] = [content |-> brain[f], size |-> 0]]
       \/ Fault /\ Return /\ UNCHANGED objects
    /\ UNCHANGED <<brain, records, manifest, staged, outputs, nextId, captured>>

\* The size is read from the brain after the object was copied.
StatFile ==
    /\ op.step = "stat"
    /\ IF brain[op.file] = Absent THEN Return
       ELSE op' = [op EXCEPT !.step = "install", !.todo = @ \ {op.file}, !.file = Absent,
                             !.files[op.file].size = Size[brain[op.file]]]
    /\ UNCHANGED <<brain, objects, records, manifest, staged, outputs, nextId, captured,
                   faults>>

\* The manifest is read and the record written; it follows the last version.
WriteRecord ==
    /\ op.step = "install" /\ op.todo = {}
    /\ \/ /\ records' = [records EXCEPT ![nextId] = op.files]
          /\ \E previous \in PreviousId(manifest) :
                 op' = [op EXCEPT !.step = "list",
                                  !.entry = [id |-> nextId, prev |-> previous]]
          /\ nextId' = nextId + 1
          /\ captured' = [captured EXCEPT ![nextId] = op.files]
          /\ NoFault
       \/ Fault /\ Return /\ UNCHANGED <<records, nextId, captured>>
    /\ UNCHANGED <<brain, objects, manifest, staged, outputs>>

WriteManifest ==
    /\ op.step = "list"
    /\ \/ manifest' = [manifest EXCEPT !.versions = @ \cup {op.entry}] /\ NoFault
       \/ Fault /\ UNCHANGED manifest
    /\ Return
    /\ UNCHANGED <<brain, objects, records, staged, outputs, nextId, captured>>

-----------------------------------------------------------------------------
(* drop_brain_version_to_recycle_bin                                       *)

\* The checks, and the staging directory of the version.
StageDrop(e) ==
    /\ op = Idle
    /\ e \in manifest.versions /\ ~IsLast(e, manifest.versions)
    /\ Loads(e)
    /\ staged[e.id] = "none"
    /\ staged' = [staged EXCEPT ![e.id] = "empty"]
    /\ op' = [Idle EXCEPT !.step = "move", !.command = "drop", !.entry = e,
                          !.saved = manifest]
    /\ UNCHANGED <<brain, objects, records, manifest, outputs, nextId, captured, faults>>

\* os.replace of the record into the staging directory.
MoveRecord ==
    /\ op.step = "move"
    /\ \/ /\ staged' = [staged EXCEPT ![op.entry.id] = "record"]
          /\ op' = [op EXCEPT !.step = "unlist", !.files = records[op.entry.id]]
          /\ records' = [records EXCEPT ![op.entry.id] = Absent]
          /\ NoFault
       \/ Fault /\ GoTo("relist") /\ UNCHANGED <<records, staged>>
    /\ UNCHANGED <<brain, objects, manifest, outputs, nextId, captured>>

\* mutant: no tombstone
UnlistSilently ==
    /\ op.step = "unlist"
    /\ manifest' = [manifest EXCEPT !.versions = @ \ {op.entry}]
    /\ GoTo("trash")
    /\ UNCHANGED <<brain, objects, records, staged, outputs, nextId, captured, faults>>

UnlistVersion ==
    /\ op.step = "unlist"
    /\ \/ /\ manifest' = [versions |-> manifest.versions \ {op.entry},
                          dropped |-> manifest.dropped \cup {op.entry}]
          /\ GoTo("trash")
          /\ NoFault
       \/ Fault /\ GoTo("relist") /\ UNCHANGED manifest
    /\ UNCHANGED <<brain, objects, records, staged, outputs, nextId, captured>>

\* send2trash of the staging directory; the drop receipt follows.
SendToTrash ==
    /\ op.step = "trash"
    /\ \/ staged' = [staged EXCEPT ![op.entry.id] = "none"] /\ Return /\ NoFault
       \/ Fault /\ GoTo("relist") /\ UNCHANGED staged
    /\ UNCHANGED <<brain, objects, records, manifest, outputs, nextId, captured>>

\* mutant: the manifest is not put back
KeepUnlisted ==
    /\ op.step = "relist"
    /\ GoTo("unmove")
    /\ UNCHANGED <<brain, objects, records, manifest, staged, outputs, nextId, captured,
                   faults>>

\* The except clause: original_manifest is written back.
RelistVersion ==
    /\ op.step = "relist"
    /\ \/ manifest' = op.saved /\ GoTo("unmove") /\ NoFault
       \/ Fault /\ Return /\ UNCHANGED manifest
    /\ UNCHANGED <<brain, objects, records, staged, outputs, nextId, captured>>

\* mutant: the staging directory goes before the record is moved back
ForgetRecord ==
    /\ op.step = "unmove"
    /\ staged' = [staged EXCEPT ![op.entry.id] = "none"]
    /\ Return
    /\ UNCHANGED <<brain, objects, records, manifest, outputs, nextId, captured, faults>>

\* A staged record is moved back and the staging directory removed; that the
\* directory cannot be removed is ignored.
RestoreRecord ==
    /\ op.step = "unmove"
    /\ \/ /\ records' = IF staged[op.entry.id] = "record" /\ records[op.entry.id] = Absent
                        THEN [records EXCEPT ![op.entry.id] = op.files] ELSE records
          /\ \/ staged' = [staged EXCEPT ![op.entry.id] = "none"] /\ NoFault
             \/ staged' = [staged EXCEPT ![op.entry.id] = "empty"] /\ Fault
       \/ Fault /\ UNCHANGED <<records, staged>>
    /\ Return
    /\ UNCHANGED <<brain, objects, manifest, outputs, nextId, captured>>

-----------------------------------------------------------------------------
(* rollback_brain_version                                                  *)

StartRollback(e) ==
    /\ op = Idle
    /\ Loads(e)
    /\ outputs[e.id].state = "none"
    /\ outputs' = [outputs EXCEPT ![e.id].state = "made"]
    /\ op' = [Idle EXCEPT !.step = "copy", !.command = "rollback", !.entry = e,
                          !.files = records[e.id],
                          !.todo = {f \in Files : records[e.id][f] # Absent}]
    /\ UNCHANGED <<brain, objects, records, manifest, staged, nextId, captured, faults>>

\* One file; an error removes the whole directory.
CopyFile ==
    /\ op.step = "copy" /\ op.todo # {}
    /\ \/ \E f \in op.todo :
            /\ outputs' = [outputs EXCEPT ![op.entry.id].files[f] = op.files[f].content]
            /\ op' = [op EXCEPT !.todo = @ \ {f}]
            /\ NoFault
       \/ /\ Fault /\ Return
          /\ outputs' = [outputs EXCEPT ![op.entry.id] = NoOutput]
    /\ UNCHANGED <<brain, objects, records, manifest, staged, nextId, captured>>

\* mutant: the receipt does not wait for the files
WriteReceiptEarly ==
    /\ op.step = "copy"
    /\ outputs' = [outputs EXCEPT ![op.entry.id].state = "receipted"]
    /\ Return
    /\ UNCHANGED <<brain, objects, records, manifest, staged, nextId, captured, faults>>

\* The copied snapshot is compared and the receipt written; a receipt that
\* cannot be written leaves the complete directory.
WriteReceipt ==
    /\ op.step = "copy" /\ op.todo = {}
    /\ \/ outputs' = [outputs EXCEPT ![op.entry.id].state = "receipted"] /\ NoFault
       \/ Fault /\ UNCHANGED outputs
    /\ Return
    /\ UNCHANGED <<brain, objects, records, manifest, staged, nextId, captured>>

-----------------------------------------------------------------------------
(* The surroundings.                                                       *)

\* A build changes a file between commands of the store.
Build(f, c) ==
    /\ op = Idle
    /\ brain' = [brain EXCEPT ![f] = c]
    /\ UNCHANGED <<objects, records, manifest, staged, outputs, op, nextId, captured,
                   faults>>

\* A file changes outside the program while a capture reads it; the other commands
\* read none, and meet a change as if a build had made it before them.
OutsideEdit(f, c) ==
    /\ op.command = "capture"
    /\ faults.edit < MaxEdits
    /\ brain' = [brain EXCEPT ![f] = c]
    /\ faults' = [faults EXCEPT !.edit = @ + 1]
    /\ UNCHANGED <<objects, records, manifest, staged, outputs, op, nextId, captured>>

Crash ==
    /\ op.command \in CrashIn
    /\ faults.crash < MaxCrashes
    /\ faults' = [faults EXCEPT !.crash = @ + 1]
    /\ Return
    /\ UNCHANGED <<brain, objects, records, manifest, staged, outputs, nextId, captured>>

Next ==
    \/ StartCapture \/ InstallObject \/ StatFile \/ WriteRecord \/ WriteManifest
    \/ \E e \in manifest.versions : StageDrop(e) \/ StartRollback(e)
    \/ MoveRecord \/ UnlistVersion \/ SendToTrash \/ RelistVersion \/ RestoreRecord
    \/ CopyFile \/ WriteReceipt
    \/ \E f \in Files, c \in Contents \cup {Absent} : Build(f, c) \/ OutsideEdit(f, c)
    \/ Crash

Spec == Init /\ [][Next]_vars

-----------------------------------------------------------------------------
(* Properties.                                                             *)

\* The record of a listed version is never lost: it is at its place with its
\* objects, or the drop that moved it, running or interrupted by a crash or a
\* second failure, left it in the staging directory.
RecordsAreKept ==
    \A e \in manifest.versions : Loads(e) \/ staged[e.id] = "record"

\* A drop in which one step fails leaves the version as it was, at most with an
\* empty staging directory.  One that succeeds leaves only a tombstone.
DropIsAllOrNothing ==
    (op = Idle /\ faults.fail <= 1 /\ faults.crash = 0) =>
        /\ \A e \in manifest.versions : Loads(e)
        /\ \A e \in manifest.dropped : records[e.id] = Absent
        /\ \A i \in Ids : staged[i] # "record"

\* The files written are those of the record, but for what is left to copy.
HoldsFiles(files, record, todo) ==
    \A f \in Files :
        files[f] = IF f \in todo \/ record[f] = Absent THEN Absent ELSE record[f].content

\* A rollback directory with a receipt holds the whole snapshot of its version, as
\* it was captured, also when the version was dropped later or its drop was undone
\* or cut short; and no rollback is made of what was never captured.
ReceiptedRollbackIsComplete ==
    \A i \in Ids : outputs[i].state = "receipted" =>
        /\ captured[i] # Absent
        /\ HoldsFiles(outputs[i].files, captured[i], {})

\* The store implements the history it promises: a drop counts from the moment
\* its payload is in the recycle bin, or from a crash after the list was written.
Undoable == op.step \in {"move", "unlist", "trash", "relist"}

Listed  == IF Undoable THEN op.saved.versions ELSE manifest.versions
Dropped == IF Undoable THEN op.saved.dropped ELSE manifest.dropped

Promise == INSTANCE VersionHistory WITH versions <- Listed, dropped <- Dropped

ImplementsHistory == Promise!Spec

\* The lineage of a manifest never closes over a dropped version, and no version
\* is both listed and dropped (brain_versions.py:447).
Linked(m) ==
    /\ \A e \in m.versions \cup m.dropped :
           e.prev # 0 => \E o \in m.versions \cup m.dropped : o.id = e.prev
    /\ \A e \in m.versions, o \in m.dropped : e.id # o.id

LineageIsComplete == Linked(manifest)

-----------------------------------------------------------------------------
(* What the documentation says and the code does not do.                   *)

\* README.md:48, immutable version records that retain the previous verified
\* state: what is listed can be loaded, which listing, comparing, rolling back
\* and refreshing all begin with.
ListedVersionsLoad ==
    op = Idle => \A e \in manifest.versions : Loads(e)

-----------------------------------------------------------------------------
(* Why the lineage is complete and the history implemented.                *)

\* The manifest the running drop is about to write.
Unlisted(m, e) == [versions |-> m.versions \ {e}, dropped |-> m.dropped \cup {e}]

\* A manifest of versions captured so far, each with an id of its own.
Sound(m) ==
    /\ Linked(m)
    /\ \A e \in m.versions \cup m.dropped : e.id < nextId
    /\ \A e, o \in m.versions \cup m.dropped : e.id = o.id => e = o

\* The inductive invariant of the proofs: besides a sound manifest it keeps what
\* a running command knows, the entry it is about to list or the manifest it
\* would put back.
HistoryInvariant ==
    /\ Sound(manifest)
    /\ op.step = "list" =>
           /\ op.entry \in Entry /\ op.entry.id < nextId
           /\ \A e \in manifest.versions \cup manifest.dropped : e.id < op.entry.id
           /\ op.entry.prev \in PreviousId(manifest)
    /\ Undoable =>
           /\ Sound(op.saved)
           /\ op.entry \in op.saved.versions
           /\ ~IsLast(op.entry, op.saved.versions)
           /\ manifest \in {op.saved, Unlisted(op.saved, op.entry)}
    /\ op.step \in {"move", "unlist"} => manifest = op.saved
    /\ op.step = "trash" => manifest = Unlisted(op.saved, op.entry)

-----------------------------------------------------------------------------
(* Why records are kept and rollbacks complete.                            *)

\* The steps at which the record of the dropped version may be in staging.
Moved == {"unlist", "trash", "relist", "unmove"}

\* No file is empty, and none changes its size while a capture reads it.
SizesTell ==
    /\ \A c \in Contents : Size[c] # 0
    /\ MaxEdits = 0 \/ \A c, d \in Contents : Size[c] = Size[d]

\* What a record says of a file is in the store, and loads where sizes tell.
Stored(entry) ==
    /\ entry.content \in objects
    /\ SizesTell => entry.size = Size[entry.content]

AllStored(files) == \A f \in Files : files[f] # Absent => Stored(files[f])

\* A version has its record in its place or in staging.
HasRecord(e) == records[e.id] # Absent \/ staged[e.id] = "record"

\* What is recorded, what a capture has read and what a drop has moved is stored.
EverythingStored ==
    /\ \A i \in Ids : records[i] # Absent => AllStored(records[i])
    /\ op.step = "install" => AllStored(op.files)
    /\ op.step = "stat" =>
           /\ \A f \in Files \ {op.file} : op.files[f] # Absent => Stored(op.files[f])
           /\ op.files[op.file].content \in objects
           /\ MaxEdits = 0 => op.files[op.file].content = brain[op.file]
    /\ (op.step \in Moved /\ staged[op.entry.id] = "record") => AllStored(op.files)

\* Where the record of the version that is dropped is.
RecordInPlace ==
    /\ op.step = "list" => records[op.entry.id] # Absent
    /\ op.step = "move" => staged[op.entry.id] = "empty"
    /\ op.step \in {"unlist", "trash"} => records[op.entry.id] = Absent
    /\ op.step = "unmove" => op.entry \in manifest.versions
    /\ \A e \in manifest.versions : HasRecord(e)
    /\ Undoable => \A e \in op.saved.versions : HasRecord(e)

\* As long as one step fails and the worker lives.
OneFailure == faults.fail <= 1 /\ faults.crash = 0

DropSettles ==
    /\ op.step \in {"relist", "unmove"} => faults.fail >= 1
    /\ OneFailure =>
           /\ \A i \in Ids : staged[i] = "record" =>
                  op.step \in Moved /\ i = op.entry.id
           /\ \A e \in manifest.dropped : records[e.id] = Absent
           /\ Undoable => \A e \in op.saved.dropped : records[e.id] = Absent

RecordInvariant == EverythingStored /\ RecordInPlace /\ DropSettles

\* A record is what was captured, in its place and on its way back from staging.
RollbackInvariant ==
    /\ \A i \in Ids :
           /\ records[i] # Absent => records[i] = captured[i]
           /\ outputs[i].state = "none" => outputs[i] = NoOutput
           /\ outputs[i].state # "none" => i < nextId
    /\ (op.step \in Moved /\ staged[op.entry.id] = "record") =>
           op.files = captured[op.entry.id]
    /\ op.step = "copy" =>
           /\ captured[op.entry.id] = op.files /\ op.files # Absent
           /\ outputs[op.entry.id].state = "made"
           /\ HoldsFiles(outputs[op.entry.id].files, op.files, op.todo)
    /\ ReceiptedRollbackIsComplete

\* What every step of the store keeps.
StoreInvariant == HistoryInvariant /\ RecordInvariant /\ RollbackInvariant
===============================================================================
