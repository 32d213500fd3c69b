------------------------- MODULE VersionStore_proofs -------------------------
(***************************************************************************)
(* What holds of the version store for any files, contents and number of   *)
(* versions, faults, crashes (in every command) and outside edits: the     *)
(* type invariant, the completeness of the lineage, that the store         *)
(* implements VersionHistory, that records are kept and drops undone, and  *)
(* that a rollback with a receipt is complete.                             *)
(***************************************************************************)
EXTENDS VersionStore, TLAPS

\* No command is running: the record of one that has ended.
LEMMA IdleTyped ==
    /\ Idle \in Operation
    /\ Idle.step = "idle" /\ Idle.files \in Snapshot
BY DEF Idle, Operation, Steps, Commands, NoFiles, Snapshot, Manifest

\* Every fault that is taken is counted within its bound.
LEMMA FaultsTyped ==
    TypeOK /\ (Fault \/ NoFault)
        => faults' \in [fail : 0..MaxFaults, crash : 0..MaxCrashes, edit : 0..MaxEdits]
BY StoreAssumption DEF TypeOK, Fault, NoFault

\* The end of a command needs no check of what it wrote about itself.
LEMMA ReturnTyped == Return => op' \in Operation /\ OperationFits'
BY IdleTyped DEF Return, OperationFits

\* The steps of a capture write values of the declared types.
LEMMA CaptureTypes ==
    TypeOK /\ (StartCapture \/ InstallObject \/ StatFile \/ WriteRecord \/ WriteManifest)
        => TypeOK'
<1> SUFFICES ASSUME TypeOK, StartCapture \/ InstallObject \/ StatFile
                            \/ WriteRecord \/ WriteManifest
             PROVE  TypeOK'
  OBVIOUS
<1> USE StoreAssumption, IdleTyped DEF TypeOK, OperationFits, NoFault, Return, Fault
<1>1. CASE StartCapture
  BY <1>1 DEF StartCapture, Operation, Steps, Commands, Present
<1>2. CASE InstallObject
  <2>1. CASE op' = Idle
    <3>1. op' \in Operation /\ OperationFits'
      BY <2>1
    <3>2. UNCHANGED <<brain, records, manifest, staged, outputs, nextId, captured>>
      BY <1>2 DEF InstallObject
    <3>4. objects' \subseteq Contents
      <4>1. \/ objects' = objects
            \/ \E f \in op.todo : brain[f] # Absent /\ objects' = objects \cup {brain[f]}
        BY <1>2 DEF InstallObject
      <4>2. op.todo \subseteq Files
        BY DEF Operation
      <4> QED
        BY <4>1, <4>2
    <3>3. faults' \in [fail : 0..MaxFaults, crash : 0..MaxCrashes, edit : 0..MaxEdits]
      BY <1>2, FaultsTyped DEF InstallObject
    <3> QED
      BY <3>1, <3>2, <3>3, <3>4
  <2>2. ASSUME NEW f \in op.todo, brain[f] # Absent,
               op' = [op EXCEPT !.step = "stat", !.file = f,
                                !.files[f] = [content |-> brain[f], size |-> 0]]
        PROVE  op' \in Operation /\ OperationFits'
    <3>1. f \in Files /\ brain[f] \in Contents
      BY <2>2 DEF Operation
    <3>2. [content |-> brain[f], size |-> 0] \in FileEntry
      BY <3>1 DEF FileEntry
    <3>3. [op.files EXCEPT ![f] = [content |-> brain[f], size |-> 0]] \in Snapshot
      BY <3>1, <3>2 DEF Operation, Snapshot
    <3>4. op' \in Operation
      BY <2>2, <3>1, <3>3 DEF Operation, Steps
    <3>5. op'.file \in Files /\ op'.files[op'.file] \in FileEntry
      BY <2>2, <3>1, <3>2 DEF Operation, Snapshot
    <3>6. nextId' \in Ids
      BY <1>2 DEF InstallObject
    <3>7. op'.step = "stat"
      BY <2>2 DEF Operation
    <3> QED
      BY <3>4, <3>5, <3>6, <3>7
  <2>3. CASE op' # Idle
    <3>1. PICK f \in op.todo :
             /\ brain[f] # Absent
             /\ objects' = objects \cup {brain[f]}
             /\ op' = [op EXCEPT !.step = "stat", !.file = f,
                                 !.files[f] = [content |-> brain[f], size |-> 0]]
             /\ UNCHANGED faults
      BY <1>2, <2>3 DEF InstallObject
    <3>2. brain[f] \in Contents
      BY <3>1 DEF Operation
    <3> QED
      BY <1>2, <2>2, <3>1, <3>2 DEF InstallObject
  <2> QED
    BY <2>1, <2>3
<1>3. CASE StatFile
  <2>1. CASE brain[op.file] = Absent
    BY <1>3, <2>1 DEF StatFile
  <2>2. CASE brain[op.file] # Absent
    <3>1. op.file \in Files /\ Size[brain[op.file]] \in Nat
      BY <1>3, <2>2 DEF StatFile
    <3>2. [op.files EXCEPT ![op.file].size = Size[brain[op.file]]] \in Snapshot
      BY <1>3, <3>1 DEF StatFile, Snapshot, FileEntry, Operation
    <3>3. op' = [op EXCEPT !.step = "install", !.todo = op.todo \ {op.file},
                           !.file = Absent,
                           !.files = [op.files EXCEPT ![op.file].size = Size[brain[op.file]]]]
      BY <1>3, <2>2 DEF StatFile, Operation
    <3>4. op' \in Operation /\ op'.step = "install"
      BY <3>2, <3>3 DEF Operation, Steps
    <3> QED
      BY <1>3, <3>4 DEF StatFile
  <2> QED
    BY <2>1, <2>2
<1>4. CASE WriteRecord
  <2>1. CASE op' = Idle
    BY <2>1, <1>4, FaultsTyped DEF WriteRecord, Operation
  <2>2. CASE op' # Idle
    <3>1. PICK previous \in PreviousId(manifest) :
             op' = [op EXCEPT !.step = "list",
                              !.entry = [id |-> nextId, prev |-> previous]]
      BY <1>4, <2>2 DEF WriteRecord
    <3>2. previous \in Ids \cup {0}
      BY <3>1 DEF PreviousId, Manifest, Entry
    <3>3. nextId \in Ids /\ nextId + 1 \in Nat
      <4>1. op.step = "install"
        BY <1>4 DEF WriteRecord
      <4> QED
        BY <4>1
    <3>4. op' \in Operation /\ op'.step = "list" /\ op'.entry \in Entry
      BY <3>1, <3>2, <3>3 DEF Operation, Steps, Entry
    <3>5. /\ records' \in [Ids -> Snapshot \cup {Absent}]
          /\ captured' \in [Ids -> Snapshot \cup {Absent}]
      BY <1>4, <3>3 DEF WriteRecord, Operation
    <3> QED
      BY <1>4, <2>2, <3>3, <3>4, <3>5 DEF WriteRecord
  <2> QED
    BY <2>1, <2>2
<1>5. CASE WriteManifest
  BY <1>5 DEF WriteManifest, Manifest
<1> QED
  BY <1>1, <1>2, <1>3, <1>4, <1>5

\* The steps of a drop, and of its undoing, write values of the declared types.
LEMMA DropTypes ==
    ASSUME TypeOK,
           \/ \E e \in manifest.versions : StageDrop(e)
           \/ MoveRecord \/ UnlistVersion \/ SendToTrash \/ RelistVersion \/ RestoreRecord
    PROVE  TypeOK'
<1> USE StoreAssumption DEF TypeOK
<1>1. ASSUME NEW e \in manifest.versions, StageDrop(e) PROVE TypeOK'
  <2>1. e \in Entry /\ records[e.id] # Absent /\ manifest \in Manifest
    BY <1>1 DEF StageDrop, Loads, Manifest
  <2>2. op' = [step |-> "move", command |-> "drop", entry |-> e, files |-> NoFiles,
               todo |-> {}, file |-> Absent, saved |-> manifest]
    BY <1>1 DEF StageDrop, Idle
  <2>3. NoFiles \in Snapshot
    BY DEF NoFiles, Snapshot
  <2>4. op' \in Operation /\ op'.step = "move" /\ op'.entry = e
    BY <2>1, <2>2, <2>3 DEF Operation, Steps, Commands, Entry
  <2>5. /\ UNCHANGED <<brain, objects, records, manifest, outputs, nextId, captured, faults>>
        /\ staged' \in [Ids -> {"none", "empty", "record"}]
    BY <1>1, <2>1 DEF StageDrop, Entry
  <2>6. OperationFits'
    BY <2>1, <2>4, <2>5 DEF OperationFits
  <2> QED
    BY <2>4, <2>5, <2>6
<1>2. CASE MoveRecord
  <2>1. op.entry \in Entry /\ records[op.entry.id] \in Snapshot
    BY <1>2 DEF MoveRecord, OperationFits, Entry
  <2>2. /\ op' \in Operation /\ op'.step \in {"unlist", "relist"}
        /\ op'.entry = op.entry
    <3>1. CASE op' = [op EXCEPT !.step = "unlist", !.files = records[op.entry.id]]
      BY <2>1, <3>1 DEF Operation, Steps
    <3>2. CASE GoTo("relist")
      BY <3>2 DEF GoTo, Operation, Steps
    <3> QED
      BY <1>2, <3>1, <3>2 DEF MoveRecord
  <2>3. OperationFits'
    BY <2>1, <2>2 DEF OperationFits
  <2>4. /\ UNCHANGED <<brain, objects, manifest, outputs, nextId, captured>>
        /\ records' \in [Ids -> Snapshot \cup {Absent}]
        /\ staged' \in [Ids -> {"none", "empty", "record"}]
    BY <1>2, <2>1 DEF MoveRecord, Entry
  <2>5. faults' \in [fail : 0..MaxFaults, crash : 0..MaxCrashes, edit : 0..MaxEdits]
    BY <1>2, FaultsTyped DEF MoveRecord
  <2> QED
    BY <2>2, <2>3, <2>4, <2>5
<1>3. CASE UnlistVersion
  BY <1>3, FaultsTyped DEF UnlistVersion, OperationFits, GoTo, Operation, Steps, Manifest
<1>4. CASE SendToTrash
  BY <1>4, ReturnTyped, FaultsTyped DEF SendToTrash, OperationFits, GoTo, Operation, Steps,
     Entry
<1>5. CASE RelistVersion
  BY <1>5, ReturnTyped, FaultsTyped DEF RelistVersion, OperationFits, Operation, GoTo,
     Steps
<1>6. CASE RestoreRecord
  BY <1>6, ReturnTyped, FaultsTyped DEF RestoreRecord, OperationFits, Operation, Entry
<1> QED
  BY <1>1, <1>2, <1>3, <1>4, <1>5, <1>6

\* The steps of a rollback write values of the declared types.
LEMMA RollbackTypes ==
    ASSUME TypeOK,
           (\E e \in manifest.versions : StartRollback(e)) \/ CopyFile \/ WriteReceipt
    PROVE  TypeOK'
<1> USE StoreAssumption DEF TypeOK
<1>1. ASSUME NEW e \in manifest.versions, StartRollback(e) PROVE TypeOK'
  <2>1. e \in Entry /\ records[e.id] \in Snapshot
    BY <1>1 DEF StartRollback, Loads, Manifest, Entry
  <2>2. op' = [step |-> "copy", command |-> "rollback", entry |-> e,
               files |-> records[e.id], todo |-> {f \in Files : records[e.id][f] # Absent},
               file |-> Absent, saved |-> [versions |-> {}, dropped |-> {}]]
    BY <1>1 DEF StartRollback, Idle
  <2>3. [versions |-> {}, dropped |-> {}] \in Manifest
    BY DEF Manifest
  <2>4. op' \in Operation
    BY <2>1, <2>2, <2>3 DEF Operation, Steps, Commands, Entry
  <2>5. OperationFits'
    BY <2>1, <2>2 DEF OperationFits
  <2>6. outputs' \in [Ids -> Output]
    <3>1. outputs[e.id] \in Output
      BY <2>1 DEF Entry
    <3>2. [outputs[e.id] EXCEPT !.state = "made"] \in Output
      BY <3>1 DEF Output
    <3>3. outputs' = [outputs EXCEPT ![e.id] = [outputs[e.id] EXCEPT !.state = "made"]]
      BY <1>1 DEF StartRollback
    <3> QED
      BY <3>2, <3>3
  <2>7. UNCHANGED <<brain, objects, records, manifest, staged, nextId, captured, faults>>
    BY <1>1 DEF StartRollback
  <2> QED
    BY <2>4, <2>5, <2>6, <2>7
<1>2. CASE CopyFile
  <2>1. op.entry \in Entry /\ op \in Operation
    BY <1>2 DEF CopyFile, OperationFits
  <2>2. CASE Return
    <3>1. op' \in Operation /\ OperationFits'
      BY <2>2, ReturnTyped
    <3>2. outputs' \in [Ids -> Output]
      <4>1. NoOutput \in Output
        BY DEF NoOutput, NoFiles, Output
      <4>2. ASSUME NEW f \in op.todo,
                   op' = [op EXCEPT !.todo = op.todo \ {f}]
            PROVE  FALSE
        BY <1>2, <2>1, <2>2, <4>2 DEF CopyFile, Operation, Return, Idle
      <4> QED
        BY <1>2, <2>1, <4>1, <4>2 DEF CopyFile, Entry
    <3>3. UNCHANGED <<brain, objects, records, manifest, staged, nextId, captured>>
      BY <1>2 DEF CopyFile
    <3>4. faults' \in [fail : 0..MaxFaults, crash : 0..MaxCrashes, edit : 0..MaxEdits]
      BY <1>2, FaultsTyped DEF CopyFile
    <3> QED
      BY <3>1, <3>2, <3>3, <3>4
  <2>3. CASE ~Return
    <3>1. PICK f \in op.todo :
             /\ outputs' = [outputs EXCEPT ![op.entry.id].files[f] = op.files[f].content]
             /\ op' = [op EXCEPT !.todo = op.todo \ {f}]
             /\ NoFault
      BY <1>2, <2>3 DEF CopyFile
    <3>2. f \in Files /\ op.files[f].content \in Contents /\ op.step = "copy"
      BY <1>2, <2>1, <3>1 DEF CopyFile, OperationFits, Operation, Snapshot, FileEntry
    <3>3. op' \in Operation
      BY <2>1, <3>1 DEF Operation
    <3>4. /\ op'.step = "copy" /\ op'.entry = op.entry /\ op'.files = op.files
          /\ op'.todo \subseteq op.todo
      BY <2>1, <3>1, <3>2 DEF Operation
    <3>5. OperationFits'
      BY <2>1, <3>2, <3>4 DEF OperationFits
    <3>6. outputs' \in [Ids -> Output]
      <4>1. [outputs[op.entry.id].files EXCEPT ![f] = op.files[f].content]
                \in [Files -> Contents \cup {Absent}]
        BY <2>1, <3>2 DEF Entry, Output
      <4>4. outputs[op.entry.id] \in Output
        BY <2>1 DEF Entry
      <4>2. [outputs[op.entry.id] EXCEPT !.files =
                [outputs[op.entry.id].files EXCEPT ![f] = op.files[f].content]] \in Output
        BY <4>1, <4>4 DEF Output
      <4>3. outputs' = [outputs EXCEPT ![op.entry.id] =
              [outputs[op.entry.id] EXCEPT !.files =
                 [outputs[op.entry.id].files EXCEPT ![f] = op.files[f].content]]]
        BY <3>1
      <4> QED
        BY <4>2, <4>3
    <3>7. UNCHANGED <<brain, objects, records, manifest, staged, nextId, captured, faults>>
      BY <1>2, <3>1 DEF CopyFile, NoFault
    <3> QED
      BY <3>3, <3>5, <3>6, <3>7
  <2> QED
    BY <2>2, <2>3
<1>3. CASE WriteReceipt
  <2>1. op' \in Operation /\ OperationFits'
    BY <1>3, ReturnTyped DEF WriteReceipt
  <2>2. outputs' \in [Ids -> Output]
    <3>1. op.entry.id \in Ids
      BY <1>3 DEF WriteReceipt, OperationFits, Entry
    <3>2. outputs[op.entry.id] \in Output
      BY <3>1
    <3>3. [outputs[op.entry.id] EXCEPT !.state = "receipted"] \in Output
      BY <3>2 DEF Output
    <3> QED
      BY <1>3, <3>3 DEF WriteReceipt
  <2>3. UNCHANGED <<brain, objects, records, manifest, staged, nextId, captured>>
    BY <1>3 DEF WriteReceipt
  <2>4. faults' \in [fail : 0..MaxFaults, crash : 0..MaxCrashes, edit : 0..MaxEdits]
    BY <1>3, FaultsTyped DEF WriteReceipt
  <2> QED
    BY <2>1, <2>2, <2>3, <2>4
<1> QED
  BY <1>1, <1>2, <1>3

\* So do builds, edits and crashes.
LEMMA SurroundingTypes ==
    ASSUME TypeOK,
           \/ \E f \in Files, c \in Contents \cup {Absent} : Build(f, c) \/ OutsideEdit(f, c)
           \/ Crash
    PROVE  TypeOK'
  BY ReturnTyped, StoreAssumption DEF Build, OutsideEdit, OperationFits, Crash, TypeOK

\* Every state of the store is of its type.
THEOREM TypeCorrect == Spec => []TypeOK
<1>1. Init => TypeOK
  BY IdleTyped, StoreAssumption DEF NoOutput, NoFiles, Output, Init, OperationFits, TypeOK,
     Manifest
<1>2. TypeOK /\ [Next]_vars => TypeOK'
  BY CaptureTypes, DropTypes, RollbackTypes, SurroundingTypes DEF vars, TypeOK,
     OperationFits, Next
<1> QED
  BY <1>1, <1>2, PTL DEF Spec

\* The steps that end a command or go on with it, and where they go.
LEMMA WhereCommandsGo ==
    ASSUME TypeOK
    PROVE  /\ StartCapture => op.step = "idle" /\ op'.step = "install"
           /\ InstallObject => op.step = "install" /\ op'.step \in {"idle", "stat"}
           /\ StatFile => op.step = "stat" /\ op'.step \in {"idle", "install"}
           /\ WriteRecord => op.step = "install" /\ op'.step \in {"idle", "list"}
           /\ CopyFile => op.step = "copy" /\ op'.step \in {"idle", "copy"}
<1>1. op \in Operation /\ Idle.step = "idle"
  BY IdleTyped DEF TypeOK
<1>2. ASSUME StartCapture PROVE op.step = "idle" /\ op'.step = "install"
  BY <1>1, <1>2 DEF StartCapture, Idle
<1>3. ASSUME InstallObject PROVE op.step = "install" /\ op'.step \in {"idle", "stat"}
  BY <1>1, <1>3 DEF InstallObject, Return, Operation
<1>4. ASSUME StatFile PROVE op.step = "stat" /\ op'.step \in {"idle", "install"}
  BY <1>1, <1>4 DEF StatFile, Return, Operation
<1>5. ASSUME WriteRecord PROVE op.step = "install" /\ op'.step \in {"idle", "list"}
  BY <1>1, <1>5 DEF WriteRecord, Return, Operation
<1>6. ASSUME CopyFile PROVE op.step = "copy" /\ op'.step \in {"idle", "copy"}
  BY <1>1, <1>6 DEF CopyFile, Return, Operation
<1> QED
  BY <1>2, <1>3, <1>4, <1>5, <1>6

-----------------------------------------------------------------------------
(* The lineage.                                                            *)

\* A version and the manifest that has its tombstone instead: the same entries
\* in other places.
LEMMA UnlistedIsSound ==
    ASSUME NEW m \in Manifest, NEW e \in m.versions, Sound(m)
    PROVE  Sound(Unlisted(m, e))
<1> DEFINE n == Unlisted(m, e)
<1>1. n.versions = m.versions \ {e} /\ n.dropped = m.dropped \cup {e}
  BY DEF Unlisted
<1>2. n.versions \cup n.dropped = m.versions \cup m.dropped
  BY <1>1
<1>3. \A o \in n.versions, d \in n.dropped : o.id # d.id
  BY <1>1 DEF Sound, Linked
<1> HIDE DEF n
<1>4. Sound(n)
  BY <1>2, <1>3 DEF Sound, Linked
<1> QED
  BY <1>4 DEF n

\* A version that follows the last one, with an id of its own, keeps a manifest
\* sound.
LEMMA ListedIsSound ==
    ASSUME TypeOK, Sound(manifest), NEW e \in Entry, e.id < nextId,
           \A o \in manifest.versions \cup manifest.dropped : o.id < e.id,
           e.prev \in PreviousId(manifest),
           NEW n \in Manifest,
           n.versions = manifest.versions \cup {e}, n.dropped = manifest.dropped
    PROVE  Sound(n)
<1>1. \A o \in manifest.versions \cup manifest.dropped : o.id \in Nat /\ o.id # e.id
  BY DEF TypeOK, Manifest, Entry, Ids
<1>2. e.prev # 0 => \E o \in n.versions \cup n.dropped : o.id = e.prev
  BY DEF PreviousId
<1>3. Linked(n)
  BY <1>1, <1>2 DEF Sound, Linked
<1>4. \A o, d \in n.versions \cup n.dropped : o.id = d.id => o = d
  BY <1>1 DEF Sound
<1>5. \A o \in n.versions \cup n.dropped : o.id < nextId
  BY DEF Sound
<1> QED
  BY <1>3, <1>4, <1>5 DEF Sound

\* A step that leaves the manifest alone and ends in no step that knows anything
\* about it.
LEMMA QuietStep ==
    ASSUME TypeOK, HistoryInvariant, manifest' = manifest,
           nextId' = nextId \/ nextId' = nextId + 1,
           op'.step \notin {"list", "move", "unlist", "trash", "relist"}
    PROVE  HistoryInvariant'
  BY DEF TypeOK, HistoryInvariant, Sound, Manifest, Entry, Ids, Linked, Undoable

\* The steps of a capture keep the history invariant: a version is listed with a
\* new id, behind the last one.
LEMMA CaptureKeepsHistory ==
    ASSUME TypeOK, TypeOK', HistoryInvariant,
           StartCapture \/ InstallObject \/ StatFile \/ WriteRecord \/ WriteManifest
    PROVE  HistoryInvariant'
<1>1. CASE StartCapture
  BY <1>1, QuietStep DEF StartCapture, Idle
<1>2. CASE InstallObject
  BY <1>2, WhereCommandsGo, QuietStep DEF InstallObject
<1>3. CASE StatFile
  BY <1>3, WhereCommandsGo, QuietStep DEF StatFile
<1>4. CASE WriteRecord
  <2>1. CASE Return
    <3>1. op'.step = "idle"
      BY <2>1 DEF Return, Idle
    <3> QED
      BY <1>4, <3>1, QuietStep DEF WriteRecord
  <2>2. CASE ~Return
    <3>1. PICK previous \in PreviousId(manifest) :
             op' = [op EXCEPT !.step = "list",
                              !.entry = [id |-> nextId, prev |-> previous]]
      BY <1>4, <2>2 DEF WriteRecord
    <3>2. op'.step = "list" /\ op'.entry.id = nextId /\ op'.entry.prev = previous
      BY <3>1 DEF TypeOK, Operation
    <3>3. nextId' = nextId + 1 /\ manifest' = manifest
      BY <1>4, <2>2 DEF WriteRecord
    <3>4. op'.entry \in Entry
      BY <3>2 DEF TypeOK, OperationFits
    <3>5. \A e \in manifest.versions \cup manifest.dropped : e.id < nextId /\ e.id < nextId'
      BY <3>3 DEF TypeOK, HistoryInvariant, Sound, Manifest, Entry, Ids
    <3>6. Sound(manifest)'
      BY <3>3, <3>5 DEF HistoryInvariant, Sound, Linked
    <3>7. PreviousId(manifest)' = PreviousId(manifest) /\ op'.entry.id < nextId'
      BY <3>2, <3>3 DEF TypeOK
    <3> QED
      BY <3>1, <3>2, <3>3, <3>4, <3>5, <3>6, <3>7 DEF HistoryInvariant, Undoable
  <2> QED
    BY <2>1, <2>2
<1>5. CASE WriteManifest
  BY <1>5, QuietStep, ListedIsSound DEF WriteManifest, Return, Idle, TypeOK, Manifest,
     HistoryInvariant, Sound, Linked, Undoable
<1> QED
  BY <1>1, <1>2, <1>3, <1>4, <1>5

\* The steps of a drop keep the history invariant: what they write back is what
\* they read.
LEMMA DropKeepsHistory ==
    ASSUME TypeOK, TypeOK', HistoryInvariant,
           \/ \E e \in manifest.versions : StageDrop(e)
           \/ MoveRecord \/ UnlistVersion \/ SendToTrash \/ RelistVersion \/ RestoreRecord
    PROVE  HistoryInvariant'
<1> USE DEF Undoable
<1>1. ASSUME NEW e \in manifest.versions, StageDrop(e) PROVE HistoryInvariant'
  <2>1. /\ op'.step = "move" /\ op'.entry = e /\ op'.saved = manifest
        /\ manifest' = manifest /\ nextId' = nextId
        /\ ~IsLast(e, manifest.versions)
    BY <1>1 DEF StageDrop, Idle
  <2>2. Sound(manifest)' /\ Sound(op.saved)'
    BY <2>1 DEF HistoryInvariant, Sound, Linked
  <2> QED
    BY <2>1, <2>2 DEF HistoryInvariant
<1>2. CASE MoveRecord
  <2>1. /\ op.step = "move" /\ op'.step \in {"unlist", "relist"}
        /\ op'.entry = op.entry /\ op'.saved = op.saved
        /\ manifest' = manifest /\ nextId' = nextId
    BY <1>2 DEF MoveRecord, GoTo, TypeOK, Operation
  <2>2. Sound(manifest)' /\ Sound(op.saved)'
    BY <2>1 DEF HistoryInvariant, Sound, Linked
  <2> QED
    BY <2>1, <2>2 DEF HistoryInvariant
<1>3. CASE UnlistVersion
  <2>1. /\ op.step = "unlist" /\ manifest = op.saved
        /\ op'.entry = op.entry /\ op'.saved = op.saved /\ nextId' = nextId
        /\ \/ op'.step = "trash" /\ manifest' = Unlisted(op.saved, op.entry)
           \/ op'.step = "relist" /\ manifest' = op.saved
    BY <1>3 DEF UnlistVersion, GoTo, TypeOK, Operation, HistoryInvariant, Unlisted
  <2>2. /\ Sound(op.saved) /\ Sound(Unlisted(op.saved, op.entry))
        /\ op.entry \in op.saved.versions /\ ~IsLast(op.entry, op.saved.versions)
    BY <2>1, UnlistedIsSound DEF HistoryInvariant, TypeOK, Operation
  <2>3. Sound(manifest')
    BY <2>1, <2>2
  <2>4. Sound(manifest)' /\ Sound(op.saved)'
    BY <2>1, <2>2, <2>3 DEF Sound, Linked
  <2> QED
    BY <2>1, <2>2, <2>4 DEF HistoryInvariant
<1>4. CASE SendToTrash
  <2>1. CASE Return
    <3>1. op'.step = "idle"
      BY <2>1 DEF Return, Idle
    <3> QED
      BY <1>4, <3>1, QuietStep DEF SendToTrash
  <2>2. CASE ~Return
    BY <1>4, <2>2 DEF SendToTrash, GoTo, TypeOK, Operation, HistoryInvariant, Sound, Linked
  <2> QED
    BY <2>1, <2>2
<1>5. CASE RelistVersion
  BY <1>5 DEF RelistVersion, GoTo, Return, Idle, TypeOK, Operation, HistoryInvariant,
     Sound, Linked
<1>6. CASE RestoreRecord
  BY <1>6, QuietStep DEF RestoreRecord, Return, Idle
<1> QED
  BY <1>1, <1>2, <1>3, <1>4, <1>5, <1>6

\* Rollbacks, builds, edits and crashes keep the history invariant: they leave
\* the manifest alone.
LEMMA OthersKeepHistory ==
    ASSUME TypeOK, TypeOK', HistoryInvariant,
           \/ \E e \in manifest.versions : StartRollback(e)
           \/ CopyFile \/ WriteReceipt \/ Crash
           \/ \E f \in Files, c \in Contents \cup {Absent} : Build(f, c) \/ OutsideEdit(f, c)
    PROVE  HistoryInvariant'
<1>1. ASSUME NEW e \in manifest.versions, StartRollback(e) PROVE HistoryInvariant'
  BY <1>1, QuietStep DEF StartRollback, Idle
<1>2. CASE CopyFile
  BY <1>2, WhereCommandsGo, QuietStep DEF CopyFile
<1>3. CASE WriteReceipt \/ Crash
  BY <1>3, QuietStep DEF WriteReceipt, Crash, Return, Idle
<1>4. CASE \E f \in Files, c \in Contents \cup {Absent} : Build(f, c) \/ OutsideEdit(f, c)
  BY <1>4 DEF Build, OutsideEdit, HistoryInvariant, Sound, Linked, Undoable, PreviousId,
     IsLast, Unlisted
<1> QED
  BY <1>1, <1>2, <1>3, <1>4

\* What a running command knows of the manifest stays true.
THEOREM HistoryKept == Spec => [](TypeOK /\ HistoryInvariant)
<1>1. Init => HistoryInvariant
  BY DEF Init, HistoryInvariant, Sound, Linked, Idle, Undoable
<1>2. TypeOK /\ TypeOK' /\ HistoryInvariant /\ [Next]_vars => HistoryInvariant'
  <2> SUFFICES ASSUME TypeOK, TypeOK', HistoryInvariant, [Next]_vars
               PROVE  HistoryInvariant'
    OBVIOUS
  <2>1. CASE UNCHANGED vars
    BY <2>1 DEF vars, HistoryInvariant, Sound, Linked, Undoable, PreviousId, IsLast, Unlisted
  <2>2. CASE Next
    BY <2>2, CaptureKeepsHistory, DropKeepsHistory, OthersKeepHistory DEF Next
  <2> QED
    BY <2>1, <2>2
<1> QED
  BY <1>1, <1>2, TypeCorrect, PTL DEF Spec

\* The version every listed or dropped version follows is listed or has its
\* tombstone, and none is both, through failures and crashes anywhere.
THEOREM Lineage == Spec => []LineageIsComplete
<1>1. HistoryInvariant => LineageIsComplete
  BY DEF HistoryInvariant, Sound, LineageIsComplete
<1> QED
  BY <1>1, HistoryKept, PTL

-----------------------------------------------------------------------------
(* The refinement.                                                         *)

\* Outside a drop that can be undone the history is the manifest.
LEMMA SameManifest ==
    ASSUME ~Undoable, ~Undoable', manifest' = manifest
    PROVE  UNCHANGED Promise!vars
BY DEF Promise!vars, Listed, Dropped

\* While a drop can be undone the history is the manifest it would put back.
LEMMA SameSaved ==
    ASSUME Undoable, Undoable', op'.saved = op.saved
    PROVE  UNCHANGED Promise!vars
BY DEF Promise!vars, Listed, Dropped

\* When a drop can no longer be undone it has happened, or not, as the manifest
\* says.
LEMMA DropDecided ==
    ASSUME HistoryInvariant, Undoable, ~Undoable', manifest' = manifest
    PROVE  Promise!Drop \/ UNCHANGED Promise!vars
<1>1. /\ Listed = op.saved.versions /\ Dropped = op.saved.dropped
      /\ Listed' = manifest.versions /\ Dropped' = manifest.dropped
  BY DEF Listed, Dropped
<1>2. CASE manifest = op.saved
  BY <1>1, <1>2 DEF Promise!vars
<1>3. CASE manifest = Unlisted(op.saved, op.entry)
  BY <1>1, <1>3 DEF HistoryInvariant, IsLast, Promise!IsLast, Unlisted, Promise!Drop
<1> QED
  BY <1>2, <1>3 DEF HistoryInvariant

\* The manifest write of a capture appends a version to the history.
LEMMA CaptureAppends ==
    ASSUME TypeOK, HistoryInvariant, op.step = "list", ~Undoable',
           manifest' = [manifest EXCEPT !.versions = manifest.versions \cup {op.entry}]
    PROVE  Promise!Append
<1>1. ~Undoable
  BY DEF Undoable
<1>2. /\ Listed = manifest.versions /\ Dropped = manifest.dropped
      /\ Listed' = Listed \cup {op.entry} /\ Dropped' = Dropped
  BY <1>1 DEF Listed, Dropped, TypeOK, Manifest
<1>3. op.entry \in Promise!Entry
  BY DEF HistoryInvariant, Entry, Promise!Entry
<1>4. \A o \in Listed \cup Dropped : o.id < op.entry.id
  BY <1>2 DEF HistoryInvariant
<1>5. IF Listed = {} THEN op.entry.prev = 0
      ELSE \E last \in Listed : Promise!IsLast(last, Listed) /\ op.entry.prev = last.id
  BY <1>2 DEF HistoryInvariant, PreviousId, IsLast, Promise!IsLast
<1> QED
  BY <1>2, <1>3, <1>4, <1>5 DEF Promise!Append

\* The steps of a capture.
LEMMA CaptureRefines ==
    ASSUME TypeOK, HistoryInvariant,
           StartCapture \/ InstallObject \/ StatFile \/ WriteRecord \/ WriteManifest
    PROVE  Promise!Append \/ UNCHANGED Promise!vars
<1>1. CASE StartCapture \/ InstallObject \/ StatFile \/ WriteRecord
  BY <1>1, WhereCommandsGo, SameManifest DEF StartCapture, InstallObject, StatFile,
     WriteRecord, Undoable
<1>2. CASE WriteManifest
  BY <1>2, CaptureAppends, SameManifest DEF WriteManifest, Return, Idle, Undoable
<1> QED
  BY <1>1, <1>2

\* The steps of a drop and of its undoing.
LEMMA DropRefines ==
    ASSUME TypeOK, HistoryInvariant,
           \/ \E e \in manifest.versions : StageDrop(e)
           \/ MoveRecord \/ UnlistVersion \/ SendToTrash \/ RelistVersion \/ RestoreRecord
    PROVE  Promise!Drop \/ UNCHANGED Promise!vars
<1>1. ASSUME NEW e \in manifest.versions, StageDrop(e) PROVE UNCHANGED Promise!vars
  BY <1>1 DEF StageDrop, Idle, Promise!vars, Listed, Dropped, Undoable
<1>2. CASE MoveRecord \/ UnlistVersion
  BY <1>2, SameSaved DEF MoveRecord, UnlistVersion, GoTo, TypeOK, Operation, Undoable
<1>3. CASE SendToTrash
  BY <1>3, DropDecided, SameSaved DEF SendToTrash, Return, Idle, Undoable, GoTo, TypeOK,
     Operation
<1>4. CASE RelistVersion
  BY <1>4, DropDecided DEF RelistVersion, GoTo, Return, Idle, TypeOK, Operation, Undoable,
     Promise!vars, Listed, Dropped
<1>5. CASE RestoreRecord
  BY <1>5, SameManifest DEF RestoreRecord, Return, Idle, Undoable
<1> QED
  BY <1>1, <1>2, <1>3, <1>4, <1>5

\* Rollbacks, builds, edits, and crashes: a crash in a drop decides it.
LEMMA OthersRefine ==
    ASSUME TypeOK, HistoryInvariant,
           \/ \E e \in manifest.versions : StartRollback(e)
           \/ CopyFile \/ WriteReceipt \/ Crash
           \/ \E f \in Files, c \in Contents \cup {Absent} : Build(f, c) \/ OutsideEdit(f, c)
    PROVE  Promise!Drop \/ UNCHANGED Promise!vars
<1>1. CASE (\E e \in manifest.versions : StartRollback(e)) \/ CopyFile \/ WriteReceipt
  <2>1. op.step \in {"idle", "copy"} /\ manifest' = manifest
    BY IdleTyped, <1>1 DEF StartRollback, CopyFile, WriteReceipt
  <2>2. op'.step \in {"copy", "idle"}
    <3>1. CASE \E e \in manifest.versions : StartRollback(e)
      BY <3>1 DEF StartRollback, Idle
    <3>2. CASE CopyFile
      BY <3>2, WhereCommandsGo
    <3>3. CASE WriteReceipt
      BY <3>3 DEF WriteReceipt, Return, Idle
    <3> QED
      BY <1>1, <3>1, <3>2, <3>3
  <2>3. ~Undoable /\ ~Undoable'
    BY <2>1, <2>2 DEF Undoable
  <2> QED
    BY <2>1, <2>3, SameManifest
<1>2. CASE Crash
  BY <1>2, DropDecided, SameManifest DEF Crash, Return, Idle, Undoable
<1>3. CASE \E f \in Files, c \in Contents \cup {Absent} : Build(f, c) \/ OutsideEdit(f, c)
  BY <1>3 DEF Build, OutsideEdit, Promise!vars, Listed, Dropped, Undoable
<1> QED
  BY <1>1, <1>2, <1>3

\* The files of the store, with failures and crashes between any two writes,
\* implement the history whose steps are atomic.
THEOREM Refinement == Spec => ImplementsHistory
<1>1. Init => Promise!Init
  BY DEF Init, Promise!Init, Listed, Dropped, Undoable, Idle
<1>2. TypeOK /\ HistoryInvariant /\ [Next]_vars
          => [Promise!Append \/ Promise!Drop]_Promise!vars
  BY CaptureRefines, DropRefines, OthersRefine DEF vars, Promise!vars, Listed, Dropped,
     Undoable, Next
<1> QED
  BY <1>1, <1>2, HistoryKept, PTL DEF Spec, ImplementsHistory, Promise!Spec

-----------------------------------------------------------------------------
(* What each step does to the running command.                             *)

\* Faults are counted, never forgotten.
LEMMA FaultsGrow ==
    ASSUME TypeOK, TypeOK', Fault \/ NoFault
    PROVE  /\ OneFailure' => OneFailure
           /\ Fault => faults'.fail = faults.fail + 1
           /\ faults'.fail >= faults.fail
BY DEF TypeOK, Fault, NoFault, OneFailure

\* A capture that goes on knows the content it installed, the size it read, or
\* the entry it is about to list.
LEMMA CaptureGoesOn ==
    ASSUME TypeOK
    PROVE  /\ InstallObject /\ ~Return => \E f \in op.todo :
                  /\ f \in Files /\ brain[f] # Absent /\ NoFault
                  /\ objects' = objects \cup {brain[f]}
                  /\ op'.step = "stat" /\ op'.file = f
                  /\ op'.files = [op.files EXCEPT ![f] =
                                      [content |-> brain[f], size |-> 0]]
           /\ StatFile /\ ~Return =>
                  /\ op.file \in Files /\ brain[op.file] # Absent
                  /\ op'.step = "install"
                  /\ op'.files = [op.files EXCEPT ![op.file].size = Size[brain[op.file]]]
           /\ WriteRecord /\ ~Return =>
                  /\ NoFault
                  /\ records' = [records EXCEPT ![nextId] = op.files]
                  /\ op'.step = "list" /\ op'.entry.id = nextId
<1>1. op \in Operation /\ op.todo \subseteq Files
  BY DEF TypeOK, Operation
<1>2. ASSUME InstallObject, ~Return
      PROVE  \E f \in op.todo :
                  /\ f \in Files /\ brain[f] # Absent /\ NoFault
                  /\ objects' = objects \cup {brain[f]}
                  /\ op'.step = "stat" /\ op'.file = f
                  /\ op'.files = [op.files EXCEPT ![f] =
                                      [content |-> brain[f], size |-> 0]]
  BY <1>2, <1>1 DEF InstallObject, Operation
<1>3. ASSUME StatFile, ~Return
      PROVE  /\ op.file \in Files /\ brain[op.file] # Absent
             /\ op'.step = "install"
             /\ op'.files = [op.files EXCEPT ![op.file].size = Size[brain[op.file]]]
  BY <1>1, <1>3 DEF StatFile, Operation, TypeOK, OperationFits
<1>4. ASSUME WriteRecord, ~Return
      PROVE  /\ NoFault
             /\ records' = [records EXCEPT ![nextId] = op.files]
             /\ op'.step = "list" /\ op'.entry.id = nextId
  <2>1. PICK previous \in PreviousId(manifest) :
           op' = [op EXCEPT !.step = "list",
                            !.entry = [id |-> nextId, prev |-> previous]]
    BY <1>4 DEF WriteRecord
  <2>2. op'.step = "list" /\ op'.entry.id = nextId
    BY <1>1, <2>1 DEF Operation
  <2> QED
    BY <1>4, <2>2 DEF WriteRecord
<1> QED
  BY <1>2, <1>3, <1>4

\* The two ways each step of a drop ends: done, or a fault and the way back.
LEMMA DropGoesOn ==
    ASSUME TypeOK
    PROVE  /\ MoveRecord =>
                  /\ op'.entry = op.entry /\ op'.saved = op.saved
                  /\ \/ /\ op'.step = "unlist" /\ NoFault
                        /\ op'.files = records[op.entry.id]
                        /\ staged' = [staged EXCEPT ![op.entry.id] = "record"]
                        /\ records' = [records EXCEPT ![op.entry.id] = Absent]
                     \/ /\ op'.step = "relist" /\ Fault /\ op'.files = op.files
                        /\ UNCHANGED <<records, staged>>
           /\ UnlistVersion =>
                  /\ op'.entry = op.entry /\ op'.saved = op.saved /\ op'.files = op.files
                  /\ \/ /\ op'.step = "trash" /\ NoFault
                        /\ manifest'.versions = manifest.versions \ {op.entry}
                        /\ manifest'.dropped = manifest.dropped \cup {op.entry}
                     \/ op'.step = "relist" /\ Fault /\ UNCHANGED manifest
           /\ SendToTrash =>
                  \/ /\ op'.step = "idle" /\ NoFault
                     /\ staged' = [staged EXCEPT ![op.entry.id] = "none"]
                  \/ /\ op'.step = "relist" /\ Fault /\ UNCHANGED staged
                     /\ op'.entry = op.entry /\ op'.saved = op.saved
                     /\ op'.files = op.files
           /\ RelistVersion =>
                  \/ /\ op'.step = "unmove" /\ NoFault /\ manifest' = op.saved
                     /\ op'.entry = op.entry /\ op'.files = op.files
                  \/ op'.step = "idle" /\ Fault /\ UNCHANGED manifest
<1>1. op \in Operation /\ Idle.step = "idle"
  BY IdleTyped DEF TypeOK
<1>2. ASSUME NEW s, GoTo(s)
      PROVE  /\ op'.step = s /\ op'.entry = op.entry /\ op'.saved = op.saved
             /\ op'.files = op.files
  BY <1>1, <1>2 DEF GoTo, Operation
<1>3. MoveRecord =>
          /\ op'.entry = op.entry /\ op'.saved = op.saved
          /\ \/ /\ op'.step = "unlist" /\ NoFault
                /\ op'.files = records[op.entry.id]
                /\ staged' = [staged EXCEPT ![op.entry.id] = "record"]
                /\ records' = [records EXCEPT ![op.entry.id] = Absent]
             \/ /\ op'.step = "relist" /\ Fault /\ op'.files = op.files
                /\ UNCHANGED <<records, staged>>
  BY <1>1, <1>2 DEF MoveRecord, Operation
<1>4. UnlistVersion =>
          /\ op'.entry = op.entry /\ op'.saved = op.saved /\ op'.files = op.files
          /\ \/ /\ op'.step = "trash" /\ NoFault
                /\ manifest'.versions = manifest.versions \ {op.entry}
                /\ manifest'.dropped = manifest.dropped \cup {op.entry}
             \/ op'.step = "relist" /\ Fault /\ UNCHANGED manifest
  BY <1>2 DEF UnlistVersion
<1>5. SendToTrash =>
          \/ /\ op'.step = "idle" /\ NoFault
             /\ staged' = [staged EXCEPT ![op.entry.id] = "none"]
          \/ /\ op'.step = "relist" /\ Fault /\ UNCHANGED staged
             /\ op'.entry = op.entry /\ op'.saved = op.saved
             /\ op'.files = op.files
  BY <1>1, <1>2 DEF SendToTrash, Return
<1>6. RelistVersion =>
          \/ /\ op'.step = "unmove" /\ NoFault /\ manifest' = op.saved
             /\ op'.entry = op.entry /\ op'.files = op.files
          \/ op'.step = "idle" /\ Fault /\ UNCHANGED manifest
  BY <1>1, <1>2 DEF RelistVersion, Return
<1> QED
  BY <1>3, <1>4, <1>5, <1>6

\* What stays stored while objects only come.
LEMMA StoredGrows ==
    ASSUME objects \subseteq objects'
    PROVE  /\ \A i \in Ids : records'[i] = records[i] /\ AllStored(records[i])
                  => AllStored(records[i])'
           /\ op'.files = op.files /\ AllStored(op.files) => AllStored(op.files)'
BY DEF AllStored, Stored

-----------------------------------------------------------------------------
(* The records.                                                            *)

\* A step that ends the command, or goes on with a rollback, and leaves what is
\* recorded alone: it keeps the invariant if no record can be in staging, or if
\* it was one failure too many.
LEMMA RecordsLeftAlone ==
    ASSUME TypeOK, TypeOK', RecordInvariant,
           UNCHANGED <<records, staged, manifest>>, objects \subseteq objects',
           op'.step \in {"idle", "copy"},
           OneFailure' => OneFailure,
           op.step \notin Moved \/ ~OneFailure'
    PROVE  RecordInvariant'
<1>1. EverythingStored'
  BY StoredGrows DEF RecordInvariant, EverythingStored, Moved
<1>2. RecordInPlace'
  BY DEF RecordInvariant, RecordInPlace, HasRecord, Undoable
<1>3. DropSettles'
  BY DEF RecordInvariant, DropSettles, Undoable
<1> QED
  BY <1>1, <1>2, <1>3 DEF RecordInvariant

\* The steps of a capture keep the invariant: what is hashed is installed before
\* its size is read, and a record is written before it is listed.
LEMMA CaptureKeepsRecords ==
    ASSUME TypeOK, TypeOK', HistoryInvariant, RecordInvariant,
           StartCapture \/ InstallObject \/ StatFile \/ WriteRecord \/ WriteManifest
    PROVE  RecordInvariant'
<1>1. CASE StartCapture
  BY <1>1, StoredGrows DEF StartCapture, Idle, RecordInvariant, EverythingStored,
     AllStored, NoFiles, Moved, RecordInPlace, HasRecord, Undoable, DropSettles, OneFailure
<1>2. CASE InstallObject /\ ~Return
  <2>1. PICK f \in Files :
           /\ brain[f] # Absent /\ NoFault /\ objects' = objects \cup {brain[f]}
           /\ op'.step = "stat" /\ op'.file = f
           /\ op'.files = [op.files EXCEPT ![f] = [content |-> brain[f], size |-> 0]]
    BY <1>2, CaptureGoesOn
  <2>2. /\ op.step = "install"
        /\ UNCHANGED <<brain, records, manifest, staged>>
    BY <1>2 DEF InstallObject
  <2>3. EverythingStored'
    <3>1. \A i \in Ids : records'[i] # Absent => AllStored(records[i])'
      BY <2>1, <2>2, StoredGrows DEF RecordInvariant, EverythingStored
    <3>2. AllStored(op.files)
      BY <2>2 DEF RecordInvariant, EverythingStored
    <3>3. \A g \in Files \ {f} : op'.files[g] = op.files[g]
      BY <2>1
    <3>4. \A g \in Files \ {f} : op'.files[g] # Absent => Stored(op.files[g])'
      BY <2>1, <3>2, <3>3 DEF AllStored, Stored
    <3>5. op'.files[f].content = brain[f]
      BY <2>1 DEF TypeOK, Operation, Snapshot
    <3> QED
      BY <2>1, <2>2, <3>1, <3>4, <3>5 DEF EverythingStored, Moved
  <2>4. RecordInPlace'
    BY <2>1, <2>2 DEF RecordInvariant, RecordInPlace, HasRecord, Undoable
  <2>5. DropSettles'
    BY <2>1, <2>2 DEF RecordInvariant, DropSettles, Undoable, OneFailure, NoFault, Moved
  <2> QED
    BY <2>3, <2>4, <2>5 DEF RecordInvariant
<1>3. CASE StatFile /\ ~Return
  <2>1. /\ op.file \in Files /\ brain[op.file] # Absent
        /\ op'.step = "install"
        /\ op'.files = [op.files EXCEPT ![op.file].size = Size[brain[op.file]]]
    BY <1>3, CaptureGoesOn
  <2>2. /\ op.step = "stat"
        /\ UNCHANGED <<brain, objects, records, manifest, staged, faults>>
    BY <1>3 DEF StatFile
  <2>3. EverythingStored'
    <3>1. \A i \in Ids : records'[i] # Absent => AllStored(records[i])'
      BY <2>2, StoredGrows DEF RecordInvariant, EverythingStored
    <3>2. /\ \A g \in Files \ {op.file} : op.files[g] # Absent => Stored(op.files[g])
          /\ op.files[op.file].content \in objects
          /\ MaxEdits = 0 => op.files[op.file].content = brain[op.file]
      BY <2>2 DEF RecordInvariant, EverythingStored
    <3>3. \A g \in Files \ {op.file} : op'.files[g] = op.files[g]
      BY <2>1
    <3>4. op.files[op.file] \in FileEntry /\ brain[op.file] \in Contents
      BY <2>1, <2>2 DEF TypeOK, OperationFits
    <3>5. /\ op'.files[op.file].content = op.files[op.file].content
          /\ op'.files[op.file].size = Size[brain[op.file]]
      BY <2>1, <3>4 DEF TypeOK, Operation, Snapshot, FileEntry
    <3>6. SizesTell => op'.files[op.file].size = Size[op'.files[op.file].content]
      BY <3>2, <3>4, <3>5 DEF SizesTell, FileEntry
    <3>7. \A g \in Files : op'.files[g] # Absent =>
              /\ op'.files[g].content \in objects'
              /\ SizesTell => op'.files[g].size = Size[op'.files[g].content]
      BY <2>2, <3>2, <3>3, <3>5, <3>6 DEF Stored
    <3>8. AllStored(op.files)'
      BY <3>7 DEF AllStored, Stored
    <3> QED
      BY <2>1, <3>1, <3>8 DEF EverythingStored, Moved
  <2>4. RecordInPlace'
    BY <2>1, <2>2 DEF RecordInvariant, RecordInPlace, HasRecord, Undoable
  <2>5. DropSettles'
    BY <2>1, <2>2 DEF RecordInvariant, DropSettles, Undoable, OneFailure, Moved
  <2> QED
    BY <2>3, <2>4, <2>5 DEF RecordInvariant
<1>4. CASE WriteRecord /\ ~Return
  <2>1. /\ NoFault /\ records' = [records EXCEPT ![nextId] = op.files]
        /\ op'.step = "list" /\ op'.entry.id = nextId
    BY <1>4, CaptureGoesOn
  <2>2. /\ op.step = "install" /\ nextId \in Ids
        /\ UNCHANGED <<brain, objects, manifest, staged>>
    BY <1>4 DEF WriteRecord, TypeOK, OperationFits
  <2>3. /\ op.files # Absent
        /\ \A i \in Ids : records'[i] = IF i = nextId THEN op.files ELSE records[i]
    BY AbsentIsNoRecord, <2>1 DEF TypeOK, Operation, Snapshot, FileEntry
  <2>4. EverythingStored'
    BY <2>2, <2>3, <2>1 DEF RecordInvariant, EverythingStored, AllStored, Stored, Moved
  <2>5. RecordInPlace'
    BY <2>2, <2>3, <2>1 DEF TypeOK, Manifest, Entry, RecordInvariant, RecordInPlace,
       HasRecord, Undoable
  <2>6. DropSettles'
    <3>1. \A e \in manifest.dropped : e.id \in Ids /\ e.id < nextId
      BY DEF TypeOK, Manifest, Entry, HistoryInvariant, Sound
    <3>2. \A e \in manifest.dropped : records'[e.id] = records[e.id]
      BY <2>2, <2>3, <3>1 DEF Ids
    <3> QED
      BY <2>1, <2>2, <3>2 DEF RecordInvariant, DropSettles, Undoable, OneFailure, NoFault, Moved
  <2> QED
    BY <2>4, <2>5, <2>6 DEF RecordInvariant
<1>5. CASE WriteManifest
  <2>1. /\ op.step = "list" /\ op'.step = "idle"
        /\ Fault \/ NoFault
        /\ UNCHANGED <<brain, objects, records, staged>>
    BY <1>5 DEF WriteManifest, Return, Idle
  <2>2. CASE manifest' = manifest
    BY <2>1, <2>2, FaultsGrow, RecordsLeftAlone DEF Moved
  <2>3. CASE manifest' # manifest
    <3>1. /\ manifest'.versions = manifest.versions \cup {op.entry}
          /\ manifest'.dropped = manifest.dropped
      BY <1>5, <2>3 DEF WriteManifest, TypeOK, Manifest
    <3>2. EverythingStored'
      BY <2>1, StoredGrows DEF RecordInvariant, EverythingStored, Moved
    <3>3. RecordInPlace'
      BY <2>1, <3>1 DEF RecordInvariant, RecordInPlace, HasRecord, Undoable
    <3>4. DropSettles'
      BY <2>1, <3>1, FaultsGrow DEF RecordInvariant, DropSettles, Undoable, Moved
    <3> QED
      BY <3>2, <3>3, <3>4 DEF RecordInvariant
  <2> QED
    BY <2>2, <2>3
<1>6. CASE (InstallObject \/ StatFile \/ WriteRecord) /\ Return
  BY <1>6, IdleTyped, FaultsGrow, RecordsLeftAlone DEF InstallObject, StatFile,
     WriteRecord, NoFault, Return, TypeOK, Operation, Moved
<1> QED
  BY <1>1, <1>2, <1>3, <1>4, <1>5, <1>6

\* The steps of a drop keep the invariant: the record goes to staging and comes
\* back, and only a second failure leaves it there.
LEMMA DropKeepsRecords ==
    ASSUME TypeOK, TypeOK', HistoryInvariant, RecordInvariant,
           \/ \E e \in manifest.versions : StageDrop(e)
           \/ MoveRecord \/ UnlistVersion \/ SendToTrash \/ RelistVersion \/ RestoreRecord
    PROVE  RecordInvariant'
<1> DEFINE i == op.entry.id
<1>1. ASSUME NEW e \in manifest.versions, StageDrop(e) PROVE RecordInvariant'
  <2>1. /\ op.step = "idle" /\ op'.step = "move" /\ op'.entry = e /\ op'.saved = manifest
        /\ records[e.id] # Absent /\ staged[e.id] = "none"
        /\ staged' = [staged EXCEPT ![e.id] = "empty"]
        /\ UNCHANGED <<brain, objects, records, manifest, faults>>
    BY <1>1 DEF StageDrop, Loads, Idle
  <2>2. /\ e.id \in Ids
        /\ \A j \in Ids : staged'[j] = IF j = e.id THEN "empty" ELSE staged[j]
    BY <2>1 DEF TypeOK, Manifest, Entry
  <2>3. EverythingStored'
    BY <2>1, StoredGrows DEF RecordInvariant, EverythingStored, Moved
  <2>4. RecordInPlace'
    BY <2>1, <2>2 DEF TypeOK, Manifest, Entry, RecordInvariant, RecordInPlace, HasRecord
  <2>5. DropSettles'
    BY <2>1, <2>2 DEF RecordInvariant, DropSettles, Undoable, OneFailure, Moved
  <2> QED
    BY <2>3, <2>4, <2>5 DEF RecordInvariant
<1>2. ASSUME op.step \in {"move", "unlist", "trash", "relist"}
      PROVE  /\ op.entry \in op.saved.versions
             /\ i \in Ids
             /\ \A e \in op.saved.versions : e.id \in Ids /\ (e # op.entry => e.id # i)
             /\ \A e \in op.saved.dropped : e.id \in Ids /\ e.id # i
  BY <1>2 DEF HistoryInvariant, Undoable, Sound, Linked, TypeOK, Operation, Manifest, Entry
<1>3. CASE MoveRecord
  <2>1. /\ op.step = "move" /\ staged[i] = "empty" /\ manifest = op.saved
        /\ UNCHANGED <<brain, objects, manifest>>
        /\ op'.entry = op.entry /\ op'.saved = op.saved
    BY <1>3, DropGoesOn DEF MoveRecord, RecordInvariant, RecordInPlace, HistoryInvariant
  <2>2. CASE op'.step = "unlist" /\ NoFault
    <3>1. /\ op'.files = records[i]
          /\ staged' = [staged EXCEPT ![i] = "record"]
          /\ records' = [records EXCEPT ![i] = Absent]
      BY <1>3, <2>2, DropGoesOn
    <3>2. /\ \A j \in Ids : staged'[j] = IF j = i THEN "record" ELSE staged[j]
          /\ \A j \in Ids : records'[j] = IF j = i THEN Absent ELSE records[j]
      BY <3>1 DEF TypeOK
    <3>3. EverythingStored'
      <4>1. \A j \in Ids : records'[j] # Absent => AllStored(records'[j])
        BY <3>2 DEF RecordInvariant, EverythingStored
      <4>2. \A j \in Ids : records'[j] # Absent => AllStored(records[j])'
        BY <2>1, <4>1 DEF AllStored, Stored
      <4>3. AllStored(op'.files)
        BY <1>2, <1>3, <2>1, <3>1 DEF RecordInvariant, EverythingStored, TypeOK, OperationFits
      <4>4. AllStored(op.files)'
        BY <2>1, <4>3 DEF AllStored, Stored
      <4> QED
        BY <2>2, <4>2, <4>4 DEF EverythingStored
    <3>4. RecordInPlace'
      BY <1>2, <2>1, <3>2, <2>2 DEF RecordInvariant, RecordInPlace, HasRecord
    <3>5. DropSettles'
      BY <1>2, <2>1, <2>2, <3>2
      DEF RecordInvariant, DropSettles, Undoable, OneFailure, Moved, NoFault
    <3> QED
      BY <3>3, <3>4, <3>5 DEF RecordInvariant
  <2>3. CASE op'.step = "relist" /\ Fault /\ UNCHANGED <<records, staged>>
    BY <2>1, <2>3, StoredGrows, FaultsGrow DEF RecordInvariant, EverythingStored,
       RecordInPlace, HasRecord, Undoable, TypeOK, DropSettles, Moved
  <2> QED
    BY <1>3, <2>2, <2>3, DropGoesOn
<1>4. CASE UnlistVersion
  BY <1>4, DropGoesOn, StoredGrows, FaultsGrow DEF UnlistVersion, RecordInvariant,
     RecordInPlace, HistoryInvariant, EverythingStored, Moved, HasRecord, Undoable, TypeOK,
     DropSettles
<1>5. CASE SendToTrash
  <2>1. /\ op.step = "trash" /\ records[i] = Absent /\ manifest = Unlisted(op.saved, op.entry)
        /\ UNCHANGED <<brain, objects, records, manifest>>
    BY <1>5 DEF SendToTrash, RecordInvariant, RecordInPlace, HistoryInvariant
  <2>2. CASE op'.step = "idle" /\ NoFault
    <3>1. staged' = [staged EXCEPT ![i] = "none"]
      BY <1>5, <2>2, DropGoesOn
    <3>2. \A j \in Ids : staged'[j] = IF j = i THEN "none" ELSE staged[j]
      BY <3>1 DEF TypeOK
    <3>3. EverythingStored'
      BY <2>1, StoredGrows, <2>2 DEF RecordInvariant, EverythingStored, Moved
    <3>4. RecordInPlace'
      BY <1>2, <2>1, <2>2, <3>2 DEF Unlisted, RecordInvariant, RecordInPlace, HasRecord,
         Undoable
    <3>5. DropSettles'
      BY <2>1, <2>2, <3>2 DEF RecordInvariant, DropSettles, Undoable, OneFailure, Moved, NoFault
    <3> QED
      BY <3>3, <3>4, <3>5 DEF RecordInvariant
  <2>3. CASE op'.step = "relist" /\ Fault /\ UNCHANGED staged
    BY <1>5, <2>3, DropGoesOn, <2>1, StoredGrows, FaultsGrow DEF RecordInvariant,
       EverythingStored, Moved, RecordInPlace, HasRecord, Undoable, TypeOK, DropSettles
  <2> QED
    BY <1>5, <2>2, <2>3, DropGoesOn
<1>6. CASE RelistVersion
  <2>1. /\ op.step = "relist" /\ UNCHANGED <<brain, objects, records, staged>>
        /\ faults.fail >= 1
    BY <1>6 DEF RelistVersion, RecordInvariant, DropSettles
  <2>2. CASE op'.step = "unmove" /\ NoFault
    <3>1. manifest' = op.saved /\ op'.entry = op.entry /\ op'.files = op.files
      BY <1>6, <2>2, DropGoesOn
    <3>2. EverythingStored'
      BY <2>1, StoredGrows, <3>1, <2>2 DEF RecordInvariant, EverythingStored, Moved
    <3>3. RecordInPlace'
      BY <1>2, <2>1, <2>2, <3>1 DEF RecordInvariant, RecordInPlace, HasRecord, Undoable
    <3>4. DropSettles'
      BY <2>1, <2>2, <3>1
      DEF RecordInvariant, DropSettles, Undoable, OneFailure, Moved, NoFault
    <3> QED
      BY <3>2, <3>3, <3>4 DEF RecordInvariant
  <2>3. CASE op'.step = "idle" /\ Fault /\ UNCHANGED manifest
    BY <2>1, <2>3, FaultsGrow, RecordsLeftAlone DEF OneFailure, TypeOK
  <2> QED
    BY <1>6, <2>2, <2>3, DropGoesOn
<1>7. CASE RestoreRecord
  <2>1. /\ op.step = "unmove" /\ op'.step = "idle" /\ faults.fail >= 1
        /\ UNCHANGED <<brain, objects, manifest>>
        /\ op.entry \in manifest.versions
    BY <1>7, IdleTyped
    DEF RestoreRecord, Return, RecordInvariant, DropSettles, RecordInPlace
  <2>2. /\ i \in Ids
        /\ \A e \in manifest.versions : e.id \in Ids
        /\ \A e \in manifest.dropped : e.id \in Ids /\ e.id # i
    BY <2>1 DEF HistoryInvariant, Sound, Linked, TypeOK, Manifest, Entry
  <2>3. CASE UNCHANGED <<records, staged>> /\ Fault
    BY <2>1, <2>3, FaultsGrow, RecordsLeftAlone DEF OneFailure, TypeOK
  <2>4. CASE /\ records' = IF staged[i] = "record" /\ records[i] = Absent
                           THEN [records EXCEPT ![i] = op.files] ELSE records
             /\ \/ staged' = [staged EXCEPT ![i] = "none"]
                \/ staged' = [staged EXCEPT ![i] = "empty"]
             /\ Fault \/ NoFault
    <3>1. /\ \A j \in Ids \ {i} : staged'[j] = staged[j] /\ records'[j] = records[j]
          /\ staged'[i] # "record"
          /\ records'[i] = IF staged[i] = "record" /\ records[i] = Absent
                           THEN op.files ELSE records[i]
      BY <2>2, <2>4 DEF TypeOK
    <3>2. op.files # Absent
      BY AbsentIsNoRecord DEF TypeOK, Operation, Snapshot, FileEntry
    <3>3. EverythingStored'
      BY <2>1, <3>1 DEF RecordInvariant, EverythingStored, Moved, AllStored, Stored
    <3>4. RecordInPlace'
      BY <2>2, <3>1, <3>2, <2>1 DEF RecordInvariant, RecordInPlace, HasRecord, Undoable
    <3>5. DropSettles'
      BY <2>1, <2>2, <2>4, <3>1, FaultsGrow
      DEF RecordInvariant, DropSettles, Undoable
    <3> QED
      BY <3>3, <3>4, <3>5 DEF RecordInvariant
  <2> QED
    BY <1>7, <2>3, <2>4 DEF RestoreRecord
<1> QED
  BY <1>1, <1>3, <1>4, <1>5, <1>6, <1>7

\* Rollbacks, builds and edits leave the records alone; a crash is one failure
\* too many.
LEMMA OthersKeepRecords ==
    ASSUME TypeOK, TypeOK', RecordInvariant,
           \/ \E e \in manifest.versions : StartRollback(e)
           \/ CopyFile \/ WriteReceipt \/ Crash
           \/ \E f \in Files, c \in Contents \cup {Absent} : Build(f, c) \/ OutsideEdit(f, c)
    PROVE  RecordInvariant'
<1>1. CASE (\E e \in manifest.versions : StartRollback(e)) \/ CopyFile \/ WriteReceipt
  BY <1>1, IdleTyped, WhereCommandsGo, FaultsGrow, RecordsLeftAlone DEF StartRollback,
     CopyFile, WriteReceipt, NoFault, Idle, Return, Moved
<1>2. CASE Crash
  BY <1>2, IdleTyped, RecordsLeftAlone DEF Crash, Return, OneFailure, TypeOK
<1>3. CASE \E f \in Files, c \in Contents \cup {Absent} : Build(f, c) \/ OutsideEdit(f, c)
  <2>1. /\ UNCHANGED <<objects, records, manifest, staged, op>>
        /\ faults'.fail = faults.fail /\ faults'.crash = faults.crash
        /\ op.step = "stat" => MaxEdits # 0
    BY <1>3, StoreAssumption, IdleTyped DEF Build, OutsideEdit, TypeOK
  <2>2. EverythingStored'
    BY <2>1, StoredGrows DEF RecordInvariant, EverythingStored, Stored
  <2>3. RecordInPlace'
    BY <2>1 DEF RecordInvariant, RecordInPlace, HasRecord, Undoable
  <2>4. DropSettles'
    BY <2>1 DEF RecordInvariant, DropSettles, Undoable, OneFailure
  <2> QED
    BY <2>2, <2>3, <2>4 DEF RecordInvariant
<1> QED
  BY <1>1, <1>2, <1>3

\* Through failures, crashes and edits everything recorded stays stored, and no
\* record is anywhere but in its place or in the staging directory.
THEOREM Records == Spec => []RecordInvariant
<1>1. Init => RecordInvariant
  BY DEF Init, Idle, RecordInvariant, EverythingStored, RecordInPlace, DropSettles,
         Undoable, Moved
<1>2. TypeOK /\ TypeOK' /\ HistoryInvariant /\ RecordInvariant /\ [Next]_vars
          => RecordInvariant'
  <2> SUFFICES ASSUME TypeOK, TypeOK', HistoryInvariant, RecordInvariant, [Next]_vars
               PROVE  RecordInvariant'
    OBVIOUS
  <2>1. CASE UNCHANGED vars
    BY <2>1 DEF vars, RecordInvariant, EverythingStored, AllStored, Stored, RecordInPlace,
                HasRecord, Undoable, DropSettles, OneFailure
  <2>2. CASE Next
    BY <2>2, CaptureKeepsRecords, DropKeepsRecords, OthersKeepRecords DEF Next
  <2> QED
    BY <2>1, <2>2
<1> QED
  BY <1>1, <1>2, HistoryKept, PTL DEF Spec

\* A record whose sizes tell is loaded.
LEMMA RecordLoads ==
    ASSUME TypeOK, RecordInvariant, SizesTell,
           NEW e \in manifest.versions, records[e.id] # Absent
    PROVE  Loads(e)
<1>1. e.id \in Ids
  BY DEF TypeOK, Manifest, Entry
<1>2. AllStored(records[e.id]) /\ records[e.id] \in Snapshot
  BY <1>1 DEF RecordInvariant, EverythingStored, TypeOK
<1>3. Verifies(records[e.id])
  BY <1>2 DEF Verifies, AllStored, Stored, SizesTell, Snapshot, FileEntry
<1> QED
  BY <1>3 DEF Loads

\* The record of a listed version is never lost.  Without SizesTell a record can
\* be in its place and not load: ListedVersionsLoad says how.
THEOREM RecordsKept == ASSUME SizesTell PROVE Spec => []RecordsAreKept
<1>1. TypeOK /\ RecordInvariant => RecordsAreKept
  BY SizesTell, RecordLoads DEF RecordInvariant, RecordInPlace, HasRecord, RecordsAreKept
<1> QED
  BY <1>1, TypeCorrect, Records, PTL

\* After a drop in which at most one step failed, the version is as it was or it
\* is a tombstone.
THEOREM DropSettled == ASSUME SizesTell PROVE Spec => []DropIsAllOrNothing
<1>1. TypeOK /\ RecordInvariant => DropIsAllOrNothing
  BY IdleTyped, SizesTell, RecordLoads DEF DropIsAllOrNothing, OneFailure, RecordInvariant,
     DropSettles, Moved, TypeOK, Manifest, Entry, RecordInPlace, HasRecord
<1> QED
  BY <1>1, TypeCorrect, Records, PTL
-----------------------------------------------------------------------------
(* The rollbacks.                                                          *)

\* Besides the rollback that is running, a step that writes no record and moves
\* none, and no output, changes nothing about them.
LEMMA OutputsLeftAlone ==
    ASSUME TypeOK, TypeOK', RollbackInvariant,
           UNCHANGED <<records, outputs, nextId, captured>>,
           op'.step \notin Moved \cup {"copy"}
    PROVE  RollbackInvariant'
  BY DEF TypeOK, Ids, RollbackInvariant, ReceiptedRollbackIsComplete, HoldsFiles

\* A capture writes its record under a new id, which no rollback can name.
LEMMA CaptureKeepsRollbacks ==
    ASSUME TypeOK, TypeOK', RollbackInvariant,
           StartCapture \/ InstallObject \/ StatFile \/ WriteRecord \/ WriteManifest
    PROVE  RollbackInvariant'
<1>1. op'.step \in {"install", "stat", "list", "idle"}
  BY WhereCommandsGo, IdleTyped DEF WriteManifest, Return
<1>2. CASE StartCapture \/ InstallObject \/ StatFile \/ WriteManifest
  BY <1>2, <1>1, OutputsLeftAlone DEF StartCapture, InstallObject, StatFile, WriteManifest,
     Moved
<1>3. CASE WriteRecord
  <2>1. /\ outputs' = outputs
        /\ \/ UNCHANGED <<records, nextId, captured>>
           \/ /\ records' = [records EXCEPT ![nextId] = op.files] /\ nextId' = nextId + 1
              /\ captured' = [captured EXCEPT ![nextId] = op.files]
    BY <1>3 DEF WriteRecord
  <2>2. CASE UNCHANGED <<records, nextId, captured>>
    BY <1>1, <2>1, <2>2, OutputsLeftAlone DEF Moved
  <2>3. CASE /\ records' = [records EXCEPT ![nextId] = op.files] /\ nextId' = nextId + 1
             /\ captured' = [captured EXCEPT ![nextId] = op.files]
    <3>1. \A i \in Ids : outputs[i].state # "none" =>
              i < nextId' /\ i # nextId /\ captured'[i] = captured[i]
      BY <2>3 DEF RollbackInvariant, TypeOK, Ids
    <3>2. \A i \in Ids : outputs'[i].state = "none" => outputs'[i] = NoOutput
      BY <2>1 DEF RollbackInvariant
    <3>3. \A i \in Ids : records'[i] # Absent => records'[i] = captured'[i]
      BY <2>3 DEF RollbackInvariant, TypeOK
    <3>4. ReceiptedRollbackIsComplete'
      BY <2>1, <3>1 DEF RollbackInvariant, ReceiptedRollbackIsComplete, HoldsFiles
    <3> QED
      BY <1>1, <2>1, <3>1, <3>2, <3>3, <3>4 DEF RollbackInvariant, Moved
  <2> QED
    BY <2>1, <2>2, <2>3
<1> QED
  BY <1>2, <1>3

\* A drop takes the record with it: what it puts back is what it took.
LEMMA DropKeepsRollbacks ==
    ASSUME TypeOK, TypeOK', RecordInvariant, RollbackInvariant,
           \/ \E e \in manifest.versions : StageDrop(e)
           \/ MoveRecord \/ UnlistVersion \/ SendToTrash \/ RelistVersion \/ RestoreRecord
    PROVE  RollbackInvariant'
<1> DEFINE i == op.entry.id
<1>0. UNCHANGED <<outputs, nextId, captured>>
  BY DEF StageDrop, MoveRecord, UnlistVersion, SendToTrash, RelistVersion, RestoreRecord
<1>r. /\ \A j \in Ids : /\ outputs'[j].state = "none" => outputs'[j] = NoOutput
                        /\ outputs'[j].state # "none" => j < nextId'
      /\ ReceiptedRollbackIsComplete'
  BY <1>0 DEF RollbackInvariant, ReceiptedRollbackIsComplete, HoldsFiles
<1>1. ASSUME NEW e \in manifest.versions, StageDrop(e) PROVE RollbackInvariant'
  BY <1>1, OutputsLeftAlone DEF StageDrop, Idle, Moved
<1>2. CASE MoveRecord
  <2>1. op.step = "move" /\ staged[i] = "empty" /\ i \in Ids
    BY <1>2 DEF MoveRecord, RecordInvariant, RecordInPlace, TypeOK, OperationFits, Entry
  <2>2. CASE /\ op'.step = "unlist" /\ op'.entry = op.entry /\ op'.files = records[i]
             /\ records' = [records EXCEPT ![i] = Absent]
    <3>1. \A j \in Ids : records'[j] # Absent => records'[j] = records[j]
      BY <2>2 DEF TypeOK
    <3>2. records[i] # Absent
      BY <1>2 DEF TypeOK, OperationFits, MoveRecord
    <3>3. op'.files = captured'[op'.entry.id]
      BY <1>0, <2>1, <2>2, <3>2 DEF RollbackInvariant
    <3>4. \A j \in Ids : records'[j] # Absent => records'[j] = captured'[j]
      BY <1>0, <3>1 DEF RollbackInvariant
    <3> QED
      BY <1>r, <2>2, <3>3, <3>4 DEF RollbackInvariant
  <2>3. CASE /\ op'.step = "relist" /\ op'.entry = op.entry
             /\ UNCHANGED <<records, staged>>
    BY <1>0, <1>r, <2>1, <2>3 DEF RollbackInvariant
  <2> QED
    BY <1>2, <2>2, <2>3, DropGoesOn
<1>3. CASE UnlistVersion \/ SendToTrash \/ RelistVersion
  <2>1. op.step \in Moved /\ UNCHANGED records
    BY <1>3 DEF UnlistVersion, SendToTrash, RelistVersion, Moved
  <2>2. CASE op'.step = "idle"
    BY <1>0, <2>1, <2>2, OutputsLeftAlone DEF Moved
  <2>3. CASE op'.step # "idle"
    <3>1. /\ op'.step \in Moved /\ op'.entry = op.entry /\ op'.files = op.files
          /\ staged' = staged
      BY <1>3, <2>3, DropGoesOn DEF UnlistVersion, RelistVersion, Moved
    <3> QED
      BY <1>0, <1>r, <2>1, <3>1 DEF RollbackInvariant, Moved
  <2> QED
    BY <2>2, <2>3
<1>4. CASE RestoreRecord
  <2>1. op.step = "unmove" /\ op'.step = "idle" /\ i \in Ids
    BY <1>4, IdleTyped DEF RestoreRecord, Return, TypeOK, OperationFits, Entry
  <2>2. \/ records' = records
        \/ staged[i] = "record" /\ records' = [records EXCEPT ![i] = op.files]
    BY <1>4 DEF RestoreRecord
  <2>3. CASE records' = records
    BY <1>0, <2>1, <2>3, OutputsLeftAlone DEF Moved
  <2>4. CASE staged[i] = "record" /\ records' = [records EXCEPT ![i] = op.files]
    <3>1. op.files = captured[i]
      BY <2>1, <2>4 DEF RollbackInvariant, Moved
    <3>2. \A j \in Ids : records'[j] # Absent => records'[j] = captured'[j]
      BY <1>0, <2>1, <2>4, <3>1 DEF RollbackInvariant, TypeOK
    <3> QED
      BY <1>r, <2>1, <3>2 DEF RollbackInvariant, Moved
  <2> QED
    BY <2>2, <2>3, <2>4
<1> QED
  BY <1>1, <1>2, <1>3, <1>4

\* The files are copied one by one, and the receipt waits for the last.
LEMMA RollbackFills ==
    ASSUME TypeOK, TypeOK', HistoryInvariant, RollbackInvariant,
           (\E e \in manifest.versions : StartRollback(e)) \/ CopyFile \/ WriteReceipt
    PROVE  RollbackInvariant'
<1> DEFINE i == op.entry.id
<1>r. /\ UNCHANGED <<records, nextId, captured>>
      /\ \A j \in Ids : records'[j] # Absent => records'[j] = captured'[j]
  <2>1. UNCHANGED <<records, nextId, captured>>
    BY DEF StartRollback, CopyFile, WriteReceipt
  <2> QED
    BY <2>1 DEF RollbackInvariant
<1>1. ASSUME NEW e \in manifest.versions, StartRollback(e) PROVE RollbackInvariant'
  <2>1. /\ op'.step = "copy" /\ op'.entry = e /\ op'.files = records[e.id]
        /\ op'.todo = {f \in Files : records[e.id][f] # Absent}
        /\ records[e.id] # Absent
        /\ outputs[e.id].state = "none"
        /\ outputs' = [outputs EXCEPT ![e.id].state = "made"]
    BY <1>1 DEF StartRollback, Idle, Loads
  <2>2. e.id \in Ids /\ e.id < nextId
    BY DEF HistoryInvariant, Sound, TypeOK, Manifest, Entry
  <2>3. outputs[e.id] = NoOutput
    BY <2>1, <2>2 DEF RollbackInvariant
  <2>4. outputs'[e.id].state = "made" /\ outputs'[e.id].files = NoFiles
    BY <2>1, <2>2, <2>3 DEF NoOutput, TypeOK
  <2>5. \A j \in Ids \ {e.id} : outputs'[j] = outputs[j]
    BY <2>1 DEF TypeOK
  <2>6. /\ \A j \in Ids :
              /\ outputs'[j].state = "none" => outputs'[j] = NoOutput
              /\ outputs'[j].state # "none" => j < nextId'
        /\ ReceiptedRollbackIsComplete'
    BY <1>r, <2>2, <2>4, <2>5 DEF RollbackInvariant, ReceiptedRollbackIsComplete, HoldsFiles
  <2>7. HoldsFiles(outputs'[e.id].files, records[e.id], op'.todo)
    BY <2>1, <2>4 DEF HoldsFiles, NoFiles
  <2>8. captured'[e.id] = records[e.id]
    BY <1>r, <2>1, <2>2 DEF RollbackInvariant
  <2> QED
    BY <1>r, <2>1, <2>4, <2>6, <2>7, <2>8 DEF RollbackInvariant, HoldsFiles, Moved
<1>2. CASE CopyFile
  <2>1. /\ op.step = "copy" /\ i \in Ids
        /\ captured[i] = op.files /\ op.files # Absent /\ outputs[i].state = "made"
        /\ HoldsFiles(outputs[i].files, op.files, op.todo)
    BY <1>2 DEF CopyFile, TypeOK, OperationFits, Entry, RollbackInvariant
  <2>2. ASSUME NEW f \in op.todo,
               outputs' = [outputs EXCEPT ![i].files[f] = op.files[f].content],
               op' = [op EXCEPT !.todo = op.todo \ {f}]
        PROVE  RollbackInvariant'
    <3>1. /\ op'.step = "copy" /\ op'.entry = op.entry /\ op'.files = op.files
          /\ op'.todo = op.todo \ {f} /\ f \in Files /\ op.files[f] # Absent
      BY <2>1, <2>2 DEF TypeOK, Operation, OperationFits
    <3>2. /\ \A j \in Ids \ {i} : outputs'[j] = outputs[j]
          /\ outputs'[i].state = "made"
          /\ outputs'[i].files = [outputs[i].files EXCEPT ![f] = op.files[f].content]
      <4>1. outputs \in [Ids -> Output]
        BY DEF TypeOK
      <4>2. outputs'[i] = [outputs[i] EXCEPT !.files[f] = op.files[f].content]
        BY <2>1, <2>2, <4>1
      <4>3. \A j \in Ids \ {i} : outputs'[j] = outputs[j]
        BY <2>1, <2>2, <4>1
      <4> QED
        BY <2>1, <4>1, <4>2, <4>3 DEF Output
    <3>3. outputs[i].files \in [Files -> Contents \cup {Absent}]
      BY <2>1 DEF TypeOK, Output
    <3>4. HoldsFiles(outputs'[i].files, op.files, op'.todo)
      BY <2>1, <3>1, <3>2, <3>3 DEF HoldsFiles
    <3>5. /\ \A j \in Ids :
                /\ outputs'[j].state = "none" => outputs'[j] = NoOutput
                /\ outputs'[j].state # "none" => j < nextId'
          /\ ReceiptedRollbackIsComplete'
      BY <1>r, <2>1, <3>2 DEF RollbackInvariant, ReceiptedRollbackIsComplete, HoldsFiles
    <3> QED
      BY <1>r, <2>1, <3>1, <3>2, <3>4, <3>5 DEF RollbackInvariant, HoldsFiles, Moved
  <2>3. CASE op' = Idle /\ outputs' = [outputs EXCEPT ![i] = NoOutput]
    <3>1. /\ \A j \in Ids :
                /\ outputs'[j].state = "none" => outputs'[j] = NoOutput
                /\ outputs'[j].state # "none" => j < nextId'
          /\ ReceiptedRollbackIsComplete'
      BY <1>r, <2>1, <2>3 DEF TypeOK, NoOutput, RollbackInvariant,
         ReceiptedRollbackIsComplete, HoldsFiles
    <3> QED
      BY <1>r, <2>3, <3>1, IdleTyped DEF RollbackInvariant, Moved
  <2> QED
    BY <1>2, <2>2, <2>3 DEF CopyFile, Return
<1>3. CASE WriteReceipt
  <2>1. /\ op.step = "copy" /\ i \in Ids
        /\ op.todo = {} /\ op'.step = "idle"
        /\ captured[i] = op.files /\ op.files # Absent /\ outputs[i].state = "made"
        /\ HoldsFiles(outputs[i].files, op.files, op.todo)
    BY <1>3, IdleTyped DEF WriteReceipt, Return, TypeOK, OperationFits, Entry, RollbackInvariant
  <2>2. CASE outputs' = outputs
    BY <1>r, <2>1, <2>2, OutputsLeftAlone DEF Moved
  <2>3. CASE outputs' = [outputs EXCEPT ![i].state = "receipted"]
    <3>1. /\ \A j \in Ids \ {i} : outputs'[j] = outputs[j]
          /\ outputs'[i].state = "receipted" /\ outputs'[i].files = outputs[i].files
      BY <2>1, <2>3 DEF TypeOK, Output
    <3>2. /\ \A j \in Ids :
                /\ outputs'[j].state = "none" => outputs'[j] = NoOutput
                /\ outputs'[j].state # "none" => j < nextId'
          /\ ReceiptedRollbackIsComplete'
      BY <1>r, <2>1, <3>1 DEF RollbackInvariant, ReceiptedRollbackIsComplete, HoldsFiles
    <3> QED
      BY <1>r, <2>1, <3>2 DEF RollbackInvariant, Moved
  <2> QED
    BY <1>3, <2>2, <2>3 DEF WriteReceipt
<1> QED
  BY <1>1, <1>2, <1>3

\* A directory with a receipt, or one that is being filled, agrees with what was
\* captured, wherever the record of it is.
THEOREM Rollbacks == Spec => []RollbackInvariant
<1>1. Init => RollbackInvariant
  BY DEF Init, Idle, NoOutput, RollbackInvariant, ReceiptedRollbackIsComplete, Moved
<1>2. TypeOK /\ TypeOK' /\ HistoryInvariant /\ RecordInvariant
          /\ RollbackInvariant /\ [Next]_vars => RollbackInvariant'
  <2> SUFFICES ASSUME TypeOK, TypeOK', HistoryInvariant, RecordInvariant,
                      RollbackInvariant, [Next]_vars
               PROVE  RollbackInvariant'
    OBVIOUS
  <2>1. CASE UNCHANGED vars
    BY <2>1 DEF vars, RollbackInvariant, ReceiptedRollbackIsComplete, HoldsFiles
  <2>2. CASE Crash
    BY <2>2, IdleTyped, OutputsLeftAlone DEF Crash, Return, Moved
  <2>3. CASE \E f \in Files, c \in Contents \cup {Absent} : Build(f, c) \/ OutsideEdit(f, c)
    BY <2>3 DEF Build, OutsideEdit, RollbackInvariant, ReceiptedRollbackIsComplete,
       HoldsFiles
  <2>4. CASE Next
    BY <2>2, <2>3, <2>4, CaptureKeepsRollbacks, DropKeepsRollbacks, RollbackFills DEF Next
  <2> QED
    BY <2>1, <2>4
<1> QED
  BY <1>1, <1>2, HistoryKept, Records, PTL DEF Spec

\* A rollback directory with a receipt is complete, for any files and whatever
\* fails, with no assumption on sizes, and also when its version was dropped.
THEOREM RollbackComplete == Spec => []ReceiptedRollbackIsComplete
<1>1. RollbackInvariant => ReceiptedRollbackIsComplete
  BY DEF RollbackInvariant
<1> QED
  BY <1>1, Rollbacks, PTL

\* The inductive invariant of the store: the lineage, the records and the
\* rollbacks.
THEOREM StoreKept == Spec => []StoreInvariant
BY HistoryKept, Records, Rollbacks, PTL DEF StoreInvariant
=============================================================================
