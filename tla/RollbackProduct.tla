--------------------------- MODULE RollbackProduct ---------------------------
(***************************************************************************)
(* A version of a brain restored as a brain of its own                     *)
(* (rollback_product.py).                                                  *)
(*                                                                         *)
(* The folder of the new brain is made, filled from the version, given     *)
(* its pointers, diagrams and packages, validated and captured; the source *)
(* is compared with what it was, and the new brain registered last.  A     *)
(* failure before that removes the folder.  The lock is of the source: the *)
(* name of the new brain is free to others, the rollbacks of another       *)
(* source and brain.create.                                                *)
(***************************************************************************)
EXTENDS Naturals

CONSTANTS
    Origins,          \* brains with a verified version
    RestoredNames,    \* names that are asked for
    NoOrigin,         \* not of a rollback
    NoFolder,         \* there is no folder
    MaxRollbacks,     \* bound: rollbacks, and brains made by hand
    MaxOriginEdits,   \* bound: edits of the origins
    MaxRollbackFaults \* bound: steps that fail and crashes

ASSUME RollbackAssumption ==
    /\ NoOrigin \notin Origins /\ RestoredNames # {}
    /\ MaxRollbacks \in Nat /\ MaxOriginEdits \in Nat /\ MaxRollbackFaults \in Nat

\* How far a folder was made: created, filled, with a package for each kind of model, and
\* captured.
Stages == {"empty", "restored", "rendered", "exported", "captured"}
Folders == [by : Origins \cup {NoOrigin}, stage : Stages, receipt : BOOLEAN]

ASSUME NoFolderIsNone == NoFolder \notin Folders

RollbackSteps == {"idle", "create", "fill", "render", "export", "capture", "compare",
                  "register", "receipt", "failed"}

-----------------------------------------------------------------------------
VARIABLES
    folders,         \* the folder of each name
    listed,          \* the origins a name is registered for
    originEdits,     \* the edits of each origin
    rollback,        \* the rollback that runs on each origin: one, by its lock
    rollbacks,       \* the rollbacks so far
    rollbackFaults,
    halfMade,        \* history: names a crash left a folder of
    contested        \* history: names that were taken after they were found free

rollbackVars == <<folders, listed, originEdits, rollback, rollbacks, rollbackFaults,
                  halfMade, contested>>

RollbackTypeOK ==
    /\ folders \in [RestoredNames -> Folders \cup {NoFolder}]
    /\ listed \in [RestoredNames -> SUBSET (Origins \cup {NoOrigin})]
    /\ originEdits \in [Origins -> 0..MaxOriginEdits]
    /\ rollback \in [Origins -> [step : RollbackSteps, name : RestoredNames,
                                 edits : 0..MaxOriginEdits]]
    /\ rollbacks \in 0..MaxRollbacks /\ rollbackFaults \in 0..MaxRollbackFaults
    /\ halfMade \subseteq RestoredNames /\ contested \subseteq RestoredNames

RollbackInit ==
    /\ folders = [n \in RestoredNames |-> NoFolder]
    /\ listed = [n \in RestoredNames |-> {}]
    /\ originEdits = [o \in Origins |-> 0]
    /\ rollback = [o \in Origins |-> [step |-> "idle", edits |-> 0,
                                      name |-> CHOOSE n \in RestoredNames : TRUE]]
    /\ rollbacks = 0 /\ rollbackFaults = 0 /\ halfMade = {} /\ contested = {}

-----------------------------------------------------------------------------
RollbackAt(o, step) == rollback[o].step = step
NameAsked(o) == rollback[o].name
RollbackGoes(o, step) == rollback' = [rollback EXCEPT ![o].step = step]

RollbackPays == rollbackFaults < MaxRollbackFaults /\ rollbackFaults' = rollbackFaults + 1

EmptyFolder(o) == [by |-> o, stage |-> "empty", receipt |-> FALSE]

\* A brain made by hand: its folder is made when there is none.
CreateByHand(n) ==
    /\ rollbacks < MaxRollbacks /\ rollbacks' = rollbacks + 1
    /\ listed' = [listed EXCEPT ![n] = @ \cup {NoOrigin}]
    /\ folders' = IF folders[n] # NoFolder THEN folders
                  ELSE [folders EXCEPT ![n] = EmptyFolder(NoOrigin)]
    /\ contested' = IF \E o \in Origins : ~RollbackAt(o, "idle") /\ NameAsked(o) = n
                    THEN contested \cup {n} ELSE contested
    /\ UNCHANGED <<originEdits, rollback, rollbackFaults, halfMade>>

EditOrigin(o) ==
    /\ originEdits[o] < MaxOriginEdits
    /\ originEdits' = [originEdits EXCEPT ![o] = @ + 1]
    /\ UNCHANGED <<folders, listed, rollback, rollbacks, rollbackFaults, halfMade,
                   contested>>

-----------------------------------------------------------------------------
(* The rollback.                                                           *)

\* The name is free, and the fingerprint of the origin is taken.
StartRollback(o, n) ==
    /\ RollbackAt(o, "idle")
    /\ folders[n] = NoFolder
    /\ rollbacks < MaxRollbacks /\ rollbacks' = rollbacks + 1
    /\ rollback' = [rollback EXCEPT ![o] = [step |-> "create", name |-> n,
                                            edits |-> originEdits[o]]]
    /\ contested' = IF \E p \in Origins : ~RollbackAt(p, "idle") /\ NameAsked(p) = n
                    THEN contested \cup {n} ELSE contested
    /\ UNCHANGED <<folders, listed, originEdits, rollbackFaults, halfMade>>

\* The name may be taken by now.
MakeFolder(o) ==
    /\ RollbackAt(o, "create")
    /\ \/ /\ folders[NameAsked(o)] = NoFolder
          /\ folders' = [folders EXCEPT ![NameAsked(o)] = EmptyFolder(o)]
          /\ RollbackGoes(o, "fill")
       \/ /\ folders[NameAsked(o)] # NoFolder
          /\ RollbackGoes(o, "failed")
          /\ UNCHANGED folders
    /\ UNCHANGED <<listed, originEdits, rollbacks, rollbackFaults, halfMade, contested>>

\* A step writes into the folder; without the folder it fails.
Advance(o, step, stage, next) ==
    /\ RollbackAt(o, step)
    /\ \/ /\ folders[NameAsked(o)] # NoFolder
          /\ folders' = [folders EXCEPT ![NameAsked(o)].stage = stage]
          /\ RollbackGoes(o, next)
       \/ /\ folders[NameAsked(o)] = NoFolder
          /\ RollbackGoes(o, "failed")
          /\ UNCHANGED folders
    /\ UNCHANGED <<listed, originEdits, rollbacks, rollbackFaults, halfMade, contested>>

FillRestored(o) == Advance(o, "fill", "restored", "render")
RenderRestored(o) == Advance(o, "render", "rendered", "export")
ExportRestored(o) == Advance(o, "export", "exported", "capture")
CaptureRestored(o) == Advance(o, "capture", "captured", "compare")

\* The origin and its history must be what they were.
CompareOrigin(o) ==
    /\ RollbackAt(o, "compare")
    /\ RollbackGoes(o, IF originEdits[o] = rollback[o].edits THEN "register" ELSE "failed")
    /\ UNCHANGED <<folders, listed, originEdits, rollbacks, rollbackFaults, halfMade,
                   contested>>

\* create_brain makes the folder when it is gone.
RegisterRestored(o) ==
    /\ RollbackAt(o, "register")
    /\ listed' = [listed EXCEPT ![NameAsked(o)] = @ \cup {o}]
    /\ folders' = IF folders[NameAsked(o)] # NoFolder THEN folders
                  ELSE [folders EXCEPT ![NameAsked(o)] = EmptyFolder(NoOrigin)]
    /\ RollbackGoes(o, "receipt")
    /\ UNCHANGED <<originEdits, rollbacks, rollbackFaults, halfMade, contested>>

\* A failure leaves the registered brain without its receipt.
WriteProductReceipt(o) ==
    /\ RollbackAt(o, "receipt")
    /\ \/ /\ folders' = IF folders[NameAsked(o)] = NoFolder THEN folders
                        ELSE [folders EXCEPT ![NameAsked(o)].receipt = TRUE]
          /\ UNCHANGED rollbackFaults
       \/ RollbackPays /\ UNCHANGED folders
    /\ RollbackGoes(o, "idle")
    /\ UNCHANGED <<listed, originEdits, rollbacks, halfMade, contested>>

AnyStep == RollbackSteps \ {"idle", "failed"}
Unregistered == {"create", "fill", "render", "export", "capture", "compare", "register"}

FailRollback(o) ==
    /\ rollback[o].step \in Unregistered
    /\ RollbackPays
    /\ RollbackGoes(o, "failed")
    /\ UNCHANGED <<folders, listed, originEdits, rollbacks, halfMade, contested>>

\* What is at the name is removed, whoever made it; the removal can fail too.
RemoveFolder(o) ==
    /\ RollbackAt(o, "failed")
    /\ \/ /\ folders' = [folders EXCEPT ![NameAsked(o)] = NoFolder]
          /\ UNCHANGED <<rollbackFaults, halfMade>>
       \/ /\ RollbackPays
          /\ halfMade' = halfMade \cup {NameAsked(o)}
          /\ UNCHANGED folders
    /\ RollbackGoes(o, "idle")
    /\ UNCHANGED <<listed, originEdits, rollbacks, contested>>

CrashRollback(o) ==
    /\ ~RollbackAt(o, "idle")
    /\ RollbackPays
    /\ halfMade' = halfMade \cup {NameAsked(o)}
    /\ RollbackGoes(o, "idle")
    /\ UNCHANGED <<folders, listed, originEdits, rollbacks, contested>>

-----------------------------------------------------------------------------
RollbackNext ==
    \/ \E n \in RestoredNames : CreateByHand(n)
    \/ \E o \in Origins :
        \/ EditOrigin(o)
        \/ \E n \in RestoredNames : StartRollback(o, n)
        \/ MakeFolder(o) \/ FillRestored(o) \/ RenderRestored(o)
        \/ ExportRestored(o) \/ CaptureRestored(o)
        \/ CompareOrigin(o) \/ RegisterRestored(o) \/ WriteProductReceipt(o)
        \/ FailRollback(o) \/ RemoveFolder(o) \/ CrashRollback(o)

RollbackSpec == RollbackInit /\ [][RollbackNext]_rollbackVars

-----------------------------------------------------------------------------
RollingBack(n) == {o \in Origins : ~RollbackAt(o, "idle") /\ NameAsked(o) = n}

\* A brain that is registered for a rollback is all there, and of that rollback alone.
\* The exception is a name that was taken after a rollback found it free.
RegisteredIsComplete ==
    \A n \in RestoredNames \ contested : \A o \in listed[n] \ {NoOrigin} :
        /\ folders[n] # NoFolder
        /\ folders[n].by = o /\ folders[n].stage = "captured"

\* A failed rollback leaves no folder that could pass for a brain, unless the worker died;
\* and a receipt is in no folder but that of a registered brain.
FailedLeavesNothing ==
    /\ \A n \in RestoredNames \ halfMade :
           folders[n] # NoFolder /\ RollingBack(n) = {} => listed[n] # {}
    /\ \A n \in RestoredNames : folders[n] # NoFolder =>
           (folders[n].receipt => listed[n] # {})

RollbacksAreWhole == RegisteredIsComplete /\ FailedLeavesNothing
===============================================================================
