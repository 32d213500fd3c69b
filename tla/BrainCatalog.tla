----------------------------- MODULE BrainCatalog -----------------------------
(***************************************************************************)
(* The brains of a workspace: the rows of brain_project, the folders they  *)
(* name, and the tombstones that keep discovery away from a folder         *)
(* (ipc_worker.py, brain_delete.py, workspace_db.py and                    *)
(* workspace_build_ledger.py).                                             *)
(*                                                                         *)
(* Nothing makes the name of a row unique, rows are not removed, and most  *)
(* commands take the row of a name that was updated last.  Folders, rows   *)
(* and tombstones change in separate steps, between which the worker can   *)
(* die.  The updates of brain.rename and brain.remove are stamped with the *)
(* local time, the others with UTC, and the stamps are compared as texts.  *)
(*                                                                         *)
(* A name stands for its folder: the name that discovery derives from a    *)
(* folder is taken to be the one the brain was created under, which may    *)
(* differ in capitals.  One catalog command runs at a time.                *)
(***************************************************************************)
EXTENDS Naturals, Sequences, FiniteSets

CONSTANTS
    Names,             \* names of brains
    NoName,            \* no name
    MaxBrainRows,      \* bound: rows
    MaxMishaps         \* bound: commands cut short and folders taken out of the
                       \* recycle bin

ASSUME CatalogAssumption ==
    /\ NoName \notin Names
    /\ MaxBrainRows \in Nat /\ MaxMishaps \in Nat

BrainStatuses == {"ACTIVE", "REMOVED", "RECYCLED"}

BrainRow == [status : BrainStatuses, local : BOOLEAN]

\* A folder that has been created is empty until it is built.
FolderKinds == {"none", "empty", "brain"}

CatalogSteps == {"idle", "insert", "clear", "removed", "trashed", "moved", "built"}

-----------------------------------------------------------------------------
VARIABLES
    brainRows,    \* brain_project: the rows of each name, in the order of the updates
    brainFolders, \* the folder of each name
    derivedIds,   \* the folders that discovery has inserted a row for
    recycled,     \* the folders in the recycle bin
    tombstones,   \* the names discovery leaves alone
    errand,       \* the running command
    mishaps,
    removed,      \* history: brains removed and not created or built since
    revived,      \* history: removed brains that discovery listed again
    excused       \* history: names created twice, taken for a row of the name other
                  \* than the newest or the active one, or cut short

catalogVars == <<brainRows, brainFolders, derivedIds, recycled, tombstones, errand,
                 mishaps, removed, revived, excused>>

NoErrand == [step |-> "idle", name |-> NoName, next |-> NoName, row |-> 0, moved |-> FALSE]

CatalogTypeOK ==
    /\ brainRows \in [Names -> Seq(BrainRow)]
    /\ brainFolders \in [Names -> FolderKinds]
    /\ recycled \in [Names -> FolderKinds]
    /\ derivedIds \subseteq Names /\ tombstones \subseteq Names
    /\ errand \in [step : CatalogSteps, name : Names \cup {NoName},
                   next : Names \cup {NoName}, row : Nat, moved : BOOLEAN]
    /\ mishaps \in Nat
    /\ removed \subseteq Names /\ revived \subseteq Names /\ excused \subseteq Names

CatalogInit ==
    /\ brainRows = [x \in Names |-> <<>>]
    /\ brainFolders = [x \in Names |-> "none"]
    /\ recycled = [x \in Names |-> "none"]
    /\ derivedIds = {} /\ tombstones = {}
    /\ errand = NoErrand
    /\ mishaps = 0
    /\ removed = {} /\ revived = {} /\ excused = {}

-----------------------------------------------------------------------------
(* The rows.                                                               *)

RowsOf(x) == DOMAIN brainRows[x]

ActiveRows(x) == {n \in RowsOf(x) : brainRows[x][n].status = "ACTIVE"}

\* The bound on the rows.
RoomForARow ==
    Cardinality({r \in Names \X (1..MaxBrainRows) : r[2] \in RowsOf(r[1])}) < MaxBrainRows

\* ORDER BY updated_at DESC LIMIT 1: the last row, or an earlier one whose stamp,
\* read as a text, is higher, local time being ahead of UTC or behind it.
MayBeNewest(x, n) ==
    \A m \in RowsOf(x) : m > n => brainRows[x][m].local # brainRows[x][n].local

\* x, if row n of it is not the one updated last
Misled(x, n) == IF n = Len(brainRows[x]) THEN {} ELSE {x}

WithoutRow(x, n) == SubSeq(brainRows[x], 1, n - 1)
                    \o SubSeq(brainRows[x], n + 1, Len(brainRows[x]))

\* UPDATE brain_project of one row; updated, it is the last.
UpdatedRow(x, n, status) ==
    Append(WithoutRow(x, n), [status |-> status, local |-> FALSE])

NewBrain(x) == Append(brainRows[x], [status |-> "ACTIVE", local |-> FALSE])

Mishap == mishaps < MaxMishaps /\ mishaps' = mishaps + 1

CatalogIdle == errand = NoErrand

Begin(step, x) == errand' = [NoErrand EXCEPT !.step = step, !.name = x]

InErrand(step) == errand.step = step

-----------------------------------------------------------------------------
(* brain.create, brain.build and the user.                                 *)

\* create_brain makes the folder, ...
CreateFolder(x) ==
    /\ CatalogIdle
    /\ RoomForARow
    /\ brainFolders' = [brainFolders EXCEPT ![x] = IF @ = "none" THEN "empty" ELSE @]
    /\ Begin("insert", x)
    /\ UNCHANGED <<brainRows, derivedIds, recycled, tombstones, mishaps, removed,
                   revived, excused>>

\* ... then inserts the row, ...
InsertBrain ==
    /\ InErrand("insert")
    /\ brainRows' = [brainRows EXCEPT ![errand.name] = NewBrain(errand.name)]
    /\ removed' = removed \ {errand.name}
    /\ excused' = IF ActiveRows(errand.name) = {} THEN excused
                  ELSE excused \cup {errand.name}
    /\ Begin("clear", errand.name)
    /\ UNCHANGED <<brainFolders, derivedIds, recycled, tombstones, mishaps, revived>>

\* ... and the command clears the tombstone.
ClearTombstone ==
    /\ InErrand("clear")
    /\ tombstones' = tombstones \ {errand.name}
    /\ errand' = NoErrand
    /\ UNCHANGED <<brainRows, brainFolders, derivedIds, recycled, mishaps, removed,
                   revived, excused>>

\* A build completes the folder, ...
BuildFolder(x) ==
    /\ CatalogIdle
    /\ RowsOf(x) = {} => RoomForARow
    /\ brainFolders' = [brainFolders EXCEPT ![x] = "brain"]
    /\ Begin("built", x)
    /\ UNCHANGED <<brainRows, derivedIds, recycled, tombstones, mishaps, removed,
                   revived, excused>>

\* ... and record_workspace_build_truth makes the row of the name active, whatever
\* it was, or inserts one.
RecordBuild ==
    /\ InErrand("built")
    /\ LET x == errand.name
       IN  \/ /\ RowsOf(x) = {}
              /\ brainRows' = [brainRows EXCEPT ![x] = NewBrain(x)]
              /\ UNCHANGED excused
           \/ \E n \in RowsOf(x) :
              /\ MayBeNewest(x, n)
              /\ brainRows' = [brainRows EXCEPT ![x] = UpdatedRow(x, n, "ACTIVE")]
              /\ excused' = excused \cup Misled(x, n)
    /\ removed' = removed \ {errand.name}
    /\ errand' = NoErrand
    /\ UNCHANGED <<brainFolders, derivedIds, recycled, tombstones, mishaps, revived>>

\* The user takes a folder out of the recycle bin.
ReturnFolder(x) ==
    /\ CatalogIdle
    /\ recycled[x] # "none" /\ brainFolders[x] = "none"
    /\ Mishap
    /\ brainFolders' = [brainFolders EXCEPT ![x] = recycled[x]]
    /\ recycled' = [recycled EXCEPT ![x] = "none"]
    /\ UNCHANGED <<derivedIds, brainRows, tombstones, errand, removed, revived,
                   excused>>

-----------------------------------------------------------------------------
(* brains.discover                                                         *)

Complete(x) == brainFolders[x] = "brain"

\* mutant: the tombstones are not read
CompleteOnly(x) == Complete(x)

Discoverable(x) == Complete(x) /\ x \notin tombstones

Unlisted == {x \in Names : Discoverable(x) /\ ActiveRows(x) = {}}

\* One transaction: of each folder without an active row, a row becomes active, or one
\* is inserted.  Its id is made from the folder, so a second insertion for a folder
\* is refused, and with it the whole discovery.
Discover ==
    /\ CatalogIdle
    /\ Unlisted # {}
    /\ LET new == {x \in Unlisted : RowsOf(x) = {}}
       IN  /\ new \cap derivedIds = {}
           /\ new # {} => RoomForARow
           /\ \E pick \in [Unlisted \ new -> 1..MaxBrainRows] :
                /\ \A x \in Unlisted \ new : pick[x] \in RowsOf(x)
                /\ brainRows' = [x \in Names |->
                       IF x \in new THEN NewBrain(x)
                       ELSE IF x \in Unlisted THEN UpdatedRow(x, pick[x], "ACTIVE")
                       ELSE brainRows[x]]
           /\ derivedIds' = derivedIds \cup new
    /\ revived' = revived \cup (Unlisted \cap removed)
    /\ UNCHANGED <<brainFolders, recycled, tombstones, errand, mishaps, removed,
                   excused>>

-----------------------------------------------------------------------------
(* brain.remove                                                            *)

\* _record_brain_discovery_tombstone, if there is a row of the name
RecordTombstone(x) ==
    /\ CatalogIdle
    /\ RowsOf(x) # {}
    /\ tombstones' = tombstones \cup {x}
    /\ Begin("removed", x)
    /\ UNCHANGED <<brainRows, brainFolders, derivedIds, recycled, mishaps, removed,
                   revived, excused>>

\* All rows of the name.
RemoveRows ==
    /\ InErrand("removed")
    /\ brainRows' = [brainRows EXCEPT ![errand.name] =
                        [n \in DOMAIN @ |-> [status |-> "REMOVED", local |-> TRUE]]]
    /\ removed' = removed \cup {errand.name}
    /\ errand' = NoErrand
    /\ UNCHANGED <<brainFolders, derivedIds, recycled, tombstones, mishaps, revived,
                   excused>>

-----------------------------------------------------------------------------
(* brain.deleteToRecycleBin                                                *)

\* The row is the newest of the name, active or not; the folder goes first.
TrashFolder(x) ==
    /\ CatalogIdle
    /\ brainFolders[x] # "none"
    /\ \E n \in RowsOf(x) :
         /\ MayBeNewest(x, n)
         /\ errand' = [NoErrand EXCEPT !.step = "trashed", !.name = x, !.row = n]
         /\ excused' = excused \cup Misled(x, n)
    /\ recycled' = [recycled EXCEPT ![x] = brainFolders[x]]
    /\ brainFolders' = [brainFolders EXCEPT ![x] = "none"]
    /\ UNCHANGED <<derivedIds, brainRows, tombstones, mishaps, removed, revived>>

\* mutant: a status that the lists do not know
RecycleAsTrash ==
    /\ InErrand("trashed")
    /\ brainRows' = [brainRows EXCEPT
            ![errand.name] = UpdatedRow(errand.name, errand.row, "TRASHED")]
    /\ errand' = NoErrand
    /\ UNCHANGED <<brainFolders, derivedIds, recycled, tombstones, mishaps, removed,
                   revived, excused>>

RecycleRow ==
    /\ InErrand("trashed")
    /\ brainRows' = [brainRows EXCEPT
            ![errand.name] = UpdatedRow(errand.name, errand.row, "RECYCLED")]
    /\ errand' = NoErrand
    /\ UNCHANGED <<brainFolders, derivedIds, recycled, tombstones, mishaps, removed,
                   revived, excused>>

-----------------------------------------------------------------------------
(* brain.rename                                                            *)

Unremoved(x) == {n \in RowsOf(x) : brainRows[x][n].status # "REMOVED"}

\* Any row of the name that is not removed is taken, a recycled one as well.  The
\* folder is moved, or one is made if there was none; ...
MoveFolder(x, y) ==
    /\ CatalogIdle
    /\ x # y
    /\ Unremoved(y) = {}
    /\ brainFolders[y] = "none"
    /\ \E n \in Unremoved(x) :
         /\ errand' = [step |-> "moved", name |-> x, next |-> y, row |-> n,
                       moved |-> brainFolders[x] # "none"]
         /\ excused' = IF ActiveRows(x) \ {n} = {} THEN excused
                       ELSE excused \cup {x}
    /\ brainFolders' = [brainFolders EXCEPT
                            ![y] = IF brainFolders[x] = "none" THEN "empty"
                                   ELSE brainFolders[x],
                            ![x] = "none"]
    /\ UNCHANGED <<brainRows, derivedIds, recycled, tombstones, mishaps, removed,
                   revived>>

\* ... then the row gets the new name.
RenameRow ==
    /\ InErrand("moved")
    /\ brainRows' = [brainRows EXCEPT
            ![errand.name] = WithoutRow(errand.name, errand.row),
            ![errand.next] = Append(@, [status |-> brainRows[errand.name][errand.row].status,
                                        local |-> TRUE])]
    /\ removed' = removed \ {errand.next}
    /\ errand' = NoErrand
    /\ UNCHANGED <<brainFolders, derivedIds, recycled, tombstones, mishaps, revived,
                   excused>>

\* The except clause moves a folder back, and leaves one that was made.
RenameFails ==
    /\ InErrand("moved")
    /\ Mishap
    /\ brainFolders' = IF errand.moved
                       THEN [brainFolders EXCEPT ![errand.name] = brainFolders[errand.next],
                                                 ![errand.next] = "none"]
                       ELSE brainFolders
    /\ errand' = NoErrand
    /\ UNCHANGED <<brainRows, derivedIds, recycled, tombstones, removed, revived,
                   excused>>

\* A command stops between two of its steps: the worker dies, or the database
\* refuses the second one.
CutShort ==
    /\ ~CatalogIdle
    /\ Mishap
    /\ excused' = IF errand.step \in {"trashed", "moved"} THEN excused \cup {errand.name}
                  ELSE excused
    /\ errand' = NoErrand
    /\ UNCHANGED <<brainRows, brainFolders, derivedIds, recycled, tombstones,
                   removed, revived>>

CatalogNext ==
    \/ \E x \in Names :
         \/ CreateFolder(x) \/ BuildFolder(x) \/ ReturnFolder(x) \/ RecordTombstone(x)
         \/ TrashFolder(x) \/ \E y \in Names : MoveFolder(x, y)
    \/ InsertBrain \/ ClearTombstone \/ RecordBuild \/ Discover \/ RemoveRows
    \/ RecycleRow \/ RenameRow \/ RenameFails \/ CutShort

CatalogSpec == CatalogInit /\ [][CatalogNext]_catalogVars

-----------------------------------------------------------------------------
(* Properties.                                                             *)

\* The list of the brains is true: a brain that is listed has its folder and is
\* listed once, unless it was created twice, a command took another row of its
\* name than the newest or the active one, or a command that moved its folder was
\* cut short; and discovery does
\* not bring back a brain that was removed.
CatalogIsTrue ==
    CatalogIdle =>
        /\ \A x \in Names \ excused :
              ActiveRows(x) # {} => /\ brainFolders[x] # "none"
                                    /\ \A m, n \in ActiveRows(x) : m = n
        /\ revived = {}
===============================================================================
